---------------------------- MODULE TitleBatches ----------------------------
(***************************************************************************)
(* Lists of titles handed to the intake: an operator's pasted lines, taken *)
(* through the intake while the request waits (monitor/manual.py), and the *)
(* fill of a playlist, queued by a task in the background                  *)
(* (monitor/playlists_api.py).  Between two awaits of one request or task  *)
(* every other runs, and so do the tracker's retry leg, which takes what   *)
(* is due in the ledger, and the downloads.                                *)
(***************************************************************************)
EXTENDS Naturals, Sequences, FiniteSets

CONSTANTS
    Avids,
    Junk,          \* a line in which no AVID can be read
    Fills,         \* requests to fill the one playlist
    Manuals,       \* requests with an operator's lines
    Gap,           \* record.missing of the playlist
    Pasted,        \* the lines an operator pastes
    MaxLines,      \* MAX_MANUAL_INPUTS
    NoFill,
    MaxTroubles    \* bound on the calls that fail

Batches == Fills \union Manuals

ASSUME BatchAssumption ==
    /\ Junk \notin Avids /\ NoFill \notin Batches
    /\ Fills \intersect Manuals = {}
    /\ Gap \in Seq(Avids) /\ Pasted \in Seq(Avids \union {Junk})

VARIABLES
    rows,       \* the ledger's row of a title: its state, and whether its timer is due
    shelf,    \* the titles it holds
    batch,      \* a request, and then the task or call that runs its lines
    fills,      \* fills: the request whose job is the playlist's latest
    troubles

batchVars == <<rows, shelf, batch, fills, troubles>>

NoBatch == [pc |-> "new", left |-> <<>>]

(* "discovered" and the retryable "parked" may have a timer; "tracked" is   *)
(* any state in which no batch may touch the row.                           *)
TitleRow(state, timer) == [state |-> state, timer |-> timer]

(* A row may have been left discovered, with no timer, by a crash.          *)
BatchInit ==
    /\ rows \in [Avids -> {TitleRow("absent", "none"), TitleRow("discovered", "none"), TitleRow("parked", "later")}]
    /\ shelf \in SUBSET Avids
    /\ batch = [b \in Batches |-> NoBatch]
    /\ fills = NoFill
    /\ troubles = 0

Lines(b) == IF b \in Fills THEN Gap ELSE Pasted
Running(b) == batch[b].pc \in {"prepare", "line", "look", "hand", "resolve"}
Line(b) == Head(batch[b].left)

Proceed(b, pc) == batch' = [batch EXCEPT ![b].pc = pc]
BatchTrouble == troubles < MaxTroubles /\ troubles' = troubles + 1

(* The line has its entry in the submission, whatever the outcome.          *)
Recorded(b) == batch' = [batch EXCEPT ![b] = [pc |-> "line", left |-> Tail(@.left)]]

(* What discover does with a title that is queued, a timer that is due, or  *)
(* taken inline, no timer.                                                  *)
Accepts(a) ==
    \/ rows[a].state \in {"absent", "discovered"}
    \/ rows[a].state = "parked" /\ rows[a].timer # "later"

(* Mutant: a row that is there keeps the timer it has.                      *)
QueuedKeeping(a) ==
    IF rows[a].state = "absent" THEN TitleRow("discovered", "due") ELSE rows[a]

Queued(a) ==
    IF rows[a].state = "absent" THEN TitleRow("discovered", "due") ELSE [rows[a] EXCEPT !.timer = "due"]

Enqueued(a) == IF rows[a].state = "absent" THEN TitleRow("discovered", "none") ELSE rows[a]
----------------------------------------------------------------------------
(* The request to fill the playlist: the list is loaded; a fill that runs   *)
(* is reported; ...                                                         *)
FillRequested(b) ==
    /\ b \in Fills /\ batch[b].pc = "new"
    /\ IF fills # NoFill /\ Running(fills) THEN Proceed(b, "reported") ELSE Proceed(b, "check")
    /\ UNCHANGED <<rows, shelf, fills, troubles>>

(* ... else the directory is checked at CloudDrive, ...                     *)
TargetChecked(b) ==
    /\ b \in Fills /\ batch[b].pc = "check"
    /\ \/ /\ fills' = b
          /\ batch' = [batch EXCEPT ![b] = [NoBatch EXCEPT !.pc = "prepare", !.left = Lines(b)]]
          /\ UNCHANGED troubles
       \/ BatchTrouble /\ Proceed(b, "refused") /\ UNCHANGED fills
    /\ UNCHANGED <<rows, shelf>>

(* The operator's lines: too many are refused at once.                      *)
ManualRequested(b) ==
    /\ b \in Manuals /\ batch[b].pc = "new"
    /\ IF Len(Lines(b)) > MaxLines THEN Proceed(b, "refused")
       ELSE batch' = [batch EXCEPT ![b] = [NoBatch EXCEPT !.pc = "prepare", !.left = Lines(b)]]
    /\ UNCHANGED <<rows, shelf, fills, troubles>>

(* _prepare: no client, no route or no such directory ends it.              *)
Prepare(b) ==
    /\ batch[b].pc = "prepare"
    /\ \/ Proceed(b, "line") /\ UNCHANGED troubles
       \/ BatchTrouble /\ Proceed(b, "failed")
    /\ UNCHANGED <<rows, shelf, fills>>

(* The next line; after the last the tracker is woken, the job is done.     *)
TakeLine(b) ==
    /\ batch[b].pc = "line"
    /\ \/ batch[b].left = <<>> /\ Proceed(b, "done")
       \/ batch[b].left # <<>> /\ Line(b) = Junk /\ Recorded(b)
       \/ batch[b].left # <<>> /\ Line(b) # Junk /\ Proceed(b, "look")
    /\ UNCHANGED <<rows, shelf, fills, troubles>>

(* _library_holdings: nothing is recorded of a title the library holds; one *)
(* that cannot be looked for is not held.                                   *)
Look(b) ==
    /\ batch[b].pc = "look"
    /\ \/ Line(b) \in shelf /\ Recorded(b) /\ UNCHANGED troubles
       \/ Line(b) \notin shelf /\ Proceed(b, "hand") /\ UNCHANGED troubles
       \/ BatchTrouble /\ Proceed(b, "hand")
    /\ UNCHANGED <<rows, shelf, fills>>

(* intake.queue, of a fill; an error ends the whole job.                    *)
Queue(b) ==
    /\ b \in Fills /\ batch[b].pc = "hand"
    /\ \/ /\ Accepts(Line(b))
          /\ rows' = [rows EXCEPT ![Line(b)] = Queued(Line(b))]
          /\ Recorded(b)
          /\ UNCHANGED troubles
       \/ ~Accepts(Line(b)) /\ Recorded(b) /\ UNCHANGED <<rows, troubles>>
       \/ BatchTrouble /\ Proceed(b, "failed") /\ UNCHANGED rows
    /\ UNCHANGED <<shelf, fills>>

(* intake.enqueue, of an operator's line: the title is recorded, ...        *)
EnqueueTitle(b) ==
    /\ b \in Manuals /\ batch[b].pc = "hand"
    /\ \/ /\ Accepts(Line(b))
          /\ rows' = [rows EXCEPT ![Line(b)] = Enqueued(Line(b))]
          /\ Proceed(b, "resolve")
          /\ UNCHANGED troubles
       \/ ~Accepts(Line(b)) /\ Recorded(b) /\ UNCHANGED <<rows, troubles>>
       \/ BatchTrouble /\ Proceed(b, "failed") /\ UNCHANGED rows
    /\ UNCHANGED <<shelf, fills>>

(* ... and its magnets looked for and tried: with none accepted it is       *)
(* parked, unless the row has moved on.                                     *)
Resolve(b) ==
    /\ batch[b].pc = "resolve"
    /\ LET open == rows[Line(b)].state \in {"discovered", "parked"} IN
       \/ /\ rows' = IF open THEN [rows EXCEPT ![Line(b)] = TitleRow("tracked", "none")] ELSE rows
          /\ Recorded(b)
       \/ /\ rows' = IF open THEN [rows EXCEPT ![Line(b)] = TitleRow("parked", "later")] ELSE rows
          /\ Recorded(b)
    /\ UNCHANGED <<shelf, fills, troubles>>
----------------------------------------------------------------------------
(* The tracker's retry leg with a title that is due.                        *)
RetryDue(a) ==
    /\ rows[a].state \in {"discovered", "parked"} /\ rows[a].timer = "due"
    /\ rows' = [rows EXCEPT ![a] = TitleRow("tracked", "none")]
    /\ UNCHANGED <<shelf, batch, fills, troubles>>

(* A download ends, in the library or parked until later.                   *)
DownloadEnds(a) ==
    /\ rows[a].state = "tracked"
    /\ \/ shelf' = shelf \union {a} /\ rows' = rows
       \/ a \notin shelf /\ rows' = [rows EXCEPT ![a] = TitleRow("parked", "later")] /\ UNCHANGED shelf
    /\ UNCHANGED <<batch, fills, troubles>>

CooldownOver(a) ==
    /\ rows[a].timer = "later"
    /\ rows' = [rows EXCEPT ![a].timer = "due"]
    /\ UNCHANGED <<shelf, batch, fills, troubles>>

Step(b) ==
    \/ FillRequested(b) \/ TargetChecked(b) \/ ManualRequested(b) \/ Prepare(b)
    \/ TakeLine(b) \/ Look(b) \/ Queue(b) \/ EnqueueTitle(b) \/ Resolve(b)

BatchNext ==
    \/ \E b \in Batches : Step(b)
    \/ \E a \in Avids : RetryDue(a) \/ DownloadEnds(a) \/ CooldownOver(a)

(* Tasks run on, and what is due is taken.                                  *)
BatchFairness ==
    /\ \A b \in Batches : WF_batchVars(Step(b))
    /\ \A a \in Avids : WF_batchVars(RetryDue(a))

BatchSpec == BatchInit /\ [][BatchNext]_batchVars /\ BatchFairness
----------------------------------------------------------------------------
(* Once a fill is done, every title of the gap is held by the library, or   *)
(* comes to be tried: also one whose row an earlier batch, or a crash, left *)
(* without a timer, one looked for while the library could not be read, and *)
(* one that another batch was at.                                           *)
FilledTitlesMoveOn ==
    \A b \in Fills, a \in Avids :
        batch[b].pc = "done" /\ a \in {Gap[i] : i \in DOMAIN Gap}
            ~> \/ a \in shelf
               \/ rows[a].state = "tracked"
               \/ rows[a].state = "parked" /\ rows[a].timer = "later"

(* "a fill already running for the list is reported rather than started     *)
(* twice" (playlists_api.py:261-262).  Does not hold of two requests: see   *)
(* README, section 6.                                                       *)
FillStartedOnce == \A b, c \in Fills : Running(b) /\ Running(c) => b = c
============================================================================
