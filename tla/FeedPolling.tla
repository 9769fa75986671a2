---------------------------- MODULE FeedPolling ----------------------------
(***************************************************************************)
(* The subscription registry and the RSS run that polls it: which feed     *)
(* items are read, under which category a title is filed, and where its    *)
(* magnet goes.  One run at a time (the scheduler's lock), crossed by the  *)
(* dashboard, the queue of another source, the retry leg and the tracker.  *)
(* A category's offline directory goes by the category's name.             *)
(***************************************************************************)
EXTENDS Naturals, Sequences, FiniteSets, SequencesExt

CONSTANTS Cats,         \* the configured categories, in order of precedence
          Queue,        \* the other source, which queues titles
          SubOrder,     \* the subscriptions, in the order the registry lists them
          Talents,      \* the subscriptions to talents; the others have a plain feed
          FeedOf, CatOf,    \* what a subscription is created with
          Feeds, Successor, \* the feeds; the one a talent's feed moves to
          Items, TitleOf, WithMagnet,
          CanList,      \* CanList[f]: the items a feed may come to list
          CanHold,      \* the titles the library may hold from before
          Cast,         \* Cast[a]: the talent feeds of those credited on a
          Nobody,       \* no feed or category
          FeedTrouble   \* bound: failures, ends of the process, edits by the operator

Subs == Range(SubOrder)
Titles == {TitleOf[i] : i \in Items}
CatSet == Range(Cats)

\* A category may be one that is no longer configured.
ASSUME FeedAssumption ==
    /\ Cats \in Seq(CatSet) /\ Queue \notin CatSet /\ Queue # Nobody
    /\ \A s \in Subs : FeedOf[s] \in Feeds /\ CatOf[s] # Nobody
    /\ Nobody \notin CatSet \cup Feeds \cup Titles /\ Talents \subseteq Subs
    /\ \A f \in Feeds : Successor[f] \in Feeds \cup {Nobody}

Rank(c) == CHOOSE n \in DOMAIN Cats : Cats[n] = c
Ahead(c) == {d \in CatSet : Rank(d) < Rank(c)}

VARIABLES
    sub,        \* sub[s]: the registry's row; its `seeded` is kept for the properties
    listed,     \* listed[f]: the items of a feed
    gone,       \* the feeds that answer 404
    title,        \* title[a]: state and source of the ledger's row
    held,       \* the titles in the library
    sent,       \* sent[a]: the directory the last magnet went to
    poll,       \* the RSS run
    claims,     \* claims[a]: the categories with a claim to a (for the properties)
    feedFaults

feedVars == <<sub, listed, gone, title, held, sent, poll, claims, feedFaults>>
envVars == <<listed, gone>>
titleVars == <<title, held, sent, claims>>

\* "discovered" has no timer, "queued" is discovered with one; "waiting" and
\* "due" are parked before and after their time.
Recheckable == {"discovered", "queued", "waiting", "due"}

NoSnap == [s \in Subs |-> Nobody]
Quiet == [pc |-> "idle", todo |-> {}, snap |-> NoSnap, talents |-> [f \in Feeds |-> Nobody],
          s |-> Head(SubOrder), items |-> {}, left |-> {}, wanted |-> {},
          dirs |-> [a \in Titles |-> Nobody], a |-> Nobody, filing |-> Nobody, claim |-> {}]

\* add_rss and add_talent.
NewSub(s, seed) ==
    [there |-> TRUE, enabled |-> TRUE, cat |-> CatOf[s], feed |-> FeedOf[s],
     cursor |-> {}, seed |-> seed, seeded |-> {}]

FeedInit ==
    /\ \E seeds \in SUBSET Talents : sub = [s \in Subs |-> NewSub(s, s \in seeds)]
    /\ listed \in {l \in [Feeds -> SUBSET Items] : \A f \in Feeds : l[f] \subseteq CanList[f]}
    /\ gone = {}
    /\ title = [a \in Titles |-> [state |-> "none", source |-> Nobody]]
    /\ held \in SUBSET CanHold
    /\ sent = [a \in Titles |-> Nobody]
    /\ claims = [a \in Titles |-> {}]
    /\ poll = Quiet
    /\ feedFaults = 0

Fault == feedFaults < FeedTrouble /\ feedFaults' = feedFaults + 1

-----------------------------------------------------------------------------
(* The run *)

Enabled(s) == sub[s].there /\ sub[s].enabled
IsConfigured(c) == c \in CatSet

\* Subscriptions by category, in configured order; those without one come last.
Place(s) == CHOOSE n \in DOMAIN SubOrder : SubOrder[n] = s
Before(s, t) ==
    LET turn(c) == IF IsConfigured(c) THEN Rank(c) ELSE Len(Cats) + 1
        first == turn(poll.snap[s].cat)
        second == turn(poll.snap[t].cat)
    IN  first < second \/ (first = second /\ Place(s) < Place(t))

\* The category of each talent with an enabled subscription; the first one counts.
TalentCategories ==
    [f \in Feeds |->
       LET of == {s \in Talents : Enabled(s) /\ sub[s].feed = f}
       IN  IF of = {} THEN Nobody ELSE sub[CHOOSE s \in of : TRUE].cat]

RunFeeds ==
    /\ poll.pc = "idle"
    /\ poll' = [Quiet EXCEPT !.pc = "next", !.todo = {s \in Subs : Enabled(s)}, !.snap = sub, !.talents = TalentCategories]
    /\ UNCHANGED <<sub, envVars, titleVars, feedFaults>>

Next1(p) == [Quiet EXCEPT !.pc = "next", !.todo = p.todo, !.snap = p.snap, !.talents = p.talents]

\* An orphan is reported; a failure is recorded and leaves the cursor alone.
NextSub ==
    /\ poll.pc = "next"
    /\ \/ poll.todo = {} /\ poll' = Quiet
       \/ \E s \in poll.todo :
             /\ \A t \in poll.todo \ {s} : Before(s, t)
             /\ poll' = IF IsConfigured(poll.snap[s].cat) THEN [poll EXCEPT !.pc = "fetch", !.s = s, !.todo = @ \ {s}]
                        ELSE [poll EXCEPT !.todo = @ \ {s}]
    /\ UNCHANGED <<sub, envVars, titleVars, feedFaults>>

Snap == poll.snap[poll.s]
Category == Snap.cat

Fetch ==
    /\ poll.pc = "fetch"
    /\ poll' = IF Snap.feed \in gone THEN [poll EXCEPT !.pc = "relink"]
               ELSE IF Snap.seed THEN [poll EXCEPT !.pc = "record", !.items = listed[Snap.feed]]
               ELSE LET fresh == listed[Snap.feed] \ Snap.cursor
                    IN  [poll EXCEPT !.pc = "filing", !.items = fresh, !.left = {TitleOf[i] : i \in fresh}]
    /\ UNCHANGED <<sub, envVars, titleVars, feedFaults>>

\* _moved_talent: the catalog knows the talent's name under another id.
Moved(s, f) == s \in Talents /\ f # Nobody /\ f \notin gone

\* The registry has one row per talent: relink_talent refuses another.
Followed(f) == \E s \in Subs : sub[s].there /\ sub[s].feed = f

\* Its category goes with it, unless a talent with that feed had one.
Taking(f) ==
    [poll.talents EXCEPT ![f] = IF poll.talents[f] = Nobody THEN poll.talents[Snap.feed] ELSE poll.talents[f],
                         ![Snap.feed] = Nobody]

\* Follow a talent to the feed the catalog lists the name under now.
Relink ==
    /\ poll.pc = "relink"
    /\ LET f == Successor[Snap.feed]
       IN  IF Moved(poll.s, f) /\ ~Followed(f) /\ sub[poll.s].there
           THEN /\ sub' = [sub EXCEPT ![poll.s].feed = f]
                /\ poll' = [poll EXCEPT !.pc = "fetch", !.snap[poll.s].feed = f, !.talents = Taking(f)]
           ELSE poll' = Next1(poll) /\ UNCHANGED sub
    /\ UNCHANGED <<envVars, titleVars, feedFaults>>

\* The catalog is not asked about a row that a category ahead owns, or past discovery.
Asked(a) == title[a].state = "none" \/ (title[a].state \in Recheckable /\ title[a].source \notin Ahead(Category))

\* _filing_for: the first category ahead that credits a subscribed talent, else its own.
Owners(a) == {poll.talents[f] : f \in Cast[a]} \cap Ahead(Category)
Filing(a) ==
    IF Asked(a) /\ Owners(a) # {}
    THEN CHOOSE c \in Owners(a) : \A d \in Owners(a) : Rank(c) <= Rank(d)
    ELSE Category

\* The categories with a claim to a title: the one that sights it and, where the
\* catalog is asked, those of the talents credited on it that this run follows.
Follows(s) == poll.snap[s].there /\ poll.snap[s].enabled /\ sub[s].there
Claimants(a) ==
    {Category} \cup
    IF Asked(a) THEN CatSet \cap {poll.snap[s].cat : s \in {t \in Talents : Follows(t) /\ sub[t].feed \in Cast[a]}}
                ELSE {}

File(a) ==
    /\ poll.pc = "filing" /\ a \in poll.left
    /\ poll' = [poll EXCEPT !.pc = "discover", !.a = a, !.filing = Filing(a), !.claim = Claimants(a), !.left = @ \ {a}]
    /\ UNCHANGED <<sub, envVars, titleVars, feedFaults>>

Accepts(a) ==
    \/ title[a].state \in {"none", "discovered", "queued", "due"}
    \/ title[a].state = "waiting" /\ \E i \in poll.items \cap WithMagnet : TitleOf[i] = a

OwnedAhead(a) == title[a].source \in Ahead(poll.filing)

\* discover: insert the row, or accept the one that is there and maybe take it over.
DiscoverTitle ==
    /\ poll.pc = "discover"
    /\ LET a == poll.a IN
       IF Accepts(a)
       THEN /\ title' = IF title[a].state = "none" THEN [title EXCEPT ![a] = [state |-> "discovered", source |-> poll.filing]]
                      ELSE IF OwnedAhead(a) THEN title
                      ELSE [title EXCEPT ![a].source = poll.filing]
            /\ claims' = [claims EXCEPT ![a] = IF title[a].source = Queue THEN poll.claim ELSE @ \cup poll.claim]
            /\ poll' = [poll EXCEPT !.pc = "dir"]
       ELSE poll' = [poll EXCEPT !.pc = "filing"] /\ UNCHANGED <<title, claims>>
    /\ UNCHANGED <<sub, envVars, held, sent, feedFaults>>

\* Mutant: a sighting's magnet goes to the sighting's own directory.
FilingDirOwn ==
    /\ poll.pc = "dir"
    /\ poll' = [poll EXCEPT !.pc = "filing", !.dirs[poll.a] = poll.filing, !.wanted = @ \cup {poll.a}]
    /\ UNCHANGED <<sub, envVars, titleVars, feedFaults>>

\* _filing_dir: the row's directory, when a category ahead may own it.
FilingDir ==
    /\ poll.pc = "dir"
    /\ LET dir == IF Ahead(poll.filing) = {} THEN poll.filing ELSE title[poll.a].source
       IN  poll' = [poll EXCEPT !.pc = "filing", !.dirs[poll.a] = dir, !.wanted = @ \cup {poll.a}]
    /\ UNCHANGED <<sub, envVars, titleVars, feedFaults>>

\* What is held is settled; what the mount could not tell is not held.
CheckHeld ==
    /\ poll.pc = "filing" /\ poll.left = {}
    /\ \E known \in {held \cap poll.wanted, {}} :
          /\ title' = [a \in Titles |-> IF a \in known /\ title[a].state \in Recheckable
                                      THEN [title[a] EXCEPT !.state = "archived"] ELSE title[a]]
          /\ poll' = [poll EXCEPT !.pc = "resolve", !.wanted = @ \ known]
    /\ UNCHANGED <<sub, envVars, held, sent, claims, feedFaults>>

\* Titles without a magnet are parked.
ResolveAll ==
    /\ poll.pc = "resolve"
    /\ \E found \in SUBSET poll.wanted :
          /\ title' = [a \in Titles |-> IF a \in poll.wanted \ found /\ title[a].state \in Recheckable
                                      THEN [title[a] EXCEPT !.state = "waiting"] ELSE title[a]]
          /\ poll' = [poll EXCEPT !.pc = "submit", !.wanted = found]
    /\ UNCHANGED <<sub, envVars, held, sent, claims, feedFaults>>

\* record_and_submit: one of the magnets is taken, or all are refused.
SubmitTitle(a) ==
    /\ poll.pc = "submit" /\ a \in poll.wanted
    /\ \/ /\ title' = [title EXCEPT ![a].state = IF @ \in Recheckable THEN "active" ELSE @]
          /\ sent' = [sent EXCEPT ![a] = poll.dirs[a]]
          /\ UNCHANGED feedFaults
       \/ Fault /\ UNCHANGED <<title, sent>>
    /\ poll' = [poll EXCEPT !.wanted = @ \ {a}]
    /\ UNCHANGED <<sub, envVars, held, claims>>

\* record_poll with a cursor, which also settles a pending seed.
RecordPoll ==
    /\ poll.pc = "record" \/ (poll.pc = "submit" /\ poll.wanted = {})
    /\ sub' = IF ~sub[poll.s].there THEN sub
              ELSE [sub EXCEPT ![poll.s].cursor = IF Snap.seed THEN poll.items ELSE Snap.cursor \cup poll.items,
                               ![poll.s].seed = FALSE,
                               ![poll.s].seeded = @ \cup (IF Snap.seed THEN poll.items ELSE {})]
    /\ poll' = Next1(poll)
    /\ UNCHANGED <<envVars, titleVars, feedFaults>>

\* One subscription's failure is not the run's.
PollFails ==
    /\ poll.pc \notin {"idle", "next"} /\ Fault
    /\ poll' = Next1(poll)
    /\ UNCHANGED <<sub, envVars, titleVars>>

\* The run is cancelled, or the process dies.
RunStops ==
    /\ poll.pc # "idle" /\ Fault
    /\ poll' = Quiet
    /\ UNCHANGED <<sub, envVars, titleVars>>

-----------------------------------------------------------------------------
(* The registry's routes *)

Taken(f, s) == \E t \in Subs \ {s} : sub[t].there /\ sub[t].feed = f

Subscribe(s) ==
    /\ ~sub[s].there /\ ~Taken(FeedOf[s], s) /\ Fault
    /\ poll.pc = "idle" \/ ~poll.snap[s].there      \* the run knows a row by its id
    /\ \E b \in BOOLEAN : sub' = [sub EXCEPT ![s] = NewSub(s, b)]
    /\ UNCHANGED <<envVars, titleVars, poll>>

Unsubscribe(s) ==
    /\ sub[s].there /\ Fault
    /\ sub' = [sub EXCEPT ![s].there = FALSE]
    /\ UNCHANGED <<envVars, titleVars, poll>>

UpdateSub(s) ==
    /\ sub[s].there /\ Fault
    /\ \/ sub' = [sub EXCEPT ![s].enabled = ~@]
       \/ \E c \in CatSet : c # sub[s].cat /\ sub' = [sub EXCEPT ![s].cat = c]
       \/ \E f \in Feeds : s \notin Talents /\ ~Taken(f, s) /\ f # sub[s].feed /\ sub' = [sub EXCEPT ![s].feed = f]
    /\ UNCHANGED <<envVars, titleVars, poll>>

-----------------------------------------------------------------------------
(* The other writers of the ledger, and the feeds *)

\* The queue of another source (a fill-actor scan, a playlist).
QueueTitle(a) ==
    /\ title[a].state \in {"none", "discovered", "queued", "due"} /\ title[a].source # Queue /\ Fault
    /\ title' = [title EXCEPT ![a] = [state |-> IF @.state = "due" THEN "due" ELSE "queued", source |-> Queue]]
    /\ claims' = [claims EXCEPT ![a] = {}]
    /\ UNCHANGED <<sub, envVars, held, sent, poll>>

\* The retry leg: the row's own directory.
RetryTitle(a) ==
    /\ title[a].state \in {"queued", "due"}
    /\ \/ title' = [title EXCEPT ![a].state = "active"] /\ sent' = [sent EXCEPT ![a] = title[a].source]
       \/ title' = [title EXCEPT ![a].state = "waiting"] /\ UNCHANGED sent
    /\ UNCHANGED <<sub, envVars, held, poll, claims, feedFaults>>

Timer(a) ==
    /\ title[a].state = "waiting"
    /\ title' = [title EXCEPT ![a].state = "due"]
    /\ UNCHANGED <<sub, envVars, held, sent, poll, claims, feedFaults>>

\* The tracker files a download, or runs out of magnets.
Track(a) ==
    /\ title[a].state = "active"
    /\ \/ title' = [title EXCEPT ![a].state = "archived"] /\ held' = held \cup {a}
       \/ title' = [title EXCEPT ![a].state = "waiting"] /\ UNCHANGED held
    /\ UNCHANGED <<sub, envVars, sent, poll, claims, feedFaults>>

TalentMoves(f) ==
    /\ Successor[f] # Nobody /\ f \notin gone
    /\ gone' = gone \cup {f}
    /\ UNCHANGED <<sub, listed, titleVars, poll, feedFaults>>

Publish(f, i) ==
    /\ i \in CanList[f] \ listed[f] /\ Fault
    /\ listed' = [listed EXCEPT ![f] = @ \cup {i}]
    /\ UNCHANGED <<sub, gone, titleVars, poll>>

-----------------------------------------------------------------------------
FeedNext ==
    \/ RunFeeds \/ NextSub \/ Fetch \/ Relink \/ DiscoverTitle \/ FilingDir
    \/ CheckHeld \/ ResolveAll \/ RecordPoll \/ PollFails \/ RunStops
    \/ \E a \in Titles : File(a) \/ SubmitTitle(a) \/ QueueTitle(a) \/ RetryTitle(a) \/ Timer(a) \/ Track(a)
    \/ \E s \in Subs : Subscribe(s) \/ Unsubscribe(s) \/ UpdateSub(s)
    \/ \E f \in Feeds : TalentMoves(f) \/ \E i \in Items : Publish(f, i)

FeedSpec == FeedInit /\ [][FeedNext]_feedVars

-----------------------------------------------------------------------------
(* Properties *)

\* A title that waits for a magnet belongs to the first category with a claim to it, whether
\* by a sighting or by a talent it credits, in whatever order the claims were made, until
\* another source takes it over (rss.py:19).
EarliestOwns ==
    \A a \in Titles : title[a].state \in Recheckable /\ title[a].source \in CatSet =>
        \A c \in claims[a] : Rank(title[a].source) <= Rank(c)

\* A magnet for a title that a category owns goes into that category's directory, though
\* the run chose the directory before it looked for the magnet (rss.py:435).
SubmittedWhereOwned ==
    [][\A a \in Titles : title[a].state # "active" /\ title'[a].state = "active" /\ title[a].source \in CatSet
          => sent'[a] = title[a].source]_feedVars

\* What a subscription remembers as read was offered to the ledger, or was there when the
\* subscription was to be seeded: a poll that fails or stops half way reads it again
\* (rss.py:226, subscriptions.py:287).
CursorMeansOffered ==
    \A s \in Subs : \A i \in sub[s].cursor \ sub[s].seeded : title[TitleOf[i]].state # "none"

\* What the sources of titles promise together, in whatever order they are polled: the
\* earliest category owns a title and gets its magnet, and nothing read is forgotten.
FeedsAccounted == SubmittedWhereOwned /\ [](EarliestOwns /\ CursorMeansOffered)

\* A title the poller has read is one that is downloading, held, or on the ledger's timer:
\* nothing else will look at it again (rss.py:8).  Does not hold: see README, section 6.
ReadMeansTimed ==
    poll.pc = "idle" => \A s \in Subs : \A i \in sub[s].cursor \ sub[s].seeded : title[TitleOf[i]].state # "discovered"
=============================================================================
