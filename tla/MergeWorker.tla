----------------------------- MODULE MergeWorker -----------------------------
(****************************************************************************)
(* The body of the merge Job (merge/worker.py): check and probe the parts,  *)
(* put the ones whose streams stray in order, concatenate, check the        *)
(* result, and only then rename it into place; ffmpeg under its stall       *)
(* watch; a pod killed at any step and started again over what it left.     *)
(*                                                                          *)
(* A part is its streams in index order and the number of units of space    *)
(* and of running time it takes.  Packets, codecs and progress shares are   *)
(* left out; so is who takes the output away, which is MergeTask's part.    *)
(****************************************************************************)
EXTENDS Integers, Sequences, FiniteSetsExt

CONSTANTS
    Parts,      \* how many parts the title has
    Layouts,    \* stream orders a file may have: sequences of kinds
    Video, Audio, Data,   \* kinds of streams; Data is neither video nor audio
    Space,      \* units the work volume has
    Reserve,    \* units a merge leaves free
    MaxUpload,  \* the largest file 115 accepts
    MaxKills    \* bound: pods killed in a run

ASSUME WorkerAssumption ==
    /\ Parts \in Nat /\ Space \in Nat /\ Reserve \in Nat
    /\ MaxUpload \in Nat /\ MaxKills \in Nat
    /\ \A l \in Layouts : l \in Seq({Video, Audio, Data})

VARIABLES
    part,     \* part[i]: the layout and size of the title's i-th part
    pc,       \* what the worker is about to do
    strays,   \* indexes of the parts still to be put in order
    inputs,   \* inputs[i]: the layout ffmpeg is given for the i-th part
    ff,       \* ffmpeg: "none", "running", "stuck", "ended" or "failed"
    stalled,    \* the stall watch has seen no change for long enough
    partial,  \* the file being written: the parts it holds so far
    staged,   \* the parts staged next to the output
    output,   \* the file under its final name, or Missing
    status,   \* the status file's state
    kills

workerVars == <<part, pc, strays, inputs, ff, stalled, partial, staged, output, status, kills>>
fileVars == <<partial, staged, output>>
ffVars == <<ff, stalled>>

Missing == << >>
All == 1 .. Parts

Total(S) == MapThenSumSet(LAMBDA i : part[i].size, S)

\* The parts a file written so far holds.
Held(file) == {file[i].of : i \in DOMAIN file}

WorkerInit ==
    /\ part \in [All -> [layout : Layouts, size : 1 .. 2]]
    /\ pc = "check"
    /\ strays = {} /\ inputs = [i \in All |-> part[i].layout]
    /\ ff = "none" /\ stalled = FALSE
    /\ partial = Missing /\ staged = {} /\ output = Missing
    /\ status = "none"
    /\ kills = 0

-----------------------------------------------------------------------------
(* What is read of the files.                                               *)

\* Video first, then audio: what a remux of both kinds writes.
ByKind(layout) ==
    SelectSeq(layout, LAMBDA k : k = Video) \o SelectSeq(layout, LAMBDA k : k = Audio)

InOrder(layout) == layout = ByKind(layout)

\* Units the worker's files take.
Used == Total(staged) + Total(Held(partial)) + Total(Held(output))
FreeUnits == Space - Used

\* The space a leftover of an interrupted attempt gives back when overwritten.
Reclaimable == Total(Held(partial))

Fits(needed) == FreeUnits + Reclaimable >= needed + Reserve

Fails(outcome) ==
    /\ pc' = "ended"
    /\ status' = outcome
    /\ partial' = Missing
    /\ staged' = IF pc \in {"reorder", "concat"} THEN {} ELSE staged
    /\ ff' = "none" /\ stalled' = FALSE

-----------------------------------------------------------------------------
(* The worker.                                                              *)

\* Two parts at least, readable, small enough for 115, and room for the result.
CheckParts ==
    /\ pc = "check"
    /\ \/ /\ Parts >= 2 /\ Total(All) <= MaxUpload /\ Fits(Total(All))
          /\ pc' = "probe"
          /\ status' = "running"
          /\ UNCHANGED <<fileVars, ffVars>>
       \/ /\ Parts < 2 \/ Total(All) > MaxUpload
          /\ Fails("refused") /\ UNCHANGED output
       \/ /\ Parts >= 2 /\ Total(All) <= MaxUpload
          /\ Fails("failed") /\ UNCHANGED output
    /\ UNCHANGED <<part, strays, inputs, kills>>

\* A file with no video, or parts that differ in more than the order of their
\* streams, are refused; a probe that fails ends the run.
Probe ==
    /\ pc = "probe"
    /\ LET sound == /\ \A i \in All : Video \in {part[i].layout[j] : j \in DOMAIN part[i].layout}
                    /\ \A i \in All : ByKind(part[i].layout) = ByKind(part[1].layout) IN
       \/ /\ sound
          /\ pc' = "order"
          /\ UNCHANGED <<status, fileVars, ffVars>>
       \/ /\ ~sound /\ Fails("refused") /\ UNCHANGED output
       \/ Fails("failed") /\ UNCHANGED output
    /\ UNCHANGED <<part, strays, inputs, kills>>

\* The parts to put in order: the ones that stray, where the layouts differ.
Stray ==
    IF \E i \in All : part[i].layout # part[1].layout
    THEN {i \in All : ~InOrder(part[i].layout)}
    ELSE {}

\* Staged copies take room beside the merged file, checked once they are known.
FindStrays ==
    /\ pc = "order"
    /\ IF (\E i \in All : part[i].layout # part[1].layout) /\ ~Fits(Total(All) + Total(Stray))
       THEN Fails("failed") /\ UNCHANGED <<output, strays, inputs>>
       ELSE /\ strays' = Stray
            /\ pc' = "reorder"
            /\ inputs' = [i \in All |-> part[i].layout]
            /\ UNCHANGED <<status, fileVars, ffVars>>
    /\ UNCHANGED <<part, kills>>

\* ffmpeg starts on the next stray part, or on the concat once none is left.
Launch ==
    /\ pc = "reorder" /\ ff = "none"
    /\ ff' = "running" /\ stalled' = FALSE
    /\ IF strays # {} THEN UNCHANGED <<pc, partial>>
       ELSE pc' = "concat" /\ partial' = Missing
    /\ UNCHANGED <<part, strays, inputs, staged, output, status, kills>>

\* A remux ends: video before audio, everything else left behind.
Remuxed ==
    /\ pc = "reorder" /\ ff = "running"
    /\ LET i == CHOOSE i \in strays : \A j \in strays : i <= j IN
       /\ staged' = staged \cup {i}
       /\ inputs' = [inputs EXCEPT ![i] = ByKind(@)]
       /\ strays' = strays \ {i}
    /\ ff' = "none" /\ stalled' = FALSE
    /\ UNCHANGED <<part, pc, partial, output, status, kills>>

\* The concat takes one part more; every new position tells the watch.
Advance ==
    /\ pc = "concat" /\ ff = "running" /\ Len(partial) < Parts
    /\ LET i == Len(partial) + 1 IN partial' = Append(partial, [of |-> i, as |-> inputs[i]])
    /\ stalled' = FALSE
    /\ UNCHANGED <<part, pc, strays, inputs, ff, staged, output, status, kills>>

\* ffmpeg exits 0, at the end of the parts or early over a damaged one; the
\* staging directory goes.
Concatenated ==
    /\ pc = "concat" /\ ff = "running" /\ partial # Missing
    /\ ff' = "none" /\ stalled' = FALSE
    /\ staged' = {}
    /\ pc' = "verify"
    /\ UNCHANGED <<part, strays, inputs, partial, output, status, kills>>

\* ffmpeg exits with an error, or has been killed by the watch.
FfmpegFails ==
    /\ ff \in {"running", "failed"}
    /\ Fails("failed")
    /\ UNCHANGED <<part, strays, inputs, output, kills>>

FfmpegSticks ==
    /\ ff = "running"
    /\ ff' = "stuck"
    /\ UNCHANGED <<part, pc, strays, inputs, stalled, fileVars, status, kills>>

\* The watch counts a block as progress only when its position or size moved.
WatchFires ==
    /\ ff \in {"running", "stuck"} /\ stalled
    /\ ff' = "failed" /\ stalled' = FALSE
    /\ UNCHANGED <<part, pc, strays, inputs, fileVars, status, kills>>

StallPasses ==
    /\ ff \in {"running", "stuck"} /\ ~stalled
    /\ stalled' = TRUE
    /\ UNCHANGED <<part, pc, strays, inputs, ff, fileVars, status, kills>>

\* The result is checked by its duration, which must match the parts' sum.
VerifyNot ==
    /\ pc = "verify"
    /\ pc' = "hash"
    /\ UNCHANGED <<part, strays, inputs, ffVars, fileVars, status, kills>>

Verify ==
    /\ pc = "verify"
    /\ \/ /\ Len(partial) = Parts
          /\ pc' = "hash"
          /\ UNCHANGED <<ffVars, fileVars, status>>
       \/ Fails("failed") /\ UNCHANGED output
    /\ UNCHANGED <<part, strays, inputs, kills>>

\* Hashed, it takes its final name ...
Rename ==
    /\ pc = "hash"
    /\ output' = partial /\ partial' = Missing
    /\ pc' = "report"
    /\ UNCHANGED <<part, strays, inputs, ffVars, staged, status, kills>>

\* ... and only then does the status file say so.
ReportDone ==
    /\ pc = "report"
    /\ status' = "done"
    /\ pc' = "ended"
    /\ UNCHANGED <<part, strays, inputs, ffVars, fileVars, kills>>

\* The pod is killed: what it wrote stays as it is.
Killed ==
    /\ pc \notin {"ended", "killed"}
    /\ kills < MaxKills
    /\ kills' = kills + 1
    /\ pc' = "killed"
    /\ ff' = "none" /\ stalled' = FALSE
    /\ UNCHANGED <<part, strays, inputs, fileVars, status>>

\* A pod of the same Job, or of the next one, starts over what is there.
PodStarts ==
    /\ pc = "killed"
    /\ pc' = "check"
    /\ strays' = {} /\ inputs' = [i \in All |-> part[i].layout]
    /\ UNCHANGED <<part, ffVars, fileVars, status, kills>>

Work == \/ CheckParts \/ Probe \/ FindStrays \/ Launch \/ Remuxed \/ Advance
        \/ Concatenated \/ FfmpegFails \/ Verify \/ Rename \/ ReportDone

WorkerNext == Work \/ FfmpegSticks \/ WatchFires \/ StallPasses \/ Killed \/ PodStarts

WorkerSpec == WorkerInit /\ [][WorkerNext]_workerVars

-----------------------------------------------------------------------------
(* Properties.                                                              *)

\* Under its final name there is never anything but the whole title: all
\* parts, in order, each given to the concat with the streams of the others at
\* the same indexes, since the demuxer pairs them by index (worker.merge); and
\* a status of "done" means it is there.
OutputIsWhole ==
    /\ output # Missing =>
          /\ Len(output) = Parts
          /\ \A i \in All : output[i].of = i /\ output[i].as = output[1].as
    /\ status = "done" => output # Missing

\* What the worker writes, staged parts included and whatever an interrupted
\* attempt left behind, never eats into the reserve (worker._check_space).
ReserveKept == pc \in {"reorder", "concat", "verify"} => FreeUnits >= Reserve

\* What the worker leaves on the volume, however often it is killed.
OutputAccounted == OutputIsWhole /\ ReserveKept

=============================================================================
