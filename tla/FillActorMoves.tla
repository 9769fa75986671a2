---------------------------- MODULE FillActorMoves ----------------------------
(***************************************************************************)
(* What the local and the CloudDrive moves of the fill actor share: the    *)
(* candidates of the stored plans, with the paths the scan recorded.       *)
(***************************************************************************)
EXTENDS Integers, FiniteSets

CONSTANTS
    LocalCands,     \* candidates of all plans that are files of a mounted share
    CloudCands,     \* candidates of all plans that are .strm files naming a CloudDrive file
    Sources,        \* paths in the brand libraries, each also naming the file the scan found there
    Destinations,   \* paths in the staging tree
    SourceOf, DestinationOf,
    None,           \* no file, nobody
    MaxFaults       \* bound on the failures and on the steps of other programs

Cands == LocalCands \cup CloudCands

ASSUME CandidateAssumption ==
    /\ LocalCands \cap CloudCands = {}
    /\ SourceOf \in [Cands -> Sources] /\ DestinationOf \in [Cands -> Destinations]
    /\ Sources \cap Destinations = {}
    /\ None \notin Sources \cup Cands
    /\ MaxFaults \in Nat

Src(c) == SourceOf[c]
Dst(c) == DestinationOf[c]

\* The file the plan is about, named by the path it was found at.
Planned(c) == SourceOf[c]

Idle == [on |-> None]
===============================================================================
