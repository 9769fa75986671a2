------------------------------- MODULE MCMoves -------------------------------
(* Moves of mounted files and moves inside CloudDrive, one kind in a           *)
(* behaviour: the mode is a setting of the program.                            *)
EXTENDS LocalMove, CloudMove, TLC

CONSTANTS c1, c2, c3, k1, k2, s1, s2, d1, d2, q1, q2, q3

\* c1 and c2 are one video in two plans, as are k1 and k2; c3 is another.
MCSourceOf == c1 :> s1 @@ c2 :> s1 @@ c3 :> s2 @@ k1 :> s1 @@ k2 :> s1
MCDestinationOf == c1 :> d1 @@ c2 :> d1 @@ c3 :> d2 @@ k1 :> d1 @@ k2 :> d1
MCQuarantineOf == c1 :> q1 @@ c2 :> q2 @@ c3 :> q3

VARIABLE mode
movesVars == <<mode, moveVars, cloudVars>>

\* What is applied in a behaviour: two plans of one file, or one of a file
\* other programs write to.
Applied(m) == IF m = "plans" THEN {c1, c2} ELSE {c3}

MovesInit ==
    /\ MoveInit /\ CloudInit
    /\ mode \in {"plans", "writes", "cloud"} /\ (mode = "cloud" => ~renameat2)

MovesNext ==
    /\ UNCHANGED mode
    /\ \/ mode # "cloud" /\ MoveNext /\ UNCHANGED cloudVars
          /\ work'.on \in Applied(mode) \cup {None}
       \/ mode = "cloud" /\ CloudNext /\ UNCHANGED moveVars

\* MoveFairness and CloudFairness: the mode at rest enables none of their steps.
MovesFairness ==
    /\ \A c \in LocalCands :
          WF_moveVars(mode # "cloud" /\ Step(c)) /\ SF_moveVars(mode # "cloud" /\ Reconcile(c))
    /\ WF_moveVars(mode # "cloud" /\ Mount)
    /\ \A c \in CloudCands :
          /\ WF_cloudVars(mode = "cloud" /\ CloudStep(c)) /\ SF_cloudVars(mode = "cloud" /\ Recover(c))
          /\ WF_cloudVars(mode = "cloud" /\ CarryOut(c)) /\ SF_cloudVars(mode = "cloud" /\ GraceEnds(c))

\* Whatever interrupted a move, its journal or its operation is closed, or what
\* keeps it open is one of the things the recovery leaves to the operator.
OpenMovesEnd == JournalSettled /\ OperationConcluded

MovesSpec == MovesInit /\ [][MovesNext]_movesVars /\ MovesFairness
==============================================================================
