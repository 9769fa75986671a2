---------------------------- MODULE MCMergeTask ----------------------------
(* Instances of the merge service for TLC.                                  *)
EXTENDS MergeTask, TLC

CONSTANTS x1, x2, r1, r2

(* Two tasks, one after the other, of one title.                            *)
SameTitle == [t \in Tasks |-> x1]

(* A task of each of two titles.                                            *)
OwnTitle == [t \in Tasks |-> IF t = 1 THEN x1 ELSE x2]
============================================================================
