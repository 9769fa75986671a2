---------------------------- MODULE MoveContract ----------------------------
(***************************************************************************)
(* What applying a fill-actor plan promises of each selected candidate,    *)
(* whichever way the file is moved: the file is at the place the plan      *)
(* names when the result says so, it stays delivered from then on, and a   *)
(* result once given is never taken back.  LocalMove and CloudMove each    *)
(* implement this module.                                                  *)
(***************************************************************************)
CONSTANT Cands          \* the candidates of all the plans

VARIABLES said,         \* what the result of a candidate says
          arrived       \* the candidates whose file was delivered

contractVars == <<said, arrived>>

ContractInit ==
    /\ said = [c \in Cands |-> "none"]
    /\ arrived = {}

\* Files are delivered, to one candidate or to several that name one place.
Arrive ==
    /\ arrived' \in {arrived \cup C : C \in SUBSET Cands}
    /\ UNCHANGED said

\* A delivery is undone, only while nothing was said of it.
Return ==
    /\ arrived' \in {arrived \ C : C \in SUBSET {c \in Cands : said[c] # "moved"}}
    /\ UNCHANGED said

\* A result is given: "moved" only of a file that was delivered.
Say(c) ==
    /\ said[c] = "none"
    /\ \E v \in {"moved", "kept"} :
          /\ v = "moved" => c \in arrived
          /\ said' = [said EXCEPT ![c] = v]
    /\ UNCHANGED arrived

ContractNext == Arrive \/ Return \/ \E c \in Cands : Say(c)

ContractSpec == ContractInit /\ [][ContractNext]_contractVars
=============================================================================
