----------------------------- MODULE BatchSpec ------------------------------
(***************************************************************************)
(* What convert promises of a batch, whatever it does in between: the      *)
(* inputs are settled one by one, in their order, each published whole or  *)
(* failed, and the program ends with the status that sums them up. While   *)
(* an input is being converted only its own output may lose what it held.  *)
(***************************************************************************)
EXTENDS Integers, Sequences

VARIABLES plan,       \* [in, out] of every input
          published,  \* the input whose whole conversion a path holds
          outcome,    \* "untried", "ok" or "failed" for every input
          status      \* how the program ended, Running before that

vars == <<plan, published, outcome, status>>

Running == "running"
Nothing == <<>>

N    == Len(plan)
Turn == CHOOSE i \in 1 .. N : /\ outcome[i] = "untried"
                              /\ \A j \in 1 .. i - 1 : outcome[j] # "untried"
Pending == status = Running /\ \E i \in 1 .. N : outcome[i] = "untried"
Fresh   == \A i \in 1 .. N : outcome[i] = "untried"

Init ==
    /\ Fresh
    /\ status = Running

Settle(how) ==
    /\ outcome' = [outcome EXCEPT ![Turn] = how]
    /\ status' = IF Turn < N THEN Running
                 ELSE IF \E i \in 1 .. N : outcome'[i] = "failed" THEN "error" ELSE "ok"
    /\ UNCHANGED plan

Publish ==
    /\ Pending
    /\ published' = [published EXCEPT ![plan[Turn].out] = plan[Turn].in]
    /\ Settle("ok")

Fail ==
    /\ Pending
    /\ UNCHANGED published
    /\ Settle("failed")

Withdraw ==
    /\ Pending
    /\ published' = [published EXCEPT ![plan[Turn].out] = Nothing]
    /\ UNCHANGED <<plan, outcome, status>>

(* The command line is refused before any input; a decode may panic; the   *)
(* user may interrupt.                                                     *)
Stop(how) == status = Running /\ status' = how /\ UNCHANGED <<plan, published, outcome>>
Refuse    == Fresh /\ Stop("error")
Panic     == Stop("panic")
Interrupt == Stop("killed")

Again ==
    /\ status # Running
    /\ outcome' = [i \in 1 .. N |-> "untried"] /\ status' = Running
    /\ UNCHANGED <<plan, published>>

Progress == Publish \/ Fail \/ Refuse \/ Panic
Next == Progress \/ Withdraw \/ Interrupt \/ Again

Safety == Init /\ [][Next]_vars
Spec   == Safety /\ WF_vars(Progress)
=============================================================================
