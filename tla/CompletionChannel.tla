------------------------- MODULE CompletionChannel --------------------------
(***************************************************************************)
(* What the terminal drain promises to the owners of GPU submissions: the  *)
(* conservation channel of the module comment and of ARCHITECTURE.md,      *)
(* without slots, threads, wakes or drains.                                *)
(*                                                                         *)
(* A submission is admitted while the channel is open and has room, is     *)
(* aborted only before it is committed, and a committed and settled one is *)
(* delivered once, with its last result.  A result is never withdrawn,     *)
(* though a later one may replace it.  Closing stops admissions, no more.  *)
(***************************************************************************)
EXTENDS Integers, FiniteSets

CONSTANTS Submissions, Capacity

VARIABLES open, stage, committed, result

vars == <<open, stage, committed, result>>

Results == {"Success", "Cancelled", "Error"}
Admitted == {s \in Submissions : stage[s] = "admitted"}

Init ==
  /\ open = TRUE
  /\ stage = [s \in Submissions |-> "new"]
  /\ committed = {}
  /\ result = [s \in Submissions |-> "Pending"]

Admit(s) ==
  /\ open
  /\ stage[s] = "new"
  /\ Cardinality(Admitted) < Capacity
  /\ stage' = [stage EXCEPT ![s] = "admitted"]
  /\ UNCHANGED <<open, committed, result>>

Commit(s) ==
  /\ s \in Admitted \ committed
  /\ committed' = committed \cup {s}
  /\ UNCHANGED <<open, stage, result>>

Abort(s) ==
  /\ s \in Admitted \ committed
  /\ stage' = [stage EXCEPT ![s] = "aborted"]
  /\ result' = [result EXCEPT ![s] = "Pending"]
  /\ UNCHANGED <<open, committed>>

Settle(s) ==
  /\ s \in Admitted
  /\ \E r \in Results : result' = [result EXCEPT ![s] = r]
  /\ UNCHANGED <<open, stage, committed>>

\* A delivery leaves nothing behind that was ready for it.
Ready == {s \in Admitted \cap committed : result[s] \in Results}

Deliver ==
  /\ Ready # {}
  /\ stage' = [s \in Submissions |-> IF s \in Ready THEN "delivered" ELSE stage[s]]
  /\ UNCHANGED <<open, committed, result>>

Close ==
  /\ open
  /\ open' = FALSE
  /\ UNCHANGED <<stage, committed, result>>

Next ==
  \/ \E s \in Submissions : Admit(s) \/ Commit(s) \/ Abort(s) \/ Settle(s)
  \/ Deliver
  \/ Close

Spec == Init /\ [][Next]_vars
=============================================================================
