----------------------------- MODULE JobContract -----------------------------
(***************************************************************************)
(* What swift-api promises about a submitted job (ADR-0004), without the   *)
(* channel, the job table, the metrics or the reaper: a job is accepted    *)
(* only while there is room, refused only when there is none, then run     *)
(* exactly once by one of a fixed number of workers.                       *)
(***************************************************************************)
EXTENDS Naturals, FiniteSets

CONSTANTS
  Job,
  Capacity,       \* jobs that may wait
  MaxRunning      \* jobs that may be worked on at a time

VARIABLE contract \* the stage of each job: new, refused, waiting, working or finished

At(stage) == {j \in Job : contract[j] = stage}

Move(j, from, to) ==
  contract[j] = from /\ contract' = [contract EXCEPT ![j] = to]

Init == contract = [j \in Job |-> "new"]

Accept(j) == Cardinality(At("waiting")) < Capacity /\ Move(j, "new", "waiting")

Refuse(j) == Cardinality(At("waiting")) = Capacity /\ Move(j, "new", "refused")

Begin(j) == Cardinality(At("working")) < MaxRunning /\ Move(j, "waiting", "working")

End(j) == Move(j, "working", "finished")

Next == \E j \in Job : Accept(j) \/ Refuse(j) \/ Begin(j) \/ End(j)

Spec == Init /\ [][Next]_contract

(* Nothing that was accepted is left lying. *)
Fairness == \A j \in Job : SF_contract(Begin(j)) /\ WF_contract(End(j))
=============================================================================
