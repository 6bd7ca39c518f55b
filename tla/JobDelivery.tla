------------------------------ MODULE JobDelivery ------------------------------
(***************************************************************************)
(* What a queue promises of its jobs, whoever carries it out: a job is     *)
(* delivered at most MaximumDeliveries times, it is done only when a       *)
(* handler succeeded with it, it is given up only when its deliveries are  *)
(* used up, and only an operator's redrive starts it again.  Several jobs  *)
(* may move in one step, each by one move of its own.                      *)
(***************************************************************************)
EXTENDS Naturals

CONSTANTS Jobs, MaximumDeliveries

VARIABLE job    \* job[j]: its status, its deliveries, the best of its handlers

Job == [status: {"unpublished", "pending", "done", "dead"},
        delivered: 0 .. MaximumDeliveries,
        outcome: {"untried", "tried", "handled"}]

Init == job = [j \in Jobs |-> [status |-> "unpublished", delivered |-> 0, outcome |-> "untried"]]

Publish(j) ==
  /\ job[j].status = "unpublished"
  /\ job'[j] = [job[j] EXCEPT !.status = "pending"]

Deliver(j) ==
  /\ job[j].status = "pending" /\ job[j].delivered < MaximumDeliveries
  /\ job'[j] = [status    |-> "pending",
                delivered |-> job[j].delivered + 1,
                outcome   |-> IF job[j].outcome = "untried" THEN "tried" ELSE job[j].outcome]

Handle(j) ==
  /\ job[j].outcome = "tried"
  /\ job'[j] = [job[j] EXCEPT !.outcome = "handled"]

Finish(j) ==
  /\ job[j].status = "pending" /\ job[j].outcome = "handled"
  /\ job'[j] = [job[j] EXCEPT !.status = "done"]

GiveUp(j) ==
  /\ job[j].status = "pending" /\ job[j].delivered = MaximumDeliveries
  /\ job'[j] = [job[j] EXCEPT !.status = "dead"]

Redrive(j) ==
  /\ job[j].status = "dead"
  /\ job'[j] = [status |-> "pending", delivered |-> 0, outcome |-> job[j].outcome]

Move(j) == Publish(j) \/ Deliver(j) \/ Handle(j) \/ Finish(j) \/ GiveUp(j) \/ Redrive(j)

Next ==
  /\ job' \in [Jobs -> Job]
  /\ \A j \in Jobs : Move(j) \/ job'[j] = job[j]

Spec == Init /\ [][Next]_job
================================================================================
