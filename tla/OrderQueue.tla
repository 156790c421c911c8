----------------------------- MODULE OrderQueue -----------------------------
(***************************************************************************)
(* BullMQ's order-queue, as the gateway and the workers use it.  BullMQ    *)
(* numbers jobs, so a job is its index in the sequence jobs, and a job     *)
(* that removeOnComplete deletes stays there as "completed".  A worker     *)
(* holds the lock of the job it processes; one that loses its lock goes on *)
(* processing, but what it reports then no longer changes the job.         *)
(***************************************************************************)
EXTENDS Naturals, Sequences

CONSTANTS Workers,
          Attempts,         \* attempts of a job: 3, tickets.service.ts:53
          MaxStalls,        \* BullMQ's maxStalledCount: 1
          NoWorker

ASSUME QueueAssumption == /\ Attempts \in Nat \ {0}
                          /\ MaxStalls \in Nat
                          /\ NoWorker \notin Workers

VARIABLE jobs

JobStates == {"wait", "active", "completed", "failed"}

JobType(data) == [data : data, state : JobStates, lock : Workers \cup {NoWorker},
                  attempts : Nat, stalls : Nat]

NewJob(data) == [data |-> data, state |-> "wait", lock |-> NoWorker,
                 attempts |-> 0, stalls |-> 0]

AddJob(data) == jobs' = Append(jobs, NewJob(data))

AddJobTwice(data) == jobs' = Append(Append(jobs, NewJob(data)), NewJob(data))

Change(i, job) == jobs' = [jobs EXCEPT ![i] = job]

(* A retry waits out a backoff, so jobs need not be taken in their order.  *)
TakeJob(w, i) ==
  /\ jobs[i].state = "wait"
  /\ Change(i, [jobs[i] EXCEPT !.state = "active", !.lock = w])

Holds(w, i) == jobs[i].state = "active" /\ jobs[i].lock = w

(* process() returns.                                                      *)
CompleteJob(w, i) ==
  IF Holds(w, i)
    THEN Change(i, [jobs[i] EXCEPT !.state = "completed", !.lock = NoWorker])
    ELSE UNCHANGED jobs

(* Wrong: jobs are added without attempts, so BullMQ tries them once.      *)
FailJobWithoutRetry(w, i) ==
  IF Holds(w, i)
    THEN Change(i, [jobs[i] EXCEPT !.state = "failed", !.lock = NoWorker,
                                   !.attempts = @ + 1])
    ELSE UNCHANGED jobs

(* process() throws: the job is retried while it has attempts left.        *)
FailJob(w, i) ==
  IF Holds(w, i)
    THEN Change(i, [jobs[i] EXCEPT
           !.state = IF jobs[i].attempts + 1 < Attempts THEN "wait" ELSE "failed",
           !.lock = NoWorker,
           !.attempts = @ + 1])
    ELSE UNCHANGED jobs

(* Wrong: jobs are added with removeOnFail, so a failed one is gone.       *)
RequeueStalledOrRemove(i) ==
  /\ jobs[i].state = "active"
  /\ Change(i, [jobs[i] EXCEPT
       !.state = IF jobs[i].stalls < MaxStalls THEN "wait" ELSE "completed",
       !.lock = NoWorker,
       !.stalls = @ + 1])

(* The stalled checker gives a job whose lock expired back to the workers, *)
(* but only MaxStalls times.                                               *)
RequeueStalled(i) ==
  /\ jobs[i].state = "active"
  /\ Change(i, [jobs[i] EXCEPT
       !.state = IF jobs[i].stalls < MaxStalls THEN "wait" ELSE "failed",
       !.lock = NoWorker,
       !.stalls = @ + 1])
=============================================================================
