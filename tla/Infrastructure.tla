--------------------------- MODULE Infrastructure ---------------------------
(***************************************************************************)
(* What the processes of the flash sale have to survive.  Gateways and     *)
(* workers talk to Redis and PostgreSQL through clients that reconnect     *)
(* and resend (ioredis, libs/redis/src/redis.service.ts:58-69), and are    *)
(* restarted by Kubernetes.  A fault is an outcome of a call, or an event, *)
(* that the code does not choose:                                          *)
(*                                                                         *)
(*   refused   the call has no effect and its promise rejects;             *)
(*   lost      the call takes effect, but its promise rejects;             *)
(*   lostAdd   the same, of orderQueue.add alone;                          *)
(*   resent    the client loses its connection and sends the command       *)
(*             again, which the server then runs a second time;            *)
(*   resentRelease, resentStock                                            *)
(*             the same, of the release of a seat and of a DEL or SET of a *)
(*             stock key;                                                  *)
(*   dropped   a Pub/Sub message finds the subscriber disconnected;        *)
(*   crash     a process dies between two of its calls;                    *)
(*   stalled   a live worker loses the lock of the job it is processing;   *)
(*   expired   the TTL of a pending key runs out;                          *)
(*   reinit    an operator initialises a ticket that is already on sale;   *)
(*   offline   a browser loses the connection over which it sent a request *)
(*             to buy, which may still arrive;                             *)
(*   mailer    the notification service dies, or loses the lock of a job.  *)
(*                                                                         *)
(* Faults are the ones a model allows and MaxFaults bounds their number.   *)
(***************************************************************************)
EXTENDS Naturals

CONSTANTS Faults, MaxFaults

FaultKinds == {"refused", "lost", "lostAdd", "resent", "resentRelease", "resentStock",
               "dropped", "crash", "stalled", "expired", "reinit",
               "offline", "mailer"}

ASSUME FaultsAssumption == /\ Faults \subseteq FaultKinds
                           /\ MaxFaults \in Nat

VARIABLE faults     \* the number of faults so far

Fault(kind) == /\ kind \in Faults
               /\ faults < MaxFaults
               /\ faults' = faults + 1

NoFault == UNCHANGED faults

(***************************************************************************)
(* The answer to a command on a pending key, or to a publish.  A command   *)
(* runs again some time after its first run, when others may have run in   *)
(* between; but nobody else sets the pending key of an order, and whoever  *)
(* deletes it does so after it was set for the last time, so a resent one  *)
(* is a plain "ok", and so is a publish, which a retried job repeats too.  *)
(* Of the other commands that write, the second run is an effect of its    *)
(* own.  An answer is applied unless it is "refused", and rejects the      *)
(* caller's promise unless it is "ok".                                     *)
(***************************************************************************)
Answers == {"ok", "refused", "lost"}

Answered(a) == IF a = "ok" THEN NoFault ELSE Fault(a)

Applied(a) == a # "refused"
=============================================================================
