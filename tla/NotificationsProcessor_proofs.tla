------------------- MODULE NotificationsProcessor_proofs --------------------
(***************************************************************************)
(* The notification service behind the sale, for every number of requests, *)
(* workers, mailers, attempts and faults: who is told that his ticket is   *)
(* booked, and how often.                                                  *)
(***************************************************************************)
EXTENDS NotificationsProcessor, FlashSale_proofs, FlashSale_orders

(* A mailer that has logged a confirmation and has yet to say so.          *)
Logged(i) == [at |-> "logged", job |-> i]

(* What may still be confirmed without another fault: the jobs of an order *)
(* that wait, or are at work and not yet logged; and the mailers that have *)
(* lost the lock of a job of it, but not the timer that will log it.       *)
Owing(o) ==
  {i \in DOMAIN mails :
     /\ mails[i].data = o
     /\ \/ mails[i].state = "wait"
        \/ mails[i].state = "active" /\ mailing[mails[i].lock] # Logged(i)}

Deaf(o) ==
  {m \in Mailers : /\ mailing[m].at = "delay"
                   /\ mails[mailing[m].job].data = o
                   /\ ~MailQueue!Holds(m, mailing[m].job)}

(* A job at work is a mailer's.  Nothing is confirmed before it was        *)
(* queued, nor queued before the order worker counted it.                  *)
MailsInOrder ==
  /\ \A i \in DOMAIN mails : mails[i].state = "active" => mails[i].lock \in Mailers
  /\ \A m \in Mailers : mailing[m].at = "logged" => confirmed[mails[mailing[m].job].data] > 0
  /\ \A i \in DOMAIN mails : notified[mails[i].data] > 0
  /\ \A o \in OrderIds : confirmed[o] > 0 => notified[o] > 0

(* What was confirmed of an order, and what may yet be, is one and the     *)
(* faults so far; and nothing before its notification was queued.          *)
Allowed(o) == IF notified[o] = 0 THEN 0 ELSE 1

Budget ==
  \A o \in OrderIds :
    /\ IsFiniteSet(Owing(o))
    /\ IsFiniteSet(Deaf(o))
    /\ confirmed[o] + Cardinality(Owing(o)) + Cardinality(Deaf(o)) <= Allowed(o) + faults

MailInv == MailTypeOK /\ MailsInOrder /\ Budget

-----------------------------------------------------------------------------
(* Counting what is owed *)

(* A set with an element more or less, or none but what another has.       *)
LEMMA Fewer ==
  ASSUME NEW S, IsFiniteSet(S), NEW T, T \subseteq S
  PROVE  /\ IsFiniteSet(T)
         /\ Cardinality(S) \in Nat /\ Cardinality(T) \in Nat
         /\ Cardinality(T) <= Cardinality(S)
  BY FS_Subset, FS_CardinalityType

LEMMA OneMore ==
  ASSUME NEW S, IsFiniteSet(S), NEW x, NEW T, T \subseteq S \cup {x}
  PROVE  /\ IsFiniteSet(T)
         /\ Cardinality(S) \in Nat /\ Cardinality(T) \in Nat
         /\ Cardinality(T) <= Cardinality(S) + 1
<1> DEFINE U == S \cup {x}
<1>1. IsFiniteSet(U) /\ Cardinality(S) \in Nat
      /\ (Cardinality(U) = Cardinality(S) \/ Cardinality(U) = Cardinality(S) + 1)
  BY FS_AddElement, FS_CardinalityType
<1>2. T \subseteq U
  OBVIOUS
<1> HIDE DEF U
<1>3. IsFiniteSet(T) /\ Cardinality(T) \in Nat /\ Cardinality(T) <= Cardinality(U)
  BY <1>1, <1>2, Fewer
<1> QED  BY <1>1, <1>3

LEMMA OneLess ==
  ASSUME NEW S, IsFiniteSet(S), NEW x \in S, NEW T, T \subseteq S \ {x}
  PROVE  /\ IsFiniteSet(T)
         /\ Cardinality(S) \in Nat /\ Cardinality(T) \in Nat
         /\ Cardinality(T) + 1 <= Cardinality(S)
<1> DEFINE U == S \ {x}
<1>1. IsFiniteSet(U) /\ Cardinality(S) \in Nat /\ Cardinality(U) = Cardinality(S) - 1
  BY FS_RemoveElement, FS_CardinalityType
<1>2. T \subseteq U
  OBVIOUS
<1> HIDE DEF U
<1>3. IsFiniteSet(T) /\ Cardinality(T) \in Nat /\ Cardinality(T) <= Cardinality(U)
  BY <1>1, <1>2, Fewer
<1> QED  BY <1>1, <1>3

(* What a step may do to the debts of an order: it adds none, or one that  *)
(* costs a fault, or turns one into a confirmation.                        *)
Quiet(o) == /\ confirmed'[o] = confirmed[o]
            /\ faults' >= faults
            /\ Owing(o)' \subseteq Owing(o)
            /\ Deaf(o)' \subseteq Deaf(o)

Charged(o) == /\ confirmed'[o] = confirmed[o]
              /\ faults' = faults + 1
              /\ \/ /\ \E i : Owing(o)' \subseteq Owing(o) \cup {i}
                    /\ Deaf(o)' \subseteq Deaf(o)
                 \/ /\ \E m : Deaf(o)' \subseteq Deaf(o) \cup {m}
                    /\ Owing(o)' \subseteq Owing(o)

Paid(o) == /\ confirmed'[o] = confirmed[o] + 1
           /\ faults' = faults
           /\ \/ /\ \E i \in Owing(o) : Owing(o)' \subseteq Owing(o) \ {i}
                 /\ Deaf(o)' \subseteq Deaf(o)
              \/ /\ \E m \in Deaf(o) : Deaf(o)' \subseteq Deaf(o) \ {m}
                 /\ Owing(o)' \subseteq Owing(o)

(* The sums are then as the budget has them.                               *)
LEMMA Sums ==
  ASSUME NEW c \in Nat, NEW c2 \in Nat, NEW s \in Nat, NEW s2 \in Nat,
         NEW t \in Nat, NEW t2 \in Nat, NEW a \in Nat, NEW f \in Nat, NEW f2 \in Nat,
         c + s + t <= a + f,
         \/ c2 = c /\ f2 >= f /\ s2 <= s /\ t2 <= t
         \/ c2 = c /\ f2 = f + 1 /\ s2 <= s + 1 /\ t2 <= t
         \/ c2 = c /\ f2 = f + 1 /\ s2 <= s /\ t2 <= t + 1
         \/ c2 = c + 1 /\ f2 = f /\ s2 + 1 <= s /\ t2 <= t
         \/ c2 = c + 1 /\ f2 = f /\ s2 <= s /\ t2 + 1 <= t
  PROVE  c2 + s2 + t2 <= a + f2
  OBVIOUS

(* Each of them keeps the budget.                                          *)
LEMMA StaysInBudget ==
  ASSUME Budget, UNCHANGED notified, faults \in Nat, faults' \in Nat,
         confirmed \in [OrderIds -> Nat], confirmed' \in [OrderIds -> Nat],
         \A o \in OrderIds : Quiet(o) \/ Charged(o) \/ Paid(o)
  PROVE  Budget'
<1> SUFFICES ASSUME NEW o \in OrderIds
             PROVE  /\ IsFiniteSet(Owing(o)') /\ IsFiniteSet(Deaf(o)')
                    /\ confirmed'[o] + Cardinality(Owing(o)') + Cardinality(Deaf(o)')
                         <= Allowed(o)' + faults'
  BY DEF Budget
<1> DEFINE S == Owing(o)
           T == Deaf(o)
           S2 == Owing(o)'
           T2 == Deaf(o)'
           a == Allowed(o)
<1>1. /\ IsFiniteSet(S) /\ IsFiniteSet(T)
      /\ confirmed[o] + Cardinality(S) + Cardinality(T) <= a + faults
  BY DEF Budget
<1>2. a \in Nat /\ Allowed(o)' = a /\ confirmed[o] \in Nat /\ confirmed'[o] \in Nat
  BY DEF Allowed
<1>3. \/ confirmed'[o] = confirmed[o] /\ faults' >= faults /\ S2 \subseteq S /\ T2 \subseteq T
      \/ /\ confirmed'[o] = confirmed[o] /\ faults' = faults + 1
         /\ \/ (\E i : S2 \subseteq S \cup {i}) /\ T2 \subseteq T
            \/ (\E m : T2 \subseteq T \cup {m}) /\ S2 \subseteq S
      \/ /\ confirmed'[o] = confirmed[o] + 1 /\ faults' = faults
         /\ \/ (\E i \in S : S2 \subseteq S \ {i}) /\ T2 \subseteq T
            \/ (\E m \in T : T2 \subseteq T \ {m}) /\ S2 \subseteq S
  BY DEF Quiet, Charged, Paid
<1> HIDE DEF S, T, S2, T2, a
<1>4. IsFiniteSet(S2) /\ IsFiniteSet(T2)
  BY <1>1, <1>3, Fewer, OneMore, OneLess
<1>5. /\ Cardinality(S) \in Nat /\ Cardinality(T) \in Nat
      /\ Cardinality(S2) \in Nat /\ Cardinality(T2) \in Nat
  BY <1>1, <1>4, FS_CardinalityType
<1>6. confirmed'[o] + Cardinality(S2) + Cardinality(T2) <= a + faults'
  <2>1. /\ S2 \subseteq S => Cardinality(S2) <= Cardinality(S)
        /\ T2 \subseteq T => Cardinality(T2) <= Cardinality(T)
    BY <1>1, Fewer
  <2>2. /\ (\E i : S2 \subseteq S \cup {i}) => Cardinality(S2) <= Cardinality(S) + 1
        /\ (\E m : T2 \subseteq T \cup {m}) => Cardinality(T2) <= Cardinality(T) + 1
    BY <1>1, OneMore
  <2>3. /\ (\E i \in S : S2 \subseteq S \ {i}) => Cardinality(S2) + 1 <= Cardinality(S)
        /\ (\E m \in T : T2 \subseteq T \ {m}) => Cardinality(T2) + 1 <= Cardinality(T)
    BY <1>1, OneLess
  <2> DEFINE s == Cardinality(S)
             t == Cardinality(T)
             s2 == Cardinality(S2)
             t2 == Cardinality(T2)
             c == confirmed[o]
             c2 == confirmed'[o]
  <2>4. \/ c2 = c /\ faults' >= faults /\ s2 <= s /\ t2 <= t
        \/ c2 = c /\ faults' = faults + 1 /\ s2 <= s + 1 /\ t2 <= t
        \/ c2 = c /\ faults' = faults + 1 /\ s2 <= s /\ t2 <= t + 1
        \/ c2 = c + 1 /\ faults' = faults /\ s2 + 1 <= s /\ t2 <= t
        \/ c2 = c + 1 /\ faults' = faults /\ s2 <= s /\ t2 + 1 <= t
    BY <1>3, <2>1, <2>2, <2>3
  <2>5. /\ s \in Nat /\ t \in Nat /\ s2 \in Nat /\ t2 \in Nat /\ c \in Nat /\ c2 \in Nat
        /\ a \in Nat
        /\ c + s + t <= a + faults
    BY <1>1, <1>2, <1>5
  <2> QED  BY <2>4, <2>5, Sums
<1> QED  BY <1>2, <1>4, <1>6 DEF S2, T2

-----------------------------------------------------------------------------
(* The steps of the mailers *)

(* The job of a mailer at work is in the queue, and every job has its type. *)
LEMMA MailJobs ==
  ASSUME MailTypeOK
  PROVE  /\ \A i \in DOMAIN mails : mails[i] \in MailQueue!JobType(OrderIds)
         /\ \A i \in DOMAIN mails : mails[i].data \in OrderIds
         /\ \A m \in Mailers : mailing[m].at # "idle" => mailing[m].job \in DOMAIN mails
         /\ \A m \in Mailers : mailing[m] = [at |-> mailing[m].at, job |-> mailing[m].job]
<1>1. \A i \in DOMAIN mails : mails[i] \in MailQueue!JobType(OrderIds)
  BY DEF MailTypeOK
<1> QED  BY <1>1 DEF MailTypeOK, MailQueue!JobType

(* A change of a job keeps its place and every other job.                  *)
LEMMA MailChange ==
  ASSUME MailTypeOK, NEW i \in DOMAIN mails, NEW job \in MailQueue!JobType(OrderIds),
         job.data = mails[i].data, MailQueue!Change(i, job)
  PROVE  /\ mails' \in Seq(MailQueue!JobType(OrderIds))
         /\ DOMAIN mails' = DOMAIN mails
         /\ mails'[i] = job
         /\ \A j \in DOMAIN mails : mails'[j].data = mails[j].data
         /\ \A j \in DOMAIN mails \ {i} : mails'[j] = mails[j]
  BY DEF MailQueue!Change, MailTypeOK

(* A job that is taken is at work, and locked by the mailer that took it.  *)
LEMMA TakeMailKeeps ==
  ASSUME MailInv, faults \in Nat, NEW m \in Mailers, NEW i \in DOMAIN mails, TakeMail(m, i)
  PROVE  MailInv'
<1> DEFINE job == [mails[i] EXCEPT !.state = "active", !.lock = m]
<1>1. /\ job \in MailQueue!JobType(OrderIds)
      /\ job.data = mails[i].data /\ job.state = "active" /\ job.lock = m
      /\ mails[i].state = "wait"
  BY MailJobs DEF MailInv, TakeMail, MailQueue!TakeJob, MailQueue!JobType, MailQueue!JobStates
<1>2. MailQueue!Change(i, job)
  BY DEF TakeMail, MailQueue!TakeJob
<1> HIDE DEF job
<1>3. /\ mails' \in Seq(MailQueue!JobType(OrderIds))
      /\ DOMAIN mails' = DOMAIN mails
      /\ mails'[i] = job
      /\ \A j \in DOMAIN mails : mails'[j].data = mails[j].data
      /\ \A j \in DOMAIN mails \ {i} : mails'[j] = mails[j]
  BY <1>1, <1>2, MailChange DEF MailInv
<1>4. /\ mailing[m].at = "idle"
      /\ mailing' = [mailing EXCEPT ![m] = [at |-> "delay", job |-> i]]
      /\ UNCHANGED <<notified, faults, confirmed>>
  BY DEF TakeMail, vars, outcomeVars
<1>5. i # 0
  BY DEF MailInv, MailTypeOK
<1>6. MailTypeOK'
  BY <1>1, <1>3, <1>4, <1>5 DEF MailInv, MailTypeOK
<1>7. MailsInOrder'
  <2>1. \A j \in DOMAIN mails' : mails'[j].state = "active" => mails'[j].lock \in Mailers
    BY <1>1, <1>3 DEF MailInv, MailsInOrder
  <2>2. \A q \in Mailers : mailing'[q].at = "logged" =>
          confirmed'[mails'[mailing'[q].job].data] > 0
    BY <1>3, <1>4, MailJobs DEF MailInv, MailsInOrder, MailTypeOK
  <2>3. \A j \in DOMAIN mails' : notified'[mails'[j].data] > 0
    BY <1>3, <1>4, MailJobs DEF MailInv, MailsInOrder, MailTypeOK
  <2> QED  BY <1>4, <2>1, <2>2, <2>3 DEF MailInv, MailsInOrder
<1>8. ASSUME NEW o \in OrderIds
      PROVE  Quiet(o)
  <2>1. ASSUME NEW j \in Owing(o)'
        PROVE  j \in Owing(o)
    BY <1>1, <1>3, <1>4, <2>1 DEF Owing, Logged, MailInv, MailTypeOK
  <2>2. ASSUME NEW q \in Deaf(o)'
        PROVE  q \in Deaf(o)
    BY <1>1, <1>3, <1>4, <2>2, MailJobs DEF Deaf, MailQueue!Holds, MailInv, MailTypeOK
  <2> QED  BY <1>4, <2>1, <2>2 DEF Quiet
<1> QED  BY <1>4, <1>6, <1>7, <1>8, StaysInBudget DEF MailInv, MailTypeOK

(* A confirmation that is logged was owed, by the job or by its mailer.    *)
LEMMA LogKeeps ==
  ASSUME MailInv, faults \in Nat, NEW m \in Mailers, LogConfirmation(m)
  PROVE  MailInv'
<1> DEFINE i == mailing[m].job
           d == mails[i].data
<1>1. /\ i \in DOMAIN mails /\ d \in OrderIds
      /\ mailing[m] = [at |-> "delay", job |-> i]
  BY MailJobs DEF MailInv, LogConfirmation
<1>2. /\ mailing' = [mailing EXCEPT ![m].at = "logged"]
      /\ confirmed' = [confirmed EXCEPT ![d] = @ + 1]
      /\ UNCHANGED <<mails, notified, faults>>
  BY DEF LogConfirmation, vars, outcomeVars
<1> HIDE DEF i, d
<1>3. /\ mailing'[m] = Logged(i)
      /\ \A q \in Mailers \ {m} : mailing'[q] = mailing[q]
      /\ mailing' \in [Mailers -> [at : {"idle", "delay", "logged"}, job : {0} \cup DOMAIN mails]]
  BY <1>1, <1>2 DEF MailInv, MailTypeOK, Logged
<1>4. /\ confirmed' \in [OrderIds -> Nat]
      /\ confirmed'[d] = confirmed[d] + 1
      /\ \A o \in OrderIds : confirmed[o] > 0 => confirmed'[o] > 0
      /\ \A o \in OrderIds \ {d} : confirmed'[o] = confirmed[o]
  BY <1>1, <1>2 DEF MailInv, MailTypeOK
<1>5. MailTypeOK'
  BY <1>1, <1>2, <1>3, <1>4, MailJobs DEF MailInv, MailTypeOK, Logged
<1>6. MailsInOrder'
  <2>1. \A q \in Mailers : mailing'[q].at = "logged" => confirmed'[mails[mailing'[q].job].data] > 0
    <3>1. confirmed'[d] > 0 /\ d = mails[i].data
      BY <1>1, <1>4 DEF MailInv, MailTypeOK, d
    <3> QED  BY <1>3, <1>4, <3>1, MailJobs DEF MailInv, MailsInOrder, Logged
  <2>2. \A o \in OrderIds : confirmed'[o] > 0 => notified[o] > 0
    BY <1>1, <1>4 DEF MailInv, MailsInOrder, d
  <2> QED  BY <1>2, <2>1, <2>2 DEF MailInv, MailsInOrder
<1>7. ASSUME NEW o \in OrderIds
      PROVE  Quiet(o) \/ Paid(o)
  <2>1. ASSUME NEW j \in Owing(o)'
        PROVE  j \in Owing(o)
    BY <1>1, <1>2, <1>3, <2>1 DEF Owing, Logged
  <2>2. ASSUME NEW q \in Deaf(o)'
        PROVE  q \in Deaf(o) /\ q # m
    BY <1>2, <1>3, <2>2 DEF Deaf, MailQueue!Holds, Logged
  <2>3. CASE o # d
    BY <1>2, <1>4, <2>1, <2>2, <2>3 DEF Quiet
  <2>4. CASE o = d /\ MailQueue!Holds(m, i)
    <3>1. i \in Owing(o)
      BY <1>1, <2>4 DEF Owing, Logged, MailQueue!Holds, d
    <3>2. i \notin Owing(o)'
      BY <1>2, <1>3, <2>4 DEF Owing, MailQueue!Holds
    <3> QED  BY <1>2, <1>4, <2>1, <2>2, <2>4, <3>1, <3>2 DEF Paid
  <2>5. CASE o = d /\ ~MailQueue!Holds(m, i)
    <3>1. m \in Deaf(o)
      BY <1>1, <2>5 DEF Deaf, d
    <3> QED  BY <1>2, <1>4, <2>1, <2>2, <2>5, <3>1 DEF Paid
  <2> QED  BY <2>3, <2>4, <2>5
<1> QED  BY <1>2, <1>4, <1>5, <1>6, <1>7, StaysInBudget DEF MailInv, MailTypeOK

(* A job that is done was logged, so no longer owed.                       *)
LEMMA FinishKeeps ==
  ASSUME MailInv, faults \in Nat, NEW m \in Mailers, FinishMail(m)
  PROVE  MailInv'
<1> DEFINE i == mailing[m].job
           job == [mails[i] EXCEPT !.state = "completed", !.lock = NoWorker]
<1>1. /\ i \in DOMAIN mails /\ mailing[m] = Logged(i)
      /\ mailing' = [mailing EXCEPT ![m] = Resting]
      /\ UNCHANGED <<notified, faults, confirmed>>
  BY MailJobs DEF MailInv, FinishMail, Logged, vars, outcomeVars
<1>2. job \in MailQueue!JobType(OrderIds) /\ job.data = mails[i].data /\ job.state = "completed"
  BY <1>1, MailJobs DEF MailInv, MailQueue!JobType, MailQueue!JobStates
<1>3. IF MailQueue!Holds(m, i) THEN MailQueue!Change(i, job) ELSE UNCHANGED mails
  BY DEF FinishMail, MailQueue!CompleteJob
<1> HIDE DEF i, job
<1>4. /\ mails' \in Seq(MailQueue!JobType(OrderIds))
      /\ DOMAIN mails' = DOMAIN mails
      /\ mails'[i] \in {mails[i], job}
      /\ mails'[i] = mails[i] => UNCHANGED mails \/ mails[i] = job
      /\ \A j \in DOMAIN mails : mails'[j].data = mails[j].data
      /\ \A j \in DOMAIN mails \ {i} : mails'[j] = mails[j]
  BY <1>1, <1>2, <1>3, MailChange DEF MailInv, MailTypeOK
<1>5. /\ mailing'[m] = Resting
      /\ \A q \in Mailers \ {m} : mailing'[q] = mailing[q]
      /\ mailing' \in [Mailers -> [at : {"idle", "delay", "logged"}, job : {0} \cup DOMAIN mails]]
  BY <1>1 DEF MailInv, MailTypeOK, Resting
<1>6. MailTypeOK'
  <2>1. \A j \in DOMAIN mails' : mails'[j].state = "completed" => confirmed'[mails'[j].data] > 0
    <3>1. confirmed[mails[i].data] > 0
      BY <1>1 DEF MailInv, MailsInOrder, Logged
    <3> QED  BY <1>1, <1>4, <3>1 DEF MailInv, MailTypeOK
  <2>2. \A q \in Mailers : (mailing'[q].at = "idle") <=> (mailing'[q].job = 0)
    BY <1>5 DEF MailInv, MailTypeOK, Resting
  <2> QED  BY <1>1, <1>4, <1>5, <2>1, <2>2 DEF MailInv, MailTypeOK
<1>7. MailsInOrder'
  <2>1. \A j \in DOMAIN mails' : mails'[j].state = "active" => mails'[j].lock \in Mailers
    BY <1>2, <1>4 DEF MailInv, MailsInOrder
  <2>2. \A q \in Mailers : mailing'[q].at = "logged" =>
          confirmed'[mails'[mailing'[q].job].data] > 0
    BY <1>1, <1>4, <1>5, MailJobs DEF MailInv, MailsInOrder, Resting
  <2>3. \A j \in DOMAIN mails' : notified'[mails'[j].data] > 0
    BY <1>1, <1>4, <1>5, MailJobs DEF MailInv, MailsInOrder, Resting
  <2> QED  BY <1>1, <1>4, <2>1, <2>2, <2>3 DEF MailInv, MailsInOrder
<1>8. ASSUME NEW o \in OrderIds
      PROVE  Quiet(o)
  <2>1. ASSUME NEW j \in Owing(o)'
        PROVE  j \in Owing(o)
    <3>1. /\ j \in DOMAIN mails /\ mails'[j].data = o
          /\ \/ mails'[j].state = "wait"
             \/ mails'[j].state = "active" /\ mailing'[mails'[j].lock] # Logged(j)
      BY <1>4, <2>1 DEF Owing, Logged
    <3>2. mails'[j] = mails[j] /\ ~(j = i /\ MailQueue!Holds(m, i))
      <4>1. MailQueue!Holds(m, i) => mails'[i].state = "completed"
        BY <1>1, <1>2, <1>3, MailChange DEF MailInv, MailQueue!Holds
      <4> QED  BY <1>3, <1>4, <3>1, <4>1
    <3>3. mails[j].state = "active" => mails[j].lock \in Mailers
      BY <3>1 DEF MailInv, MailsInOrder
    <3>4. mails[j].state = "active" /\ mails[j].lock = m => j # i
      BY <3>2 DEF MailQueue!Holds
    <3> QED  BY <1>1, <1>5, <3>1, <3>2, <3>3, <3>4 DEF Owing, Logged
  <2>2. ASSUME NEW q \in Deaf(o)'
        PROVE  q \in Deaf(o)
    <3> DEFINE k == mailing[q].job
    <3>1. /\ q \in Mailers \ {m} /\ mailing'[q] = mailing[q] /\ mailing[q].at = "delay"
          /\ mails'[k].data = o /\ ~(mails'[k].state = "active" /\ mails'[k].lock = q)
      BY <1>5, <2>2 DEF Deaf, MailQueue!Holds, Resting
    <3>2. k \in DOMAIN mails
      BY <3>1, MailJobs DEF MailInv
    <3> HIDE DEF k
    <3>3. k = i /\ mails[k].lock = q => UNCHANGED mails
      BY <1>3, <3>1 DEF MailQueue!Holds
    <3>4. mails[k].data = o /\ ~MailQueue!Holds(q, k)
      BY <1>4, <3>1, <3>2, <3>3 DEF MailQueue!Holds
    <3> QED  BY <3>1, <3>4 DEF Deaf, k
  <2> QED  BY <1>1, <2>1, <2>2 DEF Quiet
<1> QED  BY <1>1, <1>6, <1>7, <1>8, StaysInBudget DEF MailInv, MailTypeOK

(* A mailer that dies may owe its logged job again, which costs a fault.   *)
LEMMA MailerCrashKeeps ==
  ASSUME MailInv, faults \in Nat, NEW m \in Mailers, MailerCrash(m)
  PROVE  MailInv'
<1> DEFINE i == mailing[m].job
<1>1. /\ mailing' = [mailing EXCEPT ![m] = Resting]
      /\ faults' = faults + 1
      /\ UNCHANGED <<mails, confirmed, notified>>
  BY DEF MailerCrash, Fault, saleVars, outcomeVars
<1>2. /\ mailing'[m] = Resting
      /\ \A q \in Mailers \ {m} : mailing'[q] = mailing[q]
      /\ mailing' \in [Mailers -> [at : {"idle", "delay", "logged"}, job : {0} \cup DOMAIN mails]]
  BY <1>1 DEF MailInv, MailTypeOK, Resting
<1>3. MailTypeOK'
  BY <1>1, <1>2 DEF MailInv, MailTypeOK, Resting
<1>4. MailsInOrder'
  BY <1>1, <1>2 DEF MailInv, MailsInOrder, Resting
<1>5. ASSUME NEW o \in OrderIds
      PROVE  Charged(o)
  <2>1. ASSUME NEW j \in Owing(o)', j # i
        PROVE  j \in Owing(o)
    BY <1>1, <1>2, <2>1, MailJobs DEF Owing, Logged, MailInv, MailTypeOK
  <2>2. ASSUME NEW q \in Deaf(o)'
        PROVE  q \in Deaf(o)
    BY <1>1, <1>2, <2>2 DEF Deaf, MailQueue!Holds, Resting
  <2>3. Owing(o)' \subseteq Owing(o) \cup {i}
    BY <2>1
  <2> HIDE DEF i
  <2> QED  BY <1>1, <2>2, <2>3 DEF Charged
<1> QED  BY <1>1, <1>3, <1>4, <1>5, StaysInBudget DEF MailInv, MailTypeOK

(* The stalled checker may have a job owed twice, by itself and by the     *)
(* mailer that lost its lock, which costs a fault too.                     *)
LEMMA MailStalledKeeps ==
  ASSUME MailInv, faults \in Nat, NEW i \in DOMAIN mails, MailStalled(i)
  PROVE  MailInv'
<1> DEFINE next == IF mails[i].stalls < MaxStalls THEN "wait" ELSE "failed"
           count == mails[i].stalls + 1
           job == [mails[i] EXCEPT !.state = next, !.lock = NoWorker, !.stalls = count]
           m == mails[i].lock
<1>1. /\ job \in MailQueue!JobType(OrderIds)
      /\ job.data = mails[i].data /\ job.state \in {"wait", "failed"}
  <2>1. mails[i] \in MailQueue!JobType(OrderIds)
    BY MailJobs DEF MailInv
  <2>2. next \in MailQueue!JobStates /\ count \in Nat /\ next \in {"wait", "failed"}
    BY <2>1 DEF MailQueue!JobStates, MailQueue!JobType
  <2> HIDE DEF next, count
  <2> QED  BY <2>1, <2>2 DEF MailQueue!JobType
<1>2. /\ mails[i].state = "active"
      /\ MailQueue!Change(i, job)
      /\ faults' = (IF mailing[m].job = i THEN faults + 1 ELSE faults)
      /\ UNCHANGED <<mailing, confirmed, notified>>
  BY DEF MailStalled, MailQueue!RequeueStalled, Fault, NoFault, saleVars, outcomeVars
<1> HIDE DEF job, m
<1>3. /\ mails' \in Seq(MailQueue!JobType(OrderIds))
      /\ DOMAIN mails' = DOMAIN mails
      /\ mails'[i] = job
      /\ \A j \in DOMAIN mails : mails'[j].data = mails[j].data
      /\ \A j \in DOMAIN mails \ {i} : mails'[j] = mails[j]
  BY <1>1, <1>2, MailChange DEF MailInv
<1>4. MailTypeOK'
  BY <1>1, <1>2, <1>3 DEF MailInv, MailTypeOK
<1>5. MailsInOrder'
  <2>1. \A j \in DOMAIN mails' : mails'[j].state = "active" => mails'[j].lock \in Mailers
    BY <1>1, <1>3 DEF MailInv, MailsInOrder
  <2>2. \A q \in Mailers : mailing'[q].at = "logged" =>
          confirmed'[mails'[mailing'[q].job].data] > 0
    BY <1>2, <1>3, MailJobs DEF MailInv, MailsInOrder
  <2>3. \A j \in DOMAIN mails' : notified'[mails'[j].data] > 0
    BY <1>2, <1>3, MailJobs DEF MailInv, MailsInOrder
  <2> QED  BY <1>2, <2>1, <2>2, <2>3 DEF MailInv, MailsInOrder
<1>6. ASSUME NEW o \in OrderIds
      PROVE  Quiet(o) \/ Charged(o)
  <2>1. ASSUME NEW j \in Owing(o)', j # i
        PROVE  j \in Owing(o)
    BY <1>2, <1>3, <2>1 DEF Owing
  <2>2. ASSUME NEW q \in Deaf(o)', q # m \/ mailing[q].job # i
        PROVE  q \in Deaf(o)
    BY <1>2, <1>3, <2>2, MailJobs DEF Deaf, MailQueue!Holds, MailInv, m
  <2>3. CASE mailing[m] = Logged(i)
    <3>1. \A q \in Deaf(o)' : q # m
      BY <1>2, <2>3 DEF Deaf, Logged
    <3> QED  BY <1>2, <2>1, <2>2, <2>3, <3>1 DEF Charged, Logged
  <2>4. CASE mailing[m] # Logged(i)
    <3>1. i \in Owing(o)' => i \in Owing(o)
      BY <1>2, <1>3, <2>4 DEF Owing, m
    <3>2. Owing(o)' \subseteq Owing(o)
      BY <2>1, <3>1
    <3>3. Deaf(o)' \subseteq Deaf(o) \cup {m}
      BY <2>2
    <3>4. mailing[m].job # i => Deaf(o)' \subseteq Deaf(o)
      BY <2>2
    <3> QED  BY <1>2, <3>2, <3>3, <3>4 DEF Quiet, Charged
  <2> QED  BY <2>3, <2>4
<1>7. faults' \in Nat
  BY <1>2
<1> QED  BY <1>2, <1>4, <1>5, <1>6, <1>7, StaysInBudget DEF MailInv, MailTypeOK

-----------------------------------------------------------------------------
(* The steps of the sale *)

(* The queue only grows by what is added, which has its type.              *)
LEMMA MailsAddedKeep ==
  ASSUME MailTypeOK, NEW o \in OrderIds, NEW n \in 1 .. 2, notified \in [OrderIds -> Nat],
         notified[o] = 0, notified' = [notified EXCEPT ![o] = n], MailsAdded
  PROVE  /\ mails' \in Seq(MailQueue!JobType(OrderIds))
         /\ DOMAIN mails' = 1 .. Len(mails) + n
         /\ \A i \in DOMAIN mails : i \in DOMAIN mails' /\ mails'[i] = mails[i]
         /\ \A i \in DOMAIN mails' \ DOMAIN mails :
              mails'[i].data = o /\ mails'[i].state = "wait"
<1> DEFINE changed == CHOOSE p \in OrderIds : notified'[p] # notified[p]
           new == [i \in 1 .. n |-> MailQueue!NewJob(o)]
<1>1. \A p \in OrderIds : notified'[p] # notified[p] <=> p = o
  OBVIOUS
<1>2. changed = o
  BY <1>1
<1>3. notified'[o] - notified[o] = n /\ notified' # notified
  BY <1>1
<1>4. mails' = mails \o new
  BY <1>2, <1>3 DEF MailsAdded
<1>5. /\ MailQueue!NewJob(o) \in MailQueue!JobType(OrderIds)
      /\ MailQueue!NewJob(o).data = o /\ MailQueue!NewJob(o).state = "wait"
  BY DEF MailQueue!NewJob, MailQueue!JobType, MailQueue!JobStates
<1>6. /\ new \in Seq(MailQueue!JobType(OrderIds)) /\ Len(new) = n
      /\ \A i \in 1 .. n : new[i] = MailQueue!NewJob(o)
  BY <1>5
<1>7. mails \in Seq(MailQueue!JobType(OrderIds))
  BY DEF MailTypeOK
<1> HIDE DEF new
<1>8. /\ mails' \in Seq(MailQueue!JobType(OrderIds))
      /\ Len(mails') = Len(mails) + n
      /\ \A i \in 1 .. Len(mails) : mails'[i] = mails[i]
      /\ \A i \in Len(mails) + 1 .. Len(mails) + n : mails'[i] = new[i - Len(mails)]
  BY <1>4, <1>6, <1>7
<1>9. ASSUME NEW i \in DOMAIN mails' \ DOMAIN mails
      PROVE  mails'[i].data = o /\ mails'[i].state = "wait"
  <2>1. i \in Len(mails) + 1 .. Len(mails) + n
    BY <1>7, <1>8, <1>9
  <2>2. i - Len(mails) \in 1 .. n
    BY <1>7, <2>1
  <2> QED  BY <1>5, <1>6, <1>8, <2>1, <2>2
<1> QED  BY <1>7, <1>8, <1>9

(* The budget of an order that has just been notified.                     *)
LEMMA FirstSum ==
  ASSUME NEW c, NEW s \in Nat, NEW t, NEW n \in 1 .. 2, NEW f \in Nat, NEW a,
         c = 0, t = 0, a = 1, s <= n, n <= 1 + f
  PROVE  c + s + t <= a + f
  OBVIOUS

(* A step of the sale queues the first notification of an order, in two    *)
(* copies at the cost of a fault, or none.                                 *)
LEMMA SaleKeepsMail ==
  ASSUME MailInv, faults \in Nat, faults' \in Nat, notified \in [OrderIds -> Nat],
         notified' \in [OrderIds -> Nat], NotifiesAtMost,
         Next, MailsAdded, UNCHANGED <<mailing, confirmed>>
  PROVE  MailInv'
<1>1. faults' >= faults
  BY FaultsMount
<1>2. CASE UNCHANGED notified
  <2>1. UNCHANGED mails
    BY <1>2 DEF MailsAdded
  <2>2. MailTypeOK' /\ MailsInOrder'
    BY <1>2, <2>1 DEF MailInv, MailTypeOK, MailsInOrder
  <2>3. \A o \in OrderIds : Quiet(o)
    BY <1>1, <2>1 DEF Quiet, Owing, Deaf, MailQueue!Holds
  <2>4. Budget'
    BY <1>2, <2>3, StaysInBudget DEF MailInv, MailTypeOK
  <2> QED  BY <2>2, <2>4 DEF MailInv
<1>3. ASSUME NEW o \in OrderIds, NEW n \in 1 .. 2, notified[o] = 0,
             notified' = [notified EXCEPT ![o] = n],
             n = 1 \/ Fault("resent")
      PROVE  MailInv'
  <2>1. /\ mails' \in Seq(MailQueue!JobType(OrderIds))
        /\ DOMAIN mails' = 1 .. Len(mails) + n
        /\ \A i \in DOMAIN mails : i \in DOMAIN mails' /\ mails'[i] = mails[i]
        /\ \A i \in DOMAIN mails' \ DOMAIN mails :
             mails'[i].data = o /\ mails'[i].state = "wait"
    BY <1>3, MailsAddedKeep DEF MailInv
  <2>2. /\ notified'[o] = n
        /\ \A p \in OrderIds \ {o} : notified'[p] = notified[p]
        /\ \A p \in OrderIds : notified[p] > 0 => notified'[p] > 0
    BY <1>3
  <2>3. /\ \A i \in DOMAIN mails : mails[i].data # o
        /\ confirmed[o] = 0
    <3>1. ~(notified[o] > 0) /\ confirmed[o] \in Nat
      BY <1>3 DEF MailInv, MailTypeOK
    <3>2. confirmed[o] = 0
      BY <3>1 DEF MailInv, MailsInOrder
    <3>3. \A i \in DOMAIN mails : mails[i].data # o
      BY <3>1 DEF MailInv, MailsInOrder
    <3> QED  BY <3>2, <3>3
  <2>4. MailTypeOK'
    BY <2>1 DEF MailInv, MailTypeOK
  <2>5. MailsInOrder'
    <3>1. \A i \in DOMAIN mails' : mails'[i].state = "active" => mails'[i].lock \in Mailers
      BY <2>1 DEF MailInv, MailsInOrder
    <3>2. \A m \in Mailers : mailing'[m].at = "logged" => confirmed'[mails'[mailing'[m].job].data] > 0
      BY <2>1, MailJobs DEF MailInv, MailsInOrder
    <3>3. \A i \in DOMAIN mails' : notified'[mails'[i].data] > 0
      BY <2>1, <2>2, MailJobs DEF MailInv, MailsInOrder
    <3>4. \A p \in OrderIds : confirmed'[p] > 0 => notified'[p] > 0
      BY <2>2 DEF MailInv, MailsInOrder
    <3> QED  BY <3>1, <3>2, <3>3, <3>4 DEF MailsInOrder
  <2>6. \A p \in OrderIds : Deaf(p)' \subseteq Deaf(p)
    BY <2>1, MailJobs DEF Deaf, MailQueue!Holds, MailInv
  <2>7. ASSUME NEW p \in OrderIds \ {o}
        PROVE  Owing(p)' \subseteq Owing(p)
    BY <2>1 DEF Owing
  <2>8. ASSUME NEW p \in OrderIds \ {o}
        PROVE  /\ IsFiniteSet(Owing(p)') /\ IsFiniteSet(Deaf(p)')
               /\ confirmed'[p] + Cardinality(Owing(p)') + Cardinality(Deaf(p)')
                    <= Allowed(p)' + faults'
    <3> DEFINE S == Owing(p)
               T == Deaf(p)
               S2 == Owing(p)'
               T2 == Deaf(p)'
               a == Allowed(p)
               c == confirmed[p]
    <3>1. /\ IsFiniteSet(S) /\ IsFiniteSet(T)
          /\ c + Cardinality(S) + Cardinality(T) <= a + faults
          /\ S2 \subseteq S /\ T2 \subseteq T
      BY <2>6, <2>7 DEF MailInv, Budget
    <3>2. a \in Nat /\ Allowed(p)' = a /\ c \in Nat /\ confirmed'[p] = c
      BY <2>2 DEF Allowed, MailInv, MailTypeOK
    <3> HIDE DEF S, T, S2, T2, a, c
    <3>3. /\ IsFiniteSet(S2) /\ IsFiniteSet(T2)
          /\ Cardinality(S) \in Nat /\ Cardinality(T) \in Nat
          /\ Cardinality(S2) \in Nat /\ Cardinality(T2) \in Nat
          /\ Cardinality(S2) <= Cardinality(S) /\ Cardinality(T2) <= Cardinality(T)
      BY <3>1, Fewer
    <3>4. c + Cardinality(S2) + Cardinality(T2) <= a + faults'
      BY <1>1, <3>1, <3>2, <3>3, Sums
    <3> QED  BY <3>2, <3>3, <3>4 DEF S2, T2
  <2>9. /\ IsFiniteSet(Owing(o)') /\ IsFiniteSet(Deaf(o)')
        /\ confirmed'[o] + Cardinality(Owing(o)') + Cardinality(Deaf(o)')
             <= Allowed(o)' + faults'
    <3>1. Deaf(o)' = {}
      BY <2>3, <2>6, MailJobs DEF Deaf, MailInv
    <3>2. Owing(o)' \subseteq Len(mails) + 1 .. Len(mails) + n /\ Len(mails) \in Nat
      BY <2>1, <2>3 DEF Owing, MailInv, MailTypeOK
    <3>3. /\ IsFiniteSet(Len(mails) + 1 .. Len(mails) + n)
          /\ Cardinality(Len(mails) + 1 .. Len(mails) + n) = n
      <4>1. Len(mails) + 1 \in Int /\ Len(mails) + n \in Int
            /\ ~(Len(mails) + 1 > Len(mails) + n)
            /\ (Len(mails) + n) - (Len(mails) + 1) + 1 = n
        BY <3>2
      <4> QED  BY <4>1, FS_Interval
    <3>4. /\ IsFiniteSet(Owing(o)') /\ Cardinality(Owing(o)') \in Nat
          /\ Cardinality(Owing(o)') <= n
      BY <3>2, <3>3, Fewer
    <3>5. IsFiniteSet(Deaf(o)') /\ Cardinality(Deaf(o)') = 0
      BY <3>1, FS_EmptySet
    <3>6. Allowed(o)' = 1 /\ n <= 1 + faults' /\ confirmed'[o] = 0
      <4>1. notified'[o] # 0
        BY <2>2
      <4>2. n = 1 => n <= 1 + faults'
        <5>1. \A f \in Nat : 1 <= 1 + f
          OBVIOUS
        <5> QED  BY <5>1
      <4>3. Fault("resent") => n <= 1 + faults'
        BY DEF Fault
      <4> QED  BY <1>3, <2>3, <4>1, <4>2, <4>3 DEF Allowed
    <3> QED  BY <3>4, <3>5, <3>6, FirstSum
  <2>10. Budget'
    BY <2>8, <2>9 DEF Budget
  <2> QED  BY <2>4, <2>5, <2>10 DEF MailInv
<1> QED  BY <1>2, <1>3 DEF NotifiesAtMost

-----------------------------------------------------------------------------
(* Behind every step of the whole there is one of the sale, or none: a     *)
(* fault of the service is a fault, and nothing else, to the sale.         *)
LEMMA MailFlow ==
  ASSUME TypeInv, [MailNext]_confirmationVars
  PROVE  FlowStep
<1>1. CASE \/ Next
           \/ UNCHANGED confirmationVars
           \/ \E m \in Mailers : (\E i \in DOMAIN mails : TakeMail(m, i)) \/ MailerStep(m)
  BY <1>1, FlowSteps DEF confirmationVars, TakeMail, MailerStep, LogConfirmation, FinishMail
<1>2. ASSUME NEW m \in Mailers, MailerCrash(m)
      PROVE  FlowStep
  BY <1>2, FaultType DEF FlowStep, MailerCrash, saleVars, TypeInv, TypeOK
<1>3. ASSUME NEW i \in DOMAIN mails, MailStalled(i)
      PROVE  FlowStep
  BY <1>3, FaultType DEF FlowStep, MailStalled, saleVars, TypeInv, TypeOK
<1> QED  BY <1>1, <1>2, <1>3 DEF MailNext

(* What the sale guarantees the notification service.                      *)
SaleSide == TypeInv /\ OrdersInv /\ NotifierInv

LEMMA MailSaleSide ==
  ASSUME SaleSide, [MailNext]_confirmationVars
  PROVE  SaleSide' /\ NotifiesAtMost
  BY MailFlow, StepTypeInv, StepOrders, StepNotifier DEF SaleSide

LEMMA InitMailInv == MailInit => SaleSide /\ MailInv
<1> SUFFICES ASSUME MailInit
             PROVE  SaleSide /\ MailInv
  OBVIOUS
<1>1. SaleSide
  BY InitTypeInv, InitOrdersInv, InitNotifierInv DEF MailInit, SaleSide
<1>2. MailTypeOK /\ MailsInOrder
  BY DEF MailInit, MailTypeOK, MailsInOrder, Resting
<1>3. Budget
  <2>1. \A o \in OrderIds : Owing(o) = {} /\ Deaf(o) = {} /\ confirmed[o] = 0
    BY DEF MailInit, Owing, Deaf, Resting
  <2>2. \A o \in OrderIds : notified[o] = 0 /\ faults = 0
    BY DEF MailInit, Init, GateInit, WorkerInit
  <2> QED  BY <2>1, <2>2, FS_EmptySet DEF Budget, Allowed
<1> QED  BY <1>1, <1>2, <1>3 DEF MailInv

LEMMA StepMailInv ==
  ASSUME SaleSide, MailInv, [MailNext]_confirmationVars
  PROVE  MailInv'
<1>1. /\ faults \in Nat /\ faults' \in Nat
      /\ notified \in [OrderIds -> Nat] /\ notified' \in [OrderIds -> Nat]
      /\ NotifiesAtMost
  BY MailSaleSide, FaultsAssumption DEF SaleSide, TypeInv, TypeOK, WorkerTypeOK
<1>2. CASE Next /\ MailsAdded /\ UNCHANGED <<mailing, confirmed>>
  BY <1>1, <1>2, SaleKeepsMail
<1>3. CASE UNCHANGED confirmationVars
  <2>1. UNCHANGED <<mails, mailing, confirmed, notified, faults>>
    BY <1>3 DEF confirmationVars, mailVars, vars, outcomeVars
  <2>2. MailTypeOK' /\ MailsInOrder'
    BY <2>1 DEF MailInv, MailTypeOK, MailsInOrder
  <2>3. \A o \in OrderIds : Quiet(o)
    BY <1>1, <2>1 DEF Quiet, Owing, Deaf, MailQueue!Holds
  <2> QED  BY <1>1, <2>1, <2>2, <2>3, StaysInBudget DEF MailInv, MailTypeOK
<1>4. ASSUME NEW m \in Mailers,
             \/ \E i \in DOMAIN mails : TakeMail(m, i)
             \/ MailerStep(m)
             \/ MailerCrash(m)
      PROVE  MailInv'
  BY <1>1, <1>4, TakeMailKeeps, LogKeeps, FinishKeeps, MailerCrashKeeps DEF MailerStep
<1>5. ASSUME NEW i \in DOMAIN mails, MailStalled(i)
      PROVE  MailInv'
  BY <1>1, <1>5, MailStalledKeeps
<1> QED  BY <1>2, <1>3, <1>4, <1>5 DEF MailNext

(* The inductive invariant of the notification service, with that of the   *)
(* orders behind it.                                                       *)
THEOREM MailInvariant == MailSpec => [](SaleSide /\ MailInv)
<1>1. SaleSide /\ MailInv /\ [MailNext]_confirmationVars => (SaleSide /\ MailInv)'
  BY MailSaleSide, StepMailInv
<1> QED  BY <1>1, InitMailInv, PTL DEF MailSpec

(* The queue and the mailers keep their types, and a job that is done was  *)
(* confirmed (notification.processor.ts:10-27).                            *)
THEOREM MailTypes == MailSpec => []MailTypeOK
<1>1. MailInv => MailTypeOK
  BY DEF MailInv
<1> QED  BY <1>1, MailInvariant, PTL

(* A customer is told again only at the cost of a fault each time          *)
(* it happens, whatever dies, stalls or is sent twice, and wherever.       *)
THEOREM RepetitionIsPaidFor == MailSpec => []RepeatsCostFaults
<1>1. ASSUME SaleSide, MailInv, NEW o \in OrderIds
      PROVE  confirmed[o] <= 1 + faults
  <2> DEFINE s == Cardinality(Owing(o))
             t == Cardinality(Deaf(o))
             c == confirmed[o]
             a == Allowed(o)
  <2>1. s \in Nat /\ t \in Nat /\ c + s + t <= a + faults
    BY <1>1, FS_CardinalityType DEF MailInv, Budget
  <2>2. c \in Nat /\ a \in 0 .. 1 /\ faults \in Nat
    BY <1>1, FaultsAssumption DEF MailInv, MailTypeOK, Allowed, SaleSide, TypeInv, TypeOK
  <2> HIDE DEF s, t, c, a
  <2>3. c <= 1 + faults
    BY <2>1, <2>2
  <2> QED  BY <2>3 DEF c
<1>2. SaleSide /\ MailInv => RepeatsCostFaults
  BY <1>1 DEF RepeatsCostFaults
<1> QED  BY <1>2, MailInvariant, PTL

(* Nobody is told of a ticket that he does not have: the order is in the   *)
(* table and its seat his for good.  This rests on the invariant of the    *)
(* seats, and so on the faults that it survives.                           *)
THEOREM ConfirmationsAreTrue ==
  ASSUME BackFaults
  PROVE  MailSpec => []ConfirmedIsBooked
<1>1. MailInit => BackInv
  BY InitSale DEF MailInit
<1>2. SaleSide /\ BackInv /\ [MailNext]_confirmationVars => BackInv'
  BY MailFlow, StepBacking DEF SaleSide
<1>3. ASSUME SaleSide, MailInv, BackInv, NEW o \in OrderIds, confirmed[o] > 0
      PROVE  /\ o \notin pending
             /\ \E row \in orders : row.id = o /\ row.customerEmail \in buyers[row.ticketId]
  <2>1. o \in RowIds \ pending
    BY <1>3 DEF MailInv, MailsInOrder, SaleSide, OrdersInv, EventsFollowState
  <2> QED  BY <1>3, <2>1, SeatsBackOrders DEF RowIds, OrdersBackedBySeats, SaleSide
<1>4. SaleSide /\ MailInv /\ BackInv => ConfirmedIsBooked
  BY <1>3 DEF ConfirmedIsBooked
<1> QED  BY <1>1, <1>2, <1>4, MailInvariant, PTL DEF MailSpec
=============================================================================
