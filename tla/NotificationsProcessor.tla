----------------------- MODULE NotificationsProcessor -----------------------
(***************************************************************************)
(* The notification service behind the sale: NotificationsProcessor        *)
(* (apps/notification-service/src/notification.processor.ts), which sends  *)
(* a customer the confirmation of his order.  The jobs that the order      *)
(* workers add have no options, so BullMQ attempts them once               *)
(* (order-worker.processor.ts:91-96).                                      *)
(***************************************************************************)
EXTENDS FlashSale

CONSTANT Mailers            \* the processes of the notification service

VARIABLES mails,            \* the jobs of notification-queue
          mailing,          \* what each mailer is at, and with which job
          confirmed         \* history: how often each order was confirmed

saleVars == <<redisVars, jobs, callVars, openingVars, processVars, outcomeVars>>
mailVars == <<mails, mailing, confirmed>>
confirmationVars == <<vars, mailVars>>

MailQueue == INSTANCE OrderQueue WITH
  jobs <- mails, Workers <- Mailers, Attempts <- 1

Resting == [at |-> "idle", job |-> 0]

(* The types; a mailer at work has a job of the queue, and a job that is   *)
(* done was confirmed.                                                     *)
MailTypeOK ==
  /\ mails \in Seq(MailQueue!JobType(OrderIds))
  /\ mailing \in [Mailers -> [at : {"idle", "delay", "logged"},
                              job : {0} \cup DOMAIN mails]]
  /\ confirmed \in [OrderIds -> Nat]
  /\ \A m \in Mailers : (mailing[m].at = "idle") <=> (mailing[m].job = 0)
  /\ \A i \in DOMAIN mails :
       mails[i].state = "completed" => confirmed[mails[i].data] > 0

MailInit == /\ Init
            /\ mails = << >>
            /\ mailing = [m \in Mailers |-> Resting]
            /\ confirmed = [o \in OrderIds |-> 0]

(* What notificationQueue.add adds, in the step that counts it: each time  *)
(* an order is counted, a job with its data.                               *)
MailsAdded ==
  mails' = IF notified' = notified THEN mails
           ELSE LET o == CHOOSE o \in OrderIds : notified'[o] # notified[o]
                IN  mails \o [i \in 1 .. notified'[o] - notified[o] |->
                                MailQueue!NewJob(o)]

-----------------------------------------------------------------------------
(* Wrong: the timeout is not awaited, so the job is done at once.          *)
TakeMailUnawaited(m, i) ==
  /\ mailing[m].at = "idle"
  /\ mails[i].state = "wait"
  /\ MailQueue!Change(i, [mails[i] EXCEPT !.state = "completed"])
  /\ mailing' = [mailing EXCEPT ![m] = [at |-> "delay", job |-> i]]
  /\ UNCHANGED <<vars, confirmed>>

(* process() is called, and awaits its timeout of 500 ms.                  *)
TakeMail(m, i) ==
  /\ mailing[m].at = "idle"
  /\ MailQueue!TakeJob(m, i)
  /\ mailing' = [mailing EXCEPT ![m] = [at |-> "delay", job |-> i]]
  /\ UNCHANGED <<vars, confirmed>>

(* The timer fires: the confirmation is logged, which stands for sent.     *)
LogConfirmation(m) ==
  /\ mailing[m].at = "delay"
  /\ confirmed' = [confirmed EXCEPT ![mails[mailing[m].job].data] = @ + 1]
  /\ mailing' = [mailing EXCEPT ![m].at = "logged"]
  /\ UNCHANGED <<vars, mails>>

(* Wrong: the job is not reported as done.                                 *)
FinishMailUnreported(m) ==
  /\ mailing[m].at = "logged"
  /\ mailing' = [mailing EXCEPT ![m] = Resting]
  /\ UNCHANGED <<vars, mails, confirmed>>

(* process() returns, and BullMQ completes the job.                        *)
FinishMail(m) ==
  /\ mailing[m].at = "logged"
  /\ MailQueue!CompleteJob(m, mailing[m].job)
  /\ mailing' = [mailing EXCEPT ![m] = Resting]
  /\ UNCHANGED <<vars, confirmed>>

(* The service dies, before it has sent or before it could say that it     *)
(* has; or its event loop is blocked until the lock is gone.               *)
MailerCrash(m) ==
  /\ mailing[m].at # "idle"
  /\ Fault("mailer")
  /\ mailing' = [mailing EXCEPT ![m] = Resting]
  /\ UNCHANGED <<saleVars, mails, confirmed>>

MailStalled(i) ==
  /\ MailQueue!RequeueStalled(i)
  /\ IF mailing[mails[i].lock].job = i THEN Fault("mailer") ELSE NoFault
  /\ UNCHANGED <<saleVars, mailing, confirmed>>

MailerStep(m) == LogConfirmation(m) \/ FinishMail(m)

MailNext == \/ Next /\ MailsAdded /\ UNCHANGED <<mailing, confirmed>>
            \/ \E m \in Mailers : \/ \E i \in DOMAIN mails : TakeMail(m, i)
                                  \/ MailerStep(m)
                                  \/ MailerCrash(m)
            \/ \E i \in DOMAIN mails : MailStalled(i)

MailSpec == MailInit /\ [][MailNext]_confirmationVars

FairMailSpec ==
  /\ MailSpec
  /\ Fairness
  /\ \A m \in Mailers : WF_confirmationVars(MailerStep(m))
  /\ WF_confirmationVars(\E m \in Mailers, i \in DOMAIN mails : TakeMail(m, i))
  /\ WF_confirmationVars(\E i \in DOMAIN mails : MailStalled(i))

-----------------------------------------------------------------------------
(* Nobody is told that his ticket is booked unless it is: the order is in  *)
(* the table, its seat is its customer's for good, and it no longer shows  *)
(* as pending (notification.processor.ts:16-26).                           *)
ConfirmedIsBooked ==
  \A o \in OrderIds : confirmed[o] > 0 =>
    /\ o \notin pending
    /\ \E row \in orders : row.id = o /\ row.customerEmail \in buyers[row.ticketId]

(* A confirmation is repeated only when something went wrong: each one     *)
(* after the first has cost a fault (notification.processor.ts:10-27).     *)
RepeatsCostFaults == \A o \in OrderIds : confirmed[o] <= 1 + faults

(* Every accepted purchase is confirmed to its customer, all the way from  *)
(* the request through both queues, if nothing fails; and a notification   *)
(* that was queued is sent, if the service does not fail more often than   *)
(* BullMQ forgives (order-worker.processor.ts:91-98).                      *)
AcceptedEventuallyConfirmed ==
  \A o \in OrderIds :
    /\ call[o] = "accepted" ~> (confirmed[o] > 0 \/ faults > 0)
    /\ notified[o] > 0 ~> (confirmed[o] > 0 \/ faults > MaxStalls)
=============================================================================
