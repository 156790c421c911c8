----------------------------- MODULE TicketInit -----------------------------
(***************************************************************************)
(* TicketsService.initTickets                                              *)
(* (apps/api-gateway/src/tickets/tickets.service.ts): an operator gives a  *)
(* ticket its stock.  A call is named by a member of InitCalls; it deletes *)
(* both keys of the ticket, then sets the stock, in two steps, and the     *)
(* client may send either command again.                                   *)
(***************************************************************************)
EXTENDS RedisService

CONSTANTS Counts,           \* the counts tickets are initialised with
          InitCalls,
          NoBody            \* of a call that has not been made

ASSUME InitAssumption == Counts \subseteq Nat \ {0}     \* InitTicketsDto: @Min(1)

VARIABLES
  initCall,     \* where each initialisation stands in initTickets
  initBody,     \* its ticketId and count
  capacity      \* history: the count each ticket was last initialised with

initVars == <<initCall, initBody, capacity>>

InitBodies == [ticketId : Tickets, count : Counts]

(* "set" and "setAgain": the SET comes next, for the first time or again.  *)
InitStates == {"idle", "set", "setAgain", "done", "failed"}

InitTypeOK == /\ initCall \in [InitCalls -> InitStates]
              /\ initBody \in [InitCalls -> InitBodies \cup {NoBody}]
              /\ \A c \in InitCalls : initCall[c] # "idle" => initBody[c] \in InitBodies
              /\ capacity \in [Tickets -> Nat]

NoInitCalls == /\ initCall = [c \in InitCalls |-> "idle"]
               /\ initBody = [c \in InitCalls |-> NoBody]

Initialising == {c \in InitCalls : initCall[c] \in {"set", "setAgain"}}

(* Tickets are initialised before they go on sale, one call at a time; an  *)
(* operator who does otherwise is the fault "reinit".                      *)
Unsold(t) == /\ stock[t] = NoKey
             /\ \A c \in Initialising : initBody[c].ticketId # t

DeleteKeys(t) == /\ stock' = [stock EXCEPT ![t] = NoKey]
                 /\ buyers' = [buyers EXCEPT ![t] = {}]

InitDel(c, t, n) ==
  /\ initCall[c] = "idle"
  /\ IF Unsold(t) THEN NoFault ELSE Fault("reinit")
  /\ DeleteKeys(t)
  /\ initBody' = [initBody EXCEPT ![c] = [ticketId |-> t, count |-> n]]
  /\ initCall' = [initCall EXCEPT ![c] = "set"]
  /\ UNCHANGED <<pending, capacity>>

(* The DEL runs again, after whatever others did since its first run.      *)
ResendDel(c) ==
  /\ initCall[c] = "set"
  /\ Fault("resentStock")
  /\ DeleteKeys(initBody[c].ticketId)
  /\ UNCHANGED <<pending, initVars>>

SetKey(c) == LET t == initBody[c].ticketId
                 n == initBody[c].count
             IN  /\ stock' = [stock EXCEPT ![t] = n]
                 /\ capacity' = [capacity EXCEPT ![t] = n]

(* The SET, after which the call is done, or is about to send it again.    *)
InitSet(c) ==
  /\ c \in Initialising
  /\ \/ NoFault /\ SetKey(c) /\ initCall' = [initCall EXCEPT ![c] = "done"]
     \/ Fault("resentStock") /\ SetKey(c) /\ initCall' = [initCall EXCEPT ![c] = "setAgain"]
     \/ /\ Fault("crash")
        /\ initCall' = [initCall EXCEPT ![c] = "failed"]
        /\ UNCHANGED <<stock, capacity>>
  /\ UNCHANGED <<buyers, pending, initBody>>

InitTickets(c) == \/ \E t \in Tickets, n \in Counts : InitDel(c, t, n)
                  \/ ResendDel(c)
                  \/ InitSet(c)
=============================================================================
