---------------------------- MODULE CheckoutForm ----------------------------
(***************************************************************************)
(* The checkout in the browser: an event's page                            *)
(* (apps/web/app/(marketing)/events/[eventId]/page.tsx) with its form      *)
(* (apps/web/components/checkout/checkout-form.tsx), in front of the       *)
(* gateways of TicketsService.  A form is a page on somebody's screen; one *)
(* customer may have several, leave them at any time and come back.        *)
(*                                                                         *)
(* A submission posts a request, whose answer comes later or not at all,   *)
(* and may find that the page is gone.  A request whose connection breaks  *)
(* can still reach a gateway, even after the next one.                     *)
(***************************************************************************)
EXTENDS TicketsService

CONSTANTS Forms,
          Blank             \* the content of an empty field

VARIABLES
  form,         \* what each page shows
  post,         \* what the browser sent with each request
  told          \* what each request was answered, in the browser

formVars == <<form, post, told>>
gateVars == <<redisVars, faults, jobs, callVars, openingVars>>
checkoutVars == <<gateVars, formVars>>

Messages == {"duplicate", "soldOut", "failed"}

ASSUME CheckoutAssumption == /\ Emails \subseteq RawEmails
                             /\ Blank \notin RawEmails \cup Requests \cup Tickets \cup Messages
                             /\ NoBody \notin Bodies

Pages == [at : {"closed", "broken", "editing", "submitting", "leaving"},
          ticketId : Tickets \cup {Blank},
          customerEmail : RawEmails \cup {Blank},
          errorMessage : Messages \cup {Blank},
          request : Requests \cup {Blank},      \* the last one submitted
          sent : SUBSET Requests]               \* history: all of them

Closed == [at |-> "closed", ticketId |-> Blank, customerEmail |-> Blank,
           errorMessage |-> Blank, request |-> Blank, sent |-> {}]

(* The types; a form that waits for an answer waits for one not given yet. *)
CheckoutTypeOK ==
  /\ RedisTypeOK
  /\ GateTypeOK
  /\ form \in [Forms -> Pages]
  /\ post \in [Requests -> Bodies \cup {NoBody}]
  /\ told \in [Requests -> Messages \cup {"nothing", "unheard", "accepted"}]
  /\ \A f \in Forms : form[f].at = "submitting" => told[form[f].request] = "nothing"

CheckoutInit == /\ GateInit
                /\ form = [f \in Forms |-> Closed]
                /\ post = [r \in Requests |-> NoBody]
                /\ told = [r \in Requests |-> "nothing"]

-----------------------------------------------------------------------------
(* EventDetailsPage: getEvent answers, or its error is thrown.             *)
OpenPage(f, t) ==
  /\ form[f].at = "closed"
  /\ \/ NoFault /\ form' = [form EXCEPT ![f].at = "editing", ![f].ticketId = t]
     \/ Fault("refused") /\ form' = [form EXCEPT ![f].at = "broken"]
  /\ UNCHANGED <<post, told>>

(* The page goes: its customer closes it or loads it again, or the router  *)
(* has arrived at the order page.                                          *)
Leave(f) ==
  /\ form[f].at # "closed"
  /\ form' = [form EXCEPT ![f] = Closed]
  /\ UNCHANGED <<faults, post, told>>

(* Wrong: the email can be edited while it is submitted.                   *)
TypeEmailAnytime(f, raw) ==
  /\ form[f].at \in {"editing", "submitting"}
  /\ form' = [form EXCEPT ![f].customerEmail = raw]
  /\ UNCHANGED <<faults, post, told>>

(* setCustomerEmail; the field is disabled while isSubmitting || isPending *)
TypeEmail(f, raw) ==
  /\ form[f].at = "editing"
  /\ form' = [form EXCEPT ![f].customerEmail = raw]
  /\ UNCHANGED <<faults, post, told>>

(* Requests are named in the order in which they are sent.                 *)
Unsent == {r \in Requests : post[r] = NoBody}

NextRequest == CHOOSE r \in Unsent : TRUE

(* handleSubmit up to its await of buyTicket: the button is disabled while *)
(* isSubmitting || isPending, and the field is required.                   *)
Submit(f, error) ==
  LET r == NextRequest
  IN  /\ form[f].at = "editing"
      /\ form[f].customerEmail # Blank
      /\ Unsent # {}
      /\ form' = [form EXCEPT ![f].at = "submitting",
                              ![f].errorMessage = error,
                              ![f].request = r,
                              ![f].sent = @ \cup {r}]
      /\ post' = [post EXCEPT ![r] = [ticketId |-> form[f].ticketId,
                                      customerEmail |-> Normalized[form[f].customerEmail]]]
      /\ UNCHANGED <<faults, told>>

(* Wrong: a new submission leaves the last error where it is.              *)
HandleSubmitKeepingError(f) == Submit(f, form[f].errorMessage)

HandleSubmit(f) == Submit(f, Blank)

Waiting(r) == {f \in Forms : form[f].at = "submitting" /\ form[f].request = r}

(* Wrong: isSubmitting is reset in a finally block.                        *)
FetchSettlesUnlocking(r, answer) ==
  /\ told[r] = "nothing"
  /\ told' = [told EXCEPT ![r] = IF Waiting(r) = {} THEN "unheard" ELSE answer]
  /\ form' = [f \in Forms |->
       IF f \notin Waiting(r) THEN form[f]
       ELSE [form[f] EXCEPT !.at = "editing",
                            !.errorMessage = IF answer = "accepted" THEN @ ELSE answer]]
  /\ UNCHANGED post

(* Wrong: the catch block returns without setIsSubmitting(false).          *)
FetchSettlesLocked(r, answer) ==
  /\ told[r] = "nothing"
  /\ told' = [told EXCEPT ![r] = IF Waiting(r) = {} THEN "unheard" ELSE answer]
  /\ form' = [f \in Forms |->
       IF f \notin Waiting(r) \/ answer # "accepted" THEN form[f]
       ELSE [form[f] EXCEPT !.at = "leaving"]]
  /\ UNCHANGED post

(* The rest of handleSubmit.  An accepted purchase starts the transition   *)
(* to its order page, and the form stays locked; anything else unlocks it  *)
(* with a message.                                                         *)
FetchSettles(r, answer) ==
  /\ told[r] = "nothing"
  /\ told' = [told EXCEPT ![r] = IF Waiting(r) = {} THEN "unheard" ELSE answer]
  /\ form' = [f \in Forms |->
       IF f \notin Waiting(r) THEN form[f]
       ELSE IF answer = "accepted" THEN [form[f] EXCEPT !.at = "leaving"]
       ELSE [form[f] EXCEPT !.at = "editing", !.errorMessage = answer]]
  /\ UNCHANGED post

(* The gateway answers with an order, with the reason of a refusal, or     *)
(* with an error, which is also what is left of it when it crashes.        *)
Answer(r) ==
  /\ \/ call[r] \in {"accepted", "duplicate", "soldOut"} /\ FetchSettles(r, call[r])
     \/ call[r] = "selfRefused" /\ FetchSettles(r, "duplicate")
     \/ call[r] \in {"failed", "stranded"} /\ FetchSettles(r, "failed")
  /\ UNCHANGED gateVars

(* The connection breaks, before or after the request arrived.             *)
ConnectionBreaks(r) ==
  /\ post[r] # NoBody
  /\ Fault("offline")
  /\ FetchSettles(r, "failed")
  /\ UNCHANGED <<redisVars, jobs, callVars, openingVars>>

FormStep(f) == \/ \E t \in Tickets : OpenPage(f, t)
               \/ \E raw \in RawEmails : TypeEmail(f, raw)
               \/ HandleSubmit(f)
               \/ Leave(f)

(* A gateway is given what a browser posted.                               *)
Posted == \A r \in Requests : body'[r] \in {body[r], post[r]}

CheckoutNext ==
  \/ GateNext /\ Posted /\ UNCHANGED formVars
  \/ \E f \in Forms : FormStep(f) /\ UNCHANGED <<redisVars, jobs, callVars, openingVars>>
  \/ \E r \in Requests : Answer(r) \/ ConnectionBreaks(r)

CheckoutSpec == CheckoutInit /\ [][CheckoutNext]_checkoutVars

-----------------------------------------------------------------------------
(* What a page says it is buying is what the gateway was asked for, and    *)
(* the order page it leads to is that of an accepted purchase of just that *)
(* (checkout-form.tsx:31-41, 99-127).                                      *)
ShownIsBought ==
  \A f \in Forms : form[f].at \in {"submitting", "leaving"} =>
    LET r == form[f].request
    IN  /\ post[r] = [ticketId |-> form[f].ticketId,
                      customerEmail |-> Normalized[form[f].customerEmail]]
        /\ form[f].at = "leaving" => call[r] = "accepted" /\ body[r] = post[r]

(* A request that holds a seat although its page was told that it does     *)
(* not: that it failed, or that the email has a reservation, which is its  *)
(* own.                                                                    *)
Disowned(r) == told[r] = "failed" \/ call[r] = "selfRefused"

(* A page buys one seat: of two that its submissions hold, under whatever  *)
(* emails, one was disowned (docs/adr/0011-event-catalog-                  *)
(* read-model-for-frontend-selection.md:85, checkout-form.tsx:28-51).      *)
OneSeatPerPage ==
  \A f \in Forms : \A r1, r2 \in {r \in form[f].sent : Holding(r)} :
    r1 = r2 \/ Disowned(r1) \/ Disowned(r2)

(* A page refuses what it has got only if it was misled: while it says     *)
(* that the email has a reservation, or that all is sold, none of its own  *)
(* submissions holds a seat, unless that one was disowned                  *)
(* (checkout-form.tsx:28, 43-50, tickets.service.ts:38-41).                *)
RefusalIsNotOwnSeat ==
  \A f \in Forms : form[f].errorMessage \in {"duplicate", "soldOut"} =>
    \A r \in form[f].sent : Holding(r) => Disowned(r)

(* What the form says: "Unexpected error. Please try again."               *)
(* (checkout-form.tsx:49).  So whoever does is not refused for the seat    *)
(* that his first try was given.                                           *)
TryAgainIsNotRefused ==
  \A f \in Forms : form[f].errorMessage = "duplicate" =>
    \A r \in form[f].sent : ~Holding(r)

-----------------------------------------------------------------------------
(* Liveness.  A request whose connection holds arrives, its gateway goes   *)
(* on with it and answers, and a transition ends.  Nobody has to submit.   *)
Arrives(r) == /\ \E t \in Tickets, raw \in RawEmails : Reserve(r, t, raw)
              /\ Posted
              /\ told[r] = "nothing"
              /\ UNCHANGED formVars

FairCheckoutSpec ==
  /\ CheckoutSpec
  /\ \A r \in Requests : /\ WF_checkoutVars(Arrives(r))
                          /\ WF_checkoutVars(CallProgress(r) /\ UNCHANGED formVars)
                          /\ WF_checkoutVars(Answer(r))

(* Whoever submits and stays is led to the page of his order or told why   *)
(* not, and can then submit again (checkout-form.tsx:26-52).               *)
SubmissionSettles ==
  \A f \in Forms : form[f].at = "submitting" ~>
    \/ form[f].at = "leaving" /\ call[form[f].request] = "accepted"
    \/ form[f].at = "editing" /\ form[f].errorMessage # Blank
    \/ form[f].at = "closed"
=============================================================================
