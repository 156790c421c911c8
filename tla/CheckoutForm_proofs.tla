------------------------- MODULE CheckoutForm_proofs --------------------------
(***************************************************************************)
(* The checkout, for every number of pages, customers and requests, and    *)
(* whatever the gateways and the connections do: a page buys what it       *)
(* shows, and gets a second seat, or refuses what it has got, only when a  *)
(* seat was disowned.                                                      *)
(*                                                                         *)
(* What the steps of the gateways keep is proved in FlashSale_types.       *)
(***************************************************************************)
EXTENDS CheckoutForm, FlashSale_types

FormTypes == /\ form \in [Forms -> Pages]
             /\ post \in [Requests -> Bodies \cup {NoBody}]
             /\ told \in [Requests -> Messages \cup {"nothing", "unheard", "accepted"}]

(* A gateway is only ever asked for what was posted; and what the browser  *)
(* was told of a request, but for a failure, is what became of it.         *)
PostInv ==
  \A r \in Requests :
    /\ body[r] \in {NoBody, post[r]}
    /\ post[r] = NoBody => call[r] = "idle" /\ told[r] = "nothing"
    /\ told[r] \in {"soldOut", "accepted"} => call[r] = told[r]
    /\ told[r] = "duplicate" => call[r] \in {"duplicate", "selfRefused"}

(* The requests that a page has sent before, and that it has heard of: all *)
(* but the one it waits for, or leaves with.                               *)
Heard(page) ==
  \A r \in page.sent :
    /\ post[r] # NoBody
    /\ told[r] \in Messages \/ (page.at \in {"submitting", "leaving"} /\ r = page.request)

(* What a page has posted is what it still shows.                          *)
ShowsItsPost(page) ==
  /\ page.request \in page.sent
  /\ post[page.request] = [ticketId |-> page.ticketId,
                           customerEmail |-> Normalized[page.customerEmail]]
  /\ page.errorMessage = Blank
  /\ told[page.request] = IF page.at = "leaving" THEN "accepted" ELSE "nothing"

PageInv ==
  \A f \in Forms :
    /\ Heard(form[f])
    /\ form[f].at \in {"closed", "broken"} => form[f].sent = {} /\ form[f].errorMessage = Blank
    /\ form[f].at \in {"submitting", "leaving"} => ShowsItsPost(form[f])
    /\ form[f].at \in {"editing", "submitting", "leaving"} => form[f].ticketId \in Tickets

CheckoutInv == GateTypes /\ FormTypes /\ PostInv /\ PageInv

-----------------------------------------------------------------------------
(* What follows from the invariant *)

LEMMA TypesFollow == CheckoutInv => CheckoutTypeOK
  BY DEF CheckoutInv, GateTypes, FormTypes, PageInv, ShowsItsPost, CheckoutTypeOK

(* Of the requests of a page that it has heard of, only those whose seat   *)
(* was disowned can hold one.                                              *)
LEMMA HolderDisowned ==
  ASSUME CheckoutInv, NEW r \in Requests, Holding(r), told[r] \in Messages
  PROVE  Disowned(r)
  BY DEF CheckoutInv, PostInv, Holding, Messages, Disowned

LEMMA ShownBought == CheckoutInv => ShownIsBought
<1> SUFFICES ASSUME CheckoutInv, NEW f \in Forms, form[f].at \in {"submitting", "leaving"}
             PROVE  LET r == form[f].request
                    IN  /\ post[r] = [ticketId |-> form[f].ticketId,
                                      customerEmail |-> Normalized[form[f].customerEmail]]
                        /\ form[f].at = "leaving" => call[r] = "accepted" /\ body[r] = post[r]
  BY DEF ShownIsBought
<1> DEFINE r == form[f].request
<1>1. ShowsItsPost(form[f]) /\ form[f] \in Pages
  BY DEF CheckoutInv, PageInv, FormTypes
<1>2. r \in Requests
  BY <1>1 DEF ShowsItsPost, Pages
<1>3. form[f].at = "leaving" => call[r] = "accepted"
  BY <1>1, <1>2 DEF ShowsItsPost, CheckoutInv, PostInv
<1>4. call[r] = "accepted" => body[r] \in Bodies /\ body[r] # NoBody
  BY <1>2, CheckoutAssumption DEF CheckoutInv, GateTypes, GateTypeOK
<1> QED  BY <1>1, <1>2, <1>3, <1>4 DEF ShowsItsPost, CheckoutInv, PostInv

LEMMA OneSeat == CheckoutInv => OneSeatPerPage
<1> SUFFICES ASSUME CheckoutInv, NEW f \in Forms,
                    NEW r1 \in form[f].sent, NEW r2 \in form[f].sent,
                    Holding(r1), Holding(r2), r1 # r2
             PROVE  Disowned(r1) \/ Disowned(r2)
  BY DEF OneSeatPerPage
<1>1. r1 \in Requests /\ r2 \in Requests
  BY DEF CheckoutInv, FormTypes, Pages
<1>2. told[r1] \in Messages \/ told[r2] \in Messages
  BY DEF CheckoutInv, PageInv, Heard
<1> QED  BY <1>1, <1>2, HolderDisowned

LEMMA NotRefused == CheckoutInv => RefusalIsNotOwnSeat
<1> SUFFICES ASSUME CheckoutInv, NEW f \in Forms,
                    form[f].errorMessage \in {"duplicate", "soldOut"},
                    NEW r \in form[f].sent, Holding(r)
             PROVE  Disowned(r)
  BY DEF RefusalIsNotOwnSeat
<1>1. r \in Requests /\ form[f] \in Pages
  BY DEF CheckoutInv, FormTypes, Pages
<1>2. form[f].at = "editing"
  <2>1. form[f].errorMessage # Blank
    BY CheckoutAssumption DEF Messages
  <2> QED  BY <1>1, <2>1 DEF CheckoutInv, PageInv, ShowsItsPost, Pages
<1>3. told[r] \in Messages
  BY <1>2 DEF CheckoutInv, PageInv, Heard
<1> QED  BY <1>1, <1>3, HolderDisowned

-----------------------------------------------------------------------------
(* The steps of the gateways *)

(* A request that nobody has posted does not arrive, and one that is       *)
(* answered stays what it was.                                             *)
LEMMA GateKeepsPosts ==
  ASSUME CheckoutInv, GateNext, Posted, UNCHANGED formVars
  PROVE  PostInv'
<1> USE DEF CheckoutInv, FormTypes, GateTypes, GateTypeOK
<1>1. UNCHANGED <<post, told>>
  BY DEF formVars
<1>2. ASSUME NEW r \in Requests
      PROVE  body'[r] \in {NoBody, post[r]}
  BY DEF Posted, PostInv
<1>3. ASSUME NEW r \in Requests, NEW q \in Requests, RequestStep(q),
             call[r] \in {"duplicate", "selfRefused", "soldOut", "accepted"} \/ r # q
      PROVE  call'[r] = call[r]
  BY <1>3 DEF RequestStep, Reserve, ResendReserve, MarkPending, Enqueue, Release, ResendRelease,
     ClearPendingOfFailedCall, GatewayCrash, Goto, callVars
<1>4. ASSUME NEW r \in Requests, post[r] = NoBody
      PROVE  call'[r] = call[r]
  <2>1. call[r] = "idle" /\ body'[r] = NoBody
    BY <1>2, <1>4 DEF PostInv
  <2>2. ASSUME RequestStep(r)
        PROVE  FALSE
    <3>1. PICK t \in Tickets, raw \in RawEmails : Reserve(r, t, raw)
      BY <2>1, <2>2 DEF RequestStep, ResendReserve, MarkPending, Enqueue, Release,
         ResendRelease, ClearPendingOfFailedCall, GatewayCrash
    <3>2. body'[r] = [ticketId |-> t, customerEmail |-> Normalized[raw]]
      BY <3>1 DEF Reserve
    <3>3. body'[r] \in Bodies
      BY <3>2, GatewayAssumption DEF Bodies
    <3> QED  BY <2>1, <3>3, CheckoutAssumption
  <2> QED  BY <1>3, <2>2 DEF GateNext, InitStep, Expire, callVars
<1>5. ASSUME NEW r \in Requests,
             call[r] \in {"duplicate", "selfRefused", "soldOut", "accepted"}
      PROVE  call'[r] = call[r]
  BY <1>3, <1>5 DEF GateNext, InitStep, Expire, callVars
<1> QED  BY <1>1, <1>2, <1>4, <1>5 DEF PostInv

LEMMA GateKeepsForms ==
  ASSUME CheckoutInv, GateNext, Posted, UNCHANGED formVars
  PROVE  CheckoutInv'
<1>1. GateTypes'
  BY GateNextType DEF CheckoutInv
<1>2. FormTypes' /\ PageInv'
  BY DEF formVars, CheckoutInv, FormTypes, PageInv, Heard, ShowsItsPost, Pages, Bodies
<1> QED  BY <1>1, <1>2, GateKeepsPosts DEF CheckoutInv

-----------------------------------------------------------------------------
(* The steps of a page *)

(* A step of a page that posts nothing: what has to hold of the page then. *)
LEMMA PageKeeps ==
  ASSUME CheckoutInv, NEW f \in Forms, NEW page \in Pages,
         form' = [form EXCEPT ![f] = page],
         UNCHANGED <<post, told, redisVars, jobs, callVars, openingVars>>,
         faults' \in 0 .. MaxFaults,
         page.at \in {"closed", "broken"} => page.sent = {} /\ page.errorMessage = Blank,
         page.at = "editing" => page.ticketId \in Tickets,
         page.at \notin {"submitting", "leaving"},
         Heard(page)
  PROVE  CheckoutInv'
<1>1. GateTypes'
  BY DEF CheckoutInv, GateTypes, RedisTypeOK, GateTypeOK, InitTypeOK, redisVars, callVars,
     openingVars, initVars
<1>2. FormTypes'
  BY DEF CheckoutInv, FormTypes, Pages, Bodies
<1>3. PostInv'
  BY DEF CheckoutInv, PostInv, callVars
<1>4. PageInv'
  <2>1. \A g \in Forms : form'[g] = IF g = f THEN page ELSE form[g]
    BY DEF CheckoutInv, FormTypes
  <2>2. /\ \A any : Heard(any)' <=> Heard(any)
        /\ \A any : ShowsItsPost(any)' <=> ShowsItsPost(any)
    BY DEF Heard, ShowsItsPost
  <2>3. ASSUME NEW g \in Forms
        PROVE  /\ Heard(form'[g])
               /\ form'[g].at \in {"closed", "broken"} =>
                    form'[g].sent = {} /\ form'[g].errorMessage = Blank
               /\ form'[g].at \in {"submitting", "leaving"} => ShowsItsPost(form'[g])
               /\ form'[g].at \in {"editing", "submitting", "leaving"} => form'[g].ticketId \in Tickets
    <3>1. CASE g = f
      BY <2>1, <3>1
    <3>2. CASE g # f
      BY <2>1, <3>2 DEF CheckoutInv, PageInv
    <3> QED  BY <3>1, <3>2
  <2>4. ASSUME NEW g \in Forms PROVE Heard(form[g])' /\ (form'[g].at \in {"submitting", "leaving"} => ShowsItsPost(form[g])')
    BY <2>3 DEF Heard, ShowsItsPost
  <2> QED  BY <2>3, <2>4 DEF PageInv
<1> QED  BY <1>1, <1>2, <1>3, <1>4 DEF CheckoutInv

LEMMA OpenPageKeeps ==
  ASSUME CheckoutInv, NEW f \in Forms, NEW t \in Tickets, OpenPage(f, t),
         UNCHANGED <<redisVars, jobs, callVars, openingVars>>
  PROVE  CheckoutInv'
<1>1. form[f] \in Pages /\ form[f].sent = {} /\ form[f].errorMessage = Blank
  BY DEF OpenPage, CheckoutInv, FormTypes, PageInv
<1>2. faults' \in 0 .. MaxFaults /\ UNCHANGED <<post, told>>
  BY FaultType DEF OpenPage, CheckoutInv, GateTypes
<1>3. CASE form' = [form EXCEPT ![f].at = "editing", ![f].ticketId = t]
  <2> DEFINE page == [form[f] EXCEPT !.at = "editing", !.ticketId = t]
  <2>1. form' = [form EXCEPT ![f] = page]
    BY <1>3 DEF CheckoutInv, FormTypes
  <2>2. page \in Pages /\ page.sent = {} /\ page.at = "editing" /\ page.ticketId = t
    BY <1>1 DEF Pages
  <2> HIDE DEF page
  <2>3. Heard(page)
    BY <2>2 DEF Heard
  <2> QED  BY <1>2, <2>1, <2>2, <2>3, PageKeeps
<1>4. CASE form' = [form EXCEPT ![f].at = "broken"]
  <2> DEFINE page == [form[f] EXCEPT !.at = "broken"]
  <2>1. form' = [form EXCEPT ![f] = page]
    BY <1>4 DEF CheckoutInv, FormTypes
  <2>2. page \in Pages /\ page.sent = {} /\ page.at = "broken" /\ page.errorMessage = Blank
    BY <1>1 DEF Pages
  <2> HIDE DEF page
  <2>3. Heard(page)
    BY <2>2 DEF Heard
  <2> QED  BY <1>2, <2>1, <2>2, <2>3, PageKeeps
<1> QED  BY <1>3, <1>4 DEF OpenPage

LEMMA LeaveKeeps ==
  ASSUME CheckoutInv, NEW f \in Forms, Leave(f),
         UNCHANGED <<redisVars, jobs, callVars, openingVars>>
  PROVE  CheckoutInv'
<1>1. form' = [form EXCEPT ![f] = Closed] /\ UNCHANGED <<faults, post, told>>
  BY DEF Leave
<1>2. /\ Closed \in Pages /\ Closed.sent = {} /\ Closed.at = "closed"
      /\ Closed.errorMessage = Blank
  BY DEF Closed, Pages
<1>3. Heard(Closed) /\ faults' \in 0 .. MaxFaults
  BY <1>1, <1>2 DEF Heard, CheckoutInv, GateTypes
<1> QED  BY <1>1, <1>2, <1>3, PageKeeps

LEMMA TypeEmailKeeps ==
  ASSUME CheckoutInv, NEW f \in Forms, NEW raw \in RawEmails, TypeEmail(f, raw),
         UNCHANGED <<redisVars, jobs, callVars, openingVars>>
  PROVE  CheckoutInv'
<1> DEFINE page == [form[f] EXCEPT !.customerEmail = raw]
<1>1. form' = [form EXCEPT ![f] = page] /\ UNCHANGED <<faults, post, told>>
  BY DEF TypeEmail, CheckoutInv, FormTypes
<1>2. /\ form[f] \in Pages /\ form[f].at = "editing" /\ form[f].ticketId \in Tickets
      /\ Heard(form[f])
  BY DEF TypeEmail, CheckoutInv, FormTypes, PageInv
<1>3. /\ page \in Pages /\ page.at = "editing" /\ page.ticketId \in Tickets
      /\ page.sent = form[f].sent
  BY <1>2 DEF Pages
<1> HIDE DEF page
<1>4. Heard(page) /\ faults' \in 0 .. MaxFaults
  BY <1>1, <1>2, <1>3 DEF Heard, CheckoutInv, GateTypes
<1> QED  BY <1>1, <1>3, <1>4, PageKeeps

(* A submission names a request that nobody has sent, so it is in no other *)
(* page's way.                                                             *)
LEMMA SubmitKeeps ==
  ASSUME CheckoutInv, NEW f \in Forms, HandleSubmit(f),
         UNCHANGED <<redisVars, jobs, callVars, openingVars>>
  PROVE  CheckoutInv'
<1> DEFINE r == NextRequest
           page == [form[f] EXCEPT !.at = "submitting", !.errorMessage = Blank,
                                   !.request = r, !.sent = @ \cup {r}]
           asked == [ticketId |-> form[f].ticketId,
                     customerEmail |-> Normalized[form[f].customerEmail]]
<1>1. /\ form[f].at = "editing" /\ form[f].customerEmail # Blank /\ Unsent # {}
      /\ form' = [form EXCEPT ![f] = page] /\ post' = [post EXCEPT ![r] = asked]
      /\ UNCHANGED <<faults, told>>
  <2>1. Submit(f, Blank)
    BY DEF HandleSubmit
  <2>2. form' = [form EXCEPT ![f] = page]
    BY <2>1 DEF Submit, CheckoutInv, FormTypes
  <2>3. post' = [post EXCEPT ![r] = asked]
    BY <2>1 DEF Submit
  <2> QED  BY <2>1, <2>2, <2>3 DEF Submit
<1>2. r \in Requests /\ post[r] = NoBody
  BY <1>1 DEF NextRequest, Unsent
<1> HIDE DEF r
<1>3. /\ form[f] \in Pages /\ form[f].ticketId \in Tickets /\ Heard(form[f])
      /\ told[r] = "nothing" /\ call[r] = "idle"
  BY <1>1, <1>2 DEF CheckoutInv, FormTypes, PageInv, PostInv
<1>4. asked \in Bodies /\ asked # NoBody
  <2>1. form[f].customerEmail \in RawEmails
    BY <1>1, <1>3 DEF Pages
  <2> QED  BY <1>3, <2>1, GatewayAssumption, CheckoutAssumption DEF Bodies
<1>5. /\ page \in Pages /\ page.at = "submitting" /\ page.errorMessage = Blank
      /\ page.request = r /\ page.sent = form[f].sent \cup {r}
      /\ asked = [ticketId |-> page.ticketId, customerEmail |-> Normalized[page.customerEmail]]
      /\ page.ticketId \in Tickets
  BY <1>2, <1>3 DEF Pages
<1> HIDE DEF page, asked
<1>6. GateTypes'
  BY <1>1 DEF CheckoutInv, GateTypes, RedisTypeOK, GateTypeOK, InitTypeOK, redisVars, callVars,
              openingVars, initVars
<1>7. FormTypes'
  BY <1>1, <1>4, <1>5 DEF CheckoutInv, FormTypes, Pages, Bodies
<1>8. /\ post'[r] = asked /\ \A q \in Requests \ {r} : post'[q] = post[q]
      /\ form'[f] = page /\ \A g \in Forms \ {f} : form'[g] = form[g]
  BY <1>1, <1>2 DEF CheckoutInv, FormTypes
<1>9. body[r] = NoBody
  BY <1>2 DEF CheckoutInv, PostInv
<1>10. PostInv'
  BY <1>1, <1>3, <1>4, <1>8, <1>9 DEF CheckoutInv, PostInv, callVars
<1>11. PageInv'
  <2>1. ASSUME NEW g \in Forms, g # f
        PROVE  /\ Heard(form[g])'
               /\ form[g].at \in {"submitting", "leaving"} => ShowsItsPost(form[g])'
    <3>1. form[g].sent \in SUBSET Requests /\ Heard(form[g]) /\ r \notin form[g].sent
      BY <1>2 DEF CheckoutInv, FormTypes, Pages, PageInv, Heard
    <3>2. Heard(form[g])'
      BY <1>1, <1>8, <2>1, <3>1 DEF Heard
    <3>3. ASSUME form[g].at \in {"submitting", "leaving"}
          PROVE  ShowsItsPost(form[g])'
      BY <1>1, <1>8, <2>1, <3>1, <3>3 DEF ShowsItsPost, CheckoutInv, PageInv
    <3> QED  BY <3>2, <3>3
  <2>2. Heard(form[f])'
    <3>1. \A q \in form[f].sent : q # r /\ q \in Requests /\ told[q] \in Messages /\ post[q] # NoBody
      BY <1>1, <1>2, <1>3 DEF Heard, Pages
    <3> QED  BY <1>1, <1>4, <1>5, <1>8, <3>1 DEF Heard
  <2>3. ShowsItsPost(form[f])'
    BY <1>1, <1>3, <1>5, <1>8 DEF ShowsItsPost
  <2> QED  BY <1>5, <1>8, <2>1, <2>2, <2>3 DEF PageInv, CheckoutInv
<1> QED  BY <1>6, <1>7, <1>10, <1>11 DEF CheckoutInv

(* An answer, or a broken connection, is heard by the page that waits for  *)
(* it, if there still is one.                                              *)
LEMMA SettlesKeeps ==
  ASSUME CheckoutInv, NEW r \in Requests, NEW answer \in Messages \cup {"accepted"},
         FetchSettles(r, answer), post[r] # NoBody,
         answer \in {"soldOut", "accepted"} => call[r] = answer,
         answer = "duplicate" => call[r] \in {"duplicate", "selfRefused"},
         UNCHANGED <<redisVars, jobs, callVars, openingVars>>,
         faults' \in 0 .. MaxFaults
  PROVE  CheckoutInv'
<1>1. GateTypes'
  BY DEF CheckoutInv, GateTypes, RedisTypeOK, GateTypeOK, InitTypeOK, redisVars, callVars,
     openingVars, initVars
<1>2. /\ told[r] = "nothing" /\ UNCHANGED post
      /\ told' \in [Requests -> Messages \cup {"nothing", "unheard", "accepted"}]
      /\ told'[r] = IF Waiting(r) = {} THEN "unheard" ELSE answer
      /\ \A q \in Requests \ {r} : told'[q] = told[q]
  BY DEF FetchSettles, CheckoutInv, FormTypes
<1>3. /\ form' = [f \in Forms |-> form'[f]]
      /\ \A f \in Forms \ Waiting(r) : form'[f] = form[f]
      /\ \A f \in Waiting(r) : form'[f] =
           IF answer = "accepted" THEN [form[f] EXCEPT !.at = "leaving"]
           ELSE [form[f] EXCEPT !.at = "editing", !.errorMessage = answer]
  BY DEF FetchSettles, Waiting
<1>4. ASSUME NEW f \in Waiting(r)
      PROVE  /\ form'[f] \in Pages /\ form'[f].ticketId = form[f].ticketId
             /\ form'[f].sent = form[f].sent /\ form'[f].request = r
             /\ form'[f].customerEmail = form[f].customerEmail
             /\ form[f].at = "submitting" /\ form[f].request = r
             /\ \/ answer = "accepted" /\ form'[f].at = "leaving"
                     /\ form'[f].errorMessage = form[f].errorMessage
                \/ answer \in Messages /\ form'[f].at = "editing"
  <2>1. f \in Forms /\ form[f] \in Pages /\ form[f].at = "submitting" /\ form[f].request = r
    BY DEF Waiting, CheckoutInv, FormTypes
  <2>2. CASE answer = "accepted"
    BY <1>3, <2>1, <2>2 DEF Pages
  <2>3. CASE answer # "accepted"
    <3>1. answer \in Messages
      BY <2>3
    <3>2. form'[f] = [form[f] EXCEPT !.at = "editing", !.errorMessage = answer]
      BY <1>3, <2>3
    <3>3. /\ form'[f] \in Pages /\ form'[f].at = "editing"
          /\ form'[f].ticketId = form[f].ticketId /\ form'[f].request = form[f].request
          /\ form'[f].customerEmail = form[f].customerEmail /\ form'[f].sent = form[f].sent
      BY <2>1, <3>1, <3>2 DEF Pages
    <3> QED  BY <2>1, <3>1, <3>3
  <2> QED  BY <2>1, <2>2, <2>3
<1>5. FormTypes'
  <2>1. ASSUME NEW f \in Forms PROVE form'[f] \in Pages
    <3>1. CASE f \in Waiting(r)
      BY <1>4, <3>1
    <3>2. CASE f \notin Waiting(r)
      BY <1>3, <3>2 DEF CheckoutInv, FormTypes
    <3> QED  BY <3>1, <3>2
  <2>2. form' \in [Forms -> Pages]
    BY <1>3, <2>1
  <2> QED  BY <1>2, <2>2 DEF CheckoutInv, FormTypes, Pages, Bodies
<1>6. PostInv'
  BY <1>2 DEF CheckoutInv, PostInv, callVars, Messages
<1>7. PageInv'
  <2>1. ASSUME NEW f \in Forms \ Waiting(r)
        PROVE  /\ Heard(form[f])'
               /\ form[f].at \in {"submitting", "leaving"} => ShowsItsPost(form[f])'
    <3>1. /\ form[f].sent \in SUBSET Requests /\ Heard(form[f])
          /\ form[f].at \in {"submitting", "leaving"} => ShowsItsPost(form[f])
      BY DEF CheckoutInv, FormTypes, Pages, PageInv
    <3>2. r \notin form[f].sent
      BY <1>2, <3>1 DEF Heard, ShowsItsPost, Waiting, Messages
    <3>3. Heard(form[f])'
      BY <1>2, <1>3, <3>1, <3>2 DEF Heard
    <3>4. ASSUME form[f].at \in {"submitting", "leaving"}
          PROVE  ShowsItsPost(form[f])'
      BY <1>2, <1>3, <3>1, <3>2, <3>4 DEF ShowsItsPost
    <3> QED  BY <3>3, <3>4
  <2>2. ASSUME NEW f \in Waiting(r)
        PROVE  /\ Heard(form[f])'
               /\ form'[f].at \in {"submitting", "leaving"} => ShowsItsPost(form[f])'
               /\ form'[f].at \in {"editing", "leaving"} /\ form'[f].ticketId \in Tickets
    <3>1. /\ f \in Forms /\ Heard(form[f]) /\ ShowsItsPost(form[f])
          /\ form[f].sent \in SUBSET Requests /\ form[f].ticketId \in Tickets
      BY <1>4 DEF Waiting, CheckoutInv, FormTypes, Pages, PageInv
    <3>2. told'[r] = answer
      BY <1>2, <2>2
    <3>3. Heard(form[f])'
      BY <1>2, <1>4, <2>2, <3>1, <3>2 DEF Heard
    <3>4. ASSUME form'[f].at \in {"submitting", "leaving"}
          PROVE  ShowsItsPost(form[f])'
      BY <1>2, <1>4, <2>2, <3>1, <3>2, <3>4 DEF ShowsItsPost
    <3> QED  BY <1>4, <2>2, <3>1, <3>3, <3>4
  <2>3. \A f \in Forms \ Waiting(r) : form'[f] = form[f]
    BY <1>3
  <2> QED  BY <2>1, <2>2, <2>3 DEF PageInv, CheckoutInv
<1> QED  BY <1>1, <1>5, <1>6, <1>7 DEF CheckoutInv

LEMMA AnswerKeeps ==
  ASSUME CheckoutInv, NEW r \in Requests, Answer(r) \/ ConnectionBreaks(r)
  PROVE  CheckoutInv'
<1>1. UNCHANGED <<redisVars, jobs, callVars, openingVars>> /\ faults' \in 0 .. MaxFaults
  BY FaultType DEF Answer, ConnectionBreaks, gateVars, CheckoutInv, GateTypes
<1>2. post[r] # NoBody
  BY DEF Answer, ConnectionBreaks, CheckoutInv, PostInv
<1>3. \/ call[r] \in {"accepted", "duplicate", "soldOut"} /\ FetchSettles(r, call[r])
      \/ call[r] = "selfRefused" /\ FetchSettles(r, "duplicate")
      \/ FetchSettles(r, "failed")
  BY DEF Answer, ConnectionBreaks
<1>4. CASE call[r] \in {"accepted", "duplicate", "soldOut"} /\ FetchSettles(r, call[r])
  <2>1. PICK answer \in Messages \cup {"accepted"} : answer = call[r]
    BY <1>4 DEF Messages
  <2> QED  BY <1>1, <1>2, <1>4, <2>1, SettlesKeeps
<1>5. CASE call[r] = "selfRefused" /\ FetchSettles(r, "duplicate")
  <2>1. PICK answer \in Messages \cup {"accepted"} : answer = "duplicate"
    BY DEF Messages
  <2>2. answer # "accepted" /\ (answer = "duplicate" => call[r] \in {"duplicate", "selfRefused"})
    BY <1>5, <2>1
  <2> QED  BY <1>1, <1>2, <1>5, <2>1, <2>2, SettlesKeeps
<1>6. CASE FetchSettles(r, "failed")
  <2>1. PICK answer \in Messages \cup {"accepted"} : answer = "failed"
    BY DEF Messages
  <2> QED  BY <1>1, <1>2, <1>6, <2>1, SettlesKeeps
<1> QED  BY <1>3, <1>4, <1>5, <1>6

-----------------------------------------------------------------------------
(* The theorems *)

LEMMA InitCheckoutInv == CheckoutInit => CheckoutInv
<1> SUFFICES ASSUME CheckoutInit PROVE CheckoutInv
  OBVIOUS
<1>1. GateTypes
  BY FaultsAssumption DEF CheckoutInit, GateInit, NoInitCalls, RedisInit, GateTypes, RedisTypeOK,
     GateTypeOK, InitTypeOK, InitStates, CallStates, Requests
<1>2. Closed \in Pages /\ Closed.sent = {} /\ Closed.errorMessage = Blank /\ Closed.at = "closed"
  BY DEF Closed, Pages
<1>3. FormTypes
  BY <1>2 DEF CheckoutInit, FormTypes
<1>4. PostInv
  BY DEF CheckoutInit, GateInit, PostInv
<1>5. PageInv
  BY <1>2 DEF CheckoutInit, PageInv, Heard
<1> QED  BY <1>1, <1>3, <1>4, <1>5 DEF CheckoutInv

LEMMA NextCheckoutInv ==
  ASSUME CheckoutInv, [CheckoutNext]_checkoutVars
  PROVE  CheckoutInv'
<1>1. CASE GateNext /\ Posted /\ UNCHANGED formVars
  BY <1>1, GateKeepsForms
<1>2. ASSUME NEW f \in Forms, FormStep(f), UNCHANGED <<redisVars, jobs, callVars, openingVars>>
      PROVE  CheckoutInv'
  BY <1>2, OpenPageKeeps, TypeEmailKeeps, SubmitKeeps, LeaveKeeps DEF FormStep
<1>3. ASSUME NEW r \in Requests, Answer(r) \/ ConnectionBreaks(r)
      PROVE  CheckoutInv'
  BY <1>3, AnswerKeeps
<1>4. CASE UNCHANGED checkoutVars
  <2>1. UNCHANGED <<stock, buyers, pending, faults, call, body, initCall, initBody, capacity,
                    offered, form, post, told>>
    BY <1>4 DEF checkoutVars, gateVars, formVars, redisVars, callVars,
     openingVars, initVars
  <2>2. GateTypes' /\ FormTypes'
    BY <2>1 DEF CheckoutInv, GateTypes, RedisTypeOK, GateTypeOK, InitTypeOK, InitBodies, FormTypes,
                Pages, Bodies
  <2>3. PostInv' /\ PageInv'
    BY <2>1 DEF CheckoutInv, PostInv, PageInv, Heard, ShowsItsPost
  <2> QED  BY <2>2, <2>3 DEF CheckoutInv
<1> QED  BY <1>1, <1>2, <1>3, <1>4 DEF CheckoutNext

(* The invariant the others follow from.                                   *)
THEOREM CheckoutInvariant == CheckoutSpec => []CheckoutInv
<1>1. CheckoutInit => CheckoutInv
  BY InitCheckoutInv
<1>2. CheckoutInv /\ [CheckoutNext]_checkoutVars => CheckoutInv'
  BY NextCheckoutInv
<1> QED  BY <1>1, <1>2, PTL DEF CheckoutSpec

(* The types; a form that waits for an answer waits for one not given yet. *)
THEOREM CheckoutTypes == CheckoutSpec => []CheckoutTypeOK
<1> QED  BY TypesFollow, CheckoutInvariant, PTL

(* What a page says it is buying is what the gateway was asked for         *)
(* (checkout-form.tsx:31-41, 99-127).                                      *)
THEOREM BuysWhatItShows == CheckoutSpec => []ShownIsBought
<1> QED  BY ShownBought, CheckoutInvariant, PTL

(* A page buys one seat: of two that its submissions hold, one was         *)
(* disowned, as a failure or as the duplicate of itself                    *)
(* (checkout-form.tsx:28-51).                                              *)
THEOREM APageBuysOnce == CheckoutSpec => []OneSeatPerPage
<1> QED  BY OneSeat, CheckoutInvariant, PTL

(* A page refuses none of its own seats but one that was disowned          *)
(* (checkout-form.tsx:28, 43-50).                                          *)
THEOREM NobodyRefusesHimself == CheckoutSpec => []RefusalIsNotOwnSeat
<1> QED  BY NotRefused, CheckoutInvariant, PTL
=============================================================================
