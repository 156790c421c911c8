------------------------- MODULE OrderStatusStream --------------------------
(***************************************************************************)
(* The order page in the browser: the component OrderStatusStream          *)
(* (apps/web/components/checkout/order-status-stream.tsx), which shows an  *)
(* accepted order and follows it over an EventSource until it is           *)
(* completed, reconnecting when the stream breaks.                         *)
(*                                                                         *)
(* React applies a state update some time after the handler that makes it: *)
(* ui is what the updates so far amount to, rendered what the last render  *)
(* saw.  The handlers read rendered, and the effect runs again when a      *)
(* render changes what it depends on.  Between an update and its render    *)
(* other events of the EventSource may come in, but the answer to a fetch  *)
(* and a timer of seconds come later than the render.                      *)
(***************************************************************************)
EXTENDS Infrastructure, Sequences, FiniteSets

CONSTANT MaxAttempts        \* STREAM_RETRY_MAX_ATTEMPTS: 5

ASSUME TrackerAssumption == MaxAttempts \in Nat

VARIABLES
  recorded,     \* the order, accepted before the page is opened, has its row
  page,         \* "loading", "shown", "failed" or "left"
  ui,           \* status, retryAttempt and connectionState
  rendered,     \* status and retryAttempt as last rendered
  sources,      \* every EventSource so far, with the reconnect it led to
  timerRef,     \* reconnectTimerRef: the source whose reconnect it is, or 0
  overtaken     \* history: a source was opened before an earlier one's
                \* reconnect was over

trackerVars == <<recorded, faults, page, ui, rendered, sources, timerRef, overtaken>>

ConnectionStates == {"connecting", "listening", "reconnecting", "closed", "errored"}

(* told: the completed event has come, after which the server ends the     *)
(* stream.  reconnect: the scheduleReconnect its error started, which asks *)
(* for the status, has its answer, or waits for its timer; attempt is its  *)
(* nextRetryAttempt.                                                       *)
SourceType == [state : {"connecting", "open", "closed"},
               told : BOOLEAN,
               reconnect : {"none", "asking", "completed", "pending", "error", "timer"},
               attempt : 0 .. MaxAttempts]

(* The types; no attempt is ever counted beyond the last one.              *)
TrackerTypeOK ==
  /\ recorded \in BOOLEAN
  /\ page \in {"loading", "shown", "failed", "left"}
  /\ ui \in [status : {"pending", "completed"}, retryAttempt : 0 .. MaxAttempts,
             connectionState : ConnectionStates]
  /\ rendered \in [status : {"pending", "completed"}, retryAttempt : 0 .. MaxAttempts]
  /\ sources \in Seq(SourceType)
  /\ timerRef \in 0 .. Len(sources)
  /\ overtaken \in BOOLEAN

TrackerInit == /\ recorded = FALSE
               /\ faults = 0
               /\ page = "loading"
               /\ ui = [status |-> "pending", retryAttempt |-> 0,
                        connectionState |-> "connecting"]
               /\ rendered = [status |-> "pending", retryAttempt |-> 0]
               /\ sources = << >>
               /\ timerRef = 0
               /\ overtaken = FALSE

-----------------------------------------------------------------------------
NewSource == [state |-> "connecting", told |-> FALSE, reconnect |-> "none", attempt |-> 0]

(* What getOrderStatus finds; a call that fails, or is answered with 404,  *)
(* is an "error" (see OrdersService).                                      *)
StatusNow == IF recorded THEN "completed" ELSE "pending"

(* The server component fetches the status, and the page is mounted.       *)
Load ==
  /\ page = "loading"
  /\ \/ /\ NoFault
        /\ page' = "shown"
        /\ ui' = [ui EXCEPT !.status = StatusNow,
                            !.connectionState = IF StatusNow = "pending" THEN "connecting"
                                                                         ELSE "closed"]
        /\ rendered' = [rendered EXCEPT !.status = StatusNow]
        /\ sources' = IF StatusNow = "pending" THEN <<NewSource>> ELSE << >>
     \/ /\ Fault("refused")
        /\ page' = "failed"
        /\ UNCHANGED <<ui, rendered, sources>>
  /\ UNCHANGED <<recorded, timerRef>>

Deps == [status |-> ui.status, retryAttempt |-> ui.retryAttempt]

(* Nothing is left to render.                                              *)
InStep == page = "shown" => rendered = Deps

Live(c) == sources[c].state \in {"connecting", "open"}

(* onopen                                                                  *)
Opened(c) ==
  /\ sources[c].state = "connecting"
  /\ sources' = [sources EXCEPT ![c].state = "open"]
  /\ ui' = [ui EXCEPT !.retryAttempt = 0, !.connectionState = "listening"]
  /\ UNCHANGED <<recorded, faults, page, rendered, timerRef>>

WithoutTimer(s) == IF timerRef = 0 THEN s ELSE [s EXCEPT ![timerRef].reconnect = "none"]

(* handleStatusUpdated: the gateway sends the event once there is a row.   *)
StatusUpdated(c) ==
  /\ sources[c].state = "open" /\ ~sources[c].told
  /\ recorded
  /\ ui' = [status |-> "completed", retryAttempt |-> 0, connectionState |-> "closed"]
  /\ sources' = WithoutTimer([sources EXCEPT ![c].told = TRUE])
  /\ timerRef' = 0
  /\ UNCHANGED <<recorded, faults, page, rendered>>

Heartbeat(c) ==
  /\ sources[c].state = "open" /\ ~sources[c].told
  /\ ui' = [ui EXCEPT !.connectionState = "listening"]
  /\ UNCHANGED <<recorded, faults, page, rendered, sources, timerRef>>

(* Wrong: one attempt more than STREAM_RETRY_MAX_ATTEMPTS.                 *)
ScheduleReconnectOnceMore(c) ==
  LET next == rendered.retryAttempt + 1
  IN  IF next > MaxAttempts + 1
        THEN /\ ui' = [ui EXCEPT !.connectionState = "errored"]
             /\ sources' = [sources EXCEPT ![c].state = "closed"]
        ELSE /\ ui' = [ui EXCEPT !.connectionState = "reconnecting"]
             /\ sources' = [sources EXCEPT ![c].state = "closed",
                                           ![c].reconnect = "asking",
                                           ![c].attempt = next]

(* scheduleReconnect as far as its first await                             *)
ScheduleReconnect(c) ==
  LET next == rendered.retryAttempt + 1
  IN  IF next > MaxAttempts
        THEN /\ ui' = [ui EXCEPT !.connectionState = "errored"]
             /\ sources' = [sources EXCEPT ![c].state = "closed"]
        ELSE /\ ui' = [ui EXCEPT !.connectionState = "reconnecting"]
             /\ sources' = [sources EXCEPT ![c].state = "closed",
                                           ![c].reconnect = "asking",
                                           ![c].attempt = next]

(* onerror: the source is closed for good, and a reconnect scheduled.      *)
Failed(c) ==
  /\ Live(c)
  /\ IF sources[c].told THEN NoFault ELSE Fault("refused")
  /\ ScheduleReconnect(c)
  /\ UNCHANGED <<recorded, page, rendered, timerRef>>

(* getOrderStatus is answered ...                                          *)
AnswerStatus(c) ==
  /\ sources[c].reconnect = "asking"
  /\ \/ NoFault /\ sources' = [sources EXCEPT ![c].reconnect = StatusNow]
     \/ Fault("refused") /\ sources' = [sources EXCEPT ![c].reconnect = "error"]
  /\ UNCHANGED <<recorded, page, ui, rendered, timerRef>>

(* Wrong: the catch block returns.                                         *)
ResumeUnlessRejected(c) ==
  /\ InStep
  /\ \/ /\ sources[c].reconnect = "completed"
        /\ ui' = [ui EXCEPT !.status = "completed", !.connectionState = "closed"]
        /\ sources' = [sources EXCEPT ![c].reconnect = "none"]
        /\ UNCHANGED timerRef
     \/ /\ sources[c].reconnect = "pending"
        /\ ui' = [ui EXCEPT !.status = "pending"]
        /\ sources' = [sources EXCEPT ![c].reconnect = "timer"]
        /\ timerRef' = c
     \/ /\ sources[c].reconnect = "error"
        /\ sources' = [sources EXCEPT ![c].reconnect = "none"]
        /\ UNCHANGED <<ui, timerRef>>
  /\ UNCHANGED <<recorded, faults, page, rendered>>

(* ... and scheduleReconnect goes on, even if the page was left meanwhile. *)
Resume(c) ==
  /\ InStep
  /\ \/ /\ sources[c].reconnect = "completed"
        /\ ui' = [ui EXCEPT !.status = "completed", !.connectionState = "closed"]
        /\ sources' = [sources EXCEPT ![c].reconnect = "none"]
        /\ UNCHANGED timerRef
     \/ /\ sources[c].reconnect \in {"pending", "error"}
        /\ ui' = IF sources[c].reconnect = "pending" THEN [ui EXCEPT !.status = "pending"]
                                                     ELSE ui
        /\ sources' = [sources EXCEPT ![c].reconnect = "timer"]
        /\ timerRef' = c
  /\ UNCHANGED <<recorded, faults, page, rendered>>

(* Wrong: the timer does not count the attempt, so no effect runs.         *)
TimerFiresUncounted(c) ==
  /\ InStep
  /\ sources[c].reconnect = "timer"
  /\ ui' = [ui EXCEPT !.connectionState = "connecting"]
  /\ sources' = [sources EXCEPT ![c].reconnect = "none"]
  /\ timerRef' = 0
  /\ UNCHANGED <<recorded, faults, page, rendered>>

(* The timer of scheduleReconnect, 2 s times its attempt                   *)
TimerFires(c) ==
  /\ InStep
  /\ sources[c].reconnect = "timer"
  /\ ui' = [ui EXCEPT !.retryAttempt = sources[c].attempt, !.connectionState = "connecting"]
  /\ sources' = [sources EXCEPT ![c].reconnect = "none"]
  /\ timerRef' = 0
  /\ UNCHANGED <<recorded, faults, page, rendered>>

(* Wrong: the effect's cleanup does not close its EventSource.             *)
CleanedUpUnclosed == WithoutTimer(sources)

(* The cleanup of the effect, if it had opened a source.                   *)
CleanedUp ==
  IF rendered.status = "completed" THEN sources
  ELSE LET s == WithoutTimer(sources)
       IN  [s EXCEPT ![Len(s)].state = "closed"]

InReconnect(s) == {c \in DOMAIN s : s[c].reconnect # "none"}

(* React renders, and runs the effect anew if its dependencies changed.    *)
(* Its cleanup clears a timer, but a scheduleReconnect that still awaits   *)
(* its answer goes on beside the new source.                               *)
Render ==
  /\ page = "shown"
  /\ rendered # Deps
  /\ rendered' = Deps
  /\ sources' = IF ui.status = "pending" THEN Append(CleanedUp, NewSource) ELSE CleanedUp
  /\ timerRef' = IF rendered.status = "completed" THEN timerRef ELSE 0
  /\ overtaken' = (overtaken \/ (ui.status = "pending" /\ InReconnect(CleanedUp) # {}))
  /\ UNCHANGED <<recorded, faults, page, ui>>

Leave ==
  /\ page = "shown"
  /\ page' = "left"
  /\ sources' = CleanedUp
  /\ timerRef' = IF rendered.status = "completed" THEN timerRef ELSE 0
  /\ UNCHANGED <<recorded, faults, ui, rendered>>

(* The worker records the order (see OrderProcessor).                      *)
Record ==
  /\ ~recorded
  /\ recorded' = TRUE
  /\ UNCHANGED <<faults, page, ui, rendered, sources, timerRef>>

SourceStep(c) == \/ Opened(c)
                 \/ StatusUpdated(c)
                 \/ Heartbeat(c)
                 \/ Failed(c)
                 \/ AnswerStatus(c)
                 \/ Resume(c)
                 \/ TimerFires(c)

TrackerNext == \/ Render
               \/ /\ \/ Load
                     \/ \E c \in DOMAIN sources : SourceStep(c)
                     \/ Leave
                     \/ Record
                  /\ UNCHANGED overtaken

TrackerSpec == TrackerInit /\ [][TrackerNext]_trackerVars

-----------------------------------------------------------------------------
LiveSources == {c \in DOMAIN sources : Live(c)}

(* However events, answers, timers and renders interleave, the page never  *)
(* has two connections open, and none once it is left or has rendered the  *)
(* completed order (order-status-stream.tsx:98-145).                       *)
OneConnection ==
  /\ Cardinality(LiveSources) <= 1
  /\ (page = "left" \/ rendered.status = "completed") => LiveSources = {}

Settled == /\ page = "shown" /\ rendered = Deps
           /\ LiveSources = {} /\ InReconnect(sources) = {}

(* The page never goes deaf without saying so: when it has no connection   *)
(* and none to come, its order is completed or it shows that tracking was  *)
(* interrupted, as long as each reconnect was over before the next source  *)
(* was opened.  Otherwise a timer that is left over can change the label   *)
(* back to "connecting" when tracking has ended                            *)
(* (order-status-stream.tsx:65-96, 126-145).  It says nothing of the label *)
(* of a completed order: a stream that ends before that is rendered, and a *)
(* status request that fails then, leave it "connecting".                  *)
NeverSilentlyDeaf ==
  (Settled /\ ~overtaken) => ui.status = "completed" \/ ui.connectionState = "errored"

-----------------------------------------------------------------------------
(* The browser opens connections and fires timers, React renders, the      *)
(* gateway answers requests, and the worker records the order.  Nobody     *)
(* must leave, a source need not fail, and the gateway need not send a     *)
(* heartbeat, nor ever the completed event (see NoStreamLeftWaiting and    *)
(* CompletedJobAnnounced).                                                 *)
TrackerFairness ==
  /\ WF_trackerVars(Load /\ UNCHANGED overtaken)
  /\ WF_trackerVars(Render)
  /\ WF_trackerVars(Record /\ UNCHANGED overtaken)
  /\ WF_trackerVars(\E c \in DOMAIN sources : Opened(c) /\ UNCHANGED overtaken)
  /\ WF_trackerVars(/\ \E c \in DOMAIN sources :
                         AnswerStatus(c) \/ Resume(c) \/ TimerFires(c)
                    /\ UNCHANGED overtaken)

FairTrackerSpec == TrackerSpec /\ TrackerFairness

(* Whoever stays on the page is not left between two connections: in the   *)
(* end, and for good, he sees the order completed, is told that tracking   *)
(* was interrupted, or has a connection over which the gateway can tell    *)
(* him, unless a reconnect outlived the source that followed it            *)
(* (order-status-stream.tsx:65-145).                                       *)
TrackingGoesOn ==
  \/ <>overtaken
  \/ <>[](\/ page \in {"failed", "left"}
          \/ ui.status = "completed"
          \/ ui.connectionState = "errored"
          \/ \E c \in DOMAIN sources : sources[c].state = "open")
=============================================================================
