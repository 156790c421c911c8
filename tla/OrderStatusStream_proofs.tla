---------------------- MODULE OrderStatusStream_proofs ----------------------
(***************************************************************************)
(* The order page, for every number of attempts and of faults: it has at   *)
(* most one connection, and as long as no reconnect outlives the source    *)
(* that started it, it never goes deaf without saying so.                  *)
(***************************************************************************)
EXTENDS OrderStatusStream, TLAPS, FiniteSetTheorems

(* Only the newest source is live, while its page is shown and pending,    *)
(* and a live source has not asked for a reconnect.                        *)
PageInv ==
  /\ page \in {"loading", "failed"} => sources = << >>
  /\ page = "shown" /\ rendered.status = "pending" => sources # << >>
  /\ \A c \in DOMAIN sources : Live(c) =>
       /\ c = Len(sources)
       /\ page = "shown" /\ rendered.status = "pending"
       /\ sources[c].reconnect = "none"

ConnectionInv == TrackerTypeOK /\ PageInv

(* The source that the page follows                                        *)
Newest == sources[Len(sources)]

(* Without an overlap, all there is of reconnects is that of the newest    *)
(* source, which counts one attempt more than was rendered; and a page     *)
(* whose source is gone either reconnects, or says that it does not, or    *)
(* has a new attempt to render.                                            *)
HeardInv ==
  /\ \A c \in DOMAIN sources : sources[c].reconnect # "none" => c = Len(sources)
  /\ ui.status = "completed" =>
       recorded /\ (sources # << >> => Newest.reconnect # "pending")
  /\ \A c \in DOMAIN sources : sources[c].reconnect = "completed" => recorded
  /\ rendered.status = "completed" => ui.status = "completed"
  /\ rendered.status = "pending" /\ Newest.reconnect # "none" =>
       Newest.attempt = rendered.retryAttempt + 1
  /\ rendered.status = "pending" /\ ui.status = "pending" =>
       \/ Newest.state # "closed"
       \/ Newest.reconnect # "none"
       \/ ui.connectionState = "errored"
       \/ ui.retryAttempt # rendered.retryAttempt

TrackerInv == ConnectionInv /\ (page = "shown" /\ ~overtaken => HeardInv)

(* What the runs check follows.                                            *)
LEMMA AtMostOne == ConnectionInv => OneConnection
<1> SUFFICES ASSUME ConnectionInv PROVE OneConnection
  OBVIOUS
<1>1. LiveSources \subseteq {Len(sources)}
  BY DEF ConnectionInv, PageInv, LiveSources
<1>2. Cardinality(LiveSources) <= 1
  <2>1. /\ IsFiniteSet({Len(sources)})
        /\ Cardinality({Len(sources)}) = 1
    BY FS_Singleton
  <2> QED  BY <1>1, <2>1, FS_Subset
<1>3. (page = "left" \/ rendered.status = "completed") => LiveSources = {}
  BY DEF ConnectionInv, PageInv, LiveSources
<1> QED  BY <1>2, <1>3 DEF OneConnection

LEMMA NotDeaf == TrackerInv => NeverSilentlyDeaf
<1> SUFFICES ASSUME TrackerInv, Settled, ~overtaken
             PROVE  ui.status = "completed" \/ ui.connectionState = "errored"
  BY DEF NeverSilentlyDeaf
<1>1. /\ TrackerTypeOK /\ PageInv /\ HeardInv /\ page = "shown"
      /\ rendered.status = ui.status /\ rendered.retryAttempt = ui.retryAttempt
  BY DEF TrackerInv, ConnectionInv, Settled, Deps
<1>2. CASE ui.status = "pending"
  <2>1. sources # << >> /\ sources \in Seq(SourceType)
    BY <1>1, <1>2 DEF PageInv, TrackerTypeOK
  <2>2. Len(sources) \in DOMAIN sources /\ Newest \in SourceType
    BY <2>1 DEF Newest
  <2>3. Newest.state = "closed" /\ Newest.reconnect = "none"
    BY <2>2 DEF Settled, LiveSources, InReconnect, Live, Newest, SourceType
  <2> QED  BY <1>1, <1>2, <2>3 DEF HeardInv
<1> QED  BY <1>1, <1>2 DEF TrackerTypeOK

-----------------------------------------------------------------------------
(* The events of a source *)

UIType == [status : {"pending", "completed"}, retryAttempt : 0 .. MaxAttempts,
           connectionState : ConnectionStates]

(* One source changes, the others stay as they are.                        *)
LEMMA Amended ==
  ASSUME sources \in Seq(SourceType), NEW c \in DOMAIN sources, NEW new \in SourceType,
         sources' = [sources EXCEPT ![c] = new]
  PROVE  /\ sources' \in Seq(SourceType)
         /\ DOMAIN sources' = DOMAIN sources /\ Len(sources') = Len(sources)
         /\ sources # << >> /\ sources' # << >>
         /\ Len(sources) \in DOMAIN sources
         /\ sources'[c] = new
         /\ \A d \in DOMAIN sources \ {c} : sources'[d] = sources[d]
  OBVIOUS

(* It does not come to life, and asks for a reconnect only when it is      *)
(* closed.                                                                 *)
LEMMA AmendConnection ==
  ASSUME ConnectionInv, NEW c \in DOMAIN sources, NEW new \in SourceType,
         sources' = [sources EXCEPT ![c] = new],
         new.state # "closed" => Live(c) /\ new.reconnect = "none",
         UNCHANGED <<recorded, page, rendered, overtaken>>,
         ui' \in UIType, timerRef' \in 0 .. Len(sources)
  PROVE  ConnectionInv'
<1>1. /\ sources' \in Seq(SourceType)
      /\ DOMAIN sources' = DOMAIN sources /\ Len(sources') = Len(sources)
      /\ sources # << >> /\ sources' # << >>
      /\ sources'[c] = new
      /\ \A d \in DOMAIN sources \ {c} : sources'[d] = sources[d]
  BY Amended DEF ConnectionInv, TrackerTypeOK
<1>2. TrackerTypeOK'
  BY <1>1 DEF ConnectionInv, TrackerTypeOK, UIType
<1>3. PageInv'
  BY <1>1 DEF ConnectionInv, PageInv, Live
<1> QED  BY <1>2, <1>3 DEF ConnectionInv

(* The newest source changes, without an overlap.                          *)
LEMMA AmendHeard ==
  ASSUME TrackerTypeOK, HeardInv, NEW c \in DOMAIN sources, c = Len(sources),
         NEW new \in SourceType, sources' = [sources EXCEPT ![c] = new],
         UNCHANGED <<recorded, rendered>>,
         ui'.status = "completed" => recorded /\ new.reconnect # "pending",
         new.reconnect = "completed" => recorded,
         rendered.status = "completed" => ui'.status = "completed",
         rendered.status = "pending" /\ new.reconnect # "none" =>
           new.attempt = rendered.retryAttempt + 1,
         rendered.status = "pending" /\ ui'.status = "pending" =>
           \/ new.state # "closed"
           \/ new.reconnect # "none"
           \/ ui'.connectionState = "errored"
           \/ ui'.retryAttempt # rendered.retryAttempt
  PROVE  HeardInv'
<1>1. /\ DOMAIN sources' = DOMAIN sources /\ Len(sources') = Len(sources)
      /\ sources'[c] = new
      /\ \A d \in DOMAIN sources \ {c} : sources'[d] = sources[d]
  BY Amended DEF TrackerTypeOK
<1>2. Newest' = new
  BY <1>1 DEF Newest
<1> QED  BY <1>1, <1>2 DEF HeardInv

(* A source that is live, or has a reconnect under way, is the newest one  *)
(* when there is no overlap.                                               *)
LEMMA IsNewest ==
  ASSUME PageInv, HeardInv, NEW c \in DOMAIN sources,
         Live(c) \/ sources[c].reconnect # "none"
  PROVE  c = Len(sources)
  BY DEF PageInv, HeardInv

(* The handlers set fields of the page's state to values of their types.   *)
LEMMA UITypes ==
  ASSUME ui \in UIType, NEW n \in 0 .. MaxAttempts, NEW state \in ConnectionStates,
         NEW status \in {"pending", "completed"}
  PROVE  /\ [ui EXCEPT !.connectionState = state] \in UIType
         /\ [ui EXCEPT !.retryAttempt = n, !.connectionState = state] \in UIType
         /\ [ui EXCEPT !.status = status] \in UIType
         /\ [ui EXCEPT !.status = status, !.connectionState = state] \in UIType
  BY DEF UIType

LEMMA OpenedKeeps ==
  ASSUME TrackerInv, NEW c \in DOMAIN sources, Opened(c), UNCHANGED overtaken
  PROVE  TrackerInv'
<1> DEFINE new == [sources[c] EXCEPT !.state = "open"]
<1>1. /\ ConnectionInv /\ TrackerTypeOK /\ PageInv
      /\ sources[c] \in SourceType
  BY DEF TrackerInv, ConnectionInv, TrackerTypeOK
<1>2. /\ Live(c) /\ sources[c].reconnect = "none"
      /\ sources' = [sources EXCEPT ![c] = new]
      /\ UNCHANGED <<recorded, page, rendered, timerRef>>
      /\ ui' = [ui EXCEPT !.retryAttempt = 0, !.connectionState = "listening"]
  BY <1>1 DEF Opened, Live, PageInv
<1>3. new \in SourceType /\ new.state = "open" /\ new.reconnect = "none"
  BY <1>1, <1>2 DEF SourceType
<1>4. ui' \in UIType /\ ui'.status = ui.status
  <2>1. 0 \in 0 .. MaxAttempts /\ "listening" \in ConnectionStates /\ ui \in UIType
    BY <1>1, TrackerAssumption DEF TrackerTypeOK, UIType, ConnectionStates
  <2>2. ui' \in UIType
    BY <1>2, <2>1, UITypes
  <2>3. ui'.status = ui.status
    BY <1>2, <2>1 DEF UIType
  <2> QED  BY <2>2, <2>3
<1> HIDE DEF new
<1>5. ConnectionInv'
  BY <1>1, <1>2, <1>3, <1>4, AmendConnection DEF TrackerTypeOK
<1>6. ASSUME HeardInv PROVE HeardInv'
  <2>1. c = Len(sources)
    BY <1>1, <1>2, <1>6, IsNewest
  <2> QED  BY <1>1, <1>2, <1>3, <1>4, <1>6, <2>1, AmendHeard DEF HeardInv
<1> QED  BY <1>2, <1>5, <1>6 DEF TrackerInv

LEMMA HeartbeatKeeps ==
  ASSUME TrackerInv, NEW c \in DOMAIN sources, Heartbeat(c), UNCHANGED overtaken
  PROVE  TrackerInv'
<1>1. /\ TrackerTypeOK /\ PageInv /\ sources[c].state = "open"
      /\ UNCHANGED <<recorded, page, rendered, sources, timerRef>>
      /\ ui' = [ui EXCEPT !.connectionState = "listening"]
  BY DEF TrackerInv, ConnectionInv, Heartbeat
<1>2. ui' \in UIType /\ ui'.status = ui.status /\ ui'.retryAttempt = ui.retryAttempt
  BY <1>1 DEF TrackerTypeOK, UIType, ConnectionStates
<1>3. ConnectionInv'
  BY <1>1, <1>2 DEF ConnectionInv, TrackerTypeOK, UIType, PageInv, Live
<1>4. ASSUME HeardInv PROVE HeardInv'
  <2>1. c = Len(sources) /\ Newest.state = "open"
    BY <1>1, <1>4, IsNewest DEF Live, Newest
  <2> QED  BY <1>1, <1>2, <1>4, <2>1 DEF HeardInv, Newest
<1> QED  BY <1>1, <1>3, <1>4 DEF TrackerInv

(* Clearing the timer ends at most a reconnect.                            *)
LEMMA Cleared ==
  ASSUME NEW s \in Seq(SourceType), timerRef \in 0 .. Len(s)
  PROVE  /\ WithoutTimer(s) \in Seq(SourceType)
         /\ Len(WithoutTimer(s)) = Len(s) /\ DOMAIN WithoutTimer(s) = DOMAIN s
         /\ \A d \in DOMAIN s :
              /\ WithoutTimer(s)[d].state = s[d].state
              /\ WithoutTimer(s)[d].attempt = s[d].attempt
              /\ WithoutTimer(s)[d].reconnect \in {s[d].reconnect, "none"}
<1>1. CASE timerRef = 0
  BY <1>1 DEF WithoutTimer
<1>2. CASE timerRef # 0
  <2> DEFINE new == [s[timerRef] EXCEPT !.reconnect = "none"]
  <2>1. timerRef \in DOMAIN s /\ s[timerRef] \in SourceType
    BY <1>2
  <2>2. /\ new \in SourceType /\ new.state = s[timerRef].state
        /\ new.attempt = s[timerRef].attempt /\ new.reconnect = "none"
    BY <2>1 DEF SourceType
  <2>3. WithoutTimer(s) = [s EXCEPT ![timerRef] = new]
    BY <1>2 DEF WithoutTimer
  <2> HIDE DEF new
  <2> QED  BY <2>1, <2>2, <2>3
<1> QED  BY <1>1, <1>2

LEMMA StatusUpdatedKeeps ==
  ASSUME TrackerInv, NEW c \in DOMAIN sources, StatusUpdated(c), UNCHANGED overtaken
  PROVE  TrackerInv'
<1> DEFINE new == [sources[c] EXCEPT !.told = TRUE]
           s == [sources EXCEPT ![c] = new]
<1>1. /\ ConnectionInv /\ TrackerTypeOK /\ PageInv /\ recorded
      /\ sources[c] \in SourceType /\ Live(c) /\ sources[c].reconnect = "none"
  BY DEF TrackerInv, ConnectionInv, TrackerTypeOK, StatusUpdated, PageInv, Live
<1>2. /\ sources' = WithoutTimer(s) /\ timerRef' = 0
      /\ ui' = [status |-> "completed", retryAttempt |-> 0, connectionState |-> "closed"]
      /\ UNCHANGED <<recorded, page, rendered>>
  BY DEF StatusUpdated
<1>3. /\ new \in SourceType /\ new.state = sources[c].state
      /\ new.reconnect = sources[c].reconnect
  BY <1>1 DEF SourceType
<1> HIDE DEF new
<1>4. /\ s \in Seq(SourceType) /\ Len(s) = Len(sources) /\ DOMAIN s = DOMAIN sources
      /\ \A d \in DOMAIN sources :
           s[d].state = sources[d].state /\ s[d].reconnect = sources[d].reconnect
  BY <1>1, <1>3 DEF TrackerTypeOK
<1> HIDE DEF s
<1>5. /\ sources' \in Seq(SourceType) /\ Len(sources') = Len(sources)
      /\ DOMAIN sources' = DOMAIN sources /\ Len(sources) \in DOMAIN sources
      /\ \A d \in DOMAIN sources :
           /\ sources'[d].state = sources[d].state
           /\ sources'[d].reconnect \in {sources[d].reconnect, "none"}
  <2>1. timerRef \in 0 .. Len(s) /\ sources \in Seq(SourceType)
    BY <1>1, <1>4 DEF TrackerTypeOK
  <2>2. /\ WithoutTimer(s) \in Seq(SourceType)
        /\ Len(WithoutTimer(s)) = Len(s) /\ DOMAIN WithoutTimer(s) = DOMAIN s
        /\ \A d \in DOMAIN s : /\ WithoutTimer(s)[d].state = s[d].state
                               /\ WithoutTimer(s)[d].reconnect \in {s[d].reconnect, "none"}
    BY <1>4, <2>1, Cleared
  <2>3. Len(sources) \in DOMAIN sources
    BY <2>1
  <2> QED  BY <1>2, <1>4, <2>2, <2>3
<1>6. sources # << >> /\ sources' # << >>
  BY <1>1, <1>5
<1>7. ui' \in UIType
  BY <1>2, TrackerAssumption DEF UIType, ConnectionStates
<1>8. TrackerTypeOK'
  BY <1>1, <1>2, <1>5, <1>7 DEF TrackerTypeOK, UIType
<1>9. PageInv'
  BY <1>1, <1>2, <1>5, <1>6 DEF PageInv, Live
<1>10. ASSUME HeardInv PROVE HeardInv'
  <2>1. c = Len(sources) /\ rendered.status = "pending"
    BY <1>1, <1>10, IsNewest DEF PageInv
  <2>2. Newest'.reconnect = "none"
    BY <1>1, <1>5, <2>1 DEF Newest
  <2>3. \A d \in DOMAIN sources' : sources'[d].reconnect = "none"
    BY <1>1, <1>5, <1>10, <2>1 DEF HeardInv
  <2> QED  BY <1>1, <1>2, <2>1, <2>2, <2>3 DEF HeardInv
<1> QED  BY <1>2, <1>8, <1>9, <1>10 DEF TrackerInv, ConnectionInv

LEMMA FailedKeeps ==
  ASSUME TrackerInv, NEW c \in DOMAIN sources, Failed(c), UNCHANGED overtaken
  PROVE  TrackerInv'
<1> DEFINE next == rendered.retryAttempt + 1
           given == [sources[c] EXCEPT !.state = "closed"]
           asking == [sources[c] EXCEPT !.state = "closed", !.reconnect = "asking",
                                        !.attempt = next]
<1>1. /\ ConnectionInv /\ TrackerTypeOK /\ PageInv /\ ui \in UIType
      /\ sources[c] \in SourceType /\ Live(c) /\ sources[c].reconnect = "none"
      /\ rendered.status = "pending" /\ rendered.retryAttempt \in 0 .. MaxAttempts
      /\ UNCHANGED <<recorded, page, rendered, timerRef>>
  BY DEF TrackerInv, ConnectionInv, TrackerTypeOK, Failed, PageInv, Live, UIType
<1>2. given \in SourceType /\ given.state = "closed" /\ given.reconnect = "none"
  BY <1>1 DEF SourceType
<1>3. next <= MaxAttempts => /\ asking \in SourceType /\ asking.state = "closed"
                             /\ asking.reconnect = "asking" /\ asking.attempt = next
  <2>1. next <= MaxAttempts => next \in 0 .. MaxAttempts
    BY <1>1, TrackerAssumption
  <2> HIDE DEF next
  <2> QED  BY <1>1, <2>1 DEF SourceType
<1>4. \/ /\ sources' = [sources EXCEPT ![c] = given]
         /\ ui' = [ui EXCEPT !.connectionState = "errored"]
      \/ /\ next <= MaxAttempts
         /\ sources' = [sources EXCEPT ![c] = asking]
         /\ ui' = [ui EXCEPT !.connectionState = "reconnecting"]
  <2>1. next > MaxAttempts \/ next <= MaxAttempts
    BY <1>1, TrackerAssumption
  <2> QED  BY <2>1 DEF Failed, ScheduleReconnect
<1>5. PICK new \in SourceType :
        /\ sources' = [sources EXCEPT ![c] = new]
        /\ new.state = "closed"
        /\ \/ new.reconnect = "none" /\ ui' = [ui EXCEPT !.connectionState = "errored"]
           \/ /\ new.reconnect = "asking" /\ new.attempt = next
              /\ ui' = [ui EXCEPT !.connectionState = "reconnecting"]
  <2> HIDE DEF next, given, asking
  <2> QED  BY <1>2, <1>3, <1>4
<1>6. ui' \in UIType /\ ui'.status = ui.status
  <2>1. ui' \in UIType
    BY <1>1, <1>5, UITypes DEF ConnectionStates, UIType
  <2> QED  BY <1>1, <1>5, <2>1 DEF UIType
<1>7. ConnectionInv'
  BY <1>1, <1>5, <1>6, AmendConnection DEF TrackerTypeOK
<1>8. ASSUME HeardInv PROVE HeardInv'
  <2>1. c = Len(sources)
    BY <1>1, <1>8, IsNewest
  <2>2. ui.status = "completed" => recorded
    BY <1>8 DEF HeardInv
  <2>3. new.reconnect = "none" => ui'.connectionState = "errored"
    BY <1>1, <1>5 DEF UIType
  <2>4. new.reconnect \notin {"pending", "completed"}
    BY <1>5
  <2> QED  BY <1>1, <1>5, <1>6, <1>8, <2>1, <2>2, <2>3, <2>4, AmendHeard
<1> QED  BY <1>1, <1>7, <1>8 DEF TrackerInv

(* A source with a reconnect under way is closed.                          *)
LEMMA InReconnectClosed ==
  ASSUME TrackerInv, NEW c \in DOMAIN sources, sources[c].reconnect # "none"
  PROVE  /\ ConnectionInv /\ TrackerTypeOK /\ PageInv /\ ui \in UIType
         /\ sources[c] \in SourceType /\ sources[c].attempt \in 0 .. MaxAttempts
         /\ sources[c].state = "closed" /\ ~Live(c)
<1>1. TrackerTypeOK /\ PageInv /\ ConnectionInv /\ ui \in UIType
  BY DEF TrackerInv, ConnectionInv, TrackerTypeOK, UIType
<1>2. sources[c] \in SourceType
  BY <1>1 DEF TrackerTypeOK
<1>3. ~Live(c)
  BY <1>1 DEF PageInv
<1> QED  BY <1>1, <1>2, <1>3 DEF Live, SourceType

(* The answer to a fetch: an order that was shown completed is not found   *)
(* pending any more.                                                       *)
LEMMA AnswerKeeps ==
  ASSUME TrackerInv, NEW c \in DOMAIN sources, AnswerStatus(c), UNCHANGED overtaken
  PROVE  TrackerInv'
<1>1. /\ ConnectionInv /\ TrackerTypeOK /\ PageInv /\ ui \in UIType
      /\ sources[c] \in SourceType /\ sources[c].reconnect = "asking" /\ ~Live(c)
      /\ sources[c].state = "closed"
      /\ UNCHANGED <<recorded, page, ui, rendered, timerRef>>
  BY InReconnectClosed DEF AnswerStatus
<1>2. PICK answer \in {"completed", "pending", "error"} :
        /\ sources' = [sources EXCEPT ![c].reconnect = answer]
        /\ answer = "completed" => recorded
        /\ answer = "pending" => ~recorded
  BY DEF AnswerStatus, StatusNow
<1> DEFINE new == [sources[c] EXCEPT !.reconnect = answer]
<1>3. /\ new \in SourceType /\ new.state = "closed" /\ new.reconnect = answer
      /\ new.attempt = sources[c].attempt
      /\ sources' = [sources EXCEPT ![c] = new]
  <2>1. sources' = [sources EXCEPT ![c] = new]
    BY <1>2
  <2> QED  BY <1>1, <1>2, <2>1 DEF SourceType
<1> HIDE DEF new
<1>4. ConnectionInv'
  BY <1>1, <1>3, AmendConnection DEF TrackerTypeOK
<1>5. ASSUME HeardInv PROVE HeardInv'
  <2>1. c = Len(sources) /\ Newest = sources[c]
    BY <1>1, <1>5, IsNewest DEF Newest
  <2>2. /\ ui.status = "completed" => recorded
        /\ rendered.status = "completed" => ui.status = "completed"
        /\ rendered.status = "pending" => new.attempt = rendered.retryAttempt + 1
    BY <1>1, <1>3, <1>5, <2>1 DEF HeardInv
  <2> QED  BY <1>1, <1>2, <1>3, <1>5, <2>1, <2>2, AmendHeard
<1> QED  BY <1>1, <1>4, <1>5 DEF TrackerInv

(* scheduleReconnect goes on with the answer.                              *)
LEMMA ResumeKeeps ==
  ASSUME TrackerInv, NEW c \in DOMAIN sources, Resume(c), UNCHANGED overtaken
  PROVE  TrackerInv'
<1>1. /\ ConnectionInv /\ TrackerTypeOK /\ PageInv /\ ui \in UIType
      /\ sources[c] \in SourceType /\ sources[c].reconnect \in {"completed", "pending", "error"}
      /\ sources[c].state = "closed"
      /\ UNCHANGED <<recorded, page, rendered>>
  BY InReconnectClosed DEF Resume
<1>2. PICK next \in {"none", "timer"} :
        /\ sources' = [sources EXCEPT ![c].reconnect = next]
        /\ timerRef' \in {timerRef, c}
        /\ \/ /\ next = "none" /\ sources[c].reconnect = "completed"
              /\ ui' = [ui EXCEPT !.status = "completed", !.connectionState = "closed"]
           \/ /\ next = "timer" /\ sources[c].reconnect = "pending"
              /\ ui' = [ui EXCEPT !.status = "pending"]
           \/ next = "timer" /\ sources[c].reconnect = "error" /\ ui' = ui
  BY DEF Resume
<1> DEFINE new == [sources[c] EXCEPT !.reconnect = next]
<1>3. /\ new \in SourceType /\ new.state = "closed" /\ new.reconnect = next
      /\ new.attempt = sources[c].attempt
      /\ sources' = [sources EXCEPT ![c] = new]
  <2>1. sources' = [sources EXCEPT ![c] = new]
    BY <1>2
  <2> QED  BY <1>1, <1>2, <2>1 DEF SourceType
<1> HIDE DEF new
<1>4. ui' \in UIType
  <2>1. "closed" \in ConnectionStates
    BY DEF ConnectionStates
  <2>2. /\ [ui EXCEPT !.status = "completed", !.connectionState = "closed"] \in UIType
        /\ [ui EXCEPT !.status = "pending"] \in UIType
    BY <1>1, <2>1 DEF UIType
  <2> QED  BY <1>1, <1>2, <2>2
<1>5. /\ sources[c].reconnect = "completed" => ui'.status = "completed"
      /\ sources[c].reconnect = "error" => ui'.status = ui.status
      /\ sources[c].reconnect = "pending" => ui'.status = "pending"
  BY <1>1, <1>2 DEF UIType
<1>6. ConnectionInv'
  <2>1. timerRef' \in 0 .. Len(sources)
    BY <1>1, <1>2 DEF TrackerTypeOK
  <2> QED  BY <1>1, <1>2, <1>3, <1>4, <2>1, AmendConnection
<1>7. ASSUME HeardInv PROVE HeardInv'
  <2>1. c = Len(sources) /\ Newest = sources[c] /\ sources # << >>
    BY <1>1, <1>7, IsNewest DEF Newest
  <2>2. /\ ui.status = "completed" => recorded /\ sources[c].reconnect # "pending"
        /\ sources[c].reconnect = "completed" => recorded
        /\ rendered.status = "completed" => ui.status = "completed"
        /\ rendered.status = "pending" => new.attempt = rendered.retryAttempt + 1
    BY <1>1, <1>3, <1>7, <2>1 DEF HeardInv
  <2>3. /\ ui'.status = "completed" => recorded
        /\ rendered.status = "completed" => ui'.status = "completed"
        /\ ui'.status = "pending" => new.reconnect = "timer"
    BY <1>1, <1>2, <1>3, <1>5, <2>2
  <2> QED  BY <1>1, <1>2, <1>3, <1>7, <2>1, <2>2, <2>3, AmendHeard
<1> QED  BY <1>1, <1>6, <1>7 DEF TrackerInv

(* The timer fires: the attempt it counts was not rendered before, so the  *)
(* next render opens a source.                                             *)
LEMMA TimerKeeps ==
  ASSUME TrackerInv, NEW c \in DOMAIN sources, TimerFires(c), UNCHANGED overtaken
  PROVE  TrackerInv'
<1>1. /\ ConnectionInv /\ TrackerTypeOK /\ PageInv /\ ui \in UIType
      /\ sources[c] \in SourceType /\ sources[c].reconnect = "timer"
      /\ sources[c].state = "closed" /\ sources[c].attempt \in 0 .. MaxAttempts
      /\ UNCHANGED <<recorded, page, rendered>> /\ timerRef' = 0
      /\ ui' = [ui EXCEPT !.retryAttempt = sources[c].attempt, !.connectionState = "connecting"]
  BY InReconnectClosed DEF TimerFires
<1> DEFINE new == [sources[c] EXCEPT !.reconnect = "none"]
<1>2. /\ new \in SourceType /\ new.state = "closed" /\ new.reconnect = "none"
      /\ sources' = [sources EXCEPT ![c] = new]
  <2>1. sources' = [sources EXCEPT ![c] = new]
    BY DEF TimerFires
  <2>2. new \in SourceType /\ new.state = "closed" /\ new.reconnect = "none"
    BY <1>1 DEF SourceType
  <2> QED  BY <2>1, <2>2
<1> HIDE DEF new
<1>3. ui' \in UIType
  BY <1>1, UITypes DEF ConnectionStates
<1>4. ui'.status = ui.status /\ ui'.retryAttempt = sources[c].attempt
  BY <1>1 DEF UIType
<1>5. ConnectionInv'
  <2>1. timerRef' \in 0 .. Len(sources)
    BY <1>1 DEF TrackerTypeOK
  <2> QED  BY <1>1, <1>2, <1>3, <2>1, AmendConnection
<1>6. ASSUME HeardInv PROVE HeardInv'
  <2>1. c = Len(sources) /\ Newest = sources[c]
    BY <1>1, <1>6, IsNewest DEF Newest
  <2>2. /\ ui.status = "completed" => recorded
        /\ rendered.status = "completed" => ui.status = "completed"
        /\ rendered.status = "pending" => sources[c].attempt = rendered.retryAttempt + 1
    BY <1>1, <1>6, <2>1 DEF HeardInv
  <2>3. rendered.status = "pending" => ui'.retryAttempt # rendered.retryAttempt
    <3>1. rendered.retryAttempt \in Nat
      BY <1>1, TrackerAssumption DEF TrackerTypeOK
    <3> QED  BY <1>4, <2>2, <3>1
  <2> QED  BY <1>1, <1>2, <1>4, <1>6, <2>1, <2>2, <2>3, AmendHeard
<1> QED  BY <1>1, <1>5, <1>6 DEF TrackerInv

-----------------------------------------------------------------------------
(* The page *)

(* What the cleanup leaves: no source is live, and at most a timer went.   *)
LEMMA AllClosed ==
  ASSUME ConnectionInv, page = "shown"
  PROVE  /\ CleanedUp \in Seq(SourceType)
         /\ Len(CleanedUp) = Len(sources) /\ DOMAIN CleanedUp = DOMAIN sources
         /\ \A d \in DOMAIN sources :
              /\ CleanedUp[d].state = "closed"
              /\ CleanedUp[d].reconnect \in {sources[d].reconnect, "none"}
<1>1. TrackerTypeOK /\ PageInv /\ sources \in Seq(SourceType)
  BY DEF ConnectionInv, TrackerTypeOK
<1>2. \A d \in DOMAIN sources : sources[d].state # "closed" => Live(d)
  <2>1. \A d \in DOMAIN sources : sources[d] \in SourceType
    BY <1>1
  <2> QED  BY <2>1 DEF Live, SourceType
<1>3. CASE rendered.status = "completed"
  BY <1>1, <1>2, <1>3 DEF CleanedUp, PageInv
<1>4. CASE rendered.status # "completed"
  <2> DEFINE s == WithoutTimer(sources)
             closed == [s[Len(s)] EXCEPT !.state = "closed"]
  <2>1. rendered.status = "pending" /\ Len(sources) \in DOMAIN sources
    BY <1>1, <1>4 DEF TrackerTypeOK, PageInv
  <2>2. /\ s \in Seq(SourceType) /\ Len(s) = Len(sources) /\ DOMAIN s = DOMAIN sources
        /\ \A d \in DOMAIN sources : /\ s[d].state = sources[d].state
                                     /\ s[d].reconnect \in {sources[d].reconnect, "none"}
    BY <1>1, Cleared DEF TrackerTypeOK
  <2>3. CleanedUp = [s EXCEPT ![Len(s)] = closed]
    BY <1>4 DEF CleanedUp
  <2>4. \A d \in DOMAIN sources \ {Len(sources)} : sources[d].state = "closed"
    BY <1>1, <1>2 DEF PageInv
  <2> HIDE DEF s
  <2>5. /\ closed \in SourceType /\ closed.state = "closed"
        /\ closed.reconnect = s[Len(s)].reconnect
    <3>1. s[Len(s)] \in SourceType
      BY <2>1, <2>2
    <3> QED  BY <3>1 DEF SourceType
  <2> HIDE DEF closed
  <2> QED  BY <2>1, <2>2, <2>3, <2>4, <2>5
<1> QED  BY <1>3, <1>4

LEMMA NewSourceType == NewSource \in SourceType
  BY TrackerAssumption DEF NewSource, SourceType

LEMMA LoadKeeps ==
  ASSUME TrackerInv, Load, UNCHANGED overtaken
  PROVE  TrackerInv'
<1>1. /\ TrackerTypeOK /\ PageInv /\ ui \in UIType /\ sources = << >> /\ timerRef' = timerRef
      /\ page = "loading" /\ recorded' = recorded /\ overtaken' = overtaken /\ timerRef = 0
  BY DEF TrackerInv, ConnectionInv, TrackerTypeOK, PageInv, UIType, Load
<1>2. CASE page' = "failed"
  <2>1. UNCHANGED <<ui, rendered, sources>>
    BY <1>1, <1>2 DEF Load
  <2> QED  BY <1>1, <1>2, <2>1 DEF TrackerInv, ConnectionInv, TrackerTypeOK, PageInv, Live
<1>3. CASE page' = "shown"
  <2> DEFINE label == IF StatusNow = "pending" THEN "connecting" ELSE "closed"
  <2>1. /\ StatusNow \in {"pending", "completed"} /\ label \in ConnectionStates
        /\ StatusNow = "completed" => recorded
    BY DEF StatusNow, ConnectionStates
  <2>2. /\ ui' = [ui EXCEPT !.status = StatusNow, !.connectionState = label]
        /\ rendered' = [rendered EXCEPT !.status = StatusNow]
        /\ sources' = IF StatusNow = "pending" THEN <<NewSource>> ELSE << >>
    BY <1>3 DEF Load
  <2> HIDE DEF label
  <2>3. ui' \in UIType /\ ui'.status = StatusNow
    BY <1>1, <2>1, <2>2 DEF UIType
  <2>4. /\ rendered' \in [status : {"pending", "completed"}, retryAttempt : 0 .. MaxAttempts]
        /\ rendered'.status = StatusNow
    BY <1>1, <2>1, <2>2 DEF TrackerTypeOK
  <2>5. /\ sources' \in Seq(SourceType) /\ timerRef' \in 0 .. Len(sources')
        /\ \A c \in DOMAIN sources' : /\ StatusNow = "pending" /\ c = 1 /\ Len(sources') = 1
                                      /\ sources'[c] = NewSource
        /\ StatusNow = "pending" => sources' # << >> /\ sources'[Len(sources')] = NewSource
    <3>1. CASE StatusNow = "pending"
      <4>1. sources' = <<NewSource>>
        BY <2>2, <3>1
      <4>2. /\ sources' \in Seq(SourceType) /\ Len(sources') = 1 /\ DOMAIN sources' = {1}
            /\ sources'[1] = NewSource
        BY <4>1, NewSourceType
      <4> QED  BY <1>1, <3>1, <4>2
    <3>2. CASE StatusNow # "pending"
      BY <1>1, <2>2, <3>2
    <3> QED  BY <3>1, <3>2
  <2>6. TrackerTypeOK'
    BY <1>1, <1>3, <2>3, <2>4, <2>5 DEF TrackerTypeOK, UIType
  <2>7. PageInv'
    BY <1>3, <2>4, <2>5 DEF PageInv, NewSource, Live
  <2>8. HeardInv'
    BY <1>1, <2>1, <2>3, <2>4, <2>5 DEF HeardInv, Newest, NewSource
  <2> QED  BY <2>6, <2>7, <2>8 DEF TrackerInv, ConnectionInv
<1> QED  BY <1>2, <1>3 DEF Load

LEMMA RenderKeeps ==
  ASSUME TrackerInv, Render
  PROVE  TrackerInv'
<1>1. /\ ConnectionInv /\ TrackerTypeOK /\ PageInv /\ ui \in UIType
      /\ page = "shown" /\ UNCHANGED <<recorded, page, ui>>
      /\ timerRef' \in {0, timerRef}
      /\ rendered' = [status |-> ui.status, retryAttempt |-> ui.retryAttempt]
  BY DEF TrackerInv, ConnectionInv, TrackerTypeOK, UIType, Render, Deps
<1>2. /\ CleanedUp \in Seq(SourceType)
      /\ Len(CleanedUp) = Len(sources) /\ DOMAIN CleanedUp = DOMAIN sources
      /\ \A d \in DOMAIN sources :
           /\ CleanedUp[d].state = "closed"
           /\ CleanedUp[d].reconnect \in {sources[d].reconnect, "none"}
  BY <1>1, AllClosed
<1>3. /\ ui.status \in {"pending", "completed"}
      /\ rendered' \in [status : {"pending", "completed"}, retryAttempt : 0 .. MaxAttempts]
      /\ rendered'.status = ui.status /\ rendered'.retryAttempt = ui.retryAttempt
      /\ timerRef' \in 0 .. Len(sources)
  BY <1>1, TrackerAssumption DEF UIType, TrackerTypeOK
<1>4. CASE ui.status = "completed"
  <2>1. sources' = CleanedUp /\ (~overtaken' => ~overtaken) /\ overtaken' \in BOOLEAN
    BY <1>1, <1>4 DEF Render, TrackerTypeOK
  <2>2. TrackerTypeOK'
    BY <1>1, <1>2, <1>3, <2>1 DEF TrackerTypeOK
  <2>3. PageInv'
    BY <1>1, <1>2, <1>3, <1>4, <2>1 DEF PageInv, Live
  <2>4. ASSUME HeardInv PROVE HeardInv'
    <3>1. sources' # << >> => sources # << >> /\ Len(sources) \in DOMAIN sources
      BY <1>1, <1>2, <2>1 DEF TrackerTypeOK
    <3> QED  BY <1>1, <1>2, <1>3, <1>4, <2>1, <2>4, <3>1 DEF HeardInv, Newest
  <2> QED  BY <1>1, <2>1, <2>2, <2>3, <2>4 DEF TrackerInv, ConnectionInv
<1>5. CASE ui.status = "pending"
  <2>1. /\ sources' = Append(CleanedUp, NewSource)
        /\ ~overtaken' => ~overtaken /\ InReconnect(CleanedUp) = {}
        /\ overtaken' \in BOOLEAN
    BY <1>1, <1>5 DEF Render, TrackerTypeOK
  <2>2. /\ sources' \in Seq(SourceType) /\ sources' # << >>
        /\ Len(sources') = Len(sources) + 1
        /\ sources'[Len(sources')] = NewSource
        /\ \A d \in DOMAIN sources' : d # Len(sources') =>
             d \in DOMAIN sources /\ sources'[d] = CleanedUp[d]
    BY <1>2, <2>1, NewSourceType
  <2>3. TrackerTypeOK'
    <3>1. timerRef' \in 0 .. Len(sources')
      BY <1>1, <1>3, <2>2 DEF TrackerTypeOK
    <3> QED  BY <1>1, <1>3, <2>1, <2>2, <3>1 DEF TrackerTypeOK
  <2>4. PageInv'
    BY <1>1, <1>2, <1>3, <1>5, <2>2 DEF PageInv, Live, NewSource
  <2>5. ASSUME HeardInv, ~overtaken' PROVE HeardInv'
    <3>1. \A d \in DOMAIN sources' : sources'[d].reconnect = "none"
      BY <1>2, <2>1, <2>2, <2>5 DEF InReconnect, NewSource
    <3> QED  BY <1>1, <1>3, <1>5, <2>2, <3>1 DEF HeardInv, Newest, NewSource
  <2> QED  BY <1>1, <2>1, <2>3, <2>4, <2>5 DEF TrackerInv, ConnectionInv
<1> QED  BY <1>3, <1>4, <1>5

LEMMA LeaveKeeps ==
  ASSUME TrackerInv, Leave, UNCHANGED overtaken
  PROVE  TrackerInv'
<1>1. /\ ConnectionInv /\ TrackerTypeOK /\ page = "shown" /\ page' = "left"
      /\ sources' = CleanedUp /\ timerRef' \in {0, timerRef}
      /\ UNCHANGED <<recorded, ui, rendered, overtaken>>
  BY DEF TrackerInv, ConnectionInv, Leave
<1>2. /\ CleanedUp \in Seq(SourceType)
      /\ Len(CleanedUp) = Len(sources) /\ DOMAIN CleanedUp = DOMAIN sources
      /\ \A d \in DOMAIN sources : CleanedUp[d].state = "closed"
  BY <1>1, AllClosed
<1>3. TrackerTypeOK'
  BY <1>1, <1>2 DEF TrackerTypeOK
<1>4. PageInv'
  BY <1>1, <1>2 DEF PageInv, Live
<1> QED  BY <1>1, <1>3, <1>4 DEF TrackerInv, ConnectionInv

LEMMA RecordKeeps ==
  ASSUME TrackerInv, Record, UNCHANGED overtaken
  PROVE  TrackerInv'
  BY DEF TrackerInv, ConnectionInv, TrackerTypeOK, PageInv, HeardInv, Newest, Live, Record

-----------------------------------------------------------------------------
LEMMA InitTrackerInv == TrackerInit => TrackerInv
<1> SUFFICES ASSUME TrackerInit PROVE TrackerInv
  OBVIOUS
<1>1. TrackerTypeOK
  <2>1. 0 \in 0 .. MaxAttempts
    BY TrackerAssumption
  <2>2. /\ ui \in [status : {"pending", "completed"}, retryAttempt : 0 .. MaxAttempts,
                  connectionState : ConnectionStates]
        /\ rendered \in [status : {"pending", "completed"}, retryAttempt : 0 .. MaxAttempts]
    BY <2>1 DEF TrackerInit, ConnectionStates
  <2>3. sources \in Seq(SourceType) /\ timerRef \in 0 .. Len(sources)
    BY DEF TrackerInit
  <2>4. recorded \in BOOLEAN /\ overtaken \in BOOLEAN
    BY DEF TrackerInit
  <2> QED  BY <2>2, <2>3, <2>4 DEF TrackerInit, TrackerTypeOK
<1>2. PageInv /\ page # "shown"
  BY DEF TrackerInit, PageInv
<1> QED  BY <1>1, <1>2 DEF TrackerInv, ConnectionInv

LEMMA NextTrackerInv == TrackerInv /\ [TrackerNext]_trackerVars => TrackerInv'
<1> SUFFICES ASSUME TrackerInv, [TrackerNext]_trackerVars PROVE TrackerInv'
  OBVIOUS
<1>1. CASE Render
  BY <1>1, RenderKeeps
<1>2. CASE UNCHANGED overtaken /\ (Load \/ Leave \/ Record)
  BY <1>2, LoadKeeps, LeaveKeeps, RecordKeeps
<1>3. CASE UNCHANGED overtaken /\ \E c \in DOMAIN sources : SourceStep(c)
  BY <1>3, OpenedKeeps, StatusUpdatedKeeps, HeartbeatKeeps, FailedKeeps, AnswerKeeps,
     ResumeKeeps, TimerKeeps DEF SourceStep
<1>4. CASE UNCHANGED trackerVars
  BY <1>4 DEF trackerVars, TrackerInv, ConnectionInv, TrackerTypeOK, PageInv, HeardInv, Newest, Live
<1> QED  BY <1>1, <1>2, <1>3, <1>4 DEF TrackerNext

(* The order page keeps the invariant above.                               *)
THEOREM TrackerInvariant == TrackerSpec => []TrackerInv
<1> QED  BY InitTrackerInv, NextTrackerInv, PTL DEF TrackerSpec

(* The types: no attempt is ever counted beyond STREAM_RETRY_MAX_ATTEMPTS  *)
(* (order-status-stream.tsx:65-71).                                        *)
THEOREM TrackerTypes == TrackerSpec => []TrackerTypeOK
<1>1. TrackerInv => TrackerTypeOK
  BY DEF TrackerInv, ConnectionInv
<1> QED  BY <1>1, TrackerInvariant, PTL

(* A page has one connection at most, and none when it was left or shows   *)
(* its order completed (order-status-stream.tsx:98-145).                   *)
THEOREM OneConnectionAtMost == TrackerSpec => []OneConnection
<1>1. TrackerInv => OneConnection
  BY AtMostOne DEF TrackerInv
<1> QED  BY <1>1, TrackerInvariant, PTL

(* A page that has no connection and will open none says so, unless a      *)
(* reconnect was left over from an earlier one                             *)
(* (order-status-stream.tsx:65-96, 126-145).                               *)
THEOREM DeafnessIsShown == TrackerSpec => []NeverSilentlyDeaf
<1> QED  BY NotDeaf, TrackerInvariant, PTL
=============================================================================
