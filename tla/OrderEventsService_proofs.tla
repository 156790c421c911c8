--------------------- MODULE OrderEventsService_proofs ----------------------
(***************************************************************************)
(* The live updates of a gateway are safe for every number of orders and   *)
(* streams, for every length of the bus, and whatever fails: the Map of    *)
(* streams is exact, no stream says what is not so, and the two reads of   *)
(* getOrderStatus miss an accepted order only while it is being recorded.  *)
(***************************************************************************)
EXTENDS OrderEventsService, TLAPS, FiniteSetTheorems

(* What the readers rest on, which no reader can see at once: an order is  *)
(* pending or recorded from the moment it is accepted, and announced only  *)
(* when it is recorded.                                                    *)
LifeInv == /\ pending \cup accepted \cup rows \cup published \subseteq OrderIds
           /\ accepted \subseteq pending \cup rows
           /\ published \subseteq rows

(* What a reader has seen stays true: orders stay accepted and recorded.   *)
ReadInv == \A r \in Readers :
  /\ read[r].known => read[r].order \in accepted
  /\ read[r].at = "completed" => read[r].order \in rows
  /\ read[r].known /\ read[r].at = "notFound" => read[r].order \in rows

(* Where a stream stands against its call of getOrderStatus, and what the  *)
(* messages on their way to the gateway are about.                         *)
FollowInv ==
  /\ \A s \in Streams :
       /\ (stream[s] = "closed") <=> (read[s].at = "idle")
       /\ stream[s] # "closed" => read[s].order \in OrderIds
       /\ stream[s] = "attached" => read[s].at = "pending"
       /\ stream[s] = "errored" => read[s].at \in {"notFound", "error"}
       /\ stream[s] = "completed" => read[s].order \in rows
  /\ \A i \in 1 .. Len(bus) : bus[i] \in published

(* The count of an entry is that of its listeners, which are only ever     *)
(* finitely many.                                                          *)
RegistryInv == RegistryExact /\ \A o \in OrderIds : IsFiniteSet(ListenersTo(o))

StreamInv == StreamTypeOK /\ LifeInv /\ ReadInv /\ FollowInv /\ RegistryInv

(* What the inductive invariant says of every stream is what the runs      *)
(* check.                                                                  *)
LEMMA Truthful == StreamInv => StreamsTruthful /\ NotFoundOnlyInPassing
  BY DEF StreamInv, FollowInv, ReadInv, StreamsTruthful, NotFoundOnlyInPassing, Streams

-----------------------------------------------------------------------------
(* The Map of streams *)

(* One more stream listens, and is registered.                             *)
LEMMA RegisterExact ==
  ASSUME RegistryInv, DOMAIN orderStreams \subseteq OrderIds,
         NEW s \in Streams, NEW o \in OrderIds, s \notin ListenersTo(o), Register(s, o),
         \A p \in OrderIds :
           ListenersTo(p)' = IF p = o THEN ListenersTo(p) \cup {s} ELSE ListenersTo(p)
  PROVE  RegistryInv'
<1>1. /\ DOMAIN orderStreams' = DOMAIN orderStreams \cup {o}
      /\ \A p \in DOMAIN orderStreams \ {o} : orderStreams'[p] = orderStreams[p]
  BY DEF Register, Put
<1>2. /\ IsFiniteSet(ListenersTo(o) \cup {s})
      /\ Cardinality(ListenersTo(o) \cup {s}) = Cardinality(ListenersTo(o)) + 1
  BY FS_AddElement DEF RegistryInv
<1>3. orderStreams'[o] = [observers |-> Cardinality(ListenersTo(o) \cup {s}),
                          listeners |-> ListenersTo(o) \cup {s}]
  <2>1. CASE ListenersTo(o) = {}
    <3>1. ~Has(o)
      BY <2>1 DEF RegistryInv, RegistryExact
    <3>2. orderStreams'[o] = [observers |-> 0 + 1, listeners |-> {} \cup {s}]
      BY <3>1 DEF Register, Put
    <3> QED  BY <2>1, <3>2, <1>2, FS_EmptySet
  <2>2. CASE ListenersTo(o) # {}
    <3>1. /\ Has(o)
          /\ orderStreams[o] = [observers |-> Cardinality(ListenersTo(o)),
                                listeners |-> ListenersTo(o)]
      BY <2>2 DEF RegistryInv, RegistryExact
    <3>2. orderStreams'[o] = [observers |-> orderStreams[o].observers + 1,
                              listeners |-> orderStreams[o].listeners \cup {s}]
      BY <3>1 DEF Register, Put
    <3> QED  BY <3>1, <3>2, <1>2
  <2> QED  BY <2>1, <2>2
<1>4. \A p \in OrderIds : IsFiniteSet(ListenersTo(p)')
  BY <1>2 DEF RegistryInv
<1>5. ASSUME NEW p \in OrderIds
      PROVE  IF ListenersTo(p)' = {} THEN ~Has(p)'
             ELSE /\ Has(p)'
                  /\ orderStreams'[p] = [observers |-> Cardinality(ListenersTo(p)'),
                                         listeners |-> ListenersTo(p)']
  <2>1. CASE p = o
    BY <2>1, <1>1, <1>3 DEF Has
  <2>2. CASE p # o
    <3>1. ListenersTo(p)' = ListenersTo(p)
      BY <2>2
    <3> QED  BY <2>2, <3>1, <1>1 DEF RegistryInv, RegistryExact, Has
  <2> QED  BY <2>1, <2>2
<1> QED  BY <1>4, <1>5 DEF RegistryInv, RegistryExact

(* A stream that listens is torn down: its entry loses it, or goes.        *)
LEMMA TeardownExact ==
  ASSUME RegistryInv, DOMAIN orderStreams \subseteq OrderIds,
         NEW s \in Streams, NEW o \in OrderIds, s \in ListenersTo(o), Teardown(s, o),
         \A p \in OrderIds :
           ListenersTo(p)' = IF p = o THEN ListenersTo(p) \ {s} ELSE ListenersTo(p)
  PROVE  RegistryInv'
<1> DEFINE left == ListenersTo(o) \ {s}
<1>1. /\ IsFiniteSet(left)
      /\ Cardinality(left) = Cardinality(ListenersTo(o)) - 1
      /\ Cardinality(left) \in Nat
      /\ Cardinality(left) = 0 <=> left = {}
  BY FS_RemoveElement, FS_CardinalityType, FS_EmptySet DEF RegistryInv
<1>2. /\ Has(o)
      /\ orderStreams[o] = [observers |-> Cardinality(ListenersTo(o)),
                            listeners |-> ListenersTo(o)]
  BY DEF RegistryInv, RegistryExact
<1>3. orderStreams' = IF left = {} THEN Drop(o)
                      ELSE Put(o, [observers |-> Cardinality(left), listeners |-> left])
  <2>1. /\ orderStreams[o].observers - 1 = Cardinality(left)
        /\ orderStreams[o].listeners \ {s} = left
    BY <1>1, <1>2
  <2>2. orderStreams[o].observers - 1 <= 0 <=> left = {}
    <3>1. \A n \in Nat : n <= 0 <=> n = 0
      OBVIOUS
    <3> HIDE DEF left
    <3> QED  BY <1>1, <2>1, <3>1
  <2> HIDE DEF left
  <2> QED  BY <1>2, <2>1, <2>2 DEF Teardown
<1>4. \A p \in OrderIds : IsFiniteSet(ListenersTo(p)')
  BY <1>1 DEF RegistryInv
<1>5. ASSUME NEW p \in OrderIds
      PROVE  IF ListenersTo(p)' = {} THEN ~Has(p)'
             ELSE /\ Has(p)'
                  /\ orderStreams'[p] = [observers |-> Cardinality(ListenersTo(p)'),
                                         listeners |-> ListenersTo(p)']
  <2>1. CASE p = o
    <3>1. ListenersTo(p)' = left
      BY <2>1
    <3> HIDE DEF left
    <3> QED  BY <2>1, <3>1, <1>3 DEF Has, Put, Drop
  <2>2. CASE p # o
    <3>1. ListenersTo(p)' = ListenersTo(p)
      BY <2>2
    <3>2. /\ Has(p)' <=> Has(p)
          /\ Has(p) => orderStreams'[p] = orderStreams[p]
      <4> HIDE DEF left
      <4> QED  BY <2>2, <1>3 DEF Has, Put, Drop
    <3> QED  BY <3>1, <3>2 DEF RegistryInv, RegistryExact, Has
  <2> QED  BY <2>1, <2>2
<1> QED  BY <1>4, <1>5 DEF RegistryInv, RegistryExact

(* All that listen to an order are told, and its entry goes.               *)
LEMMA DropExact ==
  ASSUME RegistryInv, NEW o, orderStreams' = Drop(o),
         \A p \in OrderIds : ListenersTo(p)' = IF p = o THEN {} ELSE ListenersTo(p)
  PROVE  RegistryInv'
<1>1. \A p \in OrderIds : IsFiniteSet(ListenersTo(p)')
  BY FS_EmptySet DEF RegistryInv
<1>2. ASSUME NEW p \in OrderIds
      PROVE  IF ListenersTo(p)' = {} THEN ~Has(p)'
             ELSE /\ Has(p)'
                  /\ orderStreams'[p] = [observers |-> Cardinality(ListenersTo(p)'),
                                         listeners |-> ListenersTo(p)']
  <2>1. CASE p = o
    BY <2>1 DEF Drop, Has
  <2>2. CASE p # o
    <3>1. ListenersTo(p)' = ListenersTo(p)
      BY <2>2
    <3>2. /\ Has(p)' <=> Has(p)
          /\ Has(p) => orderStreams'[p] = orderStreams[p]
      BY <2>2 DEF Drop, Has
    <3> QED  BY <3>1, <3>2 DEF RegistryInv, RegistryExact, Has
  <2> QED  BY <2>1, <2>2
<1> QED  BY <1>1, <1>2 DEF RegistryInv, RegistryExact

(* Nobody comes or goes.                                                   *)
LEMMA SameExact ==
  ASSUME RegistryInv, UNCHANGED orderStreams,
         \A p \in OrderIds : ListenersTo(p)' = ListenersTo(p)
  PROVE  RegistryInv'
  BY DEF RegistryInv, RegistryExact, Has

-----------------------------------------------------------------------------
(* The write side *)

(* A step of an order's life keeps the order of events, and takes nothing  *)
(* back but a pending key.                                                 *)
LEMMA LifeKept ==
  ASSUME LifeInv, NEW o \in OrderIds, LifecycleStep(o)
  PROVE  /\ LifeInv'
         /\ accepted \subseteq accepted'
         /\ rows \subseteq rows'
         /\ published \subseteq published'
  BY DEF LifeInv, LifecycleStep, Mark, Unmark, Accept, Persist, Clear, Publish

(* So whatever was read before it stays true.                              *)
LEMMA ReadKept ==
  ASSUME ReadInv, UNCHANGED read, accepted \subseteq accepted', rows \subseteq rows'
  PROVE  ReadInv'
  BY DEF ReadInv

(* A step of the write side that announces nothing.                        *)
LEMMA WriteKeeps ==
  ASSUME StreamInv, NEW o \in OrderIds, WriteStep(o), UNCHANGED missed
  PROVE  StreamInv'
<1>1. LifecycleStep(o) /\ UNCHANGED <<read, stream, orderStreams, bus>>
  BY DEF WriteStep, LifecycleStep, eventVars
<1>2. /\ LifeInv'
      /\ accepted \subseteq accepted' /\ rows \subseteq rows' /\ published \subseteq published'
  BY <1>1, LifeKept DEF StreamInv
<1>3. StreamTypeOK'
  BY <1>1 DEF StreamInv, StreamTypeOK, ReadTypeOK
<1>4. ReadInv'
  BY <1>1, <1>2, ReadKept DEF StreamInv
<1>5. FollowInv'
  BY <1>1, <1>2 DEF StreamInv, FollowInv
<1>6. RegistryInv'
  <2>1. \A p \in OrderIds : ListenersTo(p)' = ListenersTo(p)
    BY <1>1 DEF ListenersTo
  <2> QED  BY <1>1, <2>1, SameExact DEF StreamInv
<1> QED  BY <1>2, <1>3, <1>4, <1>5, <1>6 DEF StreamInv

(* An announcement goes onto the bus, or is dropped: its order has a row.  *)
LEMMA PublishKeeps ==
  ASSUME StreamInv, NEW o \in OrderIds, PublishToBus(o)
  PROVE  StreamInv'
<1>1. /\ LifecycleStep(o) /\ UNCHANGED <<read, stream, orderStreams>>
      /\ published' = published \cup {o}
      /\ bus' = bus \/ bus' = Append(bus, o)
      /\ missed' = missed \/ missed' = missed \cup {o}
  BY DEF PublishToBus, Publish, LifecycleStep
<1>2. /\ LifeInv'
      /\ accepted \subseteq accepted' /\ rows \subseteq rows' /\ published \subseteq published'
  BY <1>1, LifeKept DEF StreamInv
<1>3. bus \in Seq(OrderIds) /\ bus' \in Seq(OrderIds)
  BY <1>1 DEF StreamInv, StreamTypeOK
<1>4. StreamTypeOK'
  BY <1>1, <1>3 DEF StreamInv, StreamTypeOK, ReadTypeOK
<1>5. ReadInv'
  BY <1>1, <1>2, ReadKept DEF StreamInv
<1>6. \A i \in 1 .. Len(bus') : bus'[i] \in published'
  BY <1>1, <1>3 DEF StreamInv, FollowInv
<1>7. FollowInv'
  BY <1>1, <1>2, <1>6 DEF StreamInv, FollowInv
<1>8. RegistryInv'
  <2>1. \A p \in OrderIds : ListenersTo(p)' = ListenersTo(p)
    BY <1>1 DEF ListenersTo
  <2> QED  BY <1>1, <2>1, SameExact DEF StreamInv
<1> QED  BY <1>2, <1>4, <1>5, <1>7, <1>8 DEF StreamInv

-----------------------------------------------------------------------------
(* The gateway *)

(* The first read: it tells a row, that there was none, or fails.          *)
LEMMA ConnectKeeps ==
  ASSUME StreamInv, NEW s \in Streams, NEW o \in OrderIds, Connect(s, o), UNCHANGED missed
  PROVE  StreamInv'
<1>1. /\ stream[s] = "closed"
      /\ stream' = [stream EXCEPT ![s] = "attaching"]
      /\ UNCHANGED <<lifecycleVars, orderStreams, bus>>
  BY DEF Connect, Turn
<1> DEFINE isKnown == o \in accepted
<1>10. PICK state \in {"completed", "redis", "error"} :
        /\ read' = [read EXCEPT ![s] = [at |-> state, order |-> o, known |-> isKnown]]
        /\ state = "completed" => o \in rows
  BY DEF Connect, FindOne
<1> DEFINE answer == [at |-> state, order |-> o, known |-> isKnown]
<1>2. /\ answer \in [at : {"idle", "redis"} \cup StatusAnswers,
                     order : OrderIds \cup {NoOrder},
                     known : BOOLEAN]
      /\ answer.at # "idle" /\ answer.at # "notFound" /\ answer.order = o
      /\ answer.known => o \in accepted
      /\ answer.at = "completed" => o \in rows
  <2>1. /\ state \in {"completed", "redis", "error"} /\ isKnown \in BOOLEAN
        /\ isKnown => o \in accepted
        /\ state = "completed" => o \in rows
    BY <1>10
  <2> HIDE DEF isKnown
  <2> QED  BY <2>1 DEF StatusAnswers
<1>9. read' = [read EXCEPT ![s] = answer]
  BY <1>10
<1> HIDE DEF answer, isKnown
<1>3. /\ read' \in [Readers -> [at : {"idle", "redis"} \cup StatusAnswers,
                                order : OrderIds \cup {NoOrder},
                                known : BOOLEAN]]
      /\ stream' \in [Streams -> StreamStates]
      /\ read'[s] = answer /\ stream'[s] = "attaching"
      /\ \A q \in Streams \ {s} : read'[q] = read[q] /\ stream'[q] = stream[q]
  BY <1>1, <1>2, <1>9 DEF StreamInv, StreamTypeOK, ReadTypeOK, Streams, StreamStates
<1>4. StreamTypeOK'
  BY <1>1, <1>3 DEF StreamInv, StreamTypeOK, ReadTypeOK
<1>5. LifeInv'
  BY <1>1 DEF StreamInv, LifeInv, lifecycleVars
<1>6. ReadInv'
  BY <1>1, <1>2, <1>3 DEF StreamInv, ReadInv, lifecycleVars, Streams
<1>7. FollowInv'
  BY <1>1, <1>2, <1>3 DEF StreamInv, FollowInv, lifecycleVars
<1>8. RegistryInv'
  <2>1. \A p \in OrderIds : ListenersTo(p)' = ListenersTo(p)
    BY <1>1, <1>3 DEF ListenersTo
  <2> QED  BY <1>1, <2>1, SameExact DEF StreamInv
<1> QED  BY <1>4, <1>5, <1>6, <1>7, <1>8 DEF StreamInv

(* The second read: an accepted order without a pending key has its row.   *)
LEMMA PendingKeeps ==
  ASSUME StreamInv, NEW s \in Streams, ReadPending(s), UNCHANGED missed
  PROVE  StreamInv'
<1>1. /\ read[s].at = "redis"
      /\ UNCHANGED <<lifecycleVars, stream, orderStreams, bus>>
  BY DEF ReadPending, IsPending, eventVars
<1>2. PICK state \in {"pending", "notFound", "error"} :
        /\ read' = [read EXCEPT ![s].at = state]
        /\ state = "notFound" => read[s].order \notin pending
  BY DEF ReadPending, IsPending
<1>3. /\ read' \in [Readers -> [at : {"idle", "redis"} \cup StatusAnswers,
                                order : OrderIds \cup {NoOrder},
                                known : BOOLEAN]]
      /\ read'[s].at = state
      /\ read'[s].order = read[s].order /\ read'[s].known = read[s].known
      /\ \A q \in Streams \ {s} : read'[q] = read[q]
      /\ \A q \in Streams : read'[q].order = read[q].order
  BY <1>1, <1>2 DEF StreamInv, StreamTypeOK, ReadTypeOK, Streams, StatusAnswers
<1>4. StreamTypeOK'
  BY <1>1, <1>3 DEF StreamInv, StreamTypeOK, ReadTypeOK
<1>5. LifeInv'
  BY <1>1 DEF StreamInv, LifeInv, lifecycleVars
<1>6. ReadInv'
  <2>1. read[s].known /\ state = "notFound" => read[s].order \in rows
    BY <1>2 DEF StreamInv, ReadInv, LifeInv, Streams
  <2> QED  BY <1>1, <1>2, <1>3, <2>1 DEF StreamInv, ReadInv, lifecycleVars, Streams
<1>7. FollowInv'
  <2>1. stream[s] \notin {"closed", "attached", "errored"}
    BY <1>1 DEF StreamInv, FollowInv
  <2> QED  BY <1>1, <1>2, <1>3, <2>1 DEF StreamInv, FollowInv, lifecycleVars
<1>8. RegistryInv'
  <2>1. \A p \in OrderIds : ListenersTo(p)' = ListenersTo(p)
    BY <1>1, <1>3 DEF ListenersTo
  <2> QED  BY <1>1, <2>1, SameExact DEF StreamInv
<1> QED  BY <1>4, <1>5, <1>6, <1>7, <1>8 DEF StreamInv

(* The entries of an exact Map have their type, after every step.          *)
LEMMA EntryTypes ==
  ASSUME RegistryInv', DOMAIN orderStreams' \subseteq OrderIds
  PROVE  \A o \in DOMAIN orderStreams' : orderStreams'[o] \in Entries
<1> SUFFICES ASSUME NEW o \in DOMAIN orderStreams'
             PROVE  orderStreams'[o] \in Entries
  OBVIOUS
<1>1. orderStreams'[o] = [observers |-> Cardinality(ListenersTo(o)'),
                          listeners |-> ListenersTo(o)']
  BY DEF RegistryInv, RegistryExact, Has
<1>2. Cardinality(ListenersTo(o)') \in Nat /\ ListenersTo(o)' \in SUBSET Streams
  BY FS_CardinalityType DEF RegistryInv, ListenersTo
<1> QED  BY <1>1, <1>2 DEF Entries

(* One stream goes on, or is forgotten: whether it listens now, and to     *)
(* what, is all that changes of the listeners.                             *)
LEMMA TurnKeeps ==
  ASSUME StreamInv, NEW s \in Streams, NEW state \in StreamStates, Turn(s, state),
         UNCHANGED <<lifecycleVars, bus, missed>>,
         \/ /\ stream[s] # "closed" /\ state # "closed"
            /\ state = "attached" => read[s].at = "pending"
            /\ state = "errored" => read[s].at \in {"notFound", "error"}
            /\ state = "completed" => read[s].order \in rows
            /\ UNCHANGED read
         \/ state = "closed" /\ Forget(s)
  PROVE  /\ LifeInv' /\ ReadInv' /\ FollowInv' /\ ReadTypeOK'
         /\ stream' \in [Streams -> StreamStates]
         /\ bus' \in Seq(OrderIds) /\ missed' \subseteq OrderIds
         /\ \A p \in OrderIds :
              ListenersTo(p)' = IF state = "attached" /\ read[s].order = p
                                THEN ListenersTo(p) \cup {s} ELSE ListenersTo(p) \ {s}
<1>1. /\ UNCHANGED <<pending, accepted, rows, published, bus, missed>>
      /\ stream' \in [Streams -> StreamStates] /\ stream'[s] = state
      /\ \A q \in Streams \ {s} : stream'[q] = stream[q]
  BY DEF StreamInv, StreamTypeOK, Turn, lifecycleVars
<1>2. /\ ReadTypeOK'
      /\ \A q \in Streams \ {s} : read'[q] = read[q]
      /\ IF state = "closed" THEN read'[s] = Idle ELSE read'[s] = read[s]
  <2>1. Idle \in [at : {"idle", "redis"} \cup StatusAnswers,
                  order : OrderIds \cup {NoOrder},
                  known : BOOLEAN]
    BY DEF Idle
  <2>2. ReadTypeOK /\ s \in Readers
    BY DEF StreamInv, StreamTypeOK, Streams
  <2>3. CASE UNCHANGED read /\ state # "closed"
    BY <2>2, <2>3 DEF ReadTypeOK
  <2>4. CASE Forget(s) /\ state = "closed"
    BY <2>1, <2>2, <2>4 DEF ReadTypeOK, Forget, Streams
  <2> QED  BY <2>3, <2>4
<1>3. LifeInv' /\ bus' \in Seq(OrderIds) /\ missed' \subseteq OrderIds
  BY <1>1 DEF StreamInv, StreamTypeOK, LifeInv
<1>4. ReadInv'
  BY <1>1, <1>2 DEF StreamInv, ReadInv, Streams, Idle
<1>5. FollowInv'
  <2>1. ASSUME NEW q \in Streams
        PROVE  /\ (stream'[q] = "closed") <=> (read'[q].at = "idle")
               /\ stream'[q] # "closed" => read'[q].order \in OrderIds
               /\ stream'[q] = "attached" => read'[q].at = "pending"
               /\ stream'[q] = "errored" => read'[q].at \in {"notFound", "error"}
               /\ stream'[q] = "completed" => read'[q].order \in rows'
    <3>1. CASE q # s
      BY <3>1, <1>1, <1>2 DEF StreamInv, FollowInv
    <3>2. CASE q = s /\ state = "closed"
      BY <3>2, <1>1, <1>2 DEF Idle
    <3>3. CASE q = s /\ state # "closed"
      BY <3>3, <1>1, <1>2 DEF StreamInv, FollowInv
    <3> QED  BY <3>1, <3>2, <3>3
  <2> QED  BY <2>1, <1>1 DEF StreamInv, FollowInv
<1>6. \A p \in OrderIds :
        ListenersTo(p)' = IF state = "attached" /\ read[s].order = p
                          THEN ListenersTo(p) \cup {s} ELSE ListenersTo(p) \ {s}
  <2>1. state = "attached" => read'[s].order = read[s].order
    BY <1>2
  <2> QED  BY <1>1, <1>2, <2>1 DEF ListenersTo
<1> QED  BY <1>1, <1>2, <1>3, <1>4, <1>5, <1>6

(* The answer of getOrderStatus comes, and the stream is registered if its *)
(* order is pending.                                                       *)
LEMMA AttachKeeps ==
  ASSUME StreamInv, NEW s \in Streams, Attach(s), UNCHANGED missed
  PROVE  StreamInv'
<1>1. /\ stream[s] = "attaching" /\ read[s].order \in OrderIds
      /\ \A p \in OrderIds : s \notin ListenersTo(p)
      /\ UNCHANGED <<lifecycleVars, read, bus>>
  BY DEF Attach, StreamInv, FollowInv, ListenersTo
<1>2. PICK state \in StreamStates :
        /\ Turn(s, state)
        /\ IF state = "attached" THEN Register(s, read[s].order) ELSE UNCHANGED orderStreams
        /\ state # "closed"
        /\ state = "attached" => read[s].at = "pending"
        /\ state = "errored" => read[s].at \in {"notFound", "error"}
        /\ state = "completed" => read[s].at = "completed"
  BY DEF Attach, StreamStates
<1>3. state = "completed" => read[s].order \in rows
  BY <1>2 DEF StreamInv, ReadInv, Streams
<1>4. /\ LifeInv' /\ ReadInv' /\ FollowInv' /\ ReadTypeOK'
      /\ stream' \in [Streams -> StreamStates]
      /\ bus' \in Seq(OrderIds) /\ missed' \subseteq OrderIds
      /\ \A p \in OrderIds :
           ListenersTo(p)' = IF state = "attached" /\ read[s].order = p
                             THEN ListenersTo(p) \cup {s} ELSE ListenersTo(p) \ {s}
  BY <1>1, <1>2, <1>3, TurnKeeps
<1>5. DOMAIN orderStreams \subseteq OrderIds /\ RegistryInv
  BY DEF StreamInv, StreamTypeOK
<1>6. RegistryInv' /\ DOMAIN orderStreams' \subseteq OrderIds
  <2>1. CASE state = "attached"
    <3>1. \A p \in OrderIds : ListenersTo(p)' = IF p = read[s].order THEN ListenersTo(p) \cup {s}
                                                 ELSE ListenersTo(p)
      BY <2>1, <1>1, <1>4
    <3> QED  BY <2>1, <3>1, <1>1, <1>2, <1>5, RegisterExact DEF Register, Put
  <2>2. CASE state # "attached"
    <3>1. \A p \in OrderIds : ListenersTo(p)' = ListenersTo(p)
      BY <2>2, <1>1, <1>4
    <3> QED  BY <2>2, <3>1, <1>2, <1>5, SameExact
  <2> QED  BY <2>1, <2>2
<1>7. StreamTypeOK'
  BY <1>4, <1>6, EntryTypes DEF StreamTypeOK
<1> QED  BY <1>4, <1>6, <1>7 DEF StreamInv

(* The browser is gone, before the answer or after it.                     *)
LEMMA LeaveKeeps ==
  ASSUME StreamInv, NEW s \in Streams, AttachAbandoned(s) \/ Disconnect(s), UNCHANGED missed
  PROVE  StreamInv'
<1>1. /\ stream[s] # "closed" /\ read[s].order \in OrderIds
      /\ \A p \in OrderIds :
           s \in ListenersTo(p) <=> stream[s] = "attached" /\ p = read[s].order
      /\ UNCHANGED <<lifecycleVars, bus>>
  BY DEF AttachAbandoned, Disconnect, StreamInv, FollowInv, ListenersTo
<1>2. PICK state \in {"abandoned", "closed"} :
        /\ Turn(s, state)
        /\ IF stream[s] = "attached" THEN Teardown(s, read[s].order) ELSE UNCHANGED orderStreams
        /\ IF state = "closed" THEN Forget(s) ELSE UNCHANGED read
  BY DEF AttachAbandoned, Disconnect
<1>3. /\ LifeInv' /\ ReadInv' /\ FollowInv' /\ ReadTypeOK'
      /\ stream' \in [Streams -> StreamStates]
      /\ bus' \in Seq(OrderIds) /\ missed' \subseteq OrderIds
      /\ \A p \in OrderIds : ListenersTo(p)' = ListenersTo(p) \ {s}
  <2>1. state \in StreamStates
    BY DEF StreamStates
  <2> QED  BY <1>1, <1>2, <2>1, TurnKeeps
<1>4. DOMAIN orderStreams \subseteq OrderIds /\ RegistryInv
  BY DEF StreamInv, StreamTypeOK
<1>5. RegistryInv' /\ DOMAIN orderStreams' \subseteq OrderIds
  <2>1. CASE stream[s] = "attached"
    <3>1. \A p \in OrderIds : ListenersTo(p)' = IF p = read[s].order THEN ListenersTo(p) \ {s}
                                                 ELSE ListenersTo(p)
      BY <2>1, <1>1, <1>3
    <3>2. DOMAIN orderStreams' \subseteq OrderIds
      BY <2>1, <1>1, <1>2, <1>4 DEF Teardown, Put, Drop
    <3> QED  BY <2>1, <3>1, <3>2, <1>1, <1>2, <1>4, TeardownExact
  <2>2. CASE stream[s] # "attached"
    <3>1. \A p \in OrderIds : ListenersTo(p)' = ListenersTo(p)
      BY <2>2, <1>1, <1>3
    <3> QED  BY <2>2, <3>1, <1>2, <1>4, SameExact
  <2> QED  BY <2>1, <2>2
<1>6. StreamTypeOK'
  BY <1>3, <1>5, EntryTypes DEF StreamTypeOK
<1> QED  BY <1>3, <1>5, <1>6 DEF StreamInv

(* A message: whoever listens to its order is told of a row there is.      *)
LEMMA BroadcastKeeps ==
  ASSUME StreamInv, Broadcast, UNCHANGED missed
  PROVE  StreamInv'
<1> DEFINE o == Head(bus)
<1>1. /\ bus \in Seq(OrderIds) /\ bus # << >> /\ bus' = Tail(bus)
      /\ UNCHANGED <<pending, accepted, rows, published, read>>
  BY DEF StreamInv, StreamTypeOK, Broadcast, lifecycleVars
<1>2. /\ o \in OrderIds /\ o \in published /\ o \in rows
      /\ bus' \in Seq(OrderIds)
      /\ \A i \in 1 .. Len(bus') : bus'[i] \in published
  BY <1>1 DEF StreamInv, FollowInv, LifeInv
<1>3. orderStreams' = Drop(o)
  BY DEF Broadcast
<1>4. stream' = [s \in Streams |-> IF s \in ListenersTo(o) THEN "completed" ELSE stream[s]]
  <2> DEFINE listeners == IF Has(o) THEN orderStreams[o].listeners ELSE {}
  <2>1. ListenersTo(o) = listeners
    <3>1. \A p \in OrderIds :
            ListenersTo(p) = IF Has(p) THEN orderStreams[p].listeners ELSE {}
      <4> TAKE p \in OrderIds
      <4>1. RegistryExact
        BY DEF StreamInv, RegistryInv
      <4>2. CASE ListenersTo(p) = {}
        BY <4>1, <4>2 DEF RegistryExact
      <4>3. CASE ListenersTo(p) # {}
        <5>1. /\ Has(p)
              /\ orderStreams[p] = [observers |-> Cardinality(ListenersTo(p)),
                                    listeners |-> ListenersTo(p)]
          BY <4>1, <4>3 DEF RegistryExact
        <5>2. orderStreams[p].listeners = ListenersTo(p)
          BY <5>1
        <5> QED  BY <5>1, <5>2
      <4> QED  BY <4>2, <4>3
    <3> QED  BY <3>1, <1>2
  <2>2. stream' = [s \in Streams |-> IF s \in listeners THEN "completed" ELSE stream[s]]
    BY DEF Broadcast
  <2> HIDE DEF listeners
  <2> QED  BY <2>1, <2>2
<1> HIDE DEF o
<1>5. /\ LifeInv' /\ ReadInv' /\ ReadTypeOK'
      /\ missed' \subseteq OrderIds
  BY <1>1 DEF StreamInv, StreamTypeOK, LifeInv, ReadInv, ReadTypeOK
<1>6. stream' \in [Streams -> StreamStates]
  BY <1>4 DEF StreamInv, StreamTypeOK, StreamStates
<1>7. FollowInv'
  <2>1. \A s \in Streams : s \in ListenersTo(o) => read[s].order = o /\ stream[s] = "attached"
    BY DEF ListenersTo
  <2> QED  BY <1>1, <1>2, <1>4, <2>1 DEF StreamInv, FollowInv
<1>8. RegistryInv' /\ DOMAIN orderStreams' \subseteq OrderIds
  <2>1. \A p \in OrderIds : ListenersTo(p)' = IF p = o THEN {} ELSE ListenersTo(p)
    BY <1>1, <1>4 DEF ListenersTo
  <2>2. DOMAIN orderStreams' \subseteq OrderIds
    BY <1>3 DEF Drop, StreamInv, StreamTypeOK
  <2> QED  BY <2>1, <2>2, <1>3, DropExact DEF StreamInv
<1>9. StreamTypeOK'
  BY <1>2, <1>5, <1>6, <1>8, EntryTypes DEF StreamTypeOK
<1> QED  BY <1>5, <1>7, <1>8, <1>9 DEF StreamInv

(* A gateway that starts anew has no streams and no entries.               *)
Fresh == /\ LifeInv
         /\ missed \subseteq OrderIds
         /\ stream = [s \in Streams |-> "closed"]
         /\ read = [s \in Streams |-> Idle]
         /\ orderStreams = << >>
         /\ bus = << >>

LEMMA FreshGateway == Fresh => StreamInv
<1> SUFFICES ASSUME Fresh PROVE StreamInv
  OBVIOUS
<1>1. \A p \in OrderIds : ListenersTo(p) = {} /\ ~Has(p)
  BY DEF Fresh, ListenersTo, Has
<1>2. RegistryInv
  BY <1>1, FS_EmptySet DEF RegistryInv, RegistryExact
<1>3. StreamTypeOK
  BY DEF Fresh, StreamTypeOK, ReadTypeOK, Idle, Streams, StreamStates
<1>4. LifeInv /\ ReadInv /\ FollowInv
  BY DEF Fresh, ReadInv, FollowInv, Idle, Streams
<1> QED  BY <1>2, <1>3, <1>4 DEF StreamInv

(* So has one that a step has started anew.                                *)
LEMMA FreshAgain == Fresh' => StreamInv'
  BY FreshGateway, PTL

-----------------------------------------------------------------------------
(* Every step keeps the invariant.                                         *)
LEMMA InitStreamInv == StreamInit => StreamInv
<1> SUFFICES ASSUME StreamInit PROVE StreamInv
  OBVIOUS
<1>1. LifeInv
  BY DEF StreamInit, ReadInit, LifecycleInit, LifeInv
<1> QED  BY <1>1, FreshGateway DEF Fresh, StreamInit, ReadInit, Streams

LEMMA NextStreamInv == StreamInv /\ [StreamNext]_streamVars => StreamInv'
<1> SUFFICES ASSUME StreamInv, [StreamNext]_streamVars PROVE StreamInv'
  OBVIOUS
<1>1. CASE \E o \in OrderIds : PublishToBus(o)
  BY <1>1, PublishKeeps
<1>2. CASE UNCHANGED missed /\ \E o \in OrderIds : WriteStep(o)
  BY <1>2, WriteKeeps
<1>3. CASE UNCHANGED missed /\ \E s \in Streams : StreamStep(s)
  BY <1>3, ConnectKeeps, PendingKeeps, AttachKeeps, LeaveKeeps DEF StreamStep
<1>4. CASE UNCHANGED missed /\ Broadcast
  BY <1>4, BroadcastKeeps
<1>5. CASE UNCHANGED missed /\ GatewayRestart
  <2>1. LifeInv' /\ missed' \subseteq OrderIds
    BY <1>5 DEF GatewayRestart, StreamInv, StreamTypeOK, LifeInv, lifecycleVars
  <2>2. /\ stream' = [s \in Streams |-> "closed"] /\ read' = [s \in Streams |-> Idle]
        /\ orderStreams' = << >> /\ bus' = << >>
    BY <1>5 DEF GatewayRestart
  <2> QED  BY <2>1, <2>2, FreshAgain DEF Fresh
<1>6. CASE UNCHANGED streamVars
  <2>1. UNCHANGED <<pending, accepted, rows, published, read, stream, orderStreams, bus, missed>>
    BY <1>6 DEF streamVars, lifecycleVars, eventVars
  <2>2. StreamTypeOK'
    BY <2>1 DEF StreamInv, StreamTypeOK, ReadTypeOK
  <2>3. LifeInv' /\ ReadInv' /\ FollowInv'
    BY <2>1 DEF StreamInv, LifeInv, ReadInv, FollowInv
  <2>4. \A p \in OrderIds : ListenersTo(p)' = ListenersTo(p)
    BY <2>1 DEF ListenersTo
  <2> QED  BY <2>1, <2>2, <2>3, <2>4, SameExact DEF StreamInv
<1> QED  BY <1>1, <1>2, <1>3, <1>4, <1>5, <1>6 DEF StreamNext

(* A gateway's streams, its Map, its messages and its reads keep the       *)
(* invariant above, for all orders and streams and under every fault.      *)
THEOREM StreamInvariant == StreamSpec => []StreamInv
<1> QED  BY InitStreamInv, NextStreamInv, PTL DEF StreamSpec

(* The types, among them that every message and every entry is of an order *)
(* (order-events.service.ts:28-30, 115-146).                               *)
THEOREM StreamTypes == StreamSpec => []StreamTypeOK
<1>1. StreamInv => StreamTypeOK
  BY DEF StreamInv
<1> QED  BY <1>1, StreamInvariant, PTL

(* The Map of streams never misses a listener, counts one wrong, or keeps  *)
(* an entry nobody listens to (order-events.service.ts:82-106, 115-146).   *)
THEOREM RegistryIsExact == StreamSpec => []RegistryExact
<1>1. StreamInv => RegistryExact
  BY DEF StreamInv, RegistryInv
<1> QED  BY <1>1, StreamInvariant, PTL

(* No stream says "completed" of an order without a row, nor ends in an    *)
(* error for an accepted order that is not done                            *)
(* (order-events.service.ts:38-80, 108-146).                               *)
THEOREM StreamsAreTruthful == StreamSpec => []StreamsTruthful
<1> QED  BY Truthful, StreamInvariant, PTL

(* getOrderStatus answers 404 to the owner of an accepted order only when  *)
(* it is recorded by now (orders.service.ts:16-37).                        *)
THEOREM OnlyInPassing == StreamSpec => []NotFoundOnlyInPassing
<1> QED  BY Truthful, StreamInvariant, PTL
=============================================================================
