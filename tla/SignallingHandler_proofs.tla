---------------------- MODULE SignallingHandler_proofs ----------------------
(***************************************************************************)
(* Proofs about SignallingHandler, for any set of peers and of metadata.   *)
(***************************************************************************)
EXTENDS SignallingHandler, FiniteSetTheorems, SequenceTheorems, TLAPS

(* The copies of a message queued for the members of a finite set of peers *)
(* are items, whatever the order the set is walked in.                     *)
LEMMA ToEachItems ==
    ASSUME NEW S \in SUBSET PeerId, IsFiniteSet(S),
           NEW order \in SetToSeqs(S), NEW msg \in Message
    PROVE  ToEach(order, msg) \in Seq(Item)
<1>1. Cardinality(S) \in Nat
  BY FS_CardinalityType
<1>2. order \in [1..Cardinality(S) -> S]
  BY DEF SetToSeqs
<1>3. ToEach(order, msg) \in [1..Cardinality(S) -> Item]
  BY <1>2 DEF ToEach, Item
<1>. QED
  BY <1>1, <1>3

(* What the messages of the protocol are made of. *)
LEMMA MessageTypes ==
    ASSUME NEW p \in PeerId, NEW m \in Meta
    PROVE  /\ \A r \in Role : Registered(r, p, m) \in Message
           /\ ProducerAdded(p, m) \in Message
           /\ ProducerRemoved(p, m) \in Message
           /\ StartSessionMsg(p) \in Message
           /\ EndSessionMsg(p) \in Message
           /\ \A i \in Inner : PeerMsg(p, i) \in Message
           /\ ErrorMsg \in Message
  BY DEF Message, Registered, ProducerAdded, ProducerRemoved, StartSessionMsg,
         EndSessionMsg, PeerMsg, ErrorMsg

(* The metadata quoted for a peer is metadata, and so a list is a message. *)
LEMMA MetaOfType ==
    ASSUME PeersTypeOK
    PROVE  /\ \A p \in PeerId : MetaOf(p) \in Meta
           /\ ListMsg \in Message
<1>1. \A p \in PeerId : MetaOf(p) \in Meta
  BY NoMetaIsMeta DEF PeersTypeOK, MetaOf
<1>2. {[id |-> p, meta |-> MetaOf(p)] : p \in DOMAIN producers} \subseteq Peer
  BY <1>1 DEF PeersTypeOK, Peer
<1>. QED
  BY <1>1, <1>2 DEF ListMsg, Message

(* Queueing one message for one peer. *)
LEMMA SendType ==
    ASSUME TypeOK, NEW to \in PeerId, NEW msg \in Message, Send(to, msg)
    PROVE  items' \in Seq(Item)
  BY DEF TypeOK, Send, Item

(* A rejected request queues an error and touches nothing else. *)
LEMMA RejectType ==
    ASSUME TypeOK, NEW peer \in PeerId, Reject(peer)
    PROVE  TypeOK'
<1>1. items' \in Seq(Item)
  BY MessageTypes DEF TypeOK, Reject, Item, Message, ErrorMsg
<1>2. PeersTypeOK'
  BY DEF TypeOK, PeersTypeOK, Reject, peers
<1>. QED
  BY <1>1, <1>2 DEF TypeOK

(* Each handler keeps the types. *)
LEMMA RegisterType ==
    ASSUME TypeOK, NEW peer \in PeerId, NEW m \in Meta,
           \/ RegisterProducer(peer, m)
           \/ RegisterConsumer(peer, m)
           \/ RegisterListener(peer, m)
    PROVE  TypeOK'
<1>1. CASE Reject(peer)
  BY <1>1, RejectType
<1>2. CASE RegisterProducer(peer, m) /\ ~Reject(peer)
  <2>1. PICK order \in SetToSeqs(listeners) :
            items' = items \o ToEach(order, ProducerAdded(peer, m))
                           \o <<<<peer, Registered("producer", peer, m)>>>>
    BY <1>2 DEF RegisterProducer
  <2>2. ToEach(order, ProducerAdded(peer, m)) \in Seq(Item)
    BY ToEachItems, MessageTypes DEF TypeOK, PeersTypeOK
  <2>3. <<peer, Registered("producer", peer, m)>> \in Item
    BY MessageTypes DEF Item, Role
  <2>4. items' \in Seq(Item)
    BY <2>1, <2>2, <2>3 DEF TypeOK
  <2>5. PeersTypeOK'
    BY <1>2, FS_EmptySet DEF RegisterProducer, TypeOK, PeersTypeOK, Put
  <2>. QED
    BY <2>4, <2>5 DEF TypeOK
<1>3. CASE RegisterConsumer(peer, m) /\ ~Reject(peer)
  <2>1. items' \in Seq(Item)
    BY <1>3, SendType, MessageTypes DEF RegisterConsumer, Role
  <2>2. PeersTypeOK'
    BY <1>3 DEF RegisterConsumer, TypeOK, PeersTypeOK, Put
  <2>. QED
    BY <2>1, <2>2 DEF TypeOK
<1>4. CASE RegisterListener(peer, m) /\ ~Reject(peer)
  <2>1. items' \in Seq(Item)
    BY <1>4, SendType, MessageTypes DEF RegisterListener, Role
  <2>2. PeersTypeOK'
    BY <1>4, FS_AddElement DEF RegisterListener, TypeOK, PeersTypeOK, Put
  <2>. QED
    BY <2>1, <2>2 DEF TypeOK
<1>. QED
  BY <1>1, <1>2, <1>3, <1>4

LEMMA StartSessionType ==
    ASSUME TypeOK, NEW peer \in PeerId, NEW producer \in PeerId,
           StartSession(peer, producer)
    PROVE  TypeOK'
<1>1. CASE Reject(peer)
  BY <1>1, RejectType
<1>2. CASE CanStart(peer, producer) /\ ~Reject(peer)
  <2>1. items' \in Seq(Item)
    BY <1>2, SendType, MessageTypes, NoMetaIsMeta DEF StartSession
  <2>2. /\ peer \in DOMAIN consumers
        /\ consumers' = [consumers EXCEPT ![peer] = Some(producer)]
        /\ producer \in DOMAIN producers
        /\ producers' = [producers EXCEPT ![producer] = @ \cup {peer}]
        /\ UNCHANGED <<listeners, meta>>
    BY <1>2 DEF StartSession, CanStart, IsConsumer, IsProducer
  <2>3. \A p \in DOMAIN producers : IsFiniteSet(producers[p] \cup {peer})
    BY FS_AddElement DEF TypeOK, PeersTypeOK
  <2>4. \A c \in DOMAIN consumers' :
            consumers'[c] = NoSession \/ \E p \in PeerId : consumers'[c] = Some(p)
    BY <2>2 DEF TypeOK, PeersTypeOK
  <2>5. \A p \in DOMAIN producers' :
            producers'[p] \subseteq PeerId /\ IsFiniteSet(producers'[p])
    BY <2>2, <2>3 DEF TypeOK, PeersTypeOK
  <2>6. PeersTypeOK'
    BY <2>2, <2>4, <2>5 DEF TypeOK, PeersTypeOK
  <2>. QED
    BY <2>1, <2>6 DEF TypeOK
<1>. QED
  BY <1>1, <1>2 DEF StartSession

LEMMA EndSessionType ==
    ASSUME TypeOK, NEW peer \in PeerId, NEW other \in PeerId,
           EndSession(peer, other)
    PROVE  TypeOK'
<1>1. CASE Reject(peer)
  BY <1>1, RejectType
<1>2. CASE ~Reject(peer)
  <2>1. items' \in Seq(Item)
    BY <1>2, SendType, MessageTypes, NoMetaIsMeta DEF EndSession, TellOther
  <2>2. \A p \in DOMAIN producers : \A q :
            IsFiniteSet(producers[p] \ {q})
    BY FS_RemoveElement DEF TypeOK, PeersTypeOK
  <2>3. PICK q \in {peer, other}, r \in {peer, other} :
            /\ producers' = [producers EXCEPT ![q] = @ \ {r}]
            /\ \/ consumers' = Put(consumers, r, NoSession)
               \/ consumers' = [consumers EXCEPT ![r] = NoSession]
            /\ UNCHANGED <<listeners, meta>>
    BY <1>2 DEF EndSession
  <2>4. /\ DOMAIN producers' \subseteq PeerId
        /\ \A p \in DOMAIN producers' :
              producers'[p] \subseteq PeerId /\ IsFiniteSet(producers'[p])
    BY <2>2, <2>3 DEF TypeOK, PeersTypeOK
  <2>5. /\ DOMAIN consumers' \subseteq PeerId
        /\ \A c \in DOMAIN consumers' :
              consumers'[c] = NoSession \/ \E p \in PeerId : consumers'[c] = Some(p)
    BY <2>3 DEF TypeOK, PeersTypeOK, Put
  <2>6. PeersTypeOK'
    BY <2>3, <2>4, <2>5 DEF TypeOK, PeersTypeOK
  <2>. QED
    BY <2>1, <2>6 DEF TypeOK
<1>. QED
  BY <1>1, <1>2

LEMMA ForwardType ==
    ASSUME TypeOK, NEW peer \in PeerId,
           \/ List(peer)
           \/ \E other \in PeerId, inner \in Inner : PeerMessage(peer, other, inner)
    PROVE  TypeOK'
<1>1. CASE Reject(peer)
  BY <1>1, RejectType
<1>2. CASE ~Reject(peer)
  <2>1. UNCHANGED peers
    BY <1>2 DEF List, PeerMessage
  <2>2. PeersTypeOK'
    BY <2>1 DEF TypeOK, PeersTypeOK, peers
  <2>3. ListMsg \in Message
    BY MetaOfType DEF TypeOK
  <2>4. items' \in Seq(Item)
    BY <1>2, <2>3, SendType, MessageTypes, NoMetaIsMeta DEF List, PeerMessage
  <2>. QED
    BY <2>2, <2>4 DEF TypeOK
<1>. QED
  BY <1>1, <1>2

LEMMA RemovePeerType ==
    ASSUME TypeOK, NEW peer \in PeerId, RemovePeer(peer)
    PROVE  TypeOK'
<1>. DEFINE freed == ConsumersFreed(peer)
            partner == SessionOf(freed, peer)
<1>1. SessionsEnded(peer) \in SUBSET PeerId /\ IsFiniteSet(SessionsEnded(peer))
  BY FS_EmptySet DEF TypeOK, PeersTypeOK, SessionsEnded, IsProducer
<1>2. ListenersLeft(peer) \in SUBSET PeerId /\ IsFiniteSet(ListenersLeft(peer))
  BY FS_RemoveElement DEF TypeOK, PeersTypeOK, ListenersLeft
<1>3. ListenersTold(peer) \in SUBSET PeerId /\ IsFiniteSet(ListenersTold(peer))
  BY <1>2, FS_EmptySet DEF ListenersTold
<1>4. /\ DOMAIN freed \subseteq PeerId
      /\ \A c \in DOMAIN freed :
            freed[c] = NoSession \/ \E p \in PeerId : freed[c] = Some(p)
  BY <1>1 DEF TypeOK, PeersTypeOK, ConsumersFreed
<1>5. partner = {} \/ \E p \in PeerId : partner = {p}
  BY <1>4 DEF SessionOf, NoSession, Some
<1>6. partner \in SUBSET PeerId /\ IsFiniteSet(partner)
  BY <1>5, FS_EmptySet, FS_Singleton
<1>7. items' \in Seq(Item)
  <2>1. PICK ended \in SetToSeqs(SessionsEnded(peer)),
             told \in SetToSeqs(ListenersTold(peer)),
             left \in SetToSeqs(partner) :
             items' = items \o ToEach(ended, EndSessionMsg(peer))
                            \o ToEach(told, ProducerRemoved(peer, MetaOf(peer)))
                            \o ToEach(left, EndSessionMsg(peer))
    BY DEF RemovePeer
  <2>2. EndSessionMsg(peer) \in Message
    BY MessageTypes, NoMetaIsMeta
  <2>3. ProducerRemoved(peer, MetaOf(peer)) \in Message
    BY MetaOfType, MessageTypes DEF TypeOK
  <2>4. /\ ToEach(ended, EndSessionMsg(peer)) \in Seq(Item)
        /\ ToEach(told, ProducerRemoved(peer, MetaOf(peer))) \in Seq(Item)
        /\ ToEach(left, EndSessionMsg(peer)) \in Seq(Item)
    BY <1>1, <1>3, <1>6, <2>2, <2>3, ToEachItems
  <2>. QED
    BY <2>1, <2>4 DEF TypeOK
<1>8. PeersTypeOK'
  <2>1. consumers' = Without(freed, peer) /\ listeners' = ListenersLeft(peer)
        /\ meta' = Without(meta, peer)
    BY DEF RemovePeer
  <2>2. producers' = [p \in DOMAIN producers \ {peer} |->
                         IF p \in partner THEN producers[p] \ {peer}
                                          ELSE producers[p]]
    BY DEF RemovePeer
  <2>3. \A p \in DOMAIN producers :
            /\ producers[p] \ {peer} \subseteq PeerId
            /\ IsFiniteSet(producers[p] \ {peer})
            /\ producers[p] \subseteq PeerId
            /\ IsFiniteSet(producers[p])
    BY FS_RemoveElement DEF TypeOK, PeersTypeOK
  <2>4. /\ DOMAIN producers' \subseteq PeerId
        /\ \A p \in DOMAIN producers' :
              producers'[p] \subseteq PeerId /\ IsFiniteSet(producers'[p])
    BY <2>2, <2>3 DEF TypeOK, PeersTypeOK
  <2>5. /\ DOMAIN consumers' \subseteq PeerId
        /\ \A c \in DOMAIN consumers' :
              consumers'[c] = NoSession \/ \E p \in PeerId : consumers'[c] = Some(p)
    BY <1>4, <2>1 DEF Without
  <2>6. /\ DOMAIN meta' \subseteq PeerId
        /\ \A p \in DOMAIN meta' : meta'[p] \in Meta
    BY <2>1 DEF Without, TypeOK, PeersTypeOK
  <2>. QED
    BY <1>2, <2>1, <2>4, <2>5, <2>6 DEF PeersTypeOK
<1>. QED
  BY <1>7, <1>8 DEF TypeOK

(* A step of the handler keeps the types.                                  *)
LEMMA NextKeepsType ==
    TypeOK /\ [Next]_vars => TypeOK'
<1>. SUFFICES ASSUME TypeOK, [Next]_vars PROVE TypeOK'
  OBVIOUS
<1>1. CASE PopItem
  <2>1. items' \in Seq(Item)
    BY <1>1 DEF PopItem, TypeOK
  <2>2. PeersTypeOK'
    BY <1>1 DEF PopItem, TypeOK, PeersTypeOK, peers
  <2>. QED
    BY <2>1, <2>2 DEF TypeOK
<1>2. ASSUME NEW peer \in PeerId, HandleMessage(peer) PROVE TypeOK'
  BY <1>2, RegisterType, ForwardType, StartSessionType, EndSessionType
  DEF HandleMessage
<1>3. ASSUME NEW peer \in PeerId, HandleGone(peer) PROVE TypeOK'
  BY <1>3, RemovePeerType DEF HandleGone
<1>4. CASE UNCHANGED vars
  BY <1>4 DEF vars, TypeOK, PeersTypeOK
<1>. QED
  BY <1>1, <1>2, <1>3, <1>4 DEF Next

(* Type correctness of the handler: every item queued is a message of the  *)
(* protocol addressed to a peer, every map holds what it is declared to    *)
(* hold, and the sets the handlers walk are finite.                        *)
THEOREM TypeCorrect == Spec => []TypeOK
<1>1. Init => TypeOK
  BY FS_EmptySet DEF Init, TypeOK, PeersTypeOK
<1>2. TypeOK /\ [Next]_vars => TypeOK'
  BY NextKeepsType
<1>. QED
  BY <1>1, <1>2, PTL DEF Spec

-----------------------------------------------------------------------------
(* The two session maps.  SessionsAgree is inductive as it stands: each    *)
(* handler changes both maps together.  A rejected request and a step of   *)
(* another handler leave both alone.                                       *)

LEMMA StartSessionAgrees ==
    ASSUME SessionsAgree, NEW peer, NEW producer, StartSession(peer, producer)
    PROVE  SessionsAgree'
<1>1. CASE Reject(peer)
  BY <1>1 DEF Reject, peers, SessionsAgree, InSession, IsProducer, IsConsumer
<1>2. CASE ~Reject(peer)
  BY <1>2 DEF StartSession, CanStart, SessionsAgree, InSession, IsProducer,
              IsConsumer, Some, NoSession
<1>. QED
  BY <1>1, <1>2

LEMMA EndSessionAgrees ==
    ASSUME SessionsAgree, NEW peer, NEW other, EndSession(peer, other)
    PROVE  SessionsAgree'
<1>1. CASE Reject(peer)
  BY <1>1 DEF Reject, peers, SessionsAgree, InSession, IsProducer, IsConsumer
<1>2. CASE AsProducer(peer, other) /\ ~Reject(peer)
  <2>1. /\ producers' = [producers EXCEPT ![peer] = @ \ {other}]
        /\ consumers' = Put(consumers, other, NoSession)
    BY <1>2 DEF EndSession, AsConsumer, AsProducer
  <2>2. consumers[other] = {peer} /\ other \in DOMAIN consumers
    BY <1>2 DEF AsProducer, SessionsAgree, IsProducer, IsConsumer, Some
  <2>. QED
    BY <2>1, <2>2
    DEF SessionsAgree, InSession, IsProducer, IsConsumer, Some, NoSession, Put
<1>3. CASE AsConsumer(peer, other) /\ ~Reject(peer)
  BY <1>3 DEF EndSession, AsProducer, AsConsumer, SessionsAgree, InSession,
              IsProducer, IsConsumer, Some, NoSession
<1>. QED
  BY <1>1, <1>2, <1>3 DEF EndSession

LEMMA RemovePeerAgrees ==
    ASSUME SessionsAgree, NEW peer, RemovePeer(peer)
    PROVE  SessionsAgree'
<1>. DEFINE freed == ConsumersFreed(peer)
            partner == SessionOf(freed, peer)
            ended == SessionsEnded(peer)
<1>1. /\ consumers' = [c \in DOMAIN freed \ {peer} |-> freed[c]]
      /\ producers' = [p \in DOMAIN producers \ {peer} |->
                         IF p \in partner THEN producers[p] \ {peer}
                                          ELSE producers[p]]
  BY DEF RemovePeer, Without
<1>2. /\ DOMAIN freed = DOMAIN consumers
      /\ \A c \in DOMAIN consumers :
            freed[c] = IF c \in ended THEN {} ELSE consumers[c]
  BY DEF ConsumersFreed, SessionsEnded, SessionsAgree, IsConsumer, IsProducer,
         NoSession
<1>3. \A c : c \in ended <=> InSession(peer, c)
  BY DEF SessionsEnded, InSession
<1>4. ASSUME NEW p \in DOMAIN producers', NEW c \in producers'[p]
      PROVE  c \in DOMAIN consumers' /\ consumers'[c] = {p}
  <2>1. p \in DOMAIN producers /\ p # peer /\ c \in producers[p]
    BY <1>1, <1>4
  <2>2. c \in DOMAIN consumers /\ consumers[c] = {p}
    BY <2>1 DEF SessionsAgree, IsConsumer, Some
  <2>3. c \notin ended
    BY <1>3, <2>1, <2>2 DEF InSession, SessionsAgree, IsProducer, Some
  <2>4. c # peer
    <3>. SUFFICES ASSUME c = peer PROVE FALSE
      OBVIOUS
    <3>1. partner = {p}
      BY <1>2, <2>2, <2>3 DEF SessionOf
    <3>. QED
      BY <1>1, <1>4, <3>1
  <2>. QED
    BY <1>1, <1>2, <2>2, <2>3, <2>4
<1>5. ASSUME NEW c \in DOMAIN consumers', NEW p \in consumers'[c]
      PROVE  p \in DOMAIN producers' /\ c \in producers'[p]
  <2>1. c \in DOMAIN consumers /\ c # peer /\ p \in freed[c]
    BY <1>1, <1>2, <1>5
  <2>2. c \notin ended /\ p \in consumers[c]
    BY <1>2, <2>1
  <2>3. p \in DOMAIN producers /\ c \in producers[p]
    BY <2>1, <2>2 DEF SessionsAgree, InSession, IsProducer
  <2>4. p # peer
    BY <1>3, <2>2, <2>3 DEF InSession, IsProducer
  <2>. QED
    BY <1>1, <2>1, <2>3, <2>4
<1>. QED
  BY <1>4, <1>5 DEF SessionsAgree, InSession, IsProducer, IsConsumer, Some

(* Registering touches no session: a new producer has none, a new consumer *)
(* is listed by nobody.                                                    *)
LEMMA RegisterAgrees ==
    ASSUME SessionsAgree, NEW peer, NEW m,
           \/ RegisterProducer(peer, m)
           \/ RegisterConsumer(peer, m)
           \/ RegisterListener(peer, m)
    PROVE  SessionsAgree'
<1>1. CASE Reject(peer)
  BY <1>1 DEF Reject, peers, SessionsAgree, InSession, IsProducer, IsConsumer
<1>2. CASE RegisterProducer(peer, m) /\ ~Reject(peer)
  BY <1>2 DEF RegisterProducer, SessionsAgree, InSession, IsProducer, IsConsumer,
              Put, Some
<1>3. CASE RegisterConsumer(peer, m) /\ ~Reject(peer)
  BY <1>3 DEF RegisterConsumer, SessionsAgree, InSession, IsProducer, IsConsumer,
              Put, Some, NoSession
<1>4. CASE RegisterListener(peer, m) /\ ~Reject(peer)
  BY <1>4 DEF RegisterListener, SessionsAgree, InSession, IsProducer, IsConsumer
<1>. QED
  BY <1>1, <1>2, <1>3, <1>4

(* A step of the handler keeps the two session maps in agreement.          *)
LEMMA NextKeepsSessions ==
    SessionsAgree /\ [Next]_vars => SessionsAgree'
<1>. SUFFICES ASSUME SessionsAgree, [Next]_vars PROVE SessionsAgree'
  OBVIOUS
<1>1. ASSUME UNCHANGED peers PROVE SessionsAgree'
  BY <1>1 DEF peers, SessionsAgree, InSession, IsProducer, IsConsumer
<1>2. CASE PopItem \/ UNCHANGED vars
  BY <1>1, <1>2 DEF PopItem, vars, peers
<1>3. ASSUME NEW peer \in PeerId, HandleMessage(peer) PROVE SessionsAgree'
  <2>1. CASE List(peer) \/ Reject(peer)
    BY <1>1, <2>1 DEF List, Reject
  <2>2. ASSUME NEW other \in PeerId, NEW inner \in Inner,
               PeerMessage(peer, other, inner)
        PROVE  SessionsAgree'
    BY <1>1, <2>2 DEF PeerMessage, Reject
  <2>. QED
    BY <1>3, <2>1, <2>2, RegisterAgrees, StartSessionAgrees, EndSessionAgrees
    DEF HandleMessage
<1>4. ASSUME NEW peer \in PeerId, HandleGone(peer) PROVE SessionsAgree'
  BY <1>4, RemovePeerAgrees DEF HandleGone
<1>. QED
  BY <1>2, <1>3, <1>4 DEF Next

(* The maps of sessions agree in every reachable state, for any number of  *)
(* peers in any combination of roles, so no unwrap() of the handler panics *)
(* and no consumer is ever in two sessions.                                *)
THEOREM SessionsAlwaysAgree == Spec => []SessionsAgree
<1>1. Init => SessionsAgree
  BY DEF Init, SessionsAgree
<1>2. SessionsAgree /\ [Next]_vars => SessionsAgree'
  BY NextKeepsSessions
<1>. QED
  BY <1>1, <1>2, PTL DEF Spec

-----------------------------------------------------------------------------
(* Metadata and roles.                                                     *)

LEMMA RegisterKeepsMeta ==
    ASSUME MetaMatchesRoles, NEW peer, NEW m,
           \/ RegisterProducer(peer, m)
           \/ RegisterConsumer(peer, m)
           \/ RegisterListener(peer, m)
    PROVE  MetaMatchesRoles'
<1>1. CASE Reject(peer)
  BY <1>1 DEF Reject, peers, MetaMatchesRoles
<1>2. CASE ~Reject(peer)
  BY <1>2 DEF RegisterProducer, RegisterConsumer, RegisterListener,
              MetaMatchesRoles, Put
<1>. QED
  BY <1>1, <1>2

LEMMA SessionsKeepMeta ==
    ASSUME SessionsAgree, MetaMatchesRoles, NEW peer, NEW other,
           StartSession(peer, other) \/ EndSession(peer, other)
    PROVE  MetaMatchesRoles'
<1>1. CASE Reject(peer)
  BY <1>1 DEF Reject, peers, MetaMatchesRoles
<1>2. CASE StartSession(peer, other) /\ ~Reject(peer)
  BY <1>2 DEF StartSession, MetaMatchesRoles
<1>3. CASE EndSession(peer, other) /\ ~Reject(peer)
  BY <1>3 DEF EndSession, AsProducer, SessionsAgree, IsProducer, IsConsumer,
              MetaMatchesRoles, Put
<1>. QED
  BY <1>1, <1>2, <1>3

LEMMA RemovePeerKeepsMeta ==
    ASSUME SessionsAgree, MetaMatchesRoles, NEW peer, RemovePeer(peer)
    PROVE  MetaMatchesRoles'
<1>1. DOMAIN ConsumersFreed(peer) = DOMAIN consumers
  BY DEF ConsumersFreed, SessionsEnded, SessionsAgree, IsProducer, IsConsumer
<1>2. /\ DOMAIN consumers' = DOMAIN consumers \ {peer}
      /\ DOMAIN producers' = DOMAIN producers \ {peer}
      /\ DOMAIN meta' = DOMAIN meta \ {peer}
      /\ listeners' = listeners \ {peer}
  BY <1>1 DEF RemovePeer, Without, ListenersLeft
<1>. QED
  BY <1>2 DEF MetaMatchesRoles

(* A step of the handler keeps metadata for the peers with a role only.    *)
LEMMA NextKeepsMeta ==
    SessionsAgree /\ MetaMatchesRoles /\ [Next]_vars => MetaMatchesRoles'
<1>. SUFFICES ASSUME SessionsAgree, MetaMatchesRoles, [Next]_vars
              PROVE  MetaMatchesRoles'
  OBVIOUS
<1>1. ASSUME UNCHANGED peers PROVE MetaMatchesRoles'
  BY <1>1 DEF peers, MetaMatchesRoles
<1>2. CASE PopItem \/ UNCHANGED vars
  BY <1>1, <1>2 DEF PopItem, vars, peers
<1>3. ASSUME NEW peer \in PeerId, HandleMessage(peer) PROVE MetaMatchesRoles'
  <2>1. CASE List(peer)
    BY <1>1, <2>1 DEF List
  <2>2. ASSUME NEW other \in PeerId, NEW inner \in Inner,
               PeerMessage(peer, other, inner)
        PROVE  MetaMatchesRoles'
    BY <1>1, <2>2 DEF PeerMessage, Reject
  <2>. QED
    BY <1>3, <2>1, <2>2, RegisterKeepsMeta, SessionsKeepMeta DEF HandleMessage
<1>4. ASSUME NEW peer \in PeerId, HandleGone(peer) PROVE MetaMatchesRoles'
  BY <1>4, RemovePeerKeepsMeta DEF HandleGone
<1>. QED
  BY <1>2, <1>3, <1>4 DEF Next

(* Metadata is held for the peers with a role and for no other, however    *)
(* many roles each peer takes and in whatever order it takes them.         *)
THEOREM MetaAlwaysMatchesRoles == Spec => []MetaMatchesRoles
<1>1. Init => MetaMatchesRoles
  BY DEF Init, MetaMatchesRoles
<1>2. SessionsAgree /\ MetaMatchesRoles /\ [Next]_vars => MetaMatchesRoles'
  BY NextKeepsMeta
<1>. QED
  BY <1>1, <1>2, SessionsAlwaysAgree, PTL DEF Spec

(* The whole of what the handler relies on between two messages: its types, *)
(* the agreement of its session maps and the metadata of exactly its peers. *)
THEOREM HandlerInvHolds == Spec => []HandlerInv
<1>1. TypeOK /\ SessionsAgree /\ MetaMatchesRoles => HandlerInv
  BY DEF HandlerInv
<1>. QED
  BY <1>1, TypeCorrect, SessionsAlwaysAgree, MetaAlwaysMatchesRoles, PTL

-----------------------------------------------------------------------------
(* The handler implements the broker.                                      *)

LEMMA RegisterRefines ==
    ASSUME SessionsAgree, NEW peer \in PeerId, NEW m,
           \/ RegisterProducer(peer, m)
           \/ RegisterConsumer(peer, m)
           \/ RegisterListener(peer, m)
    PROVE  [Broker!Next]_(Broker!brokerVars)
<1>1. CASE Reject(peer)
  BY <1>1 DEF Reject, peers, Broker!brokerVars, InSession, IsProducer
<1>2. CASE RegisterProducer(peer, m) /\ ~Reject(peer)
  <2>1. Broker!JoinAsProducer(peer)
    BY <1>2 DEF RegisterProducer, Broker!JoinAsProducer, InSession, IsProducer, Put
  <2>. QED
    BY <2>1 DEF Broker!Next
<1>3. CASE RegisterConsumer(peer, m) /\ ~Reject(peer)
  <2>1. Broker!JoinAsConsumer(peer)
    BY <1>3 DEF RegisterConsumer, Broker!JoinAsConsumer, InSession, IsProducer, Put
  <2>. QED
    BY <2>1 DEF Broker!Next
<1>4. CASE RegisterListener(peer, m) /\ ~Reject(peer)
  <2>1. Broker!JoinAsListener(peer)
    BY <1>4 DEF RegisterListener, Broker!JoinAsListener, InSession, IsProducer
  <2>. QED
    BY <2>1 DEF Broker!Next
<1>. QED
  BY <1>1, <1>2, <1>3, <1>4

LEMMA StartSessionRefines ==
    ASSUME SessionsAgree, NEW peer \in PeerId, NEW producer \in PeerId,
           StartSession(peer, producer)
    PROVE  [Broker!Next]_(Broker!brokerVars)
<1>1. CASE Reject(peer)
  BY <1>1 DEF Reject, peers, Broker!brokerVars, InSession, IsProducer
<1>2. CASE CanStart(peer, producer) /\ ~Reject(peer)
  <2>1. /\ producer \in DOMAIN producers
        /\ peer \in DOMAIN consumers
        /\ consumers[peer] = {}
        /\ producers' = [producers EXCEPT ![producer] = @ \cup {peer}]
        /\ DOMAIN consumers' = DOMAIN consumers
        /\ listeners' = listeners
    BY <1>2 DEF StartSession, CanStart, IsProducer, IsConsumer, NoSession
  <2>2. \A p \in PeerId : ~InSession(p, peer)
    BY <2>1 DEF SessionsAgree, InSession, IsProducer, Some
  <2>3. \A p, c \in PeerId :
            InSession(p, c)' <=> InSession(p, c) \/ <<p, c>> = <<producer, peer>>
    BY <2>1 DEF InSession, IsProducer
  <2>4. Broker!Begin(producer, peer)
    BY <2>1, <2>2, <2>3 DEF Broker!Begin
  <2>. QED
    BY <2>4 DEF Broker!Next
<1>. QED
  BY <1>1, <1>2 DEF StartSession

LEMMA EndSessionRefines ==
    ASSUME SessionsAgree, NEW peer \in PeerId, NEW other \in PeerId,
           EndSession(peer, other)
    PROVE  [Broker!Next]_(Broker!brokerVars)
<1>1. CASE Reject(peer)
  BY <1>1 DEF Reject, peers, Broker!brokerVars, InSession, IsProducer
<1>2. ASSUME NEW p \in PeerId, NEW c \in PeerId, InSession(p, c),
             producers' = [producers EXCEPT ![p] = @ \ {c}],
             DOMAIN consumers' = DOMAIN consumers, listeners' = listeners
      PROVE  Broker!Next
  <2>1. \A q, d \in PeerId :
            InSession(q, d)' <=> InSession(q, d) /\ <<q, d>> # <<p, c>>
    BY <1>2 DEF InSession, IsProducer
  <2>2. Broker!End(p, c)
    BY <1>2, <2>1 DEF Broker!End
  <2>. QED
    BY <2>2 DEF Broker!Next
<1>3. CASE AsProducer(peer, other) /\ ~Reject(peer)
  <2>1. /\ producers' = [producers EXCEPT ![peer] = @ \ {other}]
        /\ consumers' = Put(consumers, other, NoSession)
        /\ listeners' = listeners
    BY <1>3 DEF EndSession, AsConsumer, AsProducer
  <2>2. InSession(peer, other)
    BY <1>3 DEF AsProducer, InSession
  <2>3. other \in DOMAIN consumers
    BY <2>2 DEF SessionsAgree, InSession, IsProducer, IsConsumer
  <2>. QED
    BY <1>2, <2>1, <2>2, <2>3 DEF Put
<1>4. CASE AsConsumer(peer, other) /\ ~Reject(peer)
  <2>1. /\ producers' = [producers EXCEPT ![other] = @ \ {peer}]
        /\ consumers' = [consumers EXCEPT ![peer] = NoSession]
        /\ listeners' = listeners
    BY <1>4 DEF EndSession, AsConsumer, AsProducer
  <2>2. InSession(other, peer)
    BY <1>4 DEF AsConsumer, SessionsAgree, IsConsumer, Some
  <2>. QED
    BY <1>2, <2>1, <2>2
<1>. QED
  BY <1>1, <1>3, <1>4 DEF EndSession

LEMMA RemovePeerRefines ==
    ASSUME SessionsAgree, NEW peer \in PeerId, RemovePeer(peer)
    PROVE  Broker!Leave(peer)
<1>. DEFINE freed == ConsumersFreed(peer)
            partner == SessionOf(freed, peer)
<1>1. /\ DOMAIN consumers' = DOMAIN freed \ {peer}
      /\ listeners' = listeners \ {peer}
      /\ producers' = [p \in DOMAIN producers \ {peer} |->
                         IF p \in partner THEN producers[p] \ {peer}
                                          ELSE producers[p]]
  BY DEF RemovePeer, Without, ListenersLeft
<1>2. DOMAIN freed = DOMAIN consumers
  BY DEF ConsumersFreed, SessionsEnded, SessionsAgree, IsProducer, IsConsumer
<1>3. \A p : InSession(p, peer) /\ p # peer => p \in partner
  <2>. SUFFICES ASSUME NEW p, InSession(p, peer), p # peer PROVE p \in partner
    OBVIOUS
  <2>1. peer \in DOMAIN consumers /\ consumers[peer] = {p}
    BY DEF SessionsAgree, InSession, IsProducer, IsConsumer, Some
  <2>2. peer \notin SessionsEnded(peer)
    BY <2>1 DEF SessionsEnded, SessionsAgree, IsProducer, Some
  <2>. QED
    BY <1>2, <2>1, <2>2 DEF SessionOf, ConsumersFreed
<1>4. \A p, c \in PeerId :
          InSession(p, c)' <=> InSession(p, c) /\ p # peer /\ c # peer
  BY <1>1, <1>3 DEF InSession, IsProducer
<1>. QED
  BY <1>1, <1>2, <1>4 DEF Broker!Leave, Broker!Involves

(* The handler's maps are an implementation of the broker of SessionBroker: *)
(* every handler is one step of the broker or leaves its state alone.      *)
THEOREM HandlerImplementsBroker == Spec => ImplementsBroker
<1>1. Init => Broker!Init
  BY DEF Init, Broker!Init, InSession, IsProducer
<1>2. SessionsAgree /\ [Next]_vars => [Broker!Next]_(Broker!brokerVars)
  <2>. SUFFICES ASSUME SessionsAgree, [Next]_vars
                PROVE  [Broker!Next]_(Broker!brokerVars)
    OBVIOUS
  <2>1. ASSUME UNCHANGED peers PROVE UNCHANGED Broker!brokerVars
    BY <2>1 DEF peers, Broker!brokerVars, InSession, IsProducer
  <2>2. CASE PopItem \/ UNCHANGED vars
    BY <2>1, <2>2 DEF PopItem, vars, peers
  <2>3. ASSUME NEW peer \in PeerId, HandleMessage(peer)
        PROVE  [Broker!Next]_(Broker!brokerVars)
    <3>1. CASE List(peer)
      BY <2>1, <3>1 DEF List
    <3>2. ASSUME NEW other \in PeerId, NEW inner \in Inner,
                 PeerMessage(peer, other, inner)
          PROVE  UNCHANGED Broker!brokerVars
      BY <2>1, <3>2 DEF PeerMessage, Reject
    <3>. QED
      BY <2>3, <3>1, <3>2, RegisterRefines, StartSessionRefines, EndSessionRefines
      DEF HandleMessage
  <2>4. ASSUME NEW peer \in PeerId, HandleGone(peer) PROVE Broker!Next
    BY <2>4, RemovePeerRefines DEF HandleGone, Broker!Next
  <2>. QED
    BY <2>2, <2>3, <2>4 DEF Next
<1>. QED
  BY <1>1, <1>2, SessionsAlwaysAgree, PTL DEF Spec, ImplementsBroker, Broker!Spec

-----------------------------------------------------------------------------
(* What a walk over a set queues: a copy for each member, and nothing else. *)

LEMMA WalkReachesAll ==
    ASSUME NEW S, IsFiniteSet(S), NEW order \in SetToSeqs(S), NEW x \in S, NEW msg
    PROVE  <<x, msg>> \in ToSet(ToEach(order, msg))
<1>. DEFINE D == 1..Cardinality(S)
<1>1. Cardinality(S) \in Nat
  BY FS_CardinalityType
<1>2. order \in [D -> S] /\ \A i, j \in D : i # j => order[i] # order[j]
  BY DEF SetToSeqs
<1>3. order \in Injection(D, S)
  BY <1>2 DEF Injection, IsInjective
<1>4. Cardinality(D) = Cardinality(S)
  BY <1>1, FS_Interval
<1>5. order \in Surjection(D, S)
  BY <1>3, <1>4, FS_Injection
<1>6. PICK i \in D : order[i] = x
  BY <1>5 DEF Surjection
<1>7. i \in DOMAIN ToEach(order, msg) /\ ToEach(order, msg)[i] = <<x, msg>>
  BY <1>2, <1>6 DEF ToEach
<1>. QED
  BY <1>7 DEF ToSet

LEMMA WalkQueuesOnly ==
    ASSUME NEW order, NEW msg, NEW i \in ToSet(ToEach(order, msg))
    PROVE  i[2] = msg
  BY DEF ToSet, ToEach

LEMMA ToSetOfConcat ==
    ASSUME NEW s \in Seq(Item), NEW t \in Seq(Item)
    PROVE  ToSet(s \o t) = ToSet(s) \cup ToSet(t)
<1>1. \A i \in DOMAIN s : i \in DOMAIN (s \o t) /\ (s \o t)[i] = s[i]
  OBVIOUS
<1>2. \A i \in DOMAIN t :
          Len(s) + i \in DOMAIN (s \o t) /\ (s \o t)[Len(s) + i] = t[i]
  OBVIOUS
<1>3. \A i \in DOMAIN (s \o t) :
          \/ i \in DOMAIN s
          \/ i - Len(s) \in DOMAIN t /\ (s \o t)[i] = t[i - Len(s)]
  OBVIOUS
<1>4. ToSet(s) \subseteq ToSet(s \o t)
  BY <1>1 DEF ToSet
<1>5. ToSet(t) \subseteq ToSet(s \o t)
  BY <1>2 DEF ToSet
<1>6. ToSet(s \o t) \subseteq ToSet(s) \cup ToSet(t)
  BY <1>1, <1>3 DEF ToSet
<1>. QED
  BY <1>4, <1>5, <1>6

LEMMA ToSetOfAppend ==
    ASSUME NEW s \in Seq(Item), NEW i \in Item
    PROVE  ToSet(Append(s, i)) = ToSet(s) \cup {i}
<1>1. Append(s, i) = s \o <<i>> /\ <<i>> \in Seq(Item)
  OBVIOUS
<1>2. ToSet(<<i>>) = {i}
  BY DEF ToSet
<1>. QED
  BY <1>1, <1>2, ToSetOfConcat

(* What remove_peer queues: an end for each session of the departing        *)
(* producer and for the partner of the departing consumer, a removal for    *)
(* the listeners, and no forwarded message.                                 *)
LEMMA RemovePeerQueues ==
    ASSUME TypeOK, NEW peer \in PeerId, RemovePeer(peer)
    PROVE  LET partner == SessionOf(ConsumersFreed(peer), peer)
           IN  /\ \A q \in SessionsEnded(peer) \cup partner :
                     <<q, EndSessionMsg(peer)>> \in ToSet(items')
               /\ \A i \in ToSet(items') \ ToSet(items) :
                     i[2] \in {EndSessionMsg(peer), ProducerRemoved(peer, MetaOf(peer))}
<1>. DEFINE freed == ConsumersFreed(peer)
            partner == SessionOf(freed, peer)
            over == EndSessionMsg(peer)
            removed == ProducerRemoved(peer, MetaOf(peer))
<1>1. SessionsEnded(peer) \in SUBSET PeerId /\ IsFiniteSet(SessionsEnded(peer))
  BY FS_EmptySet DEF TypeOK, PeersTypeOK, SessionsEnded, IsProducer
<1>2. ListenersTold(peer) \in SUBSET PeerId /\ IsFiniteSet(ListenersTold(peer))
  BY FS_RemoveElement, FS_EmptySet DEF TypeOK, PeersTypeOK, ListenersTold, ListenersLeft
<1>3. \A c \in DOMAIN freed :
          freed[c] = NoSession \/ \E p \in PeerId : freed[c] = Some(p)
  BY <1>1 DEF TypeOK, PeersTypeOK, ConsumersFreed
<1>4. partner = {} \/ \E p \in PeerId : partner = {p}
  BY <1>3 DEF SessionOf, NoSession, Some
<1>5. partner \in SUBSET PeerId /\ IsFiniteSet(partner)
  BY <1>4, FS_EmptySet, FS_Singleton
<1>6. PICK ended \in SetToSeqs(SessionsEnded(peer)),
           told \in SetToSeqs(ListenersTold(peer)),
           left \in SetToSeqs(partner) :
           items' = items \o ToEach(ended, over) \o ToEach(told, removed)
                          \o ToEach(left, over)
  BY DEF RemovePeer
<1>7. over \in Message /\ removed \in Message
  BY MessageTypes, MetaOfType, NoMetaIsMeta DEF TypeOK
<1>8. /\ ToEach(ended, over) \in Seq(Item)
      /\ ToEach(told, removed) \in Seq(Item)
      /\ ToEach(left, over) \in Seq(Item)
  BY <1>1, <1>2, <1>5, <1>7, ToEachItems
<1>9. ToSet(items') = ToSet(items) \cup ToSet(ToEach(ended, over))
                      \cup ToSet(ToEach(told, removed)) \cup ToSet(ToEach(left, over))
  <2>1. items \in Seq(Item)
    BY DEF TypeOK
  <2>. DEFINE first == items \o ToEach(ended, over)
              second == first \o ToEach(told, removed)
  <2>2. first \in Seq(Item) /\ second \in Seq(Item)
    BY <2>1, <1>8
  <2>3. ToSet(first) = ToSet(items) \cup ToSet(ToEach(ended, over))
    BY <1>8, <2>1, ToSetOfConcat
  <2>4. ToSet(second) = ToSet(first) \cup ToSet(ToEach(told, removed))
    BY <1>8, <2>2, ToSetOfConcat
  <2>5. items' = second \o ToEach(left, over)
    BY <1>6
  <2>6. ToSet(items') = ToSet(second) \cup ToSet(ToEach(left, over))
    BY <1>8, <2>2, <2>5, ToSetOfConcat
  <2>. QED
    BY <2>3, <2>4, <2>6
<1>10. \A q \in SessionsEnded(peer) : <<q, over>> \in ToSet(ToEach(ended, over))
  BY <1>1, WalkReachesAll
<1>11. \A q \in partner : <<q, over>> \in ToSet(ToEach(left, over))
  BY <1>5, WalkReachesAll
<1>12. \A i \in ToSet(items') \ ToSet(items) : i[2] \in {over, removed}
  BY <1>9, WalkQueuesOnly
<1>. QED
  BY <1>9, <1>10, <1>11, <1>12

(* A session that ends: which step can end it, and what the step queues.    *)
LEMMA EndSessionNotifies ==
    ASSUME TypeOK, NEW peer \in PeerId, NEW other \in PeerId, EndSession(peer, other),
           NEW p \in PeerId, NEW c \in PeerId, InSession(p, c), ~InSession(p, c)'
    PROVE  ToSet(items') \cap {<<p, EndSessionMsg(c)>>, <<c, EndSessionMsg(p)>>} # {}
<1>1. ~Reject(peer)
  BY DEF Reject, peers, InSession, IsProducer
<1>2. items' = Append(items, <<other, EndSessionMsg(peer)>>)
  BY <1>1 DEF EndSession, TellOther, Send
<1>3. <<other, EndSessionMsg(peer)>> \in Item
  BY MessageTypes, NoMetaIsMeta DEF Item
<1>4. <<other, EndSessionMsg(peer)>> \in ToSet(items')
  BY <1>2, <1>3, ToSetOfAppend DEF TypeOK
<1>5. \/ peer = p /\ other = c
      \/ peer = c /\ other = p
  BY <1>1 DEF EndSession, AsProducer, AsConsumer, InSession, IsProducer
<1>. QED
  BY <1>4, <1>5

LEMMA RemovePeerNotifies ==
    ASSUME TypeOK, NEW peer \in PeerId, RemovePeer(peer),
           NEW p \in PeerId, NEW c \in PeerId, InSession(p, c), ~InSession(p, c)'
    PROVE  ToSet(items') \cap {<<p, EndSessionMsg(c)>>, <<c, EndSessionMsg(p)>>} # {}
<1>. DEFINE partner == SessionOf(ConsumersFreed(peer), peer)
<1>1. \A q \in SessionsEnded(peer) \cup partner :
          <<q, EndSessionMsg(peer)>> \in ToSet(items')
  BY RemovePeerQueues
<1>2. CASE p = peer
  <2>1. c \in SessionsEnded(peer)
    BY <1>2 DEF SessionsEnded, InSession
  <2>. QED
    BY <1>1, <1>2, <2>1
<1>3. CASE p # peer
  <2>1. producers' = [q \in DOMAIN producers \ {peer} |->
                         IF q \in partner THEN producers[q] \ {peer}
                                          ELSE producers[q]]
    BY DEF RemovePeer
  <2>2. p \in partner /\ c = peer
    BY <1>3, <2>1 DEF InSession, IsProducer
  <2>. QED
    BY <1>1, <2>2
<1>. QED
  BY <1>2, <1>3

(* A session never ends in silence, whoever ends it and however many roles  *)
(* its peers hold: the step that ends it queues an end for one of the two.  *)
THEOREM EndIsAlwaysNotified == Spec => EndIsNotified
<1>. DEFINE Notified(p, c) ==
         ToSet(items') \cap {<<p, EndSessionMsg(c)>>, <<c, EndSessionMsg(p)>>} # {}
     Told == \A p, c \in PeerId : InSession(p, c) /\ ~InSession(p, c)' => Notified(p, c)
<1>1. TypeOK /\ [Next]_vars => [Told]_vars
  <2>. SUFFICES ASSUME TypeOK, Next, NEW p \in PeerId, NEW c \in PeerId,
                       InSession(p, c), ~InSession(p, c)'
                PROVE  Notified(p, c)
    OBVIOUS
  <2>1. ~UNCHANGED producers
    BY DEF InSession, IsProducer
  <2>2. ~PopItem
    BY <2>1 DEF PopItem, peers
  <2>3. ASSUME NEW peer \in PeerId, HandleMessage(peer) PROVE Notified(p, c)
    <3>1. ~List(peer) /\ ~Reject(peer)
      BY <2>1 DEF List, Reject, peers
    <3>2. \A m \in Meta : ~RegisterConsumer(peer, m) /\ ~RegisterListener(peer, m)
      BY <2>1, <3>1 DEF RegisterConsumer, RegisterListener
    <3>3. \A m \in Meta : ~RegisterProducer(peer, m)
      BY <3>1 DEF RegisterProducer, InSession, IsProducer, Put
    <3>4. \A other \in PeerId, inner \in Inner : ~PeerMessage(peer, other, inner)
      BY <2>1, <3>1 DEF PeerMessage, peers
    <3>5. \A other \in PeerId : ~StartSession(peer, other)
      BY <3>1 DEF StartSession, CanStart, InSession, IsProducer
    <3>. QED
      BY <2>3, <3>1, <3>2, <3>3, <3>4, <3>5, EndSessionNotifies DEF HandleMessage
  <2>4. ASSUME NEW peer \in PeerId, HandleGone(peer) PROVE Notified(p, c)
    BY <2>4, RemovePeerNotifies DEF HandleGone
  <2>. QED
    BY <2>2, <2>3, <2>4 DEF Next
<1>. QED
  BY <1>1, TypeCorrect, PTL DEF Spec, EndIsNotified

(* The messages a handler queues for its own purposes are not forwarded ones. *)
LEMMA OwnMessages ==
    ASSUME NEW p, NEW m, NEW r
    PROVE  /\ Registered(r, p, m).type # "peer"
           /\ ProducerAdded(p, m).type # "peer"
           /\ ProducerRemoved(p, m).type # "peer"
           /\ StartSessionMsg(p).type # "peer"
           /\ EndSessionMsg(p).type # "peer"
           /\ ListMsg.type # "peer"
           /\ ErrorMsg.type # "peer"
  BY DEF Registered, ProducerAdded, ProducerRemoved, StartSessionMsg, EndSessionMsg,
         ListMsg, ErrorMsg

LEMMA RegisterQueues ==
    ASSUME TypeOK, NEW peer \in PeerId, NEW m \in Meta,
           \/ RegisterProducer(peer, m)
           \/ RegisterConsumer(peer, m)
           \/ RegisterListener(peer, m),
           NEW i \in ToSet(items') \ ToSet(items)
    PROVE  i[2].type # "peer"
<1>1. items \in Seq(Item)
  BY DEF TypeOK
<1>2. \A msg \in Message : <<peer, msg>> \in Item
  BY DEF Item
<1>3. \A r \in Role : Registered(r, peer, m) \in Message
  BY MessageTypes
<1>4. CASE \E msg \in Message : Send(peer, msg) /\ msg.type # "peer"
  <2>1. PICK msg \in Message : Send(peer, msg) /\ msg.type # "peer"
    BY <1>4
  <2>2. ToSet(items') = ToSet(items) \cup {<<peer, msg>>}
    BY <1>1, <1>2, <2>1, ToSetOfAppend DEF Send
  <2>. QED
    BY <2>1, <2>2
<1>5. Reject(peer) => Send(peer, ErrorMsg)
  BY DEF Reject, Send
<1>6. ErrorMsg \in Message
  BY MessageTypes, NoMetaIsMeta
<1>7. CASE RegisterProducer(peer, m) /\ ~Reject(peer)
  <2>1. PICK order \in SetToSeqs(listeners) :
            items' = items \o ToEach(order, ProducerAdded(peer, m))
                           \o <<<<peer, Registered("producer", peer, m)>>>>
    BY <1>7 DEF RegisterProducer
  <2>. DEFINE walk == ToEach(order, ProducerAdded(peer, m))
              reply == <<peer, Registered("producer", peer, m)>>
  <2>2. walk \in Seq(Item)
    BY ToEachItems, MessageTypes DEF TypeOK, PeersTypeOK
  <2>3. reply \in Item
    BY <1>2, <1>3 DEF Role
  <2>4. items' = Append(items \o walk, reply)
    BY <1>1, <2>1, <2>2, <2>3
  <2>5. ToSet(items') = ToSet(items) \cup ToSet(walk) \cup {reply}
    <3>1. items \o walk \in Seq(Item)
      BY <1>1, <2>2
    <3>2. ToSet(items \o walk) = ToSet(items) \cup ToSet(walk)
      BY <1>1, <2>2, ToSetOfConcat
    <3>3. ToSet(Append(items \o walk, reply)) = ToSet(items \o walk) \cup {reply}
      BY <2>3, <3>1, ToSetOfAppend
    <3>. QED
      BY <2>4, <3>2, <3>3
  <2>6. i[2] = ProducerAdded(peer, m) \/ i[2] = Registered("producer", peer, m)
    BY <2>5, WalkQueuesOnly
  <2>. QED
    BY <2>6, OwnMessages
<1>. QED
  BY <1>3, <1>4, <1>5, <1>6, <1>7, OwnMessages
  DEF RegisterConsumer, RegisterListener, RegisterProducer, Role

(* What is forwarded stays inside a session and travels the right way, in   *)
(* every step of the handler.                                               *)
THEOREM AlwaysRelayedInSession == Spec => RelayedInSession
<1>. DEFINE Inside(i) ==
         LET to == i[1]
             from == i[2].peer
         IN  CASE i[2].inner = "ice"    -> InSession(from, to) \/ InSession(to, from)
               [] i[2].inner = "offer"  -> InSession(from, to)
               [] i[2].inner = "answer" -> InSession(to, from)
     Kept == \A i \in ToSet(items') \ ToSet(items) : i[2].type = "peer" => Inside(i)
<1>1. TypeOK /\ SessionsAgree /\ [Next]_vars => [Kept]_vars
  <2>. SUFFICES ASSUME TypeOK, SessionsAgree, Next,
                       NEW i \in ToSet(items') \ ToSet(items), i[2].type = "peer"
                PROVE  Inside(i)
    OBVIOUS
  <2>1. items \in Seq(Item)
    BY DEF TypeOK
  <2>2. ASSUME NEW to \in PeerId, NEW msg \in Message, Send(to, msg) PROVE i = <<to, msg>>
    <3>1. <<to, msg>> \in Item
      BY DEF Item
    <3>2. ToSet(items') = ToSet(items) \cup {<<to, msg>>}
      BY <2>1, <2>2, <3>1, ToSetOfAppend DEF Send
    <3>. QED
      BY <3>2
  <2>3. \A to \in PeerId, msg \in Message : Send(to, msg) => msg.type = "peer"
    BY <2>2
  <2>4. \A q \in PeerId : /\ ErrorMsg \in Message
                          /\ StartSessionMsg(q) \in Message
                          /\ EndSessionMsg(q) \in Message
                          /\ \A inner \in Inner : PeerMsg(q, inner) \in Message
    BY MessageTypes, NoMetaIsMeta
  <2>5. ~PopItem
    BY <2>1 DEF PopItem, ToSet
  <2>6. ASSUME NEW peer \in PeerId, HandleMessage(peer) PROVE Inside(i)
    <3>1. ~Reject(peer)
      BY <2>3, <2>4, OwnMessages DEF Reject, Send
    <3>2. ~List(peer)
      BY <2>3, MetaOfType, OwnMessages DEF List, TypeOK
    <3>3. \A m \in Meta : /\ ~RegisterProducer(peer, m)
                          /\ ~RegisterConsumer(peer, m)
                          /\ ~RegisterListener(peer, m)
      BY RegisterQueues
    <3>4. \A other \in PeerId : ~StartSession(peer, other) /\ ~EndSession(peer, other)
      BY <2>3, <2>4, <3>1, OwnMessages DEF StartSession, EndSession, TellOther
    <3>5. PICK other \in PeerId, inner \in Inner : PeerMessage(peer, other, inner)
      BY <2>6, <3>2, <3>3, <3>4 DEF HandleMessage
    <3>6. i = <<other, PeerMsg(peer, inner)>> /\ Forwardable(peer, other, inner)
      BY <2>2, <2>4, <3>1, <3>5 DEF PeerMessage
    <3>7. i[1] = other /\ i[2].peer = peer /\ i[2].inner = inner
      BY <3>6 DEF PeerMsg
    <3>8. AsProducer(peer, other) => InSession(peer, other)
      BY DEF AsProducer, InSession
    <3>9. IsConsumer(peer) /\ consumers[peer] = Some(other) => InSession(other, peer)
      BY DEF SessionsAgree, IsConsumer, Some
    <3>10. AsConsumer(peer, other) => InSession(other, peer)
      BY <3>9 DEF AsConsumer
    <3>11. CASE inner = "ice"
      BY <3>6, <3>7, <3>8, <3>10, <3>11 DEF Forwardable
    <3>12. CASE inner = "offer"
      BY <3>6, <3>7, <3>8, <3>12 DEF Forwardable
    <3>13. CASE inner = "answer"
      BY <3>6, <3>7, <3>9, <3>13 DEF Forwardable
    <3>. QED
      BY <3>11, <3>12, <3>13 DEF Inner
  <2>7. ASSUME NEW peer \in PeerId, HandleGone(peer) PROVE Inside(i)
    <3>1. i[2] \in {EndSessionMsg(peer), ProducerRemoved(peer, MetaOf(peer))}
      BY <2>7, RemovePeerQueues DEF HandleGone
    <3>. QED
      BY <3>1, OwnMessages
  <2>. QED
    BY <2>5, <2>6, <2>7 DEF Next
<1>. QED
  BY <1>1, TypeCorrect, SessionsAlwaysAgree, PTL DEF Spec, RelayedInSession

-----------------------------------------------------------------------------
(* What the queue tells about the sessions: each message is counted.       *)

(* How many times x occurs in the sequence s. *)
Times(s, x) == Cardinality({i \in DOMAIN s : s[i] = x})

(* Counting in a sequence: none in the empty one, one more at the end for   *)
(* an appended x, one at the head for a first x, and nothing anywhere else. *)
LEMMA TimesType ==
    ASSUME NEW S, NEW s \in Seq(S), NEW x
    PROVE  /\ IsFiniteSet({i \in DOMAIN s : s[i] = x})
           /\ Times(s, x) \in Nat
<1>1. IsFiniteSet(1..Len(s)) /\ DOMAIN s = 1..Len(s)
  BY FS_Interval
<1>2. IsFiniteSet({i \in DOMAIN s : s[i] = x})
  BY <1>1, FS_Subset
<1>. QED
  BY <1>2, FS_CardinalityType DEF Times

LEMMA TimesEmpty ==
    ASSUME NEW x
    PROVE  Times(<<>>, x) = 0
<1>1. {i \in DOMAIN <<>> : <<>>[i] = x} = {}
  OBVIOUS
<1>. QED
  BY <1>1, FS_EmptySet DEF Times

LEMMA TimesOnce ==
    ASSUME NEW s, NEW x, NEW i \in DOMAIN s, s[i] = x,
           \A j \in DOMAIN s : s[j] = x => j = i
    PROVE  Times(s, x) = 1
<1>1. {j \in DOMAIN s : s[j] = x} = {i}
  OBVIOUS
<1>. QED
  BY <1>1, FS_Singleton DEF Times

LEMMA TimesNever ==
    ASSUME NEW s, NEW x, \A j \in DOMAIN s : s[j] # x
    PROVE  Times(s, x) = 0
<1>1. {j \in DOMAIN s : s[j] = x} = {}
  OBVIOUS
<1>. QED
  BY <1>1, FS_EmptySet DEF Times

LEMMA TimesZero ==
    ASSUME NEW S, NEW s \in Seq(S), NEW x, Times(s, x) = 0
    PROVE  \A j \in DOMAIN s : s[j] # x
<1>1. {j \in DOMAIN s : s[j] = x} = {}
  BY TimesType, FS_EmptySet DEF Times
<1>. QED
  BY <1>1

LEMMA TimesOne ==
    ASSUME NEW S, NEW s \in Seq(S), NEW x, Times(s, x) = 1
    PROVE  \A i, j \in DOMAIN s : s[i] = x /\ s[j] = x => i = j
<1>. DEFINE A == {j \in DOMAIN s : s[j] = x}
<1>1. IsFiniteSet(A) /\ Cardinality(A) = 1
  BY TimesType DEF Times
<1>. HIDE DEF A
<1>2. \E i : A = {i}
  BY <1>1, FS_Singleton
<1>. QED
  BY <1>2 DEF A

(* The occurrences in s \o t are those in s and those in t, moved on by     *)
(* the length of s.                                                        *)
LEMMA TimesConcat ==
    ASSUME NEW S, NEW s \in Seq(S), NEW t \in Seq(S), NEW x
    PROVE  Times(s \o t, x) = Times(s, x) + Times(t, x)
<1>. DEFINE A == {i \in DOMAIN s : s[i] = x}
            B == {i \in DOMAIN t : t[i] = x}
            C == {i \in DOMAIN (s \o t) : (s \o t)[i] = x}
            M == {i \in C : i > Len(s)}
            f == [i \in B |-> i + Len(s)]
<1>1. Len(s) \in Nat /\ Len(t) \in Nat /\ DOMAIN s = 1..Len(s) /\ DOMAIN t = 1..Len(t)
  OBVIOUS
<1>2. /\ DOMAIN (s \o t) = 1..(Len(s) + Len(t))
      /\ \A i \in DOMAIN (s \o t) :
            (s \o t)[i] = IF i <= Len(s) THEN s[i] ELSE t[i - Len(s)]
  OBVIOUS
<1>3. C = A \cup M /\ A \cap M = {}
  BY <1>1, <1>2
<1>4. \A i \in M : i - Len(s) \in B
  BY <1>1, <1>2
<1>5. \A i \in B : i + Len(s) \in M
  BY <1>1, <1>2
<1>6. f \in Bijection(B, M)
  <2>1. f \in [B -> M]
    BY <1>5
  <2>2. \A i, j \in B : f[i] = f[j] => i = j
    BY <1>1
  <2>3. \A m \in M : \E i \in B : f[i] = m
    <3>1. TAKE m \in M
    <3>2. f[m - Len(s)] = m
      BY <1>1, <1>2, <1>4
    <3>. QED
      BY <1>4, <3>2
  <2>. QED
    BY <2>1, <2>2, <2>3 DEF Bijection, Injection, Surjection, IsInjective
<1>7. IsFiniteSet(A) /\ IsFiniteSet(B)
  BY TimesType
<1>8. IsFiniteSet(M) /\ Cardinality(M) = Cardinality(B)
  BY <1>6, <1>7, FS_Bijection DEF ExistsBijection
<1>9. Cardinality(C) = Cardinality(A) + Cardinality(M) - Cardinality(A \cap M)
  BY <1>3, <1>7, <1>8, FS_Union
<1>10. Cardinality(A) \in Nat /\ Cardinality(B) \in Nat
  BY <1>7, FS_CardinalityType
<1>11. Cardinality(A \cap M) = 0
  BY <1>3, FS_EmptySet
<1>12. /\ Times(s \o t, x) = Cardinality(C)
       /\ Times(s, x) = Cardinality(A)
       /\ Times(t, x) = Cardinality(B)
  BY DEF Times
<1>. HIDE DEF A, B, C, M, f
<1>. QED
  BY <1>8, <1>9, <1>10, <1>11, <1>12

LEMMA TimesAppend ==
    ASSUME NEW S, NEW s \in Seq(S), NEW y \in S, NEW x
    PROVE  Times(Append(s, y), x) = Times(s, x) + (IF x = y THEN 1 ELSE 0)
<1>1. Append(s, y) = s \o <<y>> /\ <<y>> \in Seq(S)
  OBVIOUS
<1>2. Times(<<y>>, x) = IF x = y THEN 1 ELSE 0
  <2>1. DOMAIN <<y>> = {1} /\ <<y>>[1] = y
    OBVIOUS
  <2>. QED
    BY <2>1, TimesOnce, TimesNever
<1>3. Times(s \o <<y>>, x) = Times(s, x) + Times(<<y>>, x)
  BY <1>1, TimesConcat
<1>. QED
  BY <1>1, <1>2, <1>3

LEMMA TimesTail ==
    ASSUME NEW S, NEW s \in Seq(S), s # <<>>, NEW x
    PROVE  Times(s, x) = Times(Tail(s), x) + (IF x = Head(s) THEN 1 ELSE 0)
<1>1. /\ s = <<Head(s)>> \o Tail(s)
      /\ <<Head(s)>> \in Seq(S)
      /\ Tail(s) \in Seq(S)
  OBVIOUS
<1>2. Times(<<Head(s)>>, x) = IF x = Head(s) THEN 1 ELSE 0
  <2>1. DOMAIN <<Head(s)>> = {1} /\ <<Head(s)>>[1] = Head(s)
    OBVIOUS
  <2>. QED
    BY <2>1, TimesOnce, TimesNever
<1>3. Times(Tail(s), x) \in Nat
  BY <1>1, TimesType
<1>4. ASSUME NEW h, NEW t, s = h \o t, h \in Seq(S), t \in Seq(S)
      PROVE  Times(s, x) = Times(h, x) + Times(t, x)
  BY <1>4, TimesConcat
<1>5. Times(s, x) = Times(<<Head(s)>>, x) + Times(Tail(s), x)
  BY <1>1, <1>4
<1>. QED
  BY <1>2, <1>3, <1>5

(* A walk over a finite set queues a message once for each of its members. *)
LEMMA TimesToEach ==
    ASSUME NEW S, IsFiniteSet(S), NEW order \in SetToSeqs(S), NEW msg, NEW p, NEW m
    PROVE  Times(ToEach(order, msg), <<p, m>>) = IF p \in S /\ m = msg THEN 1 ELSE 0
<1>. DEFINE D == 1..Cardinality(S)
            s == ToEach(order, msg)
<1>1. order \in [D -> S] /\ \A i, j \in D : i # j => order[i] # order[j]
  BY DEF SetToSeqs
<1>2. DOMAIN s = D /\ \A i \in D : s[i] = <<order[i], msg>>
  BY <1>1 DEF ToEach
<1>3. CASE p \in S /\ m = msg
  <2>1. <<p, msg>> \in ToSet(s)
    BY <1>3, WalkReachesAll
  <2>2. PICK i \in D : s[i] = <<p, m>>
    BY <1>2, <1>3, <2>1 DEF ToSet
  <2>3. \A j \in D : s[j] = <<p, m>> => j = i
    BY <1>1, <1>2, <2>2
  <2>. QED
    BY <1>2, <1>3, <2>2, <2>3, TimesOnce
<1>4. CASE ~(p \in S /\ m = msg)
  <2>1. \A j \in D : s[j] # <<p, m>>
    BY <1>1, <1>2, <1>4
  <2>. QED
    BY <1>2, <1>4, <2>1, TimesNever
<1>. QED
  BY <1>3, <1>4

(* The sessions between p and q, whichever way they go, and the starts and *)
(* ends with q that the queue holds for p.                                 *)
SessionCount(p, q) == (IF InSession(p, q) THEN 1 ELSE 0)
                    + (IF InSession(q, p) THEN 1 ELSE 0)
StartsFor(p, q) == Times(items, <<p, StartSessionMsg(q)>>)
EndsFor(p, q) == Times(items, <<p, EndSessionMsg(q)>>)

(* A start and an end are told apart from each other and from any other    *)
(* message, and each names its peer.                                       *)
LEMMA SessionMessages ==
    /\ \A p, q : /\ StartSessionMsg(p).type = "startSession" /\ StartSessionMsg(p).peer = p
                 /\ EndSessionMsg(p).type = "endSession" /\ EndSessionMsg(p).peer = p
                 /\ StartSessionMsg(p) # EndSessionMsg(q)
                 /\ StartSessionMsg(p) = StartSessionMsg(q) => p = q
                 /\ EndSessionMsg(p) = EndSessionMsg(q) => p = q
    /\ \A r, p, m, i : /\ Registered(r, p, m).type = "registered"
                       /\ ProducerAdded(p, m).type = "producerAdded"
                       /\ ProducerAdded(p, m).peer = p
                       /\ ProducerRemoved(p, m).type = "producerRemoved"
                       /\ ProducerRemoved(p, m).peer = p
                       /\ PeerMsg(p, i).type = "peer"
    /\ ListMsg.type = "list" /\ ErrorMsg.type = "error"
<1>1. ASSUME NEW p, NEW q
      PROVE  /\ StartSessionMsg(p).type = "startSession" /\ StartSessionMsg(p).peer = p
             /\ EndSessionMsg(p).type = "endSession" /\ EndSessionMsg(p).peer = p
             /\ StartSessionMsg(p) # EndSessionMsg(q)
             /\ StartSessionMsg(p) = StartSessionMsg(q) => p = q
             /\ EndSessionMsg(p) = EndSessionMsg(q) => p = q
  <2>1. \A r : /\ StartSessionMsg(r).type = "startSession" /\ StartSessionMsg(r).peer = r
               /\ EndSessionMsg(r).type = "endSession" /\ EndSessionMsg(r).peer = r
    BY DEF StartSessionMsg, EndSessionMsg
  <2>. QED
    BY <2>1
<1>2. ASSUME NEW r, NEW p, NEW m, NEW i
      PROVE  /\ Registered(r, p, m).type = "registered"
             /\ ProducerAdded(p, m).type = "producerAdded"
             /\ ProducerAdded(p, m).peer = p
             /\ ProducerRemoved(p, m).type = "producerRemoved"
             /\ ProducerRemoved(p, m).peer = p
             /\ PeerMsg(p, i).type = "peer"
  BY DEF Registered, ProducerAdded, ProducerRemoved, PeerMsg
<1>3. ListMsg.type = "list" /\ ErrorMsg.type = "error"
  BY DEF ListMsg, ErrorMsg
<1>. QED
  BY <1>1, <1>2, <1>3

(* The fields of the messages that a client reads. *)
LEMMA FieldsOfMessages ==
    ASSUME NEW msg \in Message
    PROVE  /\ msg.type = "startSession" => msg.peer \in PeerId /\ msg = StartSessionMsg(msg.peer)
           /\ msg.type = "endSession" => msg.peer \in PeerId /\ msg = EndSessionMsg(msg.peer)
           /\ msg.type \in {"producerAdded", "producerRemoved"} => msg.peer \in PeerId
           /\ msg.type = "list" => msg.producers \subseteq Peer
<1>1. CASE msg \in [type : {"startSession", "endSession"}, peer : PeerId]
  BY <1>1 DEF StartSessionMsg, EndSessionMsg
<1>2. CASE msg \in [type : {"producerAdded", "producerRemoved"}, peer : PeerId, meta : Meta]
  BY <1>2
<1>3. CASE msg \in [type : {"list"}, producers : SUBSET Peer]
  BY <1>3
<1>4. CASE \/ msg \in [type : {"registered"}, role : Role, peer : PeerId, meta : Meta]
           \/ msg \in [type : {"peer"}, peer : PeerId, inner : Inner]
           \/ msg \in [type : {"error"}]
  BY <1>4
<1>. QED
  BY <1>1, <1>2, <1>3, <1>4 DEF Message

(* While nothing is queued, a client is owed nothing. *)
LEMMA NothingQueued ==
    ASSUME items = <<>>, NEW p, NEW q
    PROVE  StartsFor(p, q) = 0 /\ EndsFor(p, q) = 0
BY TimesEmpty DEF StartsFor, EndsFor

LEMMA SessionCountType ==
    ASSUME NEW p, NEW q
    PROVE  SessionCount(p, q) \in 0..2
BY DEF SessionCount

LEMMA OwedType ==
    ASSUME TypeOK, NEW p, NEW q
    PROVE  StartsFor(p, q) \in Nat /\ EndsFor(p, q) \in Nat
BY TimesType DEF TypeOK, StartsFor, EndsFor

(* The queue of a handler that answers with one message holds just that.   *)
LEMMA SendQueuesOne ==
    ASSUME items = <<>>, NEW to, NEW msg, Send(to, msg)
    PROVE  /\ items' = <<<<to, msg>>>>
           /\ \A x : Times(items', x) = IF x = <<to, msg>> THEN 1 ELSE 0
<1>1. items' = <<<<to, msg>>>>
  BY DEF Send
<1>2. DOMAIN items' = {1} /\ items'[1] = <<to, msg>>
  BY <1>1
<1>3. ASSUME NEW x PROVE Times(items', x) = IF x = <<to, msg>> THEN 1 ELSE 0
  <2>1. CASE x = <<to, msg>>
    BY <1>2, <2>1, TimesOnce
  <2>2. CASE x # <<to, msg>>
    BY <1>2, <2>2, TimesNever
  <2>. QED
    BY <2>1, <2>2
<1>. QED
  BY <1>1, <1>3

(* A queue with neither starts nor ends. *)
LEMMA NoStartNoEnd ==
    ASSUME \A i \in DOMAIN items' : items'[i][2].type \notin {"startSession", "endSession"},
           NEW p, NEW q
    PROVE  StartsFor(p, q)' = 0 /\ EndsFor(p, q)' = 0
<1>1. \A i \in DOMAIN items' : /\ items'[i] # <<p, StartSessionMsg(q)>>
                               /\ items'[i] # <<p, EndSessionMsg(q)>>
  BY SessionMessages
<1>. QED
  BY <1>1, TimesNever DEF StartsFor, EndsFor

(* A refusal, a registration, a list and a forwarded message leave the     *)
(* sessions alone and announce none.                                       *)
LEMMA RejectTellsNothing ==
    ASSUME items = <<>>, NEW peer, Reject(peer)
    PROVE  /\ \A p, q : InSession(p, q)' <=> InSession(p, q)
           /\ \A p, q : StartsFor(p, q)' = 0 /\ EndsFor(p, q)' = 0
<1>1. items' = <<<<peer, ErrorMsg>>>>
  BY SendQueuesOne DEF Reject, Send
<1>2. \A i \in DOMAIN items' : items'[i][2].type \notin {"startSession", "endSession"}
  BY <1>1, SessionMessages
<1>3. \A p, q : InSession(p, q)' <=> InSession(p, q)
  BY DEF Reject, peers, InSession, IsProducer
<1>. QED
  BY <1>2, <1>3, NoStartNoEnd

LEMMA RegisterTellsNothing ==
    ASSUME TypeOK, items = <<>>, NEW peer \in PeerId, NEW m \in Meta,
           \/ RegisterProducer(peer, m)
           \/ RegisterConsumer(peer, m)
           \/ RegisterListener(peer, m)
    PROVE  /\ \A p, q : InSession(p, q)' <=> InSession(p, q)
           /\ \A p, q : StartsFor(p, q)' = 0 /\ EndsFor(p, q)' = 0
<1>1. CASE Reject(peer)
  BY <1>1, RejectTellsNothing
<1>2. ASSUME NEW r, Send(peer, Registered(r, peer, m)), producers' = producers
      PROVE  /\ \A p, q : InSession(p, q)' <=> InSession(p, q)
             /\ \A p, q : StartsFor(p, q)' = 0 /\ EndsFor(p, q)' = 0
  <2>1. items' = <<<<peer, Registered(r, peer, m)>>>>
    BY <1>2, SendQueuesOne
  <2>2. \A i \in DOMAIN items' : items'[i][2].type \notin {"startSession", "endSession"}
    BY <2>1, SessionMessages
  <2>3. \A p, q : InSession(p, q)' <=> InSession(p, q)
    BY <1>2 DEF InSession, IsProducer
  <2>. QED
    BY <2>2, <2>3, NoStartNoEnd
<1>3. CASE RegisterProducer(peer, m) /\ ~IsProducer(peer)
  <2>1. producers' = Put(producers, peer, {})
    BY <1>3 DEF RegisterProducer
  <2>2. \A p, q : InSession(p, q)' <=> InSession(p, q)
    BY <1>3, <2>1 DEF Put, InSession, IsProducer
  <2>3. PICK order \in SetToSeqs(listeners) :
            items' = items \o ToEach(order, ProducerAdded(peer, m))
                           \o <<<<peer, Registered("producer", peer, m)>>>>
    BY <1>3 DEF RegisterProducer
  <2>4. /\ ToEach(order, ProducerAdded(peer, m)) \in Seq(Item)
        /\ <<<<peer, Registered("producer", peer, m)>>>> \in Seq(Item)
    BY ToEachItems, MessageTypes DEF TypeOK, PeersTypeOK, Item, Role
  <2>5. \A i \in DOMAIN ToEach(order, ProducerAdded(peer, m)) :
            ToEach(order, ProducerAdded(peer, m))[i][2] = ProducerAdded(peer, m)
    BY DEF ToEach
  <2>. DEFINE told == ToEach(order, ProducerAdded(peer, m))
              answer == <<<<peer, Registered("producer", peer, m)>>>>
  <2>6. items' = told \o answer
    BY <2>3, <2>4
  <2>7. \A i \in DOMAIN items' : \/ i \in DOMAIN told /\ items'[i] = told[i]
                                 \/ items'[i] = answer[1]
    <3>. HIDE DEF told
    <3>1. told \in Seq(Item)
      BY <2>4 DEF told
    <3>. QED
      BY <2>6, <3>1
  <2>8. \A i \in DOMAIN items' : items'[i][2].type \notin {"startSession", "endSession"}
    BY <2>5, <2>7, SessionMessages
  <2>. QED
    BY <2>2, <2>8, NoStartNoEnd
<1>. QED
  BY <1>1, <1>2, <1>3 DEF RegisterProducer, RegisterConsumer, RegisterListener

LEMMA ForwardTellsNothing ==
    ASSUME items = <<>>, NEW peer,
           \/ List(peer)
           \/ \E other \in PeerId, inner \in Inner : PeerMessage(peer, other, inner)
    PROVE  /\ \A p, q : InSession(p, q)' <=> InSession(p, q)
           /\ \A p, q : StartsFor(p, q)' = 0 /\ EndsFor(p, q)' = 0
<1>1. CASE Reject(peer)
  BY <1>1, RejectTellsNothing
<1>2. ASSUME NEW to, NEW msg, Send(to, msg), UNCHANGED peers,
             msg.type \in {"list", "peer"}
      PROVE  /\ \A p, q : InSession(p, q)' <=> InSession(p, q)
             /\ \A p, q : StartsFor(p, q)' = 0 /\ EndsFor(p, q)' = 0
  <2>1. items' = <<<<to, msg>>>>
    BY <1>2, SendQueuesOne
  <2>2. \A i \in DOMAIN items' : items'[i][2].type \notin {"startSession", "endSession"}
    BY <1>2, <2>1
  <2>3. \A p, q : InSession(p, q)' <=> InSession(p, q)
    BY <1>2 DEF InSession, IsProducer, peers
  <2>. QED
    BY <2>2, <2>3, NoStartNoEnd
<1>. QED
  BY <1>1, <1>2, SessionMessages DEF List, PeerMessage

(* A start adds a session between the two peers that it announces to the   *)
(* producer; the consumer, who asked, counts it without being told.        *)
LEMMA StartSessionTells ==
    ASSUME SessionsAgree, items = <<>>, NEW peer \in PeerId, NEW producer \in PeerId,
           StartSession(peer, producer), NEW p, NEW q
    PROVE  /\ EndsFor(p, q)' = 0
           /\ StartsFor(p, q)' \in {0, 1}
           /\ SessionCount(p, q)' = SessionCount(p, q) + StartsFor(p, q)'
                + (IF CanStart(peer, producer) /\ p = peer /\ q = producer
                      THEN 1 ELSE 0)
<1>1. CASE ~CanStart(peer, producer)
  <2>1. Reject(peer)
    BY <1>1 DEF StartSession
  <2>2. /\ InSession(p, q)' <=> InSession(p, q)
        /\ InSession(q, p)' <=> InSession(q, p)
        /\ StartsFor(p, q)' = 0 /\ EndsFor(p, q)' = 0
    BY <2>1, RejectTellsNothing
  <2>. QED
    BY <1>1, <2>2 DEF SessionCount
<1>2. CASE CanStart(peer, producer)
  <2>1. /\ Send(producer, StartSessionMsg(peer))
        /\ producers' = [producers EXCEPT ![producer] = @ \cup {peer}]
    BY <1>2, SessionMessages DEF StartSession
  <2>2. /\ StartsFor(p, q)' = IF p = producer /\ q = peer THEN 1 ELSE 0
        /\ EndsFor(p, q)' = 0
    <3>1. \A x : Times(items', x) = IF x = <<producer, StartSessionMsg(peer)>> THEN 1 ELSE 0
      BY <2>1, SendQueuesOne
    <3>2. /\ <<p, StartSessionMsg(q)>> = <<producer, StartSessionMsg(peer)>>
                <=> p = producer /\ q = peer
          /\ <<p, EndSessionMsg(q)>> # <<producer, StartSessionMsg(peer)>>
      BY SessionMessages
    <3>. QED
      BY <3>1, <3>2 DEF StartsFor, EndsFor
  <2>3. ~InSession(producer, peer)
    BY <1>2 DEF CanStart, InSession, IsProducer, IsConsumer, SessionsAgree, NoSession, Some
  <2>4. \A r, s : InSession(r, s)' <=> InSession(r, s) \/ (r = producer /\ s = peer)
    BY <1>2, <2>1 DEF CanStart, InSession, IsProducer
  <2>. QED
    BY <1>2, <2>2, <2>3, <2>4 DEF SessionCount
<1>. QED
  BY <1>1, <1>2

(* An end takes away one session between the two peers, the producer's side *)
(* first, and tells the other one; the peer that asked counts it untold.    *)
LEMMA EndSessionTells ==
    ASSUME SessionsAgree, items = <<>>, NEW peer \in PeerId, NEW other \in PeerId,
           EndSession(peer, other), NEW p, NEW q
    PROVE  /\ StartsFor(p, q)' = 0
           /\ EndsFor(p, q)' \in {0, 1}
           /\ SessionCount(p, q) = SessionCount(p, q)' + EndsFor(p, q)'
                + (IF (AsProducer(peer, other) \/ AsConsumer(peer, other))
                         /\ p = peer /\ q = other
                      THEN 1 ELSE 0)
<1>1. CASE ~AsProducer(peer, other) /\ ~AsConsumer(peer, other)
  <2>1. Reject(peer)
    BY <1>1 DEF EndSession
  <2>2. /\ InSession(p, q)' <=> InSession(p, q)
        /\ InSession(q, p)' <=> InSession(q, p)
        /\ StartsFor(p, q)' = 0 /\ EndsFor(p, q)' = 0
    BY <2>1, RejectTellsNothing
  <2>. QED
    BY <1>1, <2>2 DEF SessionCount
<1>2. ASSUME Send(other, EndSessionMsg(peer))
      PROVE  /\ EndsFor(p, q)' = IF p = other /\ q = peer THEN 1 ELSE 0
             /\ StartsFor(p, q)' = 0
  <2>1. \A x : Times(items', x) = IF x = <<other, EndSessionMsg(peer)>> THEN 1 ELSE 0
    BY <1>2, SendQueuesOne
  <2>2. /\ <<p, EndSessionMsg(q)>> = <<other, EndSessionMsg(peer)>>
              <=> p = other /\ q = peer
        /\ <<p, StartSessionMsg(q)>> # <<other, EndSessionMsg(peer)>>
    BY SessionMessages
  <2>. QED
    BY <2>1, <2>2 DEF StartsFor, EndsFor
<1>3. CASE AsProducer(peer, other)
  <2>1. /\ Send(other, EndSessionMsg(peer))
        /\ producers' = [producers EXCEPT ![peer] = @ \ {other}]
    BY <1>3 DEF EndSession, TellOther, AsConsumer, AsProducer
  <2>2. \A r, s : InSession(r, s)' <=> InSession(r, s) /\ ~(r = peer /\ s = other)
    BY <1>3, <2>1 DEF AsProducer, InSession, IsProducer
  <2>3. InSession(peer, other)
    BY <1>3 DEF AsProducer, InSession
  <2>. QED
    BY <1>2, <1>3, <2>1, <2>2, <2>3 DEF SessionCount
<1>4. CASE AsConsumer(peer, other)
  <2>1. /\ Send(other, EndSessionMsg(peer))
        /\ producers' = [producers EXCEPT ![other] = @ \ {peer}]
    BY <1>4 DEF EndSession, TellOther, AsConsumer, AsProducer
  <2>2. InSession(other, peer)
    BY <1>4 DEF AsConsumer, SessionsAgree, IsConsumer, Some
  <2>3. \A r, s : InSession(r, s)' <=> InSession(r, s) /\ ~(r = other /\ s = peer)
    BY <2>1, <2>2 DEF InSession, IsProducer
  <2>. QED
    BY <1>2, <1>4, <2>1, <2>2, <2>3 DEF SessionCount
<1>. QED
  BY <1>1, <1>3, <1>4

(* What a departure queues, counted: an end for each consumer in session   *)
(* with the departing producer, a removal for each of the listeners left   *)
(* when it was a producer, and an end for the producer it consumed from.   *)
LEMMA RemovePeerCounts ==
    ASSUME TypeOK, items = <<>>, NEW peer \in PeerId, RemovePeer(peer), NEW x, NEW m
    PROVE  LET partner == SessionOf(ConsumersFreed(peer), peer)
           IN  Times(items', <<x, m>>) =
                   (IF x \in SessionsEnded(peer) /\ m = EndSessionMsg(peer) THEN 1 ELSE 0)
                 + (IF x \in ListenersTold(peer) /\ m = ProducerRemoved(peer, MetaOf(peer))
                       THEN 1 ELSE 0)
                 + (IF x \in partner /\ m = EndSessionMsg(peer) THEN 1 ELSE 0)
<1>. DEFINE freed == ConsumersFreed(peer)
            partner == SessionOf(freed, peer)
            over == EndSessionMsg(peer)
            removed == ProducerRemoved(peer, MetaOf(peer))
            gone == SessionsEnded(peer)
            lsnrs == ListenersTold(peer)
<1>1. gone \in SUBSET PeerId /\ IsFiniteSet(gone)
  BY FS_EmptySet DEF TypeOK, PeersTypeOK, SessionsEnded, IsProducer
<1>2. lsnrs \in SUBSET PeerId /\ IsFiniteSet(lsnrs)
  BY FS_RemoveElement, FS_EmptySet DEF TypeOK, PeersTypeOK, ListenersTold, ListenersLeft
<1>3. \A c \in DOMAIN freed :
          freed[c] = NoSession \/ \E r \in PeerId : freed[c] = Some(r)
  BY <1>1 DEF TypeOK, PeersTypeOK, ConsumersFreed
<1>4. partner = {} \/ \E r \in PeerId : partner = {r}
  BY <1>3 DEF SessionOf, NoSession, Some
<1>5. partner \in SUBSET PeerId /\ IsFiniteSet(partner)
  BY <1>4, FS_EmptySet, FS_Singleton
<1>6. PICK ended \in SetToSeqs(gone), told \in SetToSeqs(lsnrs),
           left \in SetToSeqs(partner) :
           items' = items \o ToEach(ended, over) \o ToEach(told, removed)
                          \o ToEach(left, over)
  BY DEF RemovePeer
<1>7. over \in Message /\ removed \in Message
  BY MessageTypes, MetaOfType, NoMetaIsMeta DEF TypeOK
<1>8. /\ ToEach(ended, over) \in Seq(Item)
      /\ ToEach(told, removed) \in Seq(Item)
      /\ ToEach(left, over) \in Seq(Item)
  BY <1>1, <1>2, <1>5, <1>7, ToEachItems
<1>. DEFINE A == ToEach(ended, over)
            B == ToEach(told, removed)
            C == ToEach(left, over)
<1>9. /\ Times(A, <<x, m>>) = IF x \in gone /\ m = over THEN 1 ELSE 0
      /\ Times(B, <<x, m>>) = IF x \in lsnrs /\ m = removed THEN 1 ELSE 0
      /\ Times(C, <<x, m>>) = IF x \in partner /\ m = over THEN 1 ELSE 0
  BY <1>1, <1>2, <1>5, TimesToEach
<1>10. items' = (A \o B) \o C /\ A \o B \in Seq(Item)
  BY <1>6, <1>8
<1>. HIDE DEF A, B, C
<1>11. A \in Seq(Item) /\ B \in Seq(Item) /\ C \in Seq(Item)
  BY <1>8 DEF A, B, C
<1>12. Times((A \o B) \o C, <<x, m>>) = Times(A \o B, <<x, m>>) + Times(C, <<x, m>>)
  BY <1>10, <1>11, TimesConcat
<1>13. Times(A \o B, <<x, m>>) = Times(A, <<x, m>>) + Times(B, <<x, m>>)
  BY <1>11, TimesConcat
<1>. QED
  BY <1>9, <1>10, <1>12, <1>13

(* A departure ends every session of the peer and tells each partner once  *)
(* per session, whatever roles the two had towards each other.             *)
LEMMA RemovePeerTells ==
    ASSUME TypeOK, SessionsAgree, items = <<>>, NEW peer \in PeerId, RemovePeer(peer),
           NEW p, NEW q
    PROVE  /\ StartsFor(p, q)' = 0
           /\ EndsFor(p, q)' \in Nat
           /\ p # peer => SessionCount(p, q) = SessionCount(p, q)' + EndsFor(p, q)'
           /\ SessionCount(peer, q)' = 0
<1>. DEFINE freed == ConsumersFreed(peer)
            partner == SessionOf(freed, peer)
            over == EndSessionMsg(peer)
            removed == ProducerRemoved(peer, MetaOf(peer))
            gone == SessionsEnded(peer)
            lsnrs == ListenersTold(peer)
<1>1. ASSUME NEW x, NEW m
      PROVE  Times(items', <<x, m>>) = (IF x \in gone /\ m = over THEN 1 ELSE 0)
                                     + (IF x \in lsnrs /\ m = removed THEN 1 ELSE 0)
                                     + (IF x \in partner /\ m = over THEN 1 ELSE 0)
  BY RemovePeerCounts
<1>2. StartsFor(p, q)' = 0
  BY <1>1, SessionMessages DEF StartsFor
<1>3. EndsFor(p, q)' = (IF p \in gone /\ q = peer THEN 1 ELSE 0)
                      + (IF p \in partner /\ q = peer THEN 1 ELSE 0)
  <2>1. /\ EndSessionMsg(q) = over <=> q = peer
        /\ EndSessionMsg(q) # removed
    BY SessionMessages
  <2>2. Times(items', <<p, EndSessionMsg(q)>>) =
               (IF p \in gone /\ EndSessionMsg(q) = over THEN 1 ELSE 0)
             + (IF p \in lsnrs /\ EndSessionMsg(q) = removed THEN 1 ELSE 0)
             + (IF p \in partner /\ EndSessionMsg(q) = over THEN 1 ELSE 0)
    BY <1>1
  <2>. QED
    BY <2>1, <2>2 DEF EndsFor
<1>4. \A r : r \in gone <=> InSession(peer, r)
  BY DEF SessionsEnded, InSession
<1>5. \A r : r # peer => (r \in partner <=> InSession(r, peer))
  BY <1>4 DEF SessionOf, ConsumersFreed, NoSession, Some, SessionsAgree, InSession,
               IsProducer, IsConsumer
<1>6. producers' = [r \in DOMAIN producers \ {peer} |->
                        IF r \in partner THEN producers[r] \ {peer} ELSE producers[r]]
  BY DEF RemovePeer
<1>. HIDE DEF freed, partner, gone, lsnrs, over, removed
<1>7. \A r, s : r # peer /\ s # peer => (InSession(r, s)' <=> InSession(r, s))
  BY <1>6 DEF InSession, IsProducer
<1>8. \A s : ~InSession(peer, s)'
  BY <1>6 DEF InSession, IsProducer
<1>9. \A r : ~InSession(r, peer)'
  <2>1. TAKE r
  <2>2. CASE r = peer
    BY <1>8, <2>2
  <2>3. CASE r # peer
    BY <1>5, <1>6, <2>3 DEF InSession, IsProducer
  <2>. QED
    BY <2>2, <2>3
<1>10. SessionCount(peer, q)' = 0
  BY <1>8, <1>9 DEF SessionCount
<1>11. p # peer => SessionCount(p, q) = SessionCount(p, q)' + EndsFor(p, q)'
  <2>1. CASE q = peer
    BY <1>3, <1>4, <1>5, <1>8, <1>9, <2>1 DEF SessionCount
  <2>2. CASE q # peer
    BY <1>3, <1>7, <2>2 DEF SessionCount
  <2>. QED
    BY <2>1, <2>2
<1>. QED
  BY <1>2, <1>3, <1>10, <1>11

(* What an accepted producer queues, counted: its arrival for each listener *)
(* and the answer for the producer.                                        *)
LEMMA RegisterProducerCounts ==
    ASSUME TypeOK, items = <<>>, NEW peer \in PeerId, NEW m \in Meta,
           RegisterProducer(peer, m), ~IsProducer(peer), NEW x, NEW msg
    PROVE  Times(items', <<x, msg>>) =
               (IF x \in listeners /\ msg = ProducerAdded(peer, m) THEN 1 ELSE 0)
             + (IF x = peer /\ msg = Registered("producer", peer, m) THEN 1 ELSE 0)
<1>. DEFINE answer == <<peer, Registered("producer", peer, m)>>
<1>1. PICK order \in SetToSeqs(listeners) :
          items' = items \o ToEach(order, ProducerAdded(peer, m)) \o <<answer>>
  BY DEF RegisterProducer
<1>. DEFINE told == ToEach(order, ProducerAdded(peer, m))
<1>2. answer \in Item /\ told \in Seq(Item)
  BY ToEachItems, MessageTypes DEF TypeOK, PeersTypeOK, Item, Role
<1>3. Times(told, <<x, msg>>) =
          IF x \in listeners /\ msg = ProducerAdded(peer, m) THEN 1 ELSE 0
  BY TimesToEach DEF TypeOK, PeersTypeOK
<1>. HIDE DEF told, answer
<1>4. items' = Append(told, answer)
  BY <1>1, <1>2 DEF told
<1>5. Times(Append(told, answer), <<x, msg>>) =
          Times(told, <<x, msg>>) + (IF <<x, msg>> = answer THEN 1 ELSE 0)
  BY <1>2, TimesAppend
<1>. QED
  BY <1>3, <1>4, <1>5 DEF answer

-----------------------------------------------------------------------------
(* The peers that the handler knows.                                       *)

Known == DOMAIN producers \cup DOMAIN consumers \cup listeners

(* A message can only make its sender known: a peer it names is answered    *)
(* for already, or nothing is kept about it.                               *)
LEMMA OnlySenderBecomesKnown ==
    ASSUME SessionsAgree, NEW peer \in PeerId, HandleMessage(peer)
    PROVE  Known' \subseteq Known \cup {peer}
<1>1. ASSUME NEW m \in Meta,
             \/ RegisterProducer(peer, m)
             \/ RegisterConsumer(peer, m)
             \/ RegisterListener(peer, m)
      PROVE  Known' \subseteq Known \cup {peer}
  BY <1>1 DEF RegisterProducer, RegisterConsumer, RegisterListener, Reject, peers,
              Known, Put
<1>2. ASSUME NEW other \in PeerId, StartSession(peer, other)
      PROVE  Known' \subseteq Known
  BY <1>2 DEF StartSession, CanStart, Reject, peers, Known
<1>3. ASSUME NEW other \in PeerId, EndSession(peer, other)
      PROVE  Known' \subseteq Known
  BY <1>3 DEF EndSession, AsProducer, AsConsumer, Reject, peers, Known, Put,
              SessionsAgree, IsProducer, IsConsumer
<1>4. ASSUME \/ List(peer)
             \/ \E other \in PeerId, inner \in Inner : PeerMessage(peer, other, inner)
      PROVE  Known' \subseteq Known
  BY <1>4 DEF List, PeerMessage, Reject, peers, Known
<1>. QED
  BY <1>1, <1>2, <1>3, <1>4 DEF HandleMessage

(* A departed peer, and no other, is forgotten. *)
LEMMA OnlyGoneForgotten ==
    ASSUME SessionsAgree, NEW peer, RemovePeer(peer)
    PROVE  Known' = Known \ {peer}
<1>1. DOMAIN ConsumersFreed(peer) = DOMAIN consumers
  BY DEF ConsumersFreed, SessionsEnded, SessionsAgree, IsProducer, IsConsumer
<1>2. /\ DOMAIN consumers' = DOMAIN consumers \ {peer}
      /\ DOMAIN producers' = DOMAIN producers \ {peer}
      /\ listeners' = listeners \ {peer}
  BY <1>1 DEF RemovePeer, Without, ListenersLeft
<1>. QED
  BY <1>2 DEF Known

(* Whoever is in a session is known. *)
LEMMA PartnersAreKnown ==
    ASSUME SessionsAgree, NEW p, NEW q, InSession(p, q)
    PROVE  p \in Known /\ q \in Known
BY DEF SessionsAgree, InSession, IsProducer, IsConsumer, Known

=============================================================================
