-------------------------- MODULE SignallingHandler --------------------------
(***************************************************************************)
(* The Handler of signalling/src/handlers/mod.rs: the state machine of the *)
(* signalling server.  It is a stream transformer: it polls                *)
(* (peer, message) pairs from its input, where no message means that the   *)
(* peer's connection is gone, and yields (peer, message) pairs to send.    *)
(*                                                                         *)
(* The input is polled only while no output item is left (poll_next), so   *)
(* every handler below is guarded by items = <<>>.  Rust's HashMap and     *)
(* HashSet iterate in an arbitrary order: where the code walks one to      *)
(* queue items, the order is chosen with \E.  The payload of SDP and ICE   *)
(* messages plays no part and is left out; so is the text of an error.     *)
(***************************************************************************)
EXTENDS Naturals, Sequences, SequencesExt, FiniteSets

CONSTANTS
    PeerId,     \* peer identifiers (the server uses a fresh UUID per socket)
    Meta,       \* the JSON metadata a peer may register with
    NoMeta      \* Option::None, the default metadata

ASSUME NoMetaIsMeta == NoMeta \in Meta

VARIABLES
    items,      \* the queue of <<peer, message>> still to yield
    producers,  \* registered producer |-> the consumers in session with it
    consumers,  \* registered consumer |-> its producer, or NoSession
    listeners,  \* the registered listeners
    meta        \* peer |-> metadata of its last registration

vars == <<items, producers, consumers, listeners, meta>>
peers == <<producers, consumers, listeners, meta>>

-----------------------------------------------------------------------------
(* A definition just above another of almost the same name and with the    *)
(* same parameters is a variant with a plausible bug.  Nothing uses it: it  *)
(* is what a property has to tell from the definition below it.            *)

(* Optional values and finite maps.  A consumer's session is an Option,    *)
(* written as a set of at most one peer, so that it needs no sentinel.     *)

NoSession == {}
Some(p) == {p}

Put(map, key, value) ==
    [k \in DOMAIN map \cup {key} |-> IF k = key THEN value ELSE map[k]]
Without(map, key) == [k \in DOMAIN map \ {key} |-> map[k]]
MetaOf(p) == IF p \in DOMAIN meta THEN meta[p] ELSE NoMeta

IsProducer(p) == p \in DOMAIN producers
IsConsumer(c) == c \in DOMAIN consumers

-----------------------------------------------------------------------------
(* The outgoing messages of the protocol crate.                            *)

Role == {"producer", "consumer", "listener"}
Inner == {"ice", "offer", "answer"}
Peer == [id : PeerId, meta : Meta]

Message ==
         [type : {"registered"}, role : Role, peer : PeerId, meta : Meta]
    \cup [type : {"producerAdded", "producerRemoved"}, peer : PeerId, meta : Meta]
    \cup [type : {"startSession", "endSession"}, peer : PeerId]
    \cup [type : {"peer"}, peer : PeerId, inner : Inner]
    \cup [type : {"list"}, producers : SUBSET Peer]
    \cup [type : {"error"}]

Item == PeerId \X Message

Registered(r, p, m) == [type |-> "registered", role |-> r, peer |-> p, meta |-> m]
ProducerAdded(p, m) == [type |-> "producerAdded", peer |-> p, meta |-> m]
ProducerRemoved(p, m) == [type |-> "producerRemoved", peer |-> p, meta |-> m]
StartSessionMsg(p) == [type |-> "startSession", peer |-> p]
EndSessionMsg(p) == [type |-> "endSession", peer |-> p]
PeerMsg(p, i) == [type |-> "peer", peer |-> p, inner |-> i]
ListMsgOfConsumers == [type |-> "list",
            producers |-> {[id |-> p, meta |-> MetaOf(p)] : p \in DOMAIN consumers}]
ListMsg == [type |-> "list",
            producers |-> {[id |-> p, meta |-> MetaOf(p)] : p \in DOMAIN producers}]
ErrorMsg == [type |-> "error"]

\* One copy of a message for each member of the sequence of peers dests.
ToEach(dests, msg) == [i \in DOMAIN dests |-> <<dests[i], msg>>]

-----------------------------------------------------------------------------
Init ==
    /\ items = <<>>
    /\ producers = << >>
    /\ consumers = << >>
    /\ listeners = {}
    /\ meta = << >>

\* The Err branch of poll_next: the sender gets an Error, nothing else moves.
Reject(peer) ==
    /\ items' = Append(items, <<peer, ErrorMsg>>)
    /\ UNCHANGED peers

Send(to, msg) == items' = Append(items, <<to, msg>>)

RegisterProducer(peer, m) ==
    \/ /\ IsProducer(peer)
       /\ Reject(peer)
    \/ /\ ~IsProducer(peer)
       /\ producers' = Put(producers, peer, {})
       /\ \E order \in SetToSeqs(listeners) :
             items' = items \o ToEach(order, ProducerAdded(peer, m))
                            \o <<<<peer, Registered("producer", peer, m)>>>>
       /\ meta' = Put(meta, peer, m)
       /\ UNCHANGED <<consumers, listeners>>

RegisterConsumer(peer, m) ==
    \/ /\ IsConsumer(peer)
       /\ Reject(peer)
    \/ /\ ~IsConsumer(peer)
       /\ consumers' = Put(consumers, peer, NoSession)
       /\ Send(peer, Registered("consumer", peer, m))
       /\ meta' = Put(meta, peer, m)
       /\ UNCHANGED <<producers, listeners>>

RegisterListener(peer, m) ==
    \/ /\ peer \in listeners
       /\ Reject(peer)
    \/ /\ peer \notin listeners
       /\ listeners' = listeners \cup {peer}
       /\ Send(peer, Registered("listener", peer, m))
       /\ meta' = Put(meta, peer, m)
       /\ UNCHANGED <<producers, consumers>>

\* peer asks, as a consumer, for a session with producer.
CanStartAgain(peer, producer) == IsConsumer(peer) /\ IsProducer(producer)
CanStart(peer, producer) ==
    /\ IsConsumer(peer)
    /\ consumers[peer] = NoSession
    /\ IsProducer(producer)

StartSession(peer, producer) ==
    \/ /\ ~CanStart(peer, producer)
       /\ Reject(peer)
    \/ /\ CanStart(peer, producer)
       /\ consumers' = [consumers EXCEPT ![peer] = Some(producer)]
       /\ producers' = [producers EXCEPT ![producer] = @ \cup {peer}]
       /\ Send(producer, StartSessionMsg(peer))
       /\ UNCHANGED <<listeners, meta>>

\* The branch a request about a session takes: the producer's side is tried
\* first, the consumer's side only for a peer that is not a producer.
AsProducer(peer, other) == IsProducer(peer) /\ other \in producers[peer]
AsConsumer(peer, other) ==
    /\ ~IsProducer(peer)
    /\ IsConsumer(peer)
    /\ consumers[peer] = Some(other)

\* other learns that peer ended their session.
TellNobody(peer, other) == UNCHANGED items
TellOther(peer, other) == Send(other, EndSessionMsg(peer))

EndSession(peer, other) ==
    \/ /\ AsProducer(peer, other)
       /\ producers' = [producers EXCEPT ![peer] = @ \ {other}]
       /\ consumers' = Put(consumers, other, NoSession)
       /\ TellOther(peer, other)
       /\ UNCHANGED <<listeners, meta>>
    \/ /\ AsConsumer(peer, other)
       /\ consumers' = [consumers EXCEPT ![peer] = NoSession]
       /\ producers' = [producers EXCEPT ![other] = @ \ {peer}]
       /\ TellOther(peer, other)
       /\ UNCHANGED <<listeners, meta>>
    \/ /\ ~AsProducer(peer, other)
       /\ ~AsConsumer(peer, other)
       /\ Reject(peer)

List(peer) ==
    /\ Send(peer, ListMsg)
    /\ UNCHANGED peers

\* Whether a PeerMessage from peer to other is forwarded.  Offers travel only
\* from a producer, answers only from a consumer, candidates both ways.
ForwardableUnchecked(peer, other, inner) ==
    CASE inner = "ice"    -> AsProducer(peer, other) \/ AsConsumer(peer, other)
      [] inner = "offer"  -> AsProducer(peer, other)
      [] inner = "answer" -> IsConsumer(peer)
Forwardable(peer, other, inner) ==
    CASE inner = "ice"    -> AsProducer(peer, other) \/ AsConsumer(peer, other)
      [] inner = "offer"  -> AsProducer(peer, other)
      [] inner = "answer" -> IsConsumer(peer) /\ consumers[peer] = Some(other)

PeerMessage(peer, other, inner) ==
    \/ /\ Forwardable(peer, other, inner)
       /\ Send(other, PeerMsg(peer, inner))
       /\ UNCHANGED peers
    \/ /\ ~Forwardable(peer, other, inner)
       /\ Reject(peer)

\* remove_peer, in the order of the code: the listener's role goes first, then
\* the producer's and its sessions, then the consumer's.  A session with itself
\* is ended by the producer's part.
ListenersKept(peer) == listeners
ListenersLeft(peer) == listeners \ {peer}
ListenersTold(peer) == IF IsProducer(peer) THEN ListenersLeft(peer) ELSE {}
SessionsKept(peer) == {}
SessionsEnded(peer) == IF IsProducer(peer) THEN producers[peer] ELSE {}
ConsumersKept(peer) == consumers
ConsumersFreed(peer) ==
    [c \in DOMAIN consumers \cup SessionsEnded(peer) |->
        IF c \in SessionsEnded(peer) THEN NoSession ELSE consumers[c]]
SessionOf(map, peer) == IF peer \in DOMAIN map THEN map[peer] ELSE NoSession

RemovePeer(peer) ==
    LET freed == ConsumersFreed(peer)
        partner == SessionOf(freed, peer)
    IN  /\ listeners' = ListenersLeft(peer)
        /\ consumers' = Without(freed, peer)
        /\ producers' = [p \in DOMAIN producers \ {peer} |->
                            IF p \in partner THEN producers[p] \ {peer}
                                             ELSE producers[p]]
        /\ \E ended \in SetToSeqs(SessionsEnded(peer)),
              told \in SetToSeqs(ListenersTold(peer)),
              left \in SetToSeqs(partner) :
              items' = items \o ToEach(ended, EndSessionMsg(peer))
                             \o ToEach(told, ProducerRemoved(peer, MetaOf(peer)))
                             \o ToEach(left, EndSessionMsg(peer))
        /\ meta' = Without(meta, peer)

\* poll_next, ready with an item.
PopItem ==
    /\ items # <<>>
    /\ items' = Tail(items)
    /\ UNCHANGED peers

\* poll_next, polling the input and handling one message of it.
HandleMessage(peer) ==
    /\ items = <<>>
    /\ \/ \E m \in Meta : \/ RegisterProducer(peer, m)
                          \/ RegisterConsumer(peer, m)
                          \/ RegisterListener(peer, m)
       \/ List(peer)
       \/ \E other \in PeerId :
             \/ StartSession(peer, other)
             \/ EndSession(peer, other)
             \/ \E inner \in Inner : PeerMessage(peer, other, inner)

HandleGone(peer) ==
    /\ items = <<>>
    /\ RemovePeer(peer)

Next ==
    \/ PopItem
    \/ \E peer \in PeerId : HandleMessage(peer) \/ HandleGone(peer)

Spec == Init /\ [][Next]_vars

-----------------------------------------------------------------------------
(* Properties.                                                             *)

InSession(p, c) == IsProducer(p) /\ c \in producers[p]

\* The maps have their types, and the sets the code walks are finite.
PeersTypeOK ==
    /\ DOMAIN producers \subseteq PeerId
    /\ \A p \in DOMAIN producers :
          producers[p] \subseteq PeerId /\ IsFiniteSet(producers[p])
    /\ DOMAIN consumers \subseteq PeerId
    /\ \A c \in DOMAIN consumers :
          consumers[c] = NoSession \/ \E p \in PeerId : consumers[c] = Some(p)
    /\ listeners \subseteq PeerId /\ IsFiniteSet(listeners)
    /\ DOMAIN meta \subseteq PeerId
    /\ \A p \in DOMAIN meta : meta[p] \in Meta

\* Every variable has its type.
TypeOK == items \in Seq(Item) /\ PeersTypeOK

\* The two maps describe the same sessions: a consumer's producer is
\* registered and lists it, and whoever a producer lists is a consumer that
\* points back.  It is what the unwrap()s of remove_peer, end_session and
\* start_session rely on, and why a consumer is in one session at most.
SessionsAgree ==
    /\ \A p \in DOMAIN producers : \A c \in producers[p] :
          IsConsumer(c) /\ consumers[c] = Some(p)
    /\ \A c \in DOMAIN consumers : \A p \in consumers[c] : InSession(p, c)

\* Metadata is kept for exactly the peers that hold a role: none is leaked by
\* a departed peer, and none is missing when a list or a removal quotes it.
MetaMatchesRoles ==
    DOMAIN meta = DOMAIN producers \cup DOMAIN consumers \cup listeners

\* What the handler relies on between any two messages: its queue and maps are
\* well formed, the two session maps agree, so that no unwrap() panics, and
\* metadata is neither leaked nor missing.
HandlerInv == TypeOK /\ SessionsAgree /\ MetaMatchesRoles

\* A session ends only with a notice: in the step that ends it, its producer
\* or its consumer is told that it is over with the other one.
EndIsNotified ==
    [][\A p, c \in PeerId : InSession(p, c) /\ ~InSession(p, c)' =>
          ToSet(items') \cap {<<p, EndSessionMsg(c)>>, <<c, EndSessionMsg(p)>>} # {}]_vars

\* A forwarded message links two peers in session, an offer comes from the
\* producer and an answer from the consumer.
RelayedInSession ==
    [][\A i \in ToSet(items') \ ToSet(items) : i[2].type = "peer" =>
          LET to == i[1]
              from == i[2].peer
          IN  CASE i[2].inner = "ice"    -> InSession(from, to) \/ InSession(to, from)
                [] i[2].inner = "offer"  -> InSession(from, to)
                [] i[2].inner = "answer" -> InSession(to, from)]_vars

\* The handler implements the broker: the sessions are the pairs that the
\* producers map lists.
Broker == INSTANCE SessionBroker WITH
    prods <- DOMAIN producers,
    cons <- DOMAIN consumers,
    lsnrs <- listeners,
    sessions <- {s \in PeerId \X PeerId : InSession(s[1], s[2])}

ImplementsBroker == Broker!Spec

=============================================================================
