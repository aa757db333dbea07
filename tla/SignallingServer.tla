--------------------------- MODULE SignallingServer ---------------------------
(***************************************************************************)
(* The server of signalling/src/server/mod.rs around the handler.          *)
(*                                                                         *)
(* accept_async spawns a send task and a receive task for each WebSocket,  *)
(* and only then puts the peer in the map.  The receive tasks feed one     *)
(* bounded channel.  One loop drives the handler from that channel and     *)
(* spawns a task of its own for every item the handler yields, so that a   *)
(* slow peer never stalls the loop; nothing orders those tasks.  When a    *)
(* socket ends, its receive task says so to the handler, takes the peer    *)
(* out of the map and leaves the rest to a removal task, which closes the  *)
(* peer's channel: its send task sends what is buffered, then a Close.     *)
(*                                                                         *)
(* The contents of a text are chosen when the handler takes it from the    *)
(* channel: nothing looks at them before.  Pings are left out.             *)
(***************************************************************************)
EXTENDS SignallingHandler, Bags

CONSTANTS
    ChannelSize,    \* buffer of the handler's input channel (1000)
    BufferSize,     \* buffer of a peer's channel (1000)
    MaxPending,     \* bound: messages on their way to one peer
    MaxTexts,       \* MaxTexts[p]: bound: texts the client p sends
    Asks            \* Asks[p]: the kinds of request the client p makes

ASSUME SizesAreNumbers ==
    /\ ChannelSize \in Nat \ {0}
    /\ BufferSize \in Nat \ {0}
    /\ MaxPending \in Nat
    /\ MaxTexts \in [PeerId -> Nat]

ASSUME AsksAreKinds ==
    Asks \in [PeerId -> SUBSET {"produce", "consume", "listen", "list",
                               "session", "relay"}]

VARIABLES
    input,      \* the handler's input channel: <<peer, "text" or "gone">>
    parked,     \* the receive tasks that wait for the channel, in turn
    recv,       \* where each peer's receive task is
    map,        \* State.peers: the peers an item can be sent to
    inserted,   \* the peers whose accept_async has returned
    flying,     \* the spawned tasks, each about to put a message in out[p]
    out,        \* the channel of each peer's send task
    closed,     \* the peers whose channel is closed
    send,       \* where each peer's send task is
    gone,       \* the clients whose socket is dead
    texts,      \* how many texts each client has sent
    links,      \* links[p][q]: the sessions with q that the client p counts
    missed      \* the peers an item was dropped for

channel == <<input, parked>>
tasks == <<channel, recv, map, inserted, flying, out, closed, send>>
clients == <<gone, texts, links, missed>>
serverVars == <<vars, tasks, clients>>

RecvState == {"off", "reading", "leaving", "removing", "removed", "ended"}
SendState == {"off", "running", "ended"}

ServerInit ==
    /\ Init
    /\ input = <<>> /\ parked = <<>>
    /\ recv = [p \in PeerId |-> "off"]
    /\ map = {}
    /\ inserted = {}
    /\ flying = [p \in PeerId |-> EmptyBag]
    /\ out = [p \in PeerId |-> <<>>]
    /\ closed = {}
    /\ send = [p \in PeerId |-> "off"]
    /\ gone = {}
    /\ texts = [p \in PeerId |-> 0]
    /\ links = [p \in PeerId |-> [q \in PeerId |-> 0]]
    /\ missed = {}

-----------------------------------------------------------------------------
(* accept_async.  Peer identifiers are fresh UUIDs: each is used once.     *)

Accept(p) ==
    /\ recv[p] = "off"
    /\ recv' = [recv EXCEPT ![p] = "reading"]
    /\ send' = [send EXCEPT ![p] = "running"]
    /\ UNCHANGED <<vars, channel, map, inserted, flying, out, closed, clients>>

Insert(p) ==
    /\ recv[p] # "off"
    /\ p \notin inserted
    /\ inserted' = inserted \cup {p}
    /\ map' = map \cup {p}
    /\ UNCHANGED <<vars, channel, recv, flying, out, closed, send, clients>>

\* A client closes its socket, or the network does.
Leave(p) ==
    /\ recv[p] # "off"
    /\ p \notin gone
    /\ gone' = gone \cup {p}
    /\ UNCHANGED <<vars, tasks, texts, links, missed>>

-----------------------------------------------------------------------------
(* The receive task.  What the client sent before it left can still be read. *)

\* A bounded channel has its buffer and a place for each sender.  A send puts
\* the item in, and then waits if that is more than the buffer holds; each item
\* taken out frees the sender that has waited the longest.
Waits(p) == p \in ToSet(parked)

Enqueue(p, what) ==
    /\ ~Waits(p)
    /\ input' = Append(input, <<p, what>>)
    /\ parked' = IF Len(input) < ChannelSize THEN parked ELSE Append(parked, p)

Unpark == parked' = IF parked = <<>> THEN <<>> ELSE Tail(parked)

ReceiveText(p) ==
    /\ recv[p] = "reading"
    /\ texts[p] < MaxTexts[p]
    /\ texts' = [texts EXCEPT ![p] = @ + 1]
    /\ Enqueue(p, "text")
    /\ UNCHANGED <<vars, recv, map, inserted, flying, out, closed, send, gone, links, missed>>

\* A Close frame, an error or the end of the stream.
ReceiveEnd(p) ==
    /\ recv[p] = "reading" /\ ~Waits(p)
    /\ p \in gone
    /\ recv' = [recv EXCEPT ![p] = "leaving"]
    /\ UNCHANGED <<vars, channel, map, inserted, flying, out, closed, send, clients>>

SayGoneOrNot(p) ==
    /\ recv[p] = "leaving"
    /\ IF Len(input) < ChannelSize THEN Enqueue(p, "gone") ELSE UNCHANGED channel
    /\ recv' = [recv EXCEPT ![p] = "removing"]
    /\ UNCHANGED <<vars, map, inserted, flying, out, closed, send, clients>>

SayGone(p) ==
    /\ recv[p] = "leaving"
    /\ Enqueue(p, "gone")
    /\ recv' = [recv EXCEPT ![p] = "removing"]
    /\ UNCHANGED <<vars, map, inserted, flying, out, closed, send, clients>>

\* Server::remove_peer; the removal task is spawned only for a peer it finds.
TakeOutOnly(p) ==
    /\ recv[p] = "removing" /\ ~Waits(p)
    /\ recv' = [recv EXCEPT ![p] = "ended"]
    /\ map' = map \ {p}
    /\ UNCHANGED <<vars, channel, inserted, flying, out, closed, send, clients>>

TakeOut(p) ==
    /\ recv[p] = "removing" /\ ~Waits(p)
    /\ recv' = [recv EXCEPT ![p] = IF p \in map THEN "removed" ELSE "ended"]
    /\ map' = map \ {p}
    /\ UNCHANGED <<vars, channel, inserted, flying, out, closed, send, clients>>

\* The removal task closes the channel, then joins the other two tasks.
CloseChannel(p) ==
    /\ recv[p] = "removed"
    /\ closed' = closed \cup {p}
    /\ recv' = [recv EXCEPT ![p] = "ended"]
    /\ UNCHANGED <<vars, channel, map, inserted, flying, out, send, clients>>

-----------------------------------------------------------------------------
(* The handler loop.                                                       *)

\* A text the handler takes: one that does not parse is dropped, another is
\* a request, which counts for the client's own record when it is accepted.
\* A client asks for the end of the sessions it knows of.
HandleText(p) ==
    \/ UNCHANGED <<vars, links>>
    \/ /\ \/ \E m \in Meta :
                \/ "produce" \in Asks[p] /\ RegisterProducer(p, m)
                \/ "consume" \in Asks[p] /\ RegisterConsumer(p, m)
                \/ "listen" \in Asks[p] /\ RegisterListener(p, m)
          \/ "list" \in Asks[p] /\ List(p)
          \/ /\ "relay" \in Asks[p]
             /\ \E q \in PeerId, inner \in Inner : PeerMessage(p, q, inner)
       /\ UNCHANGED links
    \/ /\ "session" \in Asks[p]
       /\ \E q \in PeerId :
             \/ /\ StartSession(p, q)
                /\ links' = IF CanStart(p, q)
                               THEN [links EXCEPT ![p][q] = @ + 1] ELSE links
             \/ /\ links[p][q] > 0
                /\ EndSession(p, q)
                /\ links' = IF AsProducer(p, q) \/ AsConsumer(p, q)
                               THEN [links EXCEPT ![p][q] = @ - 1] ELSE links

HandleInput ==
    /\ items = <<>>
    /\ input # <<>>
    /\ input' = Tail(input)
    /\ Unpark
    /\ LET p == Head(input)[1]
       IN  \/ Head(input)[2] = "text" /\ HandleText(p)
           \/ Head(input)[2] = "gone" /\ RemovePeer(p) /\ UNCHANGED links
    /\ UNCHANGED <<recv, map, inserted, flying, out, closed, send, gone, texts, missed>>

Pending(p) == BagCardinality(flying[p]) + Len(out[p])

\* An item for a peer in the map is handed to a task of its own, which has its
\* own clone of the peer's sender; an item for any other peer is dropped.
DispatchItem ==
    /\ PopItem
    /\ LET to == Head(items)[1]
           msg == Head(items)[2]
       IN  \/ /\ to \in map
              /\ Pending(to) < MaxPending
              /\ flying' = [flying EXCEPT ![to] = @ (+) SetToBag({msg})]
              /\ UNCHANGED missed
           \/ /\ to \notin map
              /\ missed' = missed \cup {to}
              /\ UNCHANGED flying
    /\ UNCHANGED <<channel, recv, map, inserted, out, closed, send, gone, texts, links>>

\* A fresh clone of a sender always has a place in the channel, so a task
\* never waits for one; a closed channel refuses the message.
BufferIfRoom(p, msg) ==
    IF p \in closed \/ send[p] = "ended" \/ Len(out[p]) >= BufferSize
       THEN out ELSE [out EXCEPT ![p] = Append(@, msg)]
Buffer(p, msg) ==
    IF p \in closed \/ send[p] = "ended"
       THEN out ELSE [out EXCEPT ![p] = Append(@, msg)]

FinishFlight(p) ==
    \E msg \in BagToSet(flying[p]) :
        /\ flying' = [flying EXCEPT ![p] = @ (-) SetToBag({msg})]
        /\ out' = Buffer(p, msg)
        /\ UNCHANGED <<vars, channel, recv, map, inserted, closed, send, clients>>

-----------------------------------------------------------------------------
(* The send task.                                                          *)

\* A buffered message reaches the client, who reads it.
SendText(p) ==
    /\ send[p] = "running"
    /\ out[p] # <<>>
    /\ out' = [out EXCEPT ![p] = Tail(@)]
    /\ LET msg == Head(out[p])
       IN  links' = CASE msg.type = "startSession" -> [links EXCEPT ![p][msg.peer] = @ + 1]
                      [] msg.type = "endSession"   -> [links EXCEPT ![p][msg.peer] = @ - 1]
                      [] OTHER -> links
    /\ UNCHANGED <<vars, channel, recv, map, inserted, flying, closed, send, gone, texts, missed>>

\* The socket refuses a message once the client is gone: the task fails and
\* what its channel holds is lost with it.
SendFails(p) ==
    /\ send[p] = "running"
    /\ p \in gone
    /\ out[p] # <<>>
    /\ send' = [send EXCEPT ![p] = "ended"]
    /\ out' = [out EXCEPT ![p] = <<>>]
    /\ UNCHANGED <<vars, channel, recv, map, inserted, flying, closed, clients>>

SendClose(p) ==
    /\ send[p] = "running"
    /\ out[p] = <<>>
    /\ p \in closed
    /\ send' = [send EXCEPT ![p] = "ended"]
    /\ UNCHANGED <<vars, channel, recv, map, inserted, flying, out, closed, clients>>

-----------------------------------------------------------------------------
SendTask(p) == SendText(p) \/ SendFails(p) \/ SendClose(p)
LeaveSteps(p) == SayGone(p) \/ TakeOut(p) \/ CloseChannel(p)
HandlerLoop == HandleInput \/ DispatchItem

ServerNext ==
    \/ HandlerLoop
    \/ \E p \in PeerId :
          \/ Accept(p) \/ Insert(p) \/ Leave(p)
          \/ ReceiveText(p) \/ ReceiveEnd(p) \/ LeaveSteps(p)
          \/ FinishFlight(p) \/ SendTask(p)

\* The executor runs every task that can run.  Nothing makes a client connect,
\* send or leave.
Fairness ==
    /\ WF_serverVars(HandlerLoop)
    /\ \A p \in PeerId :
          /\ WF_serverVars(Insert(p))
          /\ WF_serverVars(ReceiveEnd(p))
          /\ WF_serverVars(SayGone(p))
          /\ WF_serverVars(TakeOut(p) \/ CloseChannel(p))
          /\ WF_serverVars(FinishFlight(p))
          /\ WF_serverVars(SendTask(p))

ServerSpec == ServerInit /\ [][ServerNext]_serverVars /\ Fairness

-----------------------------------------------------------------------------
(* Properties.                                                             *)

LinksBetween(p, q) == (IF InSession(p, q) THEN 1 ELSE 0)
                    + (IF InSession(q, p) THEN 1 ELSE 0)

HasRole(p) == p \in DOMAIN producers \cup DOMAIN consumers \cup listeners
Alive(p) == recv[p] \in {"reading", "leaving"}

\* Every variable of the server has its type.
ServerTypeOK ==
    /\ TypeOK
    /\ input \in Seq(PeerId \X {"text", "gone"})
    /\ parked \in Seq(PeerId)
    /\ recv \in [PeerId -> RecvState]
    /\ map \subseteq inserted
    /\ \A p \in PeerId : /\ out[p] \in Seq(Message)
                         /\ BagToSet(flying[p]) \subseteq Message
    /\ closed \subseteq inserted
    /\ send \in [PeerId -> SendState]

\* The handler knows only peers whose socket is open or whose departure is on
\* its way in the input channel: no request of a peer is handled after it.
RolesOfLivePeers ==
    \A p \in PeerId : HasRole(p) => Alive(p) \/ <<p, "gone">> \in ToSet(input)

\* A receive task waits for the channel only while that holds more than its
\* buffer, each only once, and with a socket that is read or has ended: none is
\* forgotten there, and with n sockets the channel holds n items more at most.
WaitingAreCounted ==
    /\ Len(parked) = IF Len(input) > ChannelSize THEN Len(input) - ChannelSize ELSE 0
    /\ IsInjective(parked)
    /\ \A p \in PeerId : Waits(p) => recv[p] \in {"reading", "removing"}

\* The handler outlives no peer it still answers for, no receive task waits for
\* a channel with room, and the map and the tasks are those of the peers let in.
ServerInv == ServerTypeOK /\ WaitingAreCounted /\ RolesOfLivePeers

\* Although the items travel in tasks of their own and arrive in any order, a
\* connected client to whom none was dropped counts, once all have arrived,
\* exactly the sessions the handler keeps for it.
LinksSettle ==
    items = <<>> =>
        \A p \in PeerId :
            /\ recv[p] # "off"
            /\ p \notin gone \cup missed
            /\ flying[p] = EmptyBag
            /\ out[p] = <<>>
            => \A q \in PeerId : links[p][q] = LinksBetween(p, q)

\* A departed peer is forgotten by the handler for good, sessions included.
DepartedIsForgotten ==
    \A p \in PeerId : p \in gone ~> [](~HasRole(p))

\* A client that stays, and lost no item, in the end counts no session with a
\* peer that left.
PartnerLearns ==
    \A p, q \in PeerId : p # q =>
        (q \in gone ~> [](links[p][q] = 0 \/ p \in gone \cup missed))

\* A departed peer that accept_async put in the map before its receive task
\* ended leaves the map, and its tasks end.  One it puts there later stays.
TasksEnd ==
    \A p \in PeerId :
        p \in gone /\ p \in map /\ recv[p] = "reading" ~>
            p \notin map /\ recv[p] = "ended" /\ send[p] = "ended"

=============================================================================
