------------------------------ MODULE WebPage ------------------------------
(***************************************************************************)
(* The web page (www/webrtc.js) against the signalling server's handler:   *)
(* its listener connection, which keeps a catalogue of the producers and   *)
(* comes back after a failure, and the sessions a user opens from it.      *)
(*                                                                         *)
(* The handler is SignallingHandler itself; its tasks are reduced to what  *)
(* a client sees of them: requests of one socket arrive in order, replies  *)
(* in any order (SignallingServer has the tasks).  Each connection has a   *)
(* peer identifier of its own, so a socket and its peer are the same here. *)
(* Of a producer, which is webrtcsink's signaller, only its registration   *)
(* is kept and what it says of a session, from a task each: an offer and a *)
(* candidate, or less if it cannot add the consumer or its description is  *)
(* lost, and the session's end when the consumer's pipeline fails or ends. *)
(*                                                                         *)
(* The server drops what it has for a peer that is not in its map yet: a   *)
(* connection is put there after its requests have begun to be read.       *)
(*                                                                         *)
(* A promise of the peer connection is an entry of its chain of            *)
(* operations; the answer's own candidates are left out.                   *)
(***************************************************************************)
EXTENDS SignallingHandler

CONSTANTS
    ListenerSocket,     \* bound: the listener connections the page may make
    SessionSocket,      \* bound: the sessions a user may open
    Element             \* bound: the producers that may come and go

ASSUME PeersAreDisjoint ==
    /\ PeerId = ListenerSocket \cup SessionSocket \cup Element
    /\ Element \cap (ListenerSocket \cup SessionSocket) = {}
    /\ ListenerSocket \cap SessionSocket = {}

VARIABLES
    up,         \* is the server running?
    page,       \* the listener: ws_conn, its handlers, its timers, its list
    socket,     \* where each WebSocket is
    asked,      \* what each socket has sent and the handler not read
    flying,     \* what each socket was sent and has not delivered
    target,     \* peer_id of each session
    called,     \* the sessions that have a peer connection
    chain,      \* the operations each peer connection has to do
    described,  \* the sessions whose peer connection has a remote description
    answered,   \* the sessions that sent an answer
    comings,    \* the elements that have registered, and those that have left
    says,       \* the elements' send tasks: <<element, session, inner>>
    entered,    \* the peers that the server has put in its map
    troubled,   \* the sockets that were cut, had a message overtaken or
                \* dropped, or whose producer ended or did not offer the session
    unserved    \* those with a message dropped or a session not offered

pageVars == <<page, target, called, chain, described, answered>>
netVars == <<up, socket, asked, flying, comings, says,
             entered, troubled, unserved>>
allVars == <<vars, pageVars, netVars>>

Socket == ListenerSocket \cup SessionSocket
SocketState == {"unused", "connecting", "open", "broken", "closed", "gone"}
Operation == {"setRemote", "addCandidate", "createAnswer", "setLocal"}

NoEntries == [e \in Element |-> 0]

PageInit ==
    /\ Init
    /\ up = TRUE
    /\ page = [ws |-> {}, attached |-> {}, timers |-> 1, entries |-> NoEntries]
    /\ socket = [s \in Socket |-> "unused"]
    /\ asked = [s \in Socket |-> <<>>]
    /\ flying = [s \in Socket |-> <<>>]
    /\ target = [c \in SessionSocket |-> NoSession]
    /\ called = {}
    /\ chain = [c \in SessionSocket |-> <<>>]
    /\ described = {} /\ answered = {}
    /\ comings = [came |-> {}, left |-> {}]
    /\ says = {}
    /\ entered = {} /\ troubled = {} /\ unserved = {}

-----------------------------------------------------------------------------
(* The listener's connection.  A definition just above another with almost *)
(* the same name is a variant with a plausible bug, which nothing uses.    *)

\* A message goes to the socket that ws_conn names, whichever event it is for.
ListenerSends(request) ==
    asked' = [s \in Socket |-> IF s \in page.ws /\ socket[s] # "broken"
                                  THEN Append(asked[s], request) ELSE asked[s]]

\* setup, and each timer: a new connection, with handlers for its events.
Connect(s) ==
    /\ page.timers > 0
    /\ s \in ListenerSocket /\ socket[s] = "unused"
    /\ page' = [page EXCEPT !.ws = {s}, !.attached = @ \cup {s}, !.timers = @ - 1]
    /\ socket' = [socket EXCEPT ![s] = "connecting"]
    /\ UNCHANGED <<vars, target, called, chain, described, answered, up, asked,
                   flying, comings, says, entered, troubled, unserved>>

\* clearConnection and clearPeers; the first throws when ws_conn is null.
Retry(p) ==
    IF p.ws = {} THEN p
    ELSE [ws |-> {}, attached |-> p.attached \ p.ws, timers |-> p.timers + 1,
          entries |-> NoEntries]

OnServerErrorKeepingIt(p) == [p EXCEPT !.timers = @ + 1, !.entries = NoEntries]
OnServerError(p) == Retry(p)
OnServerCloseForGood(p) ==
    IF p.ws = {} THEN p ELSE [Retry(p) EXCEPT !.timers = @ - 1]
OnServerClose(p) == Retry(p)

\* A socket that fails has an error event and then a close event, another only
\* the second; each goes to the handlers that are there by then.
ListenerEnds(s, failed) ==
    LET afterError == IF failed /\ s \in page.attached THEN OnServerError(page)
                      ELSE page
    IN  page' = IF s \in afterError.attached THEN OnServerClose(afterError)
                ELSE afterError

\* The entry for a producer: one more for each announcement, while a removal
\* takes out the first it finds, and throws when there is none.
EntriesOfList(msg) ==
    [e \in Element |-> IF e \in {entry.id : entry \in msg.producers} THEN 1 ELSE 0]
EntriesAdded(entries, e) == [entries EXCEPT ![e] = @ + 1]
EntriesRemoved(entries, e) == [entries EXCEPT ![e] = IF @ > 0 THEN @ - 1 ELSE 0]

EntriesKeepingOld(entries, msg) ==
    CASE msg.type = "list" ->
            [e \in Element |-> entries[e] + EntriesOfList(msg)[e]]
      [] msg.type = "producerAdded" -> EntriesAdded(entries, msg.peer)
      [] msg.type = "producerRemoved" -> EntriesRemoved(entries, msg.peer)
      [] OTHER -> entries
EntriesIgnoringAdded(entries, msg) ==
    CASE msg.type = "list" -> EntriesOfList(msg)
      [] msg.type = "producerRemoved" -> EntriesRemoved(entries, msg.peer)
      [] OTHER -> entries
EntriesAfter(entries, msg) ==
    CASE msg.type = "list" -> EntriesOfList(msg)
      [] msg.type = "producerAdded" -> EntriesAdded(entries, msg.peer)
      [] msg.type = "producerRemoved" -> EntriesRemoved(entries, msg.peer)
      [] OTHER -> entries

\* onServerMessage of the listener.
ListenerReads(msg) ==
    /\ page' = [page EXCEPT !.entries = EntriesAfter(@, msg)]
    /\ IF msg.type = "registered" THEN ListenerSends("list") ELSE UNCHANGED asked
    /\ UNCHANGED <<socket, target, called, chain, described, answered>>

-----------------------------------------------------------------------------
(* A session.                                                              *)

SessionSends(c, request) ==
    asked' = IF socket[c] = "open" THEN [asked EXCEPT ![c] = Append(@, request)]
             ELSE asked

\* A click on an entry of the catalogue.
Click(c) ==
    /\ c \in SessionSocket /\ socket[c] = "unused"
    /\ \E e \in Element :
          /\ page.entries[e] > 0
          /\ target' = [target EXCEPT ![c] = Some(e)]
    /\ socket' = [socket EXCEPT ![c] = "connecting"]
    /\ UNCHANGED <<vars, page, called, chain, described, answered, up, asked,
                   flying, comings, says, entered, troubled, unserved>>

\* resetState: the peer connection and the socket are closed.  What is still
\* to be delivered is not: a WebSocket that closes has no message events.
SocketAfterForgetting(s) == "gone"
SocketAfter(s) == IF socket[s] = "open" THEN "closed" ELSE "gone"

Reset(c) ==
    /\ socket' = [socket EXCEPT ![c] = SocketAfter(c)]
    /\ called' = called \ {c}
    /\ chain' = [chain EXCEPT ![c] = <<>>]
    /\ UNCHANGED <<asked, page, target, described, answered>>

\* createCall, for the first message of the producer.
NeedsCallAlways(c) == TRUE
NeedsCall(c) == c \notin called

\* onIncomingSDP and onIncomingICE give the peer connection an operation.
ReadsPeer(c, inner) ==
    LET before == IF NeedsCall(c) THEN <<>> ELSE chain[c]
    IN  /\ called' = called \cup {c}
        /\ described' = IF NeedsCall(c) THEN described \ {c} ELSE described
        /\ chain' = [chain EXCEPT ![c] = Append(before,
                       IF inner = "offer" THEN "setRemote" ELSE "addCandidate")]
        /\ UNCHANGED <<asked, socket, page, target, answered>>

\* onServerMessage of a session.
EndsOnEnd(msg) == msg.type = "endSession"
EndsOn(msg) == msg.type \in {"error", "endSession"}

SessionReads(c, msg) ==
    CASE msg.type = "registered" ->
            /\ SessionSends(c, "startSession")
            /\ UNCHANGED <<socket, page, target, called, chain, described,
                           answered>>
      [] EndsOn(msg) -> Reset(c)
      [] msg.type = "peer" -> ReadsPeer(c, msg.inner)
      [] OTHER -> UNCHANGED <<socket, asked, pageVars>>

\* The peer connection does its operations one after the other.  A candidate
\* is refused before there is a remote description, and what is refused goes to
\* setError, which resets the session.
ChainAfter(c, more) == chain' = [chain EXCEPT ![c] = Tail(@) \o more]

Succeeds(c) ==
    LET operation == Head(chain[c])
    IN  \/ /\ operation = "setRemote"
           /\ described' = described \cup {c}
           /\ ChainAfter(c, <<"createAnswer">>)
           /\ UNCHANGED <<asked, answered>>
        \/ /\ operation = "createAnswer"
           /\ ChainAfter(c, <<"setLocal">>)
           /\ UNCHANGED <<asked, described, answered>>
        \/ /\ operation = "setLocal"
           /\ SessionSends(c, "answer")
           /\ answered' = answered \cup {c}
           /\ ChainAfter(c, <<>>)
           /\ UNCHANGED described
        \/ /\ operation = "addCandidate" /\ c \in described
           /\ ChainAfter(c, <<>>)
           /\ UNCHANGED <<asked, described, answered>>

Operate(c) ==
    /\ chain[c] # <<>>
    /\ \/ /\ Succeeds(c)
          /\ UNCHANGED <<socket, page, target, called>>
       \/ /\ Head(chain[c]) = "addCandidate" /\ c \notin described
          /\ Reset(c)
    /\ UNCHANGED <<vars, up, flying, comings, says, entered, troubled, unserved>>

\* A description the browser does not take.  The handler of createAnswer's
\* failure is called without its session, throws, and so leaves the session.
Refuse(c) ==
    /\ chain[c] # <<>>
    /\ troubled' = troubled \cup {c}
    /\ \/ Head(chain[c]) \in {"setRemote", "setLocal"} /\ Reset(c)
       \/ /\ Head(chain[c]) = "createAnswer"
          /\ ChainAfter(c, <<>>)
          /\ UNCHANGED <<asked, socket, page, target, called, described,
                         answered>>
    /\ UNCHANGED <<vars, up, flying, comings, says, entered, unserved>>

-----------------------------------------------------------------------------
(* Sockets.                                                                *)

\* A new socket registers.
Open(s) ==
    /\ up
    /\ socket[s] = "connecting"
    /\ socket' = [socket EXCEPT ![s] = "open"]
    /\ IF s \in SessionSocket THEN asked' = [asked EXCEPT ![s] = <<"register">>]
                              ELSE ListenerSends("register")
    /\ UNCHANGED <<vars, pageVars, up, flying, comings, says, entered, troubled,
                   unserved>>

\* Deliver a message, be it the next or one that has overtaken it.
Deliver(s) ==
    /\ socket[s] \in {"open", "broken"}
    /\ \E i \in DOMAIN flying[s] :
          /\ flying' = [flying EXCEPT ![s] = RemoveAt(@, i)]
          /\ troubled' = IF i > 1 THEN troubled \cup {s} ELSE troubled
          /\ \/ s \in SessionSocket /\ SessionReads(s, flying[s][i])
             \/ s \in page.attached /\ ListenerReads(flying[s][i])
    /\ UNCHANGED <<vars, up, comings, says, entered, unserved>>

\* A connection that fails or is closed from the other side: one that the
\* server has lost, or by the network's doing.
Lose(s) ==
    /\ \/ socket[s] = "broken"
       \/ /\ socket[s] \in {"connecting", "open"}
          /\ \E l \in ListenerSocket : socket[l] = "unused"
    /\ troubled' = troubled \cup {s}
    /\ asked' = [asked EXCEPT ![s] = <<>>]
    /\ flying' = [flying EXCEPT ![s] = <<>>]
    /\ socket' = [socket EXCEPT ![s] = SocketAfter(s)]
    /\ IF s \in SessionSocket
          THEN /\ called' = called \ {s}
               /\ chain' = [chain EXCEPT ![s] = <<>>]
               /\ UNCHANGED page
          ELSE /\ \E failed \in BOOLEAN : ListenerEnds(s, failed)
               /\ UNCHANGED <<called, chain>>
    /\ UNCHANGED <<vars, target, described, answered, up, comings, says, entered,
                   unserved>>

-----------------------------------------------------------------------------
(* The server and the producers.                                           *)

HandleRequest(s, request) ==
    CASE request = "register" ->
            IF s \in SessionSocket THEN RegisterConsumer(s, NoMeta)
                                   ELSE RegisterListener(s, NoMeta)
      [] request = "list" -> List(s)
      [] request = "startSession" -> \E e \in target[s] : StartSession(s, e)
      [] request = "answer" -> \E e \in target[s] : PeerMessage(s, e, "answer")

HandleAsked(s) ==
    /\ up /\ items = <<>>
    /\ asked[s] # <<>>
    /\ asked' = [asked EXCEPT ![s] = Tail(@)]
    /\ HandleRequest(s, Head(asked[s]))
    /\ UNCHANGED <<pageVars, up, socket, flying, comings, says, entered,
                   troubled, unserved>>

\* The server reads the end of a socket after what was sent before it.
HandleEnd(s) ==
    /\ up /\ items = <<>>
    /\ socket[s] = "closed" /\ asked[s] = <<>>
    /\ RemovePeer(s)
    /\ socket' = [socket EXCEPT ![s] = "gone"]
    /\ UNCHANGED <<pageVars, up, asked, flying, comings, says, entered, troubled,
                   unserved>>

Come(e) ==
    /\ up /\ items = <<>>
    /\ e \in Element /\ e \notin comings.came
    /\ RegisterProducer(e, NoMeta)
    /\ comings' = [comings EXCEPT !.came = @ \cup {e}]
    /\ UNCHANGED <<pageVars, up, socket, asked, flying, says, entered, troubled,
                   unserved>>

LeaveElement(e) ==
    /\ up /\ items = <<>>
    /\ e \in comings.came \ comings.left
    /\ RemovePeer(e)
    /\ comings' = [comings EXCEPT !.left = @ \cup {e}]
    /\ says' = {t \in says : t[1] # e}
    /\ UNCHANGED <<pageVars, up, socket, asked, flying, entered, troubled,
                   unserved>>

\* The connection of a socket or of an element is put in the server's map.
Enter(p) ==
    /\ up
    /\ p \in comings.came \ comings.left \/ (p \in Socket /\ socket[p] = "open")
    /\ p \notin entered
    /\ entered' = entered \cup {p}
    /\ UNCHANGED <<vars, pageVars, up, socket, asked, flying, comings, says,
                   troubled, unserved>>

\* Who goes without: a socket whose item is dropped, and one whose session the
\* element is not told of or does not offer.
GoesWithout(to, msg, words) ==
    {s \in Socket : s = to /\ to \notin entered}
      \cup {c \in SessionSocket :
              /\ to \in Element /\ msg = StartSessionMsg(c)
              /\ to \notin entered \/ "offer" \notin words}

\* An item goes to a socket, or to an element: what it is told of a session, and
\* whether its streams and its encoders are up to it, settle what it will say.
\* It may end any session that it was told of.
Dispatch ==
    /\ PopItem
    /\ \E words \in SUBSET {"offer", "ice"} :
          LET to == Head(items)[1]
              msg == Head(items)[2]
              poor == GoesWithout(to, msg, words)
          IN  /\ flying' = IF to \in Socket \cap entered /\ socket[to] = "open"
                              THEN [flying EXCEPT ![to] = Append(@, msg)]
                              ELSE flying
              /\ says' = IF to \in Element \cap entered /\ msg.type = "startSession"
                            THEN says \cup {to} \X {msg.peer} \X (words \cup {"end"})
                            ELSE says
              /\ troubled' = troubled \cup poor
              /\ unserved' = unserved \cup poor
    /\ UNCHANGED <<pageVars, up, socket, asked, comings, entered>>

\* One of the element's send tasks: nothing orders them.
Say(e, c, inner) ==
    /\ up /\ items = <<>>
    /\ <<e, c, inner>> \in says
    /\ says' = says \ {<<e, c, inner>>}
    /\ PeerMessage(e, c, inner)
    /\ troubled' = IF inner = "ice" /\ <<e, c, "offer">> \in says
                      THEN troubled \cup {c} ELSE troubled
    /\ UNCHANGED <<pageVars, up, socket, asked, flying, comings, entered,
                   unserved>>

\* State::remove_consumer at the element, for a pipeline or a connection that has
\* failed, a stream that has ended or an answer that is not fit.
EndOf(e, c) ==
    /\ up /\ items = <<>>
    /\ <<e, c, "end">> \in says
    /\ says' = says \ {<<e, c, "end">>}
    /\ EndSession(e, c)
    /\ troubled' = troubled \cup {c}
    /\ UNCHANGED <<pageVars, up, socket, asked, flying, comings, entered,
                   unserved>>

\* The server stops, and everything it knew with it; its sockets are dead, which
\* their clients learn later.  A producer's signaller does not come back.
Crash ==
    /\ up
    /\ \E l \in ListenerSocket : socket[l] = "unused"
    /\ up' = FALSE
    /\ items' = <<>> /\ producers' = << >> /\ consumers' = << >>
    /\ listeners' = {} /\ meta' = << >>
    /\ socket' = [s \in Socket |->
                    CASE socket[s] = "open" -> "broken"
                      [] socket[s] = "closed" -> "gone"
                      [] OTHER -> socket[s]]
    /\ asked' = [s \in Socket |-> <<>>]
    /\ says' = {}
    /\ comings' = [comings EXCEPT !.left = comings.came]
    /\ UNCHANGED <<pageVars, flying, entered, troubled, unserved>>

Restart ==
    /\ ~up
    /\ up' = TRUE
    /\ UNCHANGED <<vars, pageVars, socket, asked, flying, comings, says, entered,
                   troubled, unserved>>

-----------------------------------------------------------------------------
\* What runs by itself, in the page, the server and the elements ...
Runs ==
    \/ Dispatch
    \/ \E p \in Socket \cup Element : Enter(p)
    \/ \E s \in Socket :
          \/ Connect(s) \/ Open(s) \/ Deliver(s)
          \/ socket[s] = "broken" /\ Lose(s)
          \/ HandleAsked(s) \/ HandleEnd(s)
    \/ \E c \in SessionSocket :
          \/ Operate(c)
          \/ \E e \in Element, inner \in {"offer", "ice"} : Say(e, c, inner)

\* ... and what users, producers, operators and networks do.
Environment ==
    \/ \E c \in SessionSocket : Click(c) \/ Refuse(c)
    \/ \E s \in Socket : Lose(s)
    \/ \E e \in Element :
          Come(e) \/ LeaveElement(e) \/ \E c \in SessionSocket : EndOf(e, c)
    \/ Crash \/ Restart

PageNext == Runs \/ Environment

PageSpec == PageInit /\ [][PageNext]_allVars /\ WF_allVars(Runs)

-----------------------------------------------------------------------------
(* Properties.                                                             *)

\* Every variable has its type.
PageTypeOK ==
    /\ TypeOK
    /\ up \in BOOLEAN
    /\ page.ws \subseteq ListenerSocket /\ page.attached \subseteq ListenerSocket
    /\ page.timers \in Nat /\ page.entries \in [Element -> Nat]
    /\ socket \in [Socket -> SocketState]
    /\ asked \in [Socket -> Seq({"register", "list", "startSession", "answer"})]
    /\ \A s \in Socket : flying[s] \in Seq(Message)
    /\ \A c \in SessionSocket :
          target[c] = NoSession \/ \E e \in Element : target[c] = Some(e)
    /\ chain \in [SessionSocket -> Seq(Operation)]
    /\ called \cup described \cup answered \subseteq SessionSocket
    /\ entered \subseteq Socket \cup Element
    /\ unserved \subseteq troubled /\ troubled \subseteq Socket

Live(s) == socket[s] \in {"connecting", "open", "broken"}

\* Whatever fails and in whatever order its events come, the page has exactly
\* one connection with its handlers on, or exactly one timer that will make
\* one: it neither gives up nor listens twice, and abandons no open socket.
ListensOnce ==
    /\ Cardinality({s \in ListenerSocket : Live(s)}) + page.timers = 1
    /\ \A s \in ListenerSocket : Live(s) => page.ws = {s} /\ page.attached = {s}

\* The page's variables are well formed, and it has one listener or one timer
\* that will make one.
PageInv == PageTypeOK /\ ListensOnce

Listening(s) ==
    up /\ s \in listeners /\ socket[s] = "open"

\* A listener has its list, with none on the way and none still to be asked for.
ListIsRead(s) ==
    /\ asked[s] = <<>>
    /\ \A msg \in ToSet(flying[s]) : msg.type \notin {"registered", "list"}
    /\ \A item \in ToSet(items) :
          item[1] = s => item[2].type \notin {"registered", "list"}

\* Once it has its list, a listener for which nothing was overtaken or dropped
\* finds the entry of each producer it is told has left: onServerMessage takes it
\* out without looking whether it is there.
RemovalsFind ==
    \A s \in ListenerSocket :
        Listening(s) /\ s \notin troubled /\ ListIsRead(s) /\ flying[s] # <<>> =>
            LET msg == Head(flying[s])
            IN  msg.type = "producerRemoved" => page.entries[msg.peer] > 0

\* When all was delivered, and nothing overtaken or dropped, the entries are the
\* producers, once each: also after producers came between the registration and
\* the list, and after connections that failed with messages on their way.
CatalogueSettles ==
    \A s \in ListenerSocket :
        Listening(s) /\ items = <<>> /\ asked[s] = <<>> /\ flying[s] = <<>>
          /\ s \notin troubled =>
            page.entries = [e \in Element |-> IF IsProducer(e) THEN 1 ELSE 0]

Over(c) == socket[c] \in {"closed", "gone"}

\* A session that its producer offered and did not end, whose messages came all
\* and in their order, which no network cut and whose offer the browser took, is
\* over only if its producer has left: no reply to another request, no candidate
\* and no late message ends it.
OnlyTroubleEnds ==
    \A c \in SessionSocket :
        Over(c) => c \in troubled \/ \E e \in target[c] : ~IsProducer(e)

\* A session that the page has closed is forgotten by a server that runs, even
\* if the page closed it before the server had handled its requests.
EndsAtServer ==
    \A c \in SessionSocket :
        Over(c) /\ up ~> c \notin DOMAIN consumers

\* If the server stays up, a listener in the end shows the producers (unless a
\* message was overtaken or dropped on its last connection).
ShowsProducers ==
    <>[]up => <>[](\E s \in ListenerSocket :
        /\ Listening(s)
        /\ s \in troubled
             \/ page.entries = [e \in Element |-> IF IsProducer(e) THEN 1 ELSE 0])

\* If the server stays up, a session that a user opens is in the end answered or
\* over, with three exceptions, in which it waits for ever: the server dropped a
\* message for it, the producer did not offer it, and createAnswer failed, where
\* it has a remote description and nothing left to do.
Settles ==
    <>[]up => \A c \in SessionSocket :
        socket[c] = "connecting" ~>
            \/ c \in answered \/ Over(c)
            \/ c \in unserved
            \/ c \in described /\ chain[c] = <<>>

=============================================================================
