--------------------------- MODULE WebPage_proofs ---------------------------
(***************************************************************************)
(* Proofs about the web page and the signalling server's handler, for any  *)
(* number of connections, sessions and producers: the page has one         *)
(* listener or one timer, a session that nothing troubled ends only with   *)
(* its producer, and a listener that has read everything shows exactly the *)
(* producers.                                                              *)
(*                                                                         *)
(* The first part is about the types, who has which role and what each     *)
(* step queues; then come the phases of a session that is well, and at the *)
(* end the catalogue, by what a listener has still to read.                *)
(***************************************************************************)
EXTENDS WebPage, SignallingHandler_proofs

(***************************************************************************)
(* Steps of the page's model.                                              *)

\* A step is one of these; the scheduling of the model plays no part.
LEMMA PageSteps ==
    ASSUME PageNext
    PROVE  \/ Dispatch \/ Crash \/ Restart \/ \E p \in Socket \cup Element : Enter(p)
           \/ \E s \in Socket : \/ Connect(s) \/ Open(s) \/ Deliver(s) \/ Lose(s)
                                \/ HandleAsked(s) \/ HandleEnd(s)
           \/ \E c \in SessionSocket :
                 \/ Operate(c) \/ Click(c) \/ Refuse(c)
                 \/ \E e \in Element, inner \in {"offer", "ice"} : Say(e, c, inner)
                 \/ \E e \in Element : EndOf(e, c)
           \/ \E e \in Element : Come(e) \/ LeaveElement(e)
BY DEF PageNext, Runs, Environment

\* What a socket may ask: the sessions start and answer, the listeners list.
Requests(s) == IF s \in SessionSocket THEN {"register", "startSession", "answer"}
               ELSE {"register", "list"}

\* The types of the page's own variables.
PageTypes ==
    /\ up \in BOOLEAN
    /\ page \in [ws : SUBSET ListenerSocket, attached : SUBSET ListenerSocket,
                 timers : Nat, entries : [Element -> Nat]]
    /\ socket \in [Socket -> SocketState]
    /\ asked = [s \in Socket |-> asked[s]] /\ \A s \in Socket : asked[s] \in Seq(Requests(s))
    /\ flying \in [Socket -> Seq(Message)]
    /\ target \in [SessionSocket -> {NoSession} \cup {Some(e) : e \in Element}]
    /\ chain \in [SessionSocket -> Seq(Operation)]
    /\ called \subseteq SessionSocket /\ described \subseteq SessionSocket
    /\ answered \subseteq SessionSocket
    /\ entered \subseteq Socket \cup Element
    /\ unserved \subseteq troubled /\ troubled \subseteq Socket
    /\ comings \in [came : SUBSET Element, left : SUBSET Element]

\* The handler gets a request of a socket, the end of one, or a producer's.
LEMMA RequestIsHandled ==
    ASSUME PageTypes, NEW s \in Socket, HandleAsked(s)
    PROVE  HandleMessage(s)
<1>1. /\ items = <<>> /\ asked[s] \in Seq(Requests(s)) /\ asked[s] # <<>>
      /\ HandleRequest(s, Head(asked[s]))
  BY DEF HandleAsked, PageTypes
<1>2. Head(asked[s]) \in Requests(s)
  BY <1>1, HeadTailProperties
<1>3. s \in SessionSocket => \A e \in target[s] : e \in PeerId
  <2>. SUFFICES ASSUME s \in SessionSocket PROVE \A e \in target[s] : e \in PeerId
    OBVIOUS
  <2>1. target[s] = NoSession \/ \E e \in Element : target[s] = Some(e)
    BY DEF PageTypes
  <2>. QED
    BY <2>1, PeersAreDisjoint DEF NoSession, Some
<1>4. CASE s \in SessionSocket
  <2>1. \/ RegisterConsumer(s, NoMeta)
        \/ \E e \in target[s] : StartSession(s, e)
        \/ \E e \in target[s] : PeerMessage(s, e, "answer")
    BY <1>1, <1>2, <1>4 DEF HandleRequest, Requests
  <2>. QED
    BY <2>1, <1>1, <1>3, <1>4, NoMetaIsMeta DEF HandleMessage, Inner
<1>5. CASE s \notin SessionSocket
  <2>1. RegisterListener(s, NoMeta) \/ List(s)
    BY <1>1, <1>2, <1>5 DEF HandleRequest, Requests
  <2>. QED
    BY <2>1, <1>1, NoMetaIsMeta DEF HandleMessage
<1>. QED
  BY <1>4, <1>5

\* Every step but a crash is a step of the handler, or leaves it alone.
LEMMA PageStepIsHandlerStep ==
    ASSUME PageTypes, [PageNext]_allVars, ~Crash
    PROVE  [Next]_vars
<1>1. Socket \subseteq PeerId /\ Element \subseteq PeerId /\ SessionSocket \subseteq PeerId
  BY PeersAreDisjoint DEF Socket
<1>2. ASSUME NEW s \in Socket, HandleAsked(s) PROVE Next
  BY <1>1, <1>2, RequestIsHandled DEF Next
<1>3. ASSUME NEW s \in Socket, HandleEnd(s) PROVE Next
  BY <1>1, <1>3 DEF HandleEnd, HandleGone, Next
<1>4. ASSUME NEW e \in Element, Come(e) PROVE Next
  BY <1>1, <1>4, NoMetaIsMeta DEF Come, HandleMessage, Next
<1>5. ASSUME NEW e \in Element, LeaveElement(e) PROVE Next
  BY <1>1, <1>5 DEF LeaveElement, HandleGone, Next
<1>6. ASSUME NEW c \in SessionSocket, NEW e \in Element, NEW inner \in {"offer", "ice"},
             Say(e, c, inner)
      PROVE  Next
  <2>1. items = <<>> /\ PeerMessage(e, c, inner) /\ inner \in Inner
    BY <1>6 DEF Say, Inner
  <2>. QED
    BY <2>1, <1>1 DEF HandleMessage, Next
<1>7. ASSUME Dispatch PROVE Next
  BY <1>7 DEF Dispatch, Next
<1>8. ASSUME NEW s \in Socket, Connect(s) \/ Open(s) \/ Deliver(s) \/ Lose(s)
      PROVE  UNCHANGED vars
  BY <1>8 DEF Connect, Open, Deliver, Lose
<1>9. ASSUME NEW c \in SessionSocket, Operate(c) \/ Click(c) \/ Refuse(c)
      PROVE  UNCHANGED vars
  BY <1>9 DEF Operate, Click, Refuse
<1>10. ASSUME Restart \/ (\E p : Enter(p)) \/ UNCHANGED allVars PROVE UNCHANGED vars
  BY <1>10 DEF Restart, Enter, allVars
<1>11. ASSUME NEW c \in SessionSocket, NEW e \in Element, EndOf(e, c) PROVE Next
  BY <1>1, <1>11 DEF EndOf, HandleMessage, Next
<1>. QED
  BY <1>2, <1>3, <1>4, <1>5, <1>6, <1>7, <1>8, <1>9, <1>10, <1>11, PageSteps

\* A crash leaves a handler that knows nobody.
LEMMA CrashEmpties ==
    ASSUME Crash
    PROVE  HandlerInv'
<1>1. items' = <<>> /\ producers' = << >> /\ consumers' = << >> /\ listeners' = {} /\ meta' = << >>
  BY DEF Crash
<1>2. DOMAIN << >> = {}
  OBVIOUS
<1>. QED
  BY <1>1, <1>2, FS_EmptySet
  DEF HandlerInv, TypeOK, PeersTypeOK, SessionsAgree, MetaMatchesRoles

\* The handler's invariant, with the crashes.
LEMMA PageStepKeepsHandler ==
    ASSUME HandlerInv, PageTypes, [PageNext]_allVars
    PROVE  HandlerInv'
<1>1. CASE Crash
  BY <1>1, CrashEmpties
<1>2. CASE ~Crash
  <2>1. [Next]_vars
    BY <1>2, PageStepIsHandlerStep
  <2>. QED
    BY <2>1, NextKeepsType, NextKeepsSessions, NextKeepsMeta DEF HandlerInv
<1>. QED
  BY <1>1, <1>2

-----------------------------------------------------------------------------
(* Types.                                                                  *)

LEMMA RemoveAtType ==
    ASSUME NEW S, NEW q \in Seq(S), NEW i \in DOMAIN q
    PROVE  /\ RemoveAt(q, i) \in Seq(S)
           /\ Len(RemoveAt(q, i)) = Len(q) - 1
           /\ \A k \in 1..(Len(q) - 1) :
                 RemoveAt(q, i)[k] = IF k < i THEN q[k] ELSE q[k + 1]
<1>1. i \in 1..Len(q) /\ Len(q) \in Nat
  OBVIOUS
<1> DEFINE front == SubSeq(q, 1, i - 1)
           back == SubSeq(q, i + 1, Len(q))
<1>2. front \in Seq(S) /\ Len(front) = i - 1
  BY <1>1
<1>3. back \in Seq(S) /\ Len(back) = Len(q) - i
  BY <1>1
<1>5. \A k \in 1..(i - 1) : front[k] = q[k]
  BY <1>1
<1>6. \A k \in 1..(Len(q) - i) : back[k] = q[k + i]
  BY <1>1
<1>8. RemoveAt(q, i) = front \o back
  BY DEF RemoveAt
<1> HIDE DEF front, back
<1>4. /\ front \o back \in Seq(S)
      /\ Len(front \o back) = Len(q) - 1
      /\ \A k \in 1..(Len(q) - 1) :
            (front \o back)[k] = IF k <= Len(front) THEN front[k] ELSE back[k - Len(front)]
  <2>1. /\ front \in Seq(S) /\ back \in Seq(S)
        /\ Len(front) + Len(back) = Len(q) - 1
    BY <1>1, <1>2, <1>3
  <2>2. front \o back \in Seq(S) /\ Len(front \o back) = Len(front) + Len(back)
    BY <2>1
  <2>3. \A k \in 1..(Len(front) + Len(back)) :
            (front \o back)[k] = IF k <= Len(front) THEN front[k] ELSE back[k - Len(front)]
    BY <2>1
  <2>. QED
    BY <2>1, <2>2, <2>3
<1>7. ASSUME NEW k \in 1..(Len(q) - 1)
      PROVE  (front \o back)[k] = IF k < i THEN q[k] ELSE q[k + 1]
  <2>1. CASE k < i
    <3>1. k \in 1..(i - 1) /\ k <= Len(front)
      BY <2>1, <1>1, <1>2
    <3>2. (front \o back)[k] = front[k]
      BY <3>1, <1>4
    <3>. QED
      BY <2>1, <3>1, <3>2, <1>5
  <2>2. CASE ~(k < i)
    <3> DEFINE m == k - (i - 1)
    <3>1. /\ m \in 1..(Len(q) - i) /\ m + i = k + 1
          /\ k - Len(front) = m /\ ~(k <= Len(front))
      BY <2>2, <1>1, <1>2
    <3>2. back[m] = q[m + i]
      BY <3>1, <1>6
    <3>3. (front \o back)[k] = back[m]
      BY <3>1, <1>4
    <3>4. (front \o back)[k] = q[k + 1]
      BY <3>1, <3>2, <3>3
    <3>. QED
      BY <2>2, <3>4
  <2>. QED
    BY <2>1, <2>2
<1>. QED
  BY <1>4, <1>7, <1>8

LEMMA SocketsAreDisjoint ==
    /\ \A s \in ListenerSocket : s \in Socket /\ s \notin SessionSocket
    /\ \A s \in SessionSocket : s \in Socket /\ s \notin ListenerSocket
    /\ \A s \in Socket : s \in ListenerSocket \/ s \in SessionSocket
    /\ \A e \in Element : e \notin Socket
    /\ Socket \subseteq PeerId /\ Element \subseteq PeerId
BY PeersAreDisjoint DEF Socket

AskedTypes == asked = [s \in Socket |-> asked[s]] /\ \A s \in Socket : asked[s] \in Seq(Requests(s))

LEMMA ListenerSendsType ==
    ASSUME PageTypes, NEW request \in {"register", "list"}, ListenerSends(request)
    PROVE  AskedTypes'
<1>1. page.ws \subseteq ListenerSocket
  BY DEF PageTypes
<1>2. \A s \in page.ws : request \in Requests(s)
  BY <1>1, SocketsAreDisjoint DEF Requests
<1>3. /\ asked' = [s \in Socket |-> asked'[s]]
      /\ \A s \in Socket : asked'[s] = IF s \in page.ws /\ socket[s] # "broken"
                                          THEN Append(asked[s], request) ELSE asked[s]
  BY DEF ListenerSends
<1>4. \A s \in Socket : asked[s] \in Seq(Requests(s))
  BY DEF PageTypes
<1>. QED
  BY <1>2, <1>3, <1>4, AppendProperties DEF AskedTypes

LEMMA SessionSendsType ==
    ASSUME PageTypes, NEW c \in SessionSocket, NEW request \in {"startSession", "answer"},
           SessionSends(c, request)
    PROVE  AskedTypes'
<1>1. request \in Requests(c) /\ c \in Socket /\ asked[c] \in Seq(Requests(c))
  BY SocketsAreDisjoint DEF Requests, PageTypes
<1>2. Append(asked[c], request) \in Seq(Requests(c))
  BY <1>1, AppendProperties
<1>3. /\ asked' = [s \in Socket |-> asked'[s]]
      /\ \A s \in Socket : \/ asked'[s] = asked[s]
                           \/ s = c /\ asked'[s] = Append(asked[c], request)
  <2>1. asked = [s \in Socket |-> asked[s]]
    BY DEF PageTypes
  <2>2. CASE socket[c] = "open"
    BY <2>1, <2>2, <1>1 DEF SessionSends
  <2>3. CASE socket[c] # "open"
    BY <2>1, <2>3 DEF SessionSends
  <2>. QED
    BY <2>2, <2>3
<1>. QED
  BY <1>2, <1>3 DEF AskedTypes, PageTypes

\* The page closes a session: its types stay.
LEMMA ResetTypes ==
    ASSUME PageTypes, NEW c \in SessionSocket, Reset(c)
    PROVE  /\ socket' \in [Socket -> SocketState]
           /\ called' \subseteq SessionSocket
           /\ chain' \in [SessionSocket -> Seq(Operation)]
BY SocketsAreDisjoint DEF Reset, PageTypes, SocketAfter, SocketState

LEMMA EntriesAfterType ==
    ASSUME NEW entries \in [Element -> Nat], NEW msg \in Message
    PROVE  EntriesAfter(entries, msg) \in [Element -> Nat]
<1>1. msg.type = "list" => EntriesOfList(msg) \in [Element -> Nat]
  BY DEF EntriesOfList
<1>2. ASSUME NEW e PROVE EntriesAdded(entries, e) \in [Element -> Nat]
  <2>1. CASE e \in Element
    BY <2>1 DEF EntriesAdded
  <2>2. CASE e \notin Element
    BY <2>2 DEF EntriesAdded
  <2>. QED
    BY <2>1, <2>2
<1>3. ASSUME NEW e PROVE EntriesRemoved(entries, e) \in [Element -> Nat]
  <2>1. CASE e \in Element
    <3>1. entries[e] \in Nat
      BY <2>1
    <3>. QED
      BY <2>1, <3>1 DEF EntriesRemoved
  <2>2. CASE e \notin Element
    BY <2>2 DEF EntriesRemoved
  <2>. QED
    BY <2>1, <2>2
<1>. QED
  BY <1>1, <1>2, <1>3 DEF EntriesAfter

LEMMA SessionReadsTypes ==
    ASSUME PageTypes, NEW c \in SessionSocket, NEW msg \in Message, SessionReads(c, msg)
    PROVE  /\ AskedTypes' /\ UNCHANGED <<page, target, answered>>
           /\ socket' \in [Socket -> SocketState]
           /\ called' \subseteq SessionSocket
           /\ described' \subseteq SessionSocket
           /\ chain' \in [SessionSocket -> Seq(Operation)]
<1>1. CASE msg.type = "registered"
  BY <1>1, SessionSendsType DEF SessionReads, PageTypes, EndsOn
<1>2. CASE EndsOn(msg) /\ msg.type # "registered"
  <2>1. Reset(c)
    BY <1>2 DEF SessionReads, EndsOn
  <2>. QED
    BY <2>1, ResetTypes DEF Reset, PageTypes, AskedTypes
<1>3. CASE msg.type = "peer"
  <2>1. ReadsPeer(c, msg.inner)
    BY <1>3 DEF SessionReads, EndsOn
  <2> DEFINE before == IF NeedsCall(c) THEN <<>> ELSE chain[c]
             op == IF msg.inner = "offer" THEN "setRemote" ELSE "addCandidate"
  <2>2. before \in Seq(Operation) /\ op \in Operation
    BY DEF PageTypes, Operation
  <2>3. chain' = [chain EXCEPT ![c] = Append(before, op)]
    BY <2>1 DEF ReadsPeer
  <2>4. Append(before, op) \in Seq(Operation)
    BY <2>2, AppendProperties
  <2>5. chain' \in [SessionSocket -> Seq(Operation)]
    BY <2>3, <2>4 DEF PageTypes
  <2>. QED
    BY <2>1, <2>5 DEF ReadsPeer, PageTypes, AskedTypes
<1>4. CASE msg.type # "registered" /\ ~EndsOn(msg) /\ msg.type # "peer"
  BY <1>4 DEF SessionReads, PageTypes, AskedTypes, pageVars
<1>. QED
  BY <1>1, <1>2, <1>3, <1>4

LEMMA ListenerReadsTypes ==
    ASSUME PageTypes, NEW msg \in Message, ListenerReads(msg)
    PROVE  /\ AskedTypes'
           /\ page' \in [ws : SUBSET ListenerSocket, attached : SUBSET ListenerSocket,
                         timers : Nat, entries : [Element -> Nat]]
           /\ UNCHANGED <<socket, target, called, chain, described, answered>>
<1>1. AskedTypes'
  BY ListenerSendsType DEF ListenerReads, PageTypes, AskedTypes
<1>2. EntriesAfter(page.entries, msg) \in [Element -> Nat]
  BY EntriesAfterType DEF PageTypes
<1>3. page' = [page EXCEPT !.entries = EntriesAfter(@, msg)]
  BY DEF ListenerReads
<1>. QED
  BY <1>1, <1>2, <1>3 DEF PageTypes, ListenerReads

\* What the listener's handlers make of the page's own record.
PageRecord == [ws : SUBSET ListenerSocket, attached : SUBSET ListenerSocket,
               timers : Nat, entries : [Element -> Nat]]

LEMMA ListenerEndsType ==
    ASSUME page \in PageRecord, NEW s, NEW failed \in BOOLEAN, ListenerEnds(s, failed)
    PROVE  page' \in PageRecord
<1>1. ASSUME NEW p \in PageRecord PROVE Retry(p) \in PageRecord
  <2>1. NoEntries \in [Element -> Nat]
    BY DEF NoEntries
  <2>. QED
    BY <2>1 DEF Retry, PageRecord
<1> DEFINE afterError == IF failed /\ s \in page.attached THEN OnServerError(page) ELSE page
<1>2. afterError \in PageRecord
  BY <1>1 DEF OnServerError
<1>3. page' = IF s \in afterError.attached THEN OnServerClose(afterError) ELSE afterError
  BY DEF ListenerEnds
<1>. QED
  BY <1>1, <1>2, <1>3 DEF OnServerClose

LEMMA LoseKeepsTypes ==
    ASSUME PageTypes, NEW s \in Socket, Lose(s)
    PROVE  PageTypes'
<1>1. /\ troubled' = troubled \cup {s}
      /\ asked' = [asked EXCEPT ![s] = <<>>]
      /\ flying' = [flying EXCEPT ![s] = <<>>]
      /\ socket' = [socket EXCEPT ![s] = SocketAfter(s)]
      /\ UNCHANGED <<target, described, answered, up, comings, says, entered, unserved>>
  BY DEF Lose
<1>2. SocketAfter(s) \in SocketState
  BY DEF SocketAfter, SocketState
<1>3. /\ called' \subseteq SessionSocket
      /\ chain' \in [SessionSocket -> Seq(Operation)]
      /\ page' \in PageRecord
  <2>1. CASE s \in SessionSocket
    <3>1. called' = called \ {s} /\ chain' = [chain EXCEPT ![s] = <<>>] /\ page' = page
      BY <2>1 DEF Lose
    <3>2. called' \subseteq SessionSocket /\ page' \in PageRecord
      BY <3>1 DEF PageTypes, PageRecord
    <3>3. chain' \in [SessionSocket -> Seq(Operation)]
      <4>1. <<>> \in Seq(Operation) /\ chain \in [SessionSocket -> Seq(Operation)]
        BY DEF PageTypes
      <4>. QED
        BY <3>1, <4>1
    <3>. QED
      BY <3>2, <3>3
  <2>2. CASE s \notin SessionSocket
    <3>1. (\E failed \in BOOLEAN : ListenerEnds(s, failed)) /\ UNCHANGED <<called, chain>>
      BY <2>2 DEF Lose
    <3>. QED
      BY <3>1, ListenerEndsType DEF PageTypes, PageRecord
  <2>. QED
    BY <2>1, <2>2
<1>4. AskedTypes'
  BY <1>1 DEF PageTypes, AskedTypes
<1>. QED
  BY <1>1, <1>2, <1>3, <1>4 DEF PageTypes, AskedTypes, PageRecord

LEMMA DeliverKeepsTypes ==
    ASSUME PageTypes, NEW s \in Socket, Deliver(s)
    PROVE  PageTypes'
<1>1. PICK i \in DOMAIN flying[s] :
          /\ flying' = [flying EXCEPT ![s] = RemoveAt(@, i)]
          /\ troubled' = IF i > 1 THEN troubled \cup {s} ELSE troubled
          /\ \/ s \in SessionSocket /\ SessionReads(s, flying[s][i])
             \/ s \in page.attached /\ ListenerReads(flying[s][i])
  BY DEF Deliver
<1>2. flying[s] \in Seq(Message)
  BY DEF PageTypes
<1>3. flying[s][i] \in Message /\ RemoveAt(flying[s], i) \in Seq(Message)
  BY <1>2, RemoveAtType
<1>4. flying' \in [Socket -> Seq(Message)] /\ troubled' \subseteq Socket
  BY <1>1, <1>3 DEF PageTypes
<1>5. UNCHANGED <<up, comings, says, entered, unserved>> /\ troubled \subseteq troubled'
  BY <1>1 DEF Deliver
<1>6. CASE s \in SessionSocket /\ SessionReads(s, flying[s][i])
  BY <1>3, <1>4, <1>5, <1>6, SessionReadsTypes DEF PageTypes, AskedTypes
<1>7. CASE s \in page.attached /\ ListenerReads(flying[s][i])
  BY <1>3, <1>4, <1>5, <1>7, ListenerReadsTypes DEF PageTypes, AskedTypes
<1>. QED
  BY <1>1, <1>6, <1>7

LEMMA ChainAfterType ==
    ASSUME PageTypes, NEW c \in SessionSocket, chain[c] # <<>>,
           NEW more \in Seq(Operation), ChainAfter(c, more)
    PROVE  chain' \in [SessionSocket -> Seq(Operation)]
<1>1. chain[c] \in Seq(Operation)
  BY DEF PageTypes
<1>2. Tail(chain[c]) \o more \in Seq(Operation)
  BY <1>1, HeadTailProperties, ConcatProperties
<1>. QED
  BY <1>2 DEF ChainAfter, PageTypes

LEMMA OperateKeepsTypes ==
    ASSUME PageTypes, NEW c \in SessionSocket, Operate(c) \/ Refuse(c)
    PROVE  PageTypes'
<1>1. chain[c] # <<>> /\ UNCHANGED <<vars, up, flying, comings, says, entered, unserved>>
  BY DEF Operate, Refuse
<1>2. <<>> \in Seq(Operation) /\ <<"createAnswer">> \in Seq(Operation)
      /\ <<"setLocal">> \in Seq(Operation)
  BY DEF Operation
<1>3. unserved \subseteq troubled' /\ troubled' \subseteq Socket
  BY SocketsAreDisjoint DEF Operate, Refuse, PageTypes
<1>4. CASE Reset(c)
  BY <1>1, <1>3, <1>4, ResetTypes DEF Reset, PageTypes
<1>5. CASE Succeeds(c) /\ UNCHANGED <<socket, page, target, called>>
  <2>1. chain' \in [SessionSocket -> Seq(Operation)]
    BY <1>1, <1>2, <1>5, ChainAfterType DEF Succeeds
  <2>2. AskedTypes'
    BY <1>5, SessionSendsType DEF Succeeds, AskedTypes, PageTypes
  <2>3. described' \subseteq SessionSocket /\ answered' \subseteq SessionSocket
    BY <1>5 DEF Succeeds, PageTypes
  <2>. QED
    BY <1>1, <1>3, <1>5, <2>1, <2>2, <2>3 DEF PageTypes, AskedTypes
<1>6. CASE ChainAfter(c, <<>>) /\ UNCHANGED <<asked, socket, page, target, called, described, answered>>
  BY <1>1, <1>2, <1>3, <1>6, ChainAfterType DEF PageTypes
<1>. QED
  BY <1>4, <1>5, <1>6 DEF Operate, Refuse

\* A socket that the server does not know goes without.
LEMMA SocketGoesWithout ==
    ASSUME NEW s \in Socket, NEW msg, NEW words
    PROVE  GoesWithout(s, msg, words) = {s} \ entered
BY SocketsAreDisjoint DEF GoesWithout

LEMMA DispatchKeepsTypes ==
    ASSUME TypeOK, PageTypes, Dispatch
    PROVE  PageTypes'
<1>1. items \in Seq(Item) /\ items # <<>>
  BY DEF Dispatch, PopItem, TypeOK
<1>2. Head(items)[2] \in Message
  BY <1>1, HeadTailProperties DEF Item
<1>3. \/ flying' = flying
      \/ \E to \in Socket : flying' = [flying EXCEPT ![to] = Append(@, Head(items)[2])]
  BY DEF Dispatch
<1>4. flying' \in [Socket -> Seq(Message)]
  <2>1. CASE flying' = flying
    BY <2>1 DEF PageTypes
  <2>2. ASSUME NEW to \in Socket, flying' = [flying EXCEPT ![to] = Append(@, Head(items)[2])]
        PROVE  flying' \in [Socket -> Seq(Message)]
    <3>1. flying[to] \in Seq(Message)
      BY DEF PageTypes
    <3>2. Append(flying[to], Head(items)[2]) \in Seq(Message)
      BY <1>2, <3>1, AppendProperties
    <3>. QED
      BY <2>2, <3>2 DEF PageTypes
  <2>. QED
    BY <1>3, <2>1, <2>2
<1>5. PICK words \in SUBSET {"offer", "ice"} :
          /\ troubled' = troubled \cup GoesWithout(Head(items)[1], Head(items)[2], words)
          /\ unserved' = unserved \cup GoesWithout(Head(items)[1], Head(items)[2], words)
  BY DEF Dispatch
<1>6. GoesWithout(Head(items)[1], Head(items)[2], words) \subseteq Socket
  BY SocketsAreDisjoint DEF GoesWithout
<1>7. unserved' \subseteq troubled' /\ troubled' \subseteq Socket
  BY <1>5, <1>6 DEF PageTypes
<1>. QED
  BY <1>4, <1>7 DEF Dispatch, PageTypes, pageVars

LEMMA OpenKeepsTypes ==
    ASSUME PageTypes, NEW s \in Socket, Open(s)
    PROVE  PageTypes'
<1>1. AskedTypes'
  <2>1. CASE s \in SessionSocket
    <3>1. asked' = [asked EXCEPT ![s] = <<"register">>]
      BY <2>1 DEF Open
    <3>2. <<"register">> \in Seq(Requests(s))
      BY <2>1 DEF Requests
    <3>. QED
      BY <3>1, <3>2 DEF PageTypes, AskedTypes
  <2>2. CASE s \notin SessionSocket
    BY <2>2, ListenerSendsType DEF Open
  <2>. QED
    BY <2>1, <2>2
<1>2. socket' = [socket EXCEPT ![s] = "open"]
  BY DEF Open
<1>3. socket' \in [Socket -> SocketState]
  BY <1>2 DEF PageTypes, SocketState
<1>. QED
  BY <1>1, <1>3 DEF Open, PageTypes, AskedTypes, pageVars

LEMMA HandledKeepsTypes ==
    ASSUME PageTypes, NEW s \in Socket, HandleAsked(s) \/ HandleEnd(s)
    PROVE  PageTypes'
<1>1. CASE HandleAsked(s)
  <2>1. asked[s] \in Seq(Requests(s)) /\ asked[s] # <<>> /\ asked' = [asked EXCEPT ![s] = Tail(@)]
    BY <1>1 DEF HandleAsked, PageTypes
  <2>2. AskedTypes'
    BY <2>1, HeadTailProperties DEF PageTypes, AskedTypes
  <2>. QED
    BY <1>1, <2>2 DEF HandleAsked, PageTypes, AskedTypes, pageVars
<1>2. CASE HandleEnd(s)
  BY <1>2 DEF HandleEnd, PageTypes, SocketState, pageVars
<1>. QED
  BY <1>1, <1>2

LEMMA CrashKeepsTypes == ASSUME PageTypes, Crash PROVE PageTypes'
<1>1. /\ socket' = [s \in Socket |-> CASE socket[s] = "open" -> "broken"
                                       [] socket[s] = "closed" -> "gone"
                                       [] OTHER -> socket[s]]
      /\ asked' = [s \in Socket |-> <<>>]
      /\ comings' = [comings EXCEPT !.left = comings.came]
      /\ up' = FALSE /\ UNCHANGED <<pageVars, flying, entered, troubled, unserved>>
  BY DEF Crash
<1>2. socket' \in [Socket -> SocketState]
  BY <1>1 DEF PageTypes, SocketState
<1>3. AskedTypes'
  BY <1>1 DEF AskedTypes
<1>4. comings' \in [came : SUBSET Element, left : SUBSET Element]
  BY <1>1 DEF PageTypes
<1>. QED
  BY <1>1, <1>2, <1>3, <1>4 DEF PageTypes, AskedTypes, pageVars

LEMMA ConnectKeepsTypes ==
    ASSUME PageTypes, NEW s \in Socket, Connect(s) \/ Click(s)
    PROVE  PageTypes'
<1>1. CASE Connect(s)
  <2>1. /\ page.timers > 0 /\ s \in ListenerSocket
        /\ page' = [page EXCEPT !.ws = {s}, !.attached = @ \cup {s}, !.timers = @ - 1]
        /\ socket' = [socket EXCEPT ![s] = "connecting"]
    BY <1>1 DEF Connect
  <2>2. page' \in PageRecord
    <3>1. page \in PageRecord /\ page.timers - 1 \in Nat
          /\ {s} \in SUBSET ListenerSocket
          /\ page.attached \cup {s} \in SUBSET ListenerSocket
      BY <2>1 DEF PageTypes, PageRecord
    <3>. QED
      BY <2>1, <3>1 DEF PageRecord
  <2>3. socket' \in [Socket -> SocketState]
    BY <2>1 DEF PageTypes, SocketState
  <2>. QED
    BY <1>1, <2>2, <2>3 DEF Connect, PageTypes, PageRecord
<1>2. CASE Click(s)
  <2>1. socket' = [socket EXCEPT ![s] = "connecting"]
        /\ \E e \in Element : target' = [target EXCEPT ![s] = Some(e)]
    BY <1>2 DEF Click
  <2>2. socket' \in [Socket -> SocketState]
    BY <2>1 DEF PageTypes, SocketState
  <2>3. target' \in [SessionSocket -> {NoSession} \cup {Some(e) : e \in Element}]
    BY <2>1 DEF PageTypes
  <2>. QED
    BY <1>2, <2>2, <2>3 DEF Click, PageTypes
<1>. QED
  BY <1>1, <1>2

LEMMA ComeKeepsTypes ==
    ASSUME PageTypes, NEW e \in Element, Come(e) \/ LeaveElement(e)
    PROVE  PageTypes'
<1>1. comings' \in [came : SUBSET Element, left : SUBSET Element]
  <2>1. /\ comings \in [came : SUBSET Element, left : SUBSET Element]
        /\ \/ comings' = [comings EXCEPT !.came = @ \cup {e}]
           \/ comings' = [comings EXCEPT !.left = @ \cup {e}]
    BY DEF Come, LeaveElement, PageTypes
  <2>. QED
    BY <2>1
<1>. QED
  BY <1>1 DEF Come, LeaveElement, PageTypes, pageVars

LEMMA PageStepKeepsTypes ==
    ASSUME TypeOK, PageTypes, [PageNext]_allVars
    PROVE  PageTypes'
<1>1. CASE Restart \/ UNCHANGED allVars
  BY <1>1 DEF Restart, allVars, pageVars, netVars, PageTypes
<1>2. ASSUME NEW c \in SessionSocket, NEW e \in Element, NEW inner \in {"offer", "ice"},
             Say(e, c, inner)
      PROVE  PageTypes'
  BY <1>2, SocketsAreDisjoint DEF Say, PageTypes, pageVars
<1>3. \A c \in SessionSocket : c \in Socket
  BY SocketsAreDisjoint
<1>4. ASSUME NEW c \in SessionSocket, NEW e \in Element, EndOf(e, c) PROVE PageTypes'
  BY <1>4, <1>3 DEF EndOf, PageTypes, pageVars
<1>5. ASSUME NEW p \in Socket \cup Element, Enter(p) PROVE PageTypes'
  BY <1>5 DEF Enter, PageTypes, pageVars
<1>. QED
  BY <1>1, <1>2, <1>3, <1>4, <1>5, PageSteps, LoseKeepsTypes, DeliverKeepsTypes, OperateKeepsTypes,
     DispatchKeepsTypes, OpenKeepsTypes, HandledKeepsTypes, CrashKeepsTypes,
     ConnectKeepsTypes, ComeKeepsTypes

-----------------------------------------------------------------------------
(* The page's listener.                                                    *)

\* One connection that has its handlers on, or one timer: inductive.
OneListener ==
    \/ /\ page.timers = 1 /\ page.ws = {} /\ page.attached = {}
       /\ \A s \in ListenerSocket : ~Live(s)
    \/ /\ page.timers = 0
       /\ \E s \in ListenerSocket :
             /\ page.ws = {s} /\ page.attached = {s} /\ Live(s)
             /\ \A t \in ListenerSocket : Live(t) => t = s

\* A step that leaves the connections and the timers alone keeps it.
LEMMA SameListener ==
    ASSUME OneListener, page'.ws = page.ws, page'.attached = page.attached,
           page'.timers = page.timers, \A s \in ListenerSocket : Live(s)' <=> Live(s)
    PROVE  OneListener'
BY DEF OneListener

LEMMA ConnectKeepsOne ==
    ASSUME PageTypes, OneListener, NEW s \in Socket, Connect(s)
    PROVE  OneListener'
<1>1. /\ page.timers > 0 /\ s \in ListenerSocket
      /\ page' = [page EXCEPT !.ws = {s}, !.attached = @ \cup {s}, !.timers = @ - 1]
      /\ socket' = [socket EXCEPT ![s] = "connecting"]
  BY DEF Connect
<1>2. page.timers = 1 /\ page.attached = {} /\ \A t \in ListenerSocket : ~Live(t)
  BY <1>1 DEF OneListener
<1>3. page'.timers = 0 /\ page'.ws = {s} /\ page'.attached = {s}
  BY <1>1, <1>2 DEF PageTypes
<1>4. /\ Live(s)'
      /\ \A t \in ListenerSocket : t # s => (Live(t)' <=> Live(t))
  BY <1>1 DEF Live, PageTypes
<1>. QED
  BY <1>1, <1>2, <1>3, <1>4 DEF OneListener

LEMMA LoseKeepsOne ==
    ASSUME PageTypes, OneListener, NEW s \in Socket, Lose(s)
    PROVE  OneListener'
<1>1. socket' = [socket EXCEPT ![s] = SocketAfter(s)] /\ Live(s)
  BY DEF Lose, Live
<1>2. /\ ~Live(s)'
      /\ \A t \in Socket : t # s => (Live(t)' <=> Live(t))
  BY <1>1 DEF Live, SocketAfter, PageTypes
<1>3. CASE s \in SessionSocket
  <2>1. \A t \in ListenerSocket : Live(t)' <=> Live(t)
    BY <1>2, <1>3, SocketsAreDisjoint
  <2>. QED
    BY <1>3, <2>1, SameListener DEF Lose
<1>4. CASE s \in ListenerSocket
  <2>1. /\ page.timers = 0 /\ page.ws = {s} /\ page.attached = {s}
        /\ \A t \in ListenerSocket : Live(t) => t = s
    BY <1>1, <1>4 DEF OneListener
  <2>2. \A t \in ListenerSocket : ~Live(t)'
    BY <1>2, <2>1, SocketsAreDisjoint
  <2>3. PICK failed \in BOOLEAN : ListenerEnds(s, failed)
    BY <1>4, SocketsAreDisjoint DEF Lose
  <2>4. page' = Retry(page)
    BY <2>1, <2>3 DEF ListenerEnds, OnServerError, OnServerClose, Retry
  <2>. QED
    BY <2>1, <2>2, <2>4 DEF Retry, OneListener
<1>. QED
  BY <1>3, <1>4, SocketsAreDisjoint

\* The steps of the others do not touch the listener's socket.
LEMMA SessionStepIsApart ==
    ASSUME PageTypes, NEW c \in SessionSocket,
           \/ Click(c) \/ Reset(c) \/ UNCHANGED socket
           \/ socket' = [socket EXCEPT ![c] = "open"]
    PROVE  \A s \in ListenerSocket : socket'[s] = socket[s]
BY SocketsAreDisjoint DEF Click, Reset, PageTypes

LEMMA DeliverKeepsOne ==
    ASSUME PageTypes, OneListener, NEW s \in Socket, Deliver(s)
    PROVE  OneListener'
<1>1. PICK i \in DOMAIN flying[s] :
             \/ s \in SessionSocket /\ SessionReads(s, flying[s][i])
             \/ s \in page.attached /\ ListenerReads(flying[s][i])
  BY DEF Deliver
<1>2. flying[s][i] \in Message
  BY DEF PageTypes
<1>3. CASE s \in SessionSocket /\ SessionReads(s, flying[s][i])
  <2>1. Reset(s) \/ UNCHANGED socket
    BY <1>3 DEF SessionReads, ReadsPeer, EndsOn
  <2>2. \A t \in ListenerSocket : Live(t)' <=> Live(t)
    BY <1>3, <2>1, SessionStepIsApart DEF Live
  <2>. QED
    BY <1>2, <1>3, <2>2, SessionReadsTypes, SameListener
<1>4. CASE ListenerReads(flying[s][i])
  BY <1>4, SameListener DEF ListenerReads, Live, PageTypes
<1>. QED
  BY <1>1, <1>3, <1>4

LEMMA OpenKeepsOne ==
    ASSUME PageTypes, OneListener, NEW s \in Socket, Open(s) \/ HandleEnd(s)
    PROVE  OneListener'
<1>1. \A t \in ListenerSocket : Live(t)' <=> Live(t)
  BY SocketsAreDisjoint DEF Open, HandleEnd, Live, PageTypes
<1>. QED
  BY <1>1, SameListener DEF Open, HandleEnd, pageVars

LEMMA CrashKeepsOne == ASSUME PageTypes, OneListener, Crash PROVE OneListener'
<1>1. \A t \in Socket : socket'[t] = CASE socket[t] = "open" -> "broken"
                                       [] socket[t] = "closed" -> "gone"
                                       [] OTHER -> socket[t]
  BY DEF Crash
<1>2. \A t \in ListenerSocket : Live(t)' <=> Live(t)
  BY <1>1, SocketsAreDisjoint DEF Live
<1>. QED
  BY <1>2, SameListener DEF Crash, pageVars

LEMMA PageStepKeepsOne ==
    ASSUME PageTypes, OneListener, [PageNext]_allVars
    PROVE  OneListener'
<1>1. ASSUME UNCHANGED <<page, socket>> PROVE OneListener'
  BY <1>1, SameListener DEF Live
<1>2. CASE Dispatch \/ Restart \/ UNCHANGED allVars
  BY <1>1, <1>2 DEF Dispatch, Restart, allVars, pageVars, netVars
<1>3. ASSUME NEW c \in SessionSocket, Operate(c) \/ Click(c) \/ Refuse(c) PROVE OneListener'
  <2>1. page' = page /\ (Click(c) \/ Reset(c) \/ UNCHANGED socket)
    BY <1>3 DEF Operate, Click, Refuse, Reset
  <2>2. \A t \in ListenerSocket : Live(t)' <=> Live(t)
    BY <2>1, SessionStepIsApart DEF Live
  <2>. QED
    BY <2>1, <2>2, SameListener
<1>4. ASSUME NEW c \in SessionSocket, NEW e \in Element, NEW inner \in {"offer", "ice"},
             Say(e, c, inner)
      PROVE  OneListener'
  BY <1>1, <1>4 DEF Say, pageVars
<1>5. ASSUME NEW e \in Element, Come(e) \/ LeaveElement(e) PROVE OneListener'
  BY <1>1, <1>5 DEF Come, LeaveElement, pageVars
<1>6. ASSUME NEW s \in Socket, HandleAsked(s) PROVE OneListener'
  BY <1>1, <1>6 DEF HandleAsked, pageVars
<1>7. ASSUME NEW c \in SessionSocket, NEW e \in Element, EndOf(e, c) PROVE OneListener'
  BY <1>1, <1>7 DEF EndOf, pageVars
<1>8. ASSUME NEW p, Enter(p) PROVE OneListener'
  BY <1>1, <1>8 DEF Enter, pageVars
<1>. QED
  BY <1>2, <1>3, <1>4, <1>5, <1>6, <1>7, <1>8, PageSteps, ConnectKeepsOne, LoseKeepsOne, DeliverKeepsOne,
     OpenKeepsOne, CrashKeepsOne

LEMMA InitPage == PageInit => HandlerInv /\ PageTypes /\ OneListener
<1>. SUFFICES ASSUME PageInit PROVE HandlerInv /\ PageTypes /\ OneListener
  OBVIOUS
<1>1. HandlerInv
  BY FS_EmptySet DEF PageInit, Init, HandlerInv, TypeOK, PeersTypeOK, SessionsAgree,
     MetaMatchesRoles
<1>2. PageTypes
  BY DEF PageInit, PageTypes, SocketState, NoEntries
<1>3. OneListener
  BY SocketsAreDisjoint DEF PageInit, OneListener, Live
<1>. QED
  BY <1>1, <1>2, <1>3

\* What the page and the handler rely on, up to the sessions and the catalogue.
Sound == HandlerInv /\ PageTypes /\ OneListener

LEMMA SoundHolds == PageSpec => []Sound
<1>1. PageInit => Sound
  BY InitPage DEF Sound
<1>2. Sound /\ [PageNext]_allVars => Sound'
  BY PageStepKeepsHandler, PageStepKeepsTypes, PageStepKeepsOne DEF Sound, HandlerInv
<1>. QED
  BY <1>1, <1>2, PTL DEF PageSpec

LEMMA OneListenerListensOnce ==
    ASSUME PageTypes, OneListener
    PROVE  ListensOnce
<1> DEFINE live == {s \in ListenerSocket : Live(s)}
<1>1. CASE page.timers = 1 /\ \A s \in ListenerSocket : ~Live(s)
  <2>1. live = {}
    BY <1>1
  <2>. QED
    BY <1>1, <2>1, FS_EmptySet DEF ListensOnce
<1>2. ASSUME page.timers = 0, NEW s \in ListenerSocket, page.ws = {s}, page.attached = {s},
             Live(s), \A t \in ListenerSocket : Live(t) => t = s
      PROVE  ListensOnce
  <2>1. live = {s}
    BY <1>2
  <2>2. Cardinality(live) = 1
    BY <2>1, FS_Singleton
  <2>. QED
    BY <1>2, <2>2 DEF ListensOnce
<1>. QED
  BY <1>1, <1>2 DEF OneListener

(* The page's variables are always well formed, the handler's among them,  *)
(* and it has exactly one connection with its handlers on or exactly one   *)
(* timer that will make one: for any number of connections, sessions and   *)
(* producers, with servers that crash and messages that are lost or        *)
(* overtaken, whether a failure has an error event before its close event. *)
THEOREM PageInvHolds == PageSpec => []PageInv
<1>1. Sound => PageInv
  <2>. SUFFICES ASSUME Sound PROVE PageInv
    OBVIOUS
  <2>1. ListensOnce
    BY OneListenerListensOnce DEF Sound
  <2>2. TypeOK
    BY DEF Sound, HandlerInv
  <2>3. asked \in [Socket -> Seq({"register", "list", "startSession", "answer"})]
    <3>1. asked = [s \in Socket |-> asked[s]]
      BY DEF Sound, PageTypes
    <3>2. ASSUME NEW s \in Socket
          PROVE  asked[s] \in Seq({"register", "list", "startSession", "answer"})
      <4>1. asked[s] \in Seq(Requests(s))
        BY DEF Sound, PageTypes
      <4>2. Requests(s) \subseteq {"register", "list", "startSession", "answer"}
        BY DEF Requests
      <4>. QED
        BY <4>1, <4>2
    <3>. QED
      BY <3>1, <3>2
  <2>4. PageTypeOK
    BY <2>2, <2>3 DEF PageTypeOK, Sound, PageTypes
  <2>. QED
    BY <2>1, <2>4 DEF PageInv
<1>. QED
  BY <1>1, SoundHolds, PTL

-----------------------------------------------------------------------------
(* Who has which role, and what each step has the handler queue.           *)

\* The producers are the elements that came and did not leave; only sessions
\* consume, and only the listener's connections listen.
Roles ==
    /\ DOMAIN producers = comings.came \ comings.left
    /\ comings.left \subseteq comings.came
    /\ DOMAIN consumers \subseteq SessionSocket
    /\ listeners \subseteq ListenerSocket

\* An item of the queue is counted.
LEMMA QueuedCounts ==
    ASSUME TypeOK', NEW i \in DOMAIN items'
    PROVE  /\ items'[i] = <<items'[i][1], items'[i][2]>>
           /\ Times(items', <<items'[i][1], items'[i][2]>>) # 0
<1>1. items' \in Seq(Item)
  BY DEF TypeOK
<1>2. items'[i] \in Item
  BY <1>1
<1>3. items'[i] = <<items'[i][1], items'[i][2]>>
  BY <1>2 DEF Item
<1>. QED
  BY <1>1, <1>3, TimesZero

\* What the handler does with a producer that comes.
LEMMA ComeDoes ==
    ASSUME Sound, Sound', Roles, NEW e \in Element, Come(e)
    PROVE  /\ ~IsProducer(e) /\ e \notin comings.came
           /\ producers' = Put(producers, e, {}) /\ UNCHANGED <<consumers, listeners>>
           /\ comings' = [comings EXCEPT !.came = @ \cup {e}]
           /\ \A x, msg : Times(items', <<x, msg>>) =
                  (IF x \in listeners /\ msg = ProducerAdded(e, NoMeta) THEN 1 ELSE 0)
                + (IF x = e /\ msg = Registered("producer", e, NoMeta) THEN 1 ELSE 0)
           /\ \A i \in DOMAIN items' :
                 \/ items'[i][1] \in listeners /\ items'[i][2] = ProducerAdded(e, NoMeta)
                 \/ items'[i][1] = e /\ items'[i][2] = Registered("producer", e, NoMeta)
<1>1. /\ items = <<>> /\ e \notin comings.came /\ RegisterProducer(e, NoMeta)
      /\ comings' = [comings EXCEPT !.came = @ \cup {e}]
  BY DEF Come
<1>2. ~IsProducer(e)
  BY <1>1 DEF Roles, IsProducer
<1>3. producers' = Put(producers, e, {}) /\ UNCHANGED <<consumers, listeners>>
  BY <1>1, <1>2 DEF RegisterProducer
<1>4. TypeOK /\ TypeOK' /\ e \in PeerId
  BY SocketsAreDisjoint DEF Sound, HandlerInv
<1>5. \A x, msg : Times(items', <<x, msg>>) =
          (IF x \in listeners /\ msg = ProducerAdded(e, NoMeta) THEN 1 ELSE 0)
        + (IF x = e /\ msg = Registered("producer", e, NoMeta) THEN 1 ELSE 0)
  BY <1>1, <1>2, <1>4, NoMetaIsMeta, RegisterProducerCounts
<1>6. ASSUME NEW i \in DOMAIN items'
      PROVE  \/ items'[i][1] \in listeners /\ items'[i][2] = ProducerAdded(e, NoMeta)
             \/ items'[i][1] = e /\ items'[i][2] = Registered("producer", e, NoMeta)
  <2>1. Times(items', <<items'[i][1], items'[i][2]>>) # 0
    BY <1>4, QueuedCounts
  <2>. QED
    BY <2>1, <1>5
<1>. QED
  BY <1>1, <1>2, <1>3, <1>5, <1>6

\* What it does with a peer that goes, be it an element or a socket.
LEMMA RemoveDoes ==
    ASSUME Sound, Sound', Roles, items = <<>>, NEW peer \in PeerId, RemovePeer(peer)
    PROVE  /\ DOMAIN producers' = DOMAIN producers \ {peer}
           /\ DOMAIN consumers' \subseteq DOMAIN consumers
           /\ listeners' = listeners \ {peer}
           /\ \A x, msg : x \in ListenerSocket => Times(items', <<x, msg>>) =
                  IF /\ IsProducer(peer) /\ x \in listeners \ {peer}
                     /\ msg = ProducerRemoved(peer, MetaOf(peer)) THEN 1 ELSE 0
           /\ \A i \in DOMAIN items' :
                 \/ items'[i][2] = ProducerRemoved(peer, MetaOf(peer))
                       /\ items'[i][1] \in listeners /\ IsProducer(peer)
                 \/ items'[i][2] = EndSessionMsg(peer)
                       /\ \/ InSession(peer, items'[i][1])
                          \/ items'[i][1] \in DOMAIN producers
<1> DEFINE partner == SessionOf(ConsumersFreed(peer), peer)
<1>1. TypeOK /\ TypeOK' /\ SessionsAgree
  BY DEF Sound, HandlerInv
<1>2. \A x \in SessionsEnded(peer) : InSession(peer, x) /\ x \in DOMAIN consumers
  BY <1>1 DEF SessionsEnded, InSession, SessionsAgree, IsProducer, IsConsumer
<1>3. DOMAIN ConsumersFreed(peer) = DOMAIN consumers
  BY <1>2 DEF ConsumersFreed
<1>4. \A x \in partner : x \in DOMAIN producers
  <2>1. \A c \in DOMAIN consumers : ConsumersFreed(peer)[c] \subseteq consumers[c]
    BY <1>3 DEF ConsumersFreed, NoSession
  <2>2. \A c \in DOMAIN consumers : \A p \in consumers[c] : p \in DOMAIN producers
    BY <1>1 DEF SessionsAgree, InSession, IsProducer
  <2>. QED
    BY <2>1, <2>2, <1>3 DEF SessionOf, NoSession
<1>5. \A x, msg : Times(items', <<x, msg>>) =
           (IF x \in SessionsEnded(peer) /\ msg = EndSessionMsg(peer) THEN 1 ELSE 0)
         + (IF x \in ListenersTold(peer) /\ msg = ProducerRemoved(peer, MetaOf(peer))
               THEN 1 ELSE 0)
         + (IF x \in partner /\ msg = EndSessionMsg(peer) THEN 1 ELSE 0)
  BY <1>1, RemovePeerCounts
<1> HIDE DEF partner
<1>6. ASSUME NEW i \in DOMAIN items'
      PROVE  \/ items'[i][2] = ProducerRemoved(peer, MetaOf(peer))
                   /\ items'[i][1] \in listeners /\ IsProducer(peer)
             \/ items'[i][2] = EndSessionMsg(peer)
                   /\ \/ InSession(peer, items'[i][1])
                      \/ items'[i][1] \in DOMAIN producers
  <2>1. Times(items', <<items'[i][1], items'[i][2]>>) # 0
    BY <1>1, QueuedCounts
  <2>2. \/ items'[i][1] \in SessionsEnded(peer) /\ items'[i][2] = EndSessionMsg(peer)
        \/ items'[i][1] \in ListenersTold(peer) /\ items'[i][2] = ProducerRemoved(peer, MetaOf(peer))
        \/ items'[i][1] \in partner /\ items'[i][2] = EndSessionMsg(peer)
    BY <2>1, <1>5
  <2>. QED
    BY <2>2, <1>2, <1>4 DEF ListenersTold, ListenersLeft
<1>7. ASSUME NEW x \in ListenerSocket, NEW msg
      PROVE  Times(items', <<x, msg>>) =
                  IF /\ IsProducer(peer) /\ x \in listeners \ {peer}
                     /\ msg = ProducerRemoved(peer, MetaOf(peer)) THEN 1 ELSE 0
  <2>1. x \notin SessionsEnded(peer)
    BY <1>2, SocketsAreDisjoint DEF Roles
  <2>2. x \notin partner
    BY <1>4, SocketsAreDisjoint DEF Roles, Sound, PageTypes
  <2>3. x \in ListenersTold(peer) <=> IsProducer(peer) /\ x \in listeners \ {peer}
    BY DEF ListenersTold, ListenersLeft
  <2>. QED
    BY <2>1, <2>2, <2>3, <1>5
<1>8. /\ DOMAIN producers' = DOMAIN producers \ {peer}
      /\ DOMAIN consumers' = DOMAIN ConsumersFreed(peer) \ {peer}
      /\ listeners' = listeners \ {peer}
  BY DEF RemovePeer, Without, ListenersLeft
<1>. QED
  BY <1>3, <1>6, <1>7, <1>8

\* What it does with a request: the peers it knows, ...
LEMMA AskedKnows ==
    ASSUME Sound, Roles, NEW s \in Socket, HandleAsked(s)
    PROVE  /\ DOMAIN producers' = DOMAIN producers
           /\ DOMAIN consumers' \subseteq DOMAIN consumers \cup (SessionSocket \cap {s})
           /\ listeners' \subseteq listeners \cup (ListenerSocket \cap {s})
           /\ \A c \in SessionSocket : c # s =>
                 /\ c \in DOMAIN consumers' <=> c \in DOMAIN consumers
                 /\ c \in DOMAIN consumers => consumers'[c] = consumers[c]
<1> USE SocketsAreDisjoint
<1>1. /\ asked[s] \in Seq(Requests(s)) /\ asked[s] # <<>>
      /\ HandleRequest(s, Head(asked[s]))
  BY DEF HandleAsked, Sound, PageTypes
<1>2. Head(asked[s]) \in Requests(s)
  BY <1>1, HeadTailProperties
<1>3. CASE UNCHANGED peers
  BY <1>3 DEF peers
<1>4. CASE s \in SessionSocket /\ RegisterConsumer(s, NoMeta)
  <2>1. UNCHANGED peers \/ (UNCHANGED <<producers, listeners>> /\ consumers' = Put(consumers, s, NoSession))
    BY <1>4 DEF RegisterConsumer, Reject
  <2>. QED
    BY <1>3, <1>4, <2>1 DEF Put
<1>5. CASE s \in SessionSocket /\ \E e \in target[s] : StartSession(s, e)
  <2>1. PICK e \in target[s] : StartSession(s, e)
    BY <1>5
  <2>2. \/ UNCHANGED peers
        \/ /\ consumers' = [consumers EXCEPT ![s] = Some(e)]
           /\ producers' = [producers EXCEPT ![e] = @ \cup {s}]
           /\ UNCHANGED listeners
    BY <2>1 DEF StartSession, Reject
  <2>. QED
    BY <1>3, <2>2
<1>6. CASE s \in SessionSocket /\ \E e \in target[s] : PeerMessage(s, e, "answer")
  BY <1>3, <1>6 DEF PeerMessage, Reject
<1>7. CASE s \in ListenerSocket /\ RegisterListener(s, NoMeta)
  <2>1. UNCHANGED peers \/ (UNCHANGED <<producers, consumers>> /\ listeners' = listeners \cup {s})
    BY <1>7 DEF RegisterListener, Reject
  <2>. QED
    BY <1>3, <1>7, <2>1
<1>8. CASE List(s)
  BY <1>3, <1>8 DEF List
<1>9. CASE s \in SessionSocket
  BY <1>1, <1>2, <1>4, <1>5, <1>6, <1>9 DEF HandleRequest, Requests
<1>10. CASE s \in ListenerSocket
  BY <1>1, <1>2, <1>7, <1>8, <1>10 DEF HandleRequest, Requests
<1>. QED
  BY <1>9, <1>10

\* ... and the one message it queues, for the peer or for its producer.
LEMMA AskedQueues ==
    ASSUME Sound, NEW s \in Socket, HandleAsked(s)
    PROVE  \E to, msg :
                 /\ to \in Element \cup {s}
                 /\ items' = <<<<to, msg>>>>
                 /\ to # s => msg = StartSessionMsg(s) \/ msg = PeerMsg(s, "answer")
                 /\ to = s => \/ msg = ErrorMsg \/ msg = ListMsg
                              \/ \E r \in Role : msg = Registered(r, s, NoMeta)
<1> USE SocketsAreDisjoint
<1>1. /\ items = <<>> /\ asked[s] \in Seq(Requests(s)) /\ asked[s] # <<>>
      /\ HandleRequest(s, Head(asked[s]))
  BY DEF HandleAsked, Sound, PageTypes
<1>2. Head(asked[s]) \in Requests(s)
  BY <1>1, HeadTailProperties
<1>3. \A to, msg : Send(to, msg) => items' = <<<<to, msg>>>>
  BY <1>1 DEF Send
<1>4. CASE Reject(s)
  BY <1>1, <1>4 DEF Reject
<1>5. CASE \E r \in Role : Send(s, Registered(r, s, NoMeta))
  BY <1>3, <1>5
<1>6. CASE List(s)
  BY <1>3, <1>6 DEF List
<1>7. CASE \E e \in Element : Send(e, StartSessionMsg(s)) \/ Send(e, PeerMsg(s, "answer"))
  BY <1>3, <1>7
<1>8. CASE s \in SessionSocket
  <2>1. \A e \in target[s] : e \in Element
    <3>1. target[s] = NoSession \/ \E e \in Element : target[s] = Some(e)
      BY <1>8 DEF Sound, PageTypes
    <3>. QED
      BY <3>1 DEF NoSession, Some
  <2>2. \/ RegisterConsumer(s, NoMeta)
        \/ \E e \in target[s] : StartSession(s, e)
        \/ \E e \in target[s] : PeerMessage(s, e, "answer")
    BY <1>1, <1>2, <1>8 DEF HandleRequest, Requests
  <2>3. CASE RegisterConsumer(s, NoMeta)
    BY <1>4, <1>5, <2>3 DEF RegisterConsumer, Role
  <2>4. ASSUME NEW e \in Element, StartSession(s, e) \/ PeerMessage(s, e, "answer")
        PROVE  Reject(s) \/ Send(e, StartSessionMsg(s)) \/ Send(e, PeerMsg(s, "answer"))
    BY <2>4 DEF StartSession, PeerMessage
  <2>. QED
    BY <1>4, <1>7, <2>1, <2>2, <2>3, <2>4
<1>9. CASE s \in ListenerSocket
  <2>1. RegisterListener(s, NoMeta) \/ List(s)
    BY <1>1, <1>2, <1>9 DEF HandleRequest, Requests
  <2>. QED
    BY <1>4, <1>5, <1>6, <2>1 DEF RegisterListener, Role
<1>. QED
  BY <1>8, <1>9

\* An element's send task: a message for the session, or its refusal.
LEMMA SayDoes ==
    ASSUME NEW e \in Element, NEW c \in SessionSocket, NEW inner \in {"offer", "ice"},
           Say(e, c, inner)
    PROVE  /\ UNCHANGED peers /\ items = <<>>
           /\ items' = <<<<c, PeerMsg(e, inner)>>>> \/ items' = <<<<e, ErrorMsg>>>>
           /\ Forwardable(e, c, inner) => items' = <<<<c, PeerMsg(e, inner)>>>>
BY DEF Say, PeerMessage, Reject, Send

\* The end of a session by its element: the other side is told, or the element.
LEMMA EndOfDoes ==
    ASSUME Sound, Roles, NEW e \in Element, NEW c \in SessionSocket, EndOf(e, c)
    PROVE  /\ DOMAIN producers' = DOMAIN producers
           /\ DOMAIN consumers' = DOMAIN consumers
           /\ UNCHANGED listeners
           /\ \A x \in DOMAIN consumers : x # c => consumers'[x] = consumers[x]
           /\ items = <<>>
           /\ items' = <<<<c, EndSessionMsg(e)>>>> \/ items' = <<<<e, ErrorMsg>>>>
           /\ c \notin DOMAIN consumers => items' = <<<<e, ErrorMsg>>>>
<1>1. items = <<>> /\ EndSession(e, c) /\ e \notin SessionSocket
  BY SocketsAreDisjoint DEF EndOf
<1>2. e \notin DOMAIN consumers
  BY <1>1 DEF Roles
<1>3. ~AsConsumer(e, c)
  BY <1>2 DEF AsConsumer, IsConsumer
<1>4. CASE AsProducer(e, c)
  <2>1. /\ producers' = [producers EXCEPT ![e] = @ \ {c}]
        /\ consumers' = Put(consumers, c, NoSession)
        /\ TellOther(e, c) /\ UNCHANGED listeners
    BY <1>1, <1>3, <1>4 DEF EndSession
  <2>2. c \in DOMAIN consumers
    BY <1>4 DEF AsProducer, IsProducer, IsConsumer, InSession, Sound, HandlerInv, SessionsAgree
  <2>3. DOMAIN consumers' = DOMAIN consumers
    BY <2>1, <2>2 DEF Put
  <2>4. \A x \in DOMAIN consumers : x # c => consumers'[x] = consumers[x]
    BY <2>1 DEF Put
  <2>5. items' = <<<<c, EndSessionMsg(e)>>>>
    BY <1>1, <2>1 DEF TellOther, Send
  <2>. QED
    BY <1>1, <2>1, <2>2, <2>3, <2>4, <2>5
<1>5. CASE ~AsProducer(e, c)
  <2>1. UNCHANGED peers /\ items' = <<<<e, ErrorMsg>>>>
    BY <1>1, <1>3, <1>5 DEF EndSession, Reject
  <2>. QED
    BY <1>1, <2>1 DEF peers
<1>. QED
  BY <1>4, <1>5

LEMMA PageStepKeepsRoles ==
    ASSUME Sound, Sound', Roles, [PageNext]_allVars
    PROVE  Roles'
<1> USE SocketsAreDisjoint
<1>1. ASSUME UNCHANGED <<producers, consumers, listeners, comings>> PROVE Roles'
  BY <1>1 DEF Roles
<1>2. ASSUME NEW s \in Socket, HandleAsked(s) PROVE Roles'
  BY <1>2, AskedKnows DEF Roles, HandleAsked
<1>3. ASSUME NEW s \in Socket, HandleEnd(s) PROVE Roles'
  <2>1. items = <<>> /\ RemovePeer(s) /\ UNCHANGED comings
    BY <1>3 DEF HandleEnd
  <2>2. s \notin DOMAIN producers
    BY DEF Roles, Sound, PageTypes
  <2>3. /\ DOMAIN producers' = DOMAIN producers \ {s}
        /\ DOMAIN consumers' \subseteq DOMAIN consumers /\ listeners' = listeners \ {s}
    BY <2>1, RemoveDoes
  <2>. QED
    BY <2>1, <2>2, <2>3 DEF Roles
<1>4. ASSUME NEW e \in Element, Come(e) PROVE Roles'
  <2>1. comings'.came = comings.came \cup {e} /\ comings'.left = comings.left
    BY <1>4, ComeDoes DEF Sound, PageTypes
  <2>2. DOMAIN producers' = DOMAIN producers \cup {e}
    BY <1>4, ComeDoes DEF Put
  <2>. QED
    BY <1>4, <2>1, <2>2, ComeDoes DEF Roles
<1>5. ASSUME NEW e \in Element, LeaveElement(e) PROVE Roles'
  <2>1. items = <<>> /\ RemovePeer(e) /\ e \in comings.came
        /\ comings' = [comings EXCEPT !.left = @ \cup {e}]
    BY <1>5 DEF LeaveElement
  <2>2. comings'.left = comings.left \cup {e} /\ comings'.came = comings.came
    BY <2>1 DEF Sound, PageTypes
  <2>3. /\ DOMAIN producers' = DOMAIN producers \ {e}
        /\ DOMAIN consumers' \subseteq DOMAIN consumers /\ listeners' = listeners \ {e}
    BY <2>1, RemoveDoes
  <2>. QED
    BY <2>1, <2>2, <2>3 DEF Roles
<1>6. CASE Crash
  <2>1. /\ producers' = << >> /\ consumers' = << >> /\ listeners' = {}
        /\ comings' = [comings EXCEPT !.left = comings.came]
    BY <1>6 DEF Crash
  <2>2. comings'.left = comings.came /\ comings'.came = comings.came
    BY <2>1 DEF Sound, PageTypes
  <2>3. DOMAIN << >> = {}
    OBVIOUS
  <2>. QED
    BY <2>1, <2>2, <2>3 DEF Roles
<1>7. ASSUME NEW c \in SessionSocket, NEW e \in Element, NEW inner \in {"offer", "ice"},
             Say(e, c, inner)
      PROVE  Roles'
  BY <1>1, <1>7, SayDoes DEF peers, Say
<1>8. CASE Dispatch \/ Restart \/ (\E p : Enter(p)) \/ UNCHANGED allVars
  BY <1>1, <1>8 DEF Dispatch, Enter, PopItem, peers, Restart, allVars, vars, netVars
<1>9. ASSUME NEW s \in Socket, Connect(s) \/ Open(s) \/ Deliver(s) \/ Lose(s) PROVE Roles'
  BY <1>1, <1>9 DEF Connect, Open, Deliver, Lose, vars
<1>10. ASSUME NEW c \in SessionSocket, Operate(c) \/ Click(c) \/ Refuse(c) PROVE Roles'
  BY <1>1, <1>10 DEF Operate, Click, Refuse, vars
<1>11. ASSUME NEW c \in SessionSocket, NEW e \in Element, EndOf(e, c) PROVE Roles'
  BY <1>11, EndOfDoes DEF Roles, EndOf
<1>. QED
  BY <1>2, <1>3, <1>4, <1>5, <1>6, <1>7, <1>8, <1>9, <1>10, <1>11, PageSteps

-----------------------------------------------------------------------------
(* What is announced, and so what the page shows, did come.                *)

Announced(msg) ==
    /\ msg.type = "producerAdded" => msg.peer \in comings.came
    /\ msg.type = "list" => \A p \in msg.producers : p.id \in comings.came
    /\ msg.type = "producerRemoved" => msg.peer \in comings.came

ItemsAnnounced == \A i \in DOMAIN items : Announced(items[i][2])
FlyingAnnounced == \A s \in Socket : \A i \in DOMAIN flying[s] : Announced(flying[s][i])
ShownCame == \A e \in Element : page.entries[e] > 0 => e \in comings.came

LEMMA ComingsGrow ==
    ASSUME Sound, Roles, [PageNext]_allVars
    PROVE  comings.came \subseteq comings'.came /\ comings.left \subseteq comings'.left
<1> USE DEF Sound, PageTypes
<1>1. ASSUME comings' = comings
      PROVE  comings.came \subseteq comings'.came /\ comings.left \subseteq comings'.left
  BY <1>1
<1>2. ASSUME NEW e \in Element, Come(e)
      PROVE  comings.came \subseteq comings'.came /\ comings.left \subseteq comings'.left
  BY <1>2 DEF Come
<1>3. ASSUME NEW e \in Element, LeaveElement(e)
      PROVE  comings.came \subseteq comings'.came /\ comings.left \subseteq comings'.left
  BY <1>3 DEF LeaveElement
<1>4. CASE Crash
  BY <1>4 DEF Crash, Roles
<1>5. ASSUME NEW s \in Socket,
             \/ Connect(s) \/ Open(s) \/ Deliver(s) \/ Lose(s) \/ HandleAsked(s) \/ HandleEnd(s)
      PROVE  comings' = comings
  BY <1>5 DEF Connect, Open, Deliver, Lose, HandleAsked, HandleEnd
<1>6. ASSUME NEW c \in SessionSocket,
             \/ Operate(c) \/ Click(c) \/ Refuse(c)
             \/ \E e \in Element, inner \in {"offer", "ice"} : Say(e, c, inner)
             \/ \E e \in Element : EndOf(e, c)
      PROVE  comings' = comings
  BY <1>6 DEF Operate, Click, Refuse, Say, EndOf
<1>7. CASE Dispatch \/ Restart \/ (\E p : Enter(p)) \/ UNCHANGED allVars
  BY <1>1, <1>7 DEF Dispatch, Enter, Restart, allVars, netVars
<1> HIDE DEF Sound, PageTypes
<1>. QED
  BY <1>1, <1>2, <1>3, <1>4, <1>5, <1>6, <1>7, PageSteps

\* What was announced stays announced.
LEMMA AnnouncedStays ==
    ASSUME comings.came \subseteq comings'.came, NEW msg, Announced(msg)
    PROVE  /\ msg.type = "producerAdded" => msg.peer \in comings'.came
           /\ msg.type = "list" => \A p \in msg.producers : p.id \in comings'.came
           /\ msg.type = "producerRemoved" => msg.peer \in comings'.came
BY DEF Announced

\* The messages that announce no one, and the list of those that came.
LEMMA OthersAnnounce ==
    ASSUME Roles
    PROVE  /\ \A p, r, m, i : /\ Announced(Registered(r, p, m))
                              /\ Announced(StartSessionMsg(p))
                              /\ Announced(EndSessionMsg(p))
                              /\ Announced(PeerMsg(p, i))
           /\ Announced(ErrorMsg)
           /\ Announced(ListMsg)
<1>1. ASSUME NEW p, NEW r, NEW m, NEW i
      PROVE  /\ Announced(Registered(r, p, m))
             /\ Announced(StartSessionMsg(p)) /\ Announced(EndSessionMsg(p))
             /\ Announced(PeerMsg(p, i)) /\ Announced(ErrorMsg)
  BY DEF Announced, Registered, StartSessionMsg, EndSessionMsg, PeerMsg, ErrorMsg
<1>2. ListMsg.type = "list" /\ \A q \in ListMsg.producers : q.id \in DOMAIN producers
  BY DEF ListMsg
<1>3. Announced(ListMsg)
  BY <1>2 DEF Announced, Roles
<1>. QED
  BY <1>1, <1>3

LEMMA PageStepKeepsItems ==
    ASSUME Sound, Sound', Roles, Roles', ItemsAnnounced, [PageNext]_allVars
    PROVE  ItemsAnnounced'
<1> DEFINE Told(msg) == /\ msg.type = "producerAdded" => msg.peer \in comings'.came
                        /\ msg.type = "list" => \A p \in msg.producers : p.id \in comings'.came
                        /\ msg.type = "producerRemoved" => msg.peer \in comings'.came
<1>1. comings.came \subseteq comings'.came
  BY ComingsGrow
<1>2. \A msg : Announced(msg) => Told(msg)
  BY <1>1, AnnouncedStays
<1>3. SUFFICES ASSUME NEW i \in DOMAIN items' PROVE Told(items'[i][2])
  BY DEF ItemsAnnounced, Announced
<1> HIDE DEF Told
<1>4. ASSUME UNCHANGED items PROVE Told(items'[i][2])
  BY <1>2, <1>3, <1>4 DEF ItemsAnnounced
<1>5. ASSUME NEW s \in Socket, HandleAsked(s) PROVE Told(items'[i][2])
  <2>1. PICK to, msg :
                 /\ to \in Element \cup {s}
                 /\ items' = <<<<to, msg>>>>
                 /\ to # s => msg = StartSessionMsg(s) \/ msg = PeerMsg(s, "answer")
                 /\ to = s => \/ msg = ErrorMsg \/ msg = ListMsg
                              \/ \E r \in Role : msg = Registered(r, s, NoMeta)
    BY <1>5, AskedQueues
  <2>2. items'[i] = <<to, msg>>
    BY <1>3, <2>1
  <2>3. Announced(msg)
    BY <2>1, OthersAnnounce
  <2>. QED
    BY <1>2, <2>2, <2>3
<1>6. ASSUME NEW peer \in PeerId, items = <<>>, RemovePeer(peer) PROVE Told(items'[i][2])
  <2>1. \/ items'[i][2] = ProducerRemoved(peer, MetaOf(peer)) /\ IsProducer(peer)
        \/ items'[i][2] = EndSessionMsg(peer)
    BY <1>3, <1>6, RemoveDoes
  <2>2. IsProducer(peer) => peer \in comings'.came
    BY <1>1 DEF Roles, IsProducer
  <2>3. peer \in comings'.came => Told(ProducerRemoved(peer, MetaOf(peer)))
    BY DEF Told, ProducerRemoved
  <2>. QED
    BY <1>2, <2>1, <2>2, <2>3, OthersAnnounce
<1>7. ASSUME NEW e \in Element, Come(e) PROVE Told(items'[i][2])
  <2>1. items'[i][2] = ProducerAdded(e, NoMeta) \/ items'[i][2] = Registered("producer", e, NoMeta)
    BY <1>3, <1>7, ComeDoes
  <2>2. e \in comings'.came
    BY <1>7 DEF Come, Sound, PageTypes
  <2>3. Told(ProducerAdded(e, NoMeta))
    BY <2>2 DEF Told, ProducerAdded
  <2>. QED
    BY <1>2, <2>1, <2>3, OthersAnnounce
<1>8. ASSUME NEW c \in SessionSocket, NEW e \in Element, NEW inner \in {"offer", "ice"},
             Say(e, c, inner)
      PROVE  Told(items'[i][2])
  <2>1. items' = <<<<c, PeerMsg(e, inner)>>>> \/ items' = <<<<e, ErrorMsg>>>>
    BY <1>8, SayDoes
  <2>2. items'[i][2] = PeerMsg(e, inner) \/ items'[i][2] = ErrorMsg
    BY <1>3, <2>1
  <2>. QED
    BY <1>2, <2>2, OthersAnnounce
<1>9. CASE Dispatch
  <2>1. items \in Seq(Item) /\ items # <<>> /\ items' = Tail(items)
    BY <1>9 DEF Dispatch, PopItem, Sound, HandlerInv, TypeOK
  <2>2. i + 1 \in DOMAIN items /\ items'[i] = items[i + 1]
    BY <1>3, <2>1
  <2>. QED
    BY <1>2, <2>2 DEF ItemsAnnounced
<1>10. CASE Crash
  BY <1>3, <1>10 DEF Crash
<1>11. ASSUME NEW s \in Socket, HandleEnd(s) PROVE Told(items'[i][2])
  BY <1>6, <1>11, SocketsAreDisjoint DEF HandleEnd
<1>12. ASSUME NEW e \in Element, LeaveElement(e) PROVE Told(items'[i][2])
  BY <1>6, <1>12, SocketsAreDisjoint DEF LeaveElement
<1>13. CASE Restart \/ (\E p : Enter(p)) \/ UNCHANGED allVars
  BY <1>4, <1>13 DEF Restart, Enter, allVars, vars
<1>14. ASSUME NEW s \in Socket, Connect(s) \/ Open(s) \/ Deliver(s) \/ Lose(s)
       PROVE  Told(items'[i][2])
  BY <1>4, <1>14 DEF Connect, Open, Deliver, Lose, vars
<1>15. ASSUME NEW c \in SessionSocket, Operate(c) \/ Click(c) \/ Refuse(c)
       PROVE  Told(items'[i][2])
  BY <1>4, <1>15 DEF Operate, Click, Refuse, vars
<1>16. ASSUME NEW c \in SessionSocket, NEW e \in Element, EndOf(e, c)
       PROVE  Told(items'[i][2])
  <2>1. items'[i][2] = EndSessionMsg(e) \/ items'[i][2] = ErrorMsg
    BY <1>3, <1>16, EndOfDoes
  <2>. QED
    BY <1>2, <2>1, OthersAnnounce
<1>. QED
  BY <1>5, <1>7, <1>8, <1>9, <1>10, <1>11, <1>12, <1>13, <1>14, <1>15, <1>16, PageSteps

\* What is on its way to a socket: the same, less a message that was delivered,
\* nothing for one that ended, or one more that the handler had queued.
LEMMA FlyingChanges ==
    ASSUME Sound, [PageNext]_allVars, NEW s \in Socket, NEW i \in DOMAIN flying'[s]
    PROVE  \/ \E k \in DOMAIN flying[s] : flying'[s][i] = flying[s][k]
           \/ \E k \in DOMAIN items : flying'[s][i] = items[k][2]
<1>1. flying \in [Socket -> Seq(Message)] /\ flying[s] \in Seq(Message)
  BY DEF Sound, PageTypes
<1>2. ASSUME UNCHANGED flying
      PROVE  \E k \in DOMAIN flying[s] : flying'[s][i] = flying[s][k]
  BY <1>2
<1>3. ASSUME NEW t \in Socket, Deliver(t)
      PROVE  \E k \in DOMAIN flying[s] : flying'[s][i] = flying[s][k]
  <2>1. PICK n \in DOMAIN flying[t] : flying' = [flying EXCEPT ![t] = RemoveAt(@, n)]
    BY <1>3 DEF Deliver
  <2>2. CASE t # s
    BY <1>1, <2>1, <2>2
  <2>3. CASE t = s
    <3>1. n \in DOMAIN flying[s] /\ flying'[s] = RemoveAt(flying[s], n)
      BY <1>1, <2>1, <2>3
    <3>2. /\ flying'[s] \in Seq(Message)
          /\ Len(flying'[s]) = Len(flying[s]) - 1
          /\ \A k \in 1..(Len(flying[s]) - 1) :
                flying'[s][k] = IF k < n THEN flying[s][k] ELSE flying[s][k + 1]
      BY <1>1, <3>1, RemoveAtType
    <3>3. i \in 1..(Len(flying[s]) - 1) /\ i + 1 \in DOMAIN flying[s] /\ i \in DOMAIN flying[s]
      BY <1>1, <3>2
    <3>. QED
      BY <3>2, <3>3
  <2>. QED
    BY <2>2, <2>3
<1>4. ASSUME NEW t \in Socket, Lose(t)
      PROVE  \E k \in DOMAIN flying[s] : flying'[s][i] = flying[s][k]
  <2>1. flying' = [flying EXCEPT ![t] = <<>>]
    BY <1>4 DEF Lose
  <2>2. t # s
    BY <1>1, <2>1
  <2>. QED
    BY <1>1, <2>1, <2>2
<1>5. CASE Dispatch
  <2>1. items \in Seq(Item) /\ items # <<>>
    BY <1>5 DEF Dispatch, PopItem, Sound, HandlerInv, TypeOK
  <2>2. \/ UNCHANGED flying
        \/ \E to \in Socket : flying' = [flying EXCEPT ![to] = Append(@, Head(items)[2])]
    BY <1>5, <2>1 DEF Dispatch
  <2>3. ASSUME NEW to \in Socket, flying' = [flying EXCEPT ![to] = Append(@, Head(items)[2])]
        PROVE  \/ \E k \in DOMAIN flying[s] : flying'[s][i] = flying[s][k]
               \/ \E k \in DOMAIN items : flying'[s][i] = items[k][2]
    <3>1. CASE to # s
      BY <1>1, <2>3, <3>1
    <3>2. CASE to = s
      <4>1. flying'[s] = Append(flying[s], Head(items)[2])
        BY <1>1, <2>3, <3>2
      <4>2. \/ i \in DOMAIN flying[s] /\ flying'[s][i] = flying[s][i]
            \/ flying'[s][i] = Head(items)[2]
        BY <1>1, <4>1
      <4>3. 1 \in DOMAIN items /\ Head(items) = items[1]
        BY <2>1
      <4>. QED
        BY <4>2, <4>3
    <3>. QED
      BY <3>1, <3>2
  <2>. QED
    BY <1>2, <2>2, <2>3
<1>6. ASSUME NEW t \in Socket, Connect(t) \/ Open(t) \/ HandleAsked(t) \/ HandleEnd(t)
      PROVE  UNCHANGED flying
  BY <1>6 DEF Connect, Open, HandleAsked, HandleEnd
<1>7. ASSUME NEW c \in SessionSocket,
             \/ Operate(c) \/ Click(c) \/ Refuse(c)
             \/ \E e \in Element, inner \in {"offer", "ice"} : Say(e, c, inner)
             \/ \E e \in Element : EndOf(e, c)
      PROVE  UNCHANGED flying
  BY <1>7 DEF Operate, Click, Refuse, Say, EndOf
<1>8. ASSUME NEW e \in Element, Come(e) \/ LeaveElement(e) PROVE UNCHANGED flying
  BY <1>8 DEF Come, LeaveElement
<1>9. CASE Crash \/ Restart \/ (\E p : Enter(p)) \/ UNCHANGED allVars
  BY <1>2, <1>9 DEF Crash, Enter, Restart, allVars, netVars
<1>. QED
  BY <1>2, <1>3, <1>4, <1>5, <1>6, <1>7, <1>8, <1>9, PageSteps

LEMMA PageStepKeepsFlying ==
    ASSUME Sound, Roles, ItemsAnnounced, FlyingAnnounced, [PageNext]_allVars
    PROVE  FlyingAnnounced'
<1>1. comings.came \subseteq comings'.came
  BY ComingsGrow
<1>2. ASSUME NEW s \in Socket, NEW i \in DOMAIN flying'[s] PROVE Announced(flying'[s][i])
  BY FlyingChanges DEF ItemsAnnounced, FlyingAnnounced
<1>. QED
  BY <1>1, <1>2, AnnouncedStays DEF FlyingAnnounced, Announced

\* The page's entries: the same, none, or those after a message delivered.
LEMMA EntriesChange ==
    ASSUME Sound, [PageNext]_allVars
    PROVE  \/ page'.entries = page.entries
           \/ page'.entries = NoEntries
           \/ \E s \in Socket : \E i \in DOMAIN flying[s] :
                 page'.entries = EntriesAfter(page.entries, flying[s][i])
<1>1. page \in PageRecord
  BY DEF Sound, PageTypes, PageRecord
<1>2. ASSUME NEW s \in Socket, Deliver(s)
      PROVE  \/ page'.entries = page.entries
             \/ \E i \in DOMAIN flying[s] :
                   page'.entries = EntriesAfter(page.entries, flying[s][i])
  <2>1. PICK i \in DOMAIN flying[s] :
             \/ s \in SessionSocket /\ SessionReads(s, flying[s][i])
             \/ s \in page.attached /\ ListenerReads(flying[s][i])
    BY <1>2 DEF Deliver
  <2>2. flying[s][i] \in Message
    BY DEF Sound, PageTypes
  <2>3. CASE s \in SessionSocket /\ SessionReads(s, flying[s][i])
    BY <2>2, <2>3, SessionReadsTypes DEF Sound
  <2>4. CASE ListenerReads(flying[s][i])
    BY <1>1, <2>4 DEF ListenerReads, PageRecord
  <2>. QED
    BY <2>1, <2>3, <2>4
<1>3. ASSUME NEW s \in Socket, Lose(s)
      PROVE  page'.entries = page.entries \/ page'.entries = NoEntries
  <2>1. page' = page \/ \E failed \in BOOLEAN : ListenerEnds(s, failed)
    BY <1>3 DEF Lose
  <2>. QED
    BY <2>1 DEF ListenerEnds, OnServerError, OnServerClose, Retry
<1>4. ASSUME NEW s \in Socket, Connect(s) PROVE page'.entries = page.entries
  BY <1>1, <1>4 DEF Connect, PageRecord
<1>5. ASSUME NEW s \in Socket, Open(s) \/ HandleAsked(s) \/ HandleEnd(s) PROVE page' = page
  BY <1>5 DEF Open, HandleAsked, HandleEnd, pageVars
<1>6. ASSUME NEW c \in SessionSocket,
             \/ Operate(c) \/ Click(c) \/ Refuse(c)
             \/ \E e \in Element, inner \in {"offer", "ice"} : Say(e, c, inner)
             \/ \E e \in Element : EndOf(e, c)
      PROVE  page' = page
  BY <1>6 DEF Operate, Click, Refuse, Reset, Say, EndOf, pageVars
<1>7. ASSUME NEW e \in Element, Come(e) \/ LeaveElement(e) PROVE page' = page
  BY <1>7 DEF Come, LeaveElement, pageVars
<1>8. CASE Dispatch \/ Crash \/ Restart \/ (\E p : Enter(p)) \/ UNCHANGED allVars
  BY <1>8 DEF Dispatch, Enter, Crash, Restart, allVars, pageVars
<1>. QED
  BY <1>2, <1>3, <1>4, <1>5, <1>6, <1>7, <1>8, PageSteps

LEMMA PageStepKeepsShown ==
    ASSUME Sound, Roles, FlyingAnnounced, ShownCame, [PageNext]_allVars
    PROVE  ShownCame'
<1>1. comings.came \subseteq comings'.came
  BY ComingsGrow
<1>2. SUFFICES ASSUME NEW e \in Element, page'.entries[e] > 0 PROVE e \in comings.came
  BY <1>1 DEF ShownCame
<1>3. page.entries \in [Element -> Nat]
  BY DEF Sound, PageTypes
<1>4. CASE page'.entries = page.entries
  BY <1>2, <1>4 DEF ShownCame
<1>5. CASE page'.entries = NoEntries
  BY <1>2, <1>5 DEF NoEntries
<1>6. ASSUME NEW s \in Socket, NEW i \in DOMAIN flying[s],
             page'.entries = EntriesAfter(page.entries, flying[s][i])
      PROVE  e \in comings.came
  <2> DEFINE msg == flying[s][i]
  <2>1. Announced(msg)
    BY DEF FlyingAnnounced
  <2>2. CASE msg.type = "list"
    <3>1. page'.entries[e] = IF e \in {p.id : p \in msg.producers} THEN 1 ELSE 0
      BY <1>6, <2>2 DEF EntriesAfter, EntriesOfList
    <3>. QED
      BY <1>2, <2>1, <2>2, <3>1 DEF Announced
  <2>3. CASE msg.type = "producerAdded"
    <3>1. page'.entries[e] = page.entries[e] \/ e = msg.peer
      BY <1>3, <1>6, <2>3 DEF EntriesAfter, EntriesAdded
    <3>. QED
      BY <1>2, <2>1, <2>3, <3>1 DEF Announced, ShownCame
  <2>4. CASE msg.type = "producerRemoved"
    <3>1. page'.entries[e] = page.entries[e] \/ page.entries[e] > 0
      BY <1>2, <1>3, <1>6, <2>4 DEF EntriesAfter, EntriesRemoved
    <3>. QED
      BY <1>2, <3>1 DEF ShownCame
  <2>5. CASE msg.type \notin {"list", "producerAdded", "producerRemoved"}
    <3>1. page'.entries = page.entries
      BY <1>6, <2>5 DEF EntriesAfter
    <3>. QED
      BY <1>4, <3>1
  <2>. QED
    BY <2>2, <2>3, <2>4, <2>5
<1>. QED
  BY <1>4, <1>5, <1>6, EntriesChange

-----------------------------------------------------------------------------
(* A session.  One that nothing troubled and whose producer is there is    *)
(* healthy: it goes through the phases below, in which no message that     *)
(* would end it is underway, and an offer is ahead of every candidate.     *)

Gone(c) == \E e \in target[c] : ~IsProducer(e)

Said(e, c, inner) == <<e, c, inner>> \in says
Saying == {"offer", "ice"}

\* The handler's queue holds nothing for the session or about its start, ...
Unspoken(c) ==
    \A i \in DOMAIN items : items[i][1] # c /\ items[i][2] # StartSessionMsg(c)

\* ... it has no peer connection, and no element has anything to send to it.
Blank(c) ==
    /\ c \notin called /\ c \notin described /\ chain[c] = <<>>
    /\ \A e \in Element, inner \in Saying : ~Said(e, c, inner)

\* Before the handler knows it.
Unregistered(c) ==
    /\ c \notin DOMAIN consumers /\ flying[c] = <<>> /\ Unspoken(c) /\ Blank(c)

\* Known, and not started: the answer is queued, underway, or was read.
Welcome(c) == Registered("consumer", c, NoMeta)
Waiting(c) ==
    /\ c \in DOMAIN consumers /\ consumers[c] = NoSession /\ Blank(c)
    /\ \/ asked[c] = <<>> /\ items = <<<<c, Welcome(c)>>>> /\ flying[c] = <<>>
       \/ asked[c] = <<>> /\ Unspoken(c) /\ flying[c] = <<Welcome(c)>>
       \/ asked[c] = <<"startSession">> /\ Unspoken(c) /\ flying[c] = <<>>

\* An offer went out: it is to be read, to be set, or was set.
Describes(c) == c \in described \/ \E i \in DOMAIN chain[c] : chain[c][i] = "setRemote"
Offered(c, e) ==
    Describes(c) \/ \E i \in DOMAIN flying[c] : flying[c][i] = PeerMsg(e, "offer")

NoCandidate(c, e) ==
    /\ \A i \in DOMAIN flying[c] : flying[c][i] # PeerMsg(e, "ice")
    /\ \A i \in DOMAIN chain[c] : chain[c][i] # "addCandidate"

\* In session with e: nothing but offers and candidates of e is underway, and
\* each candidate has an offer ahead of it.
Partnered(c, e) ==
    /\ c \in DOMAIN consumers /\ consumers[c] = {e}
    /\ \A i \in DOMAIN asked[c] : asked[c][i] = "answer"
    /\ \A i \in DOMAIN flying[c] : flying[c][i] \in {PeerMsg(e, "offer"), PeerMsg(e, "ice")}
    /\ \A d \in Element, inner \in Saying : Said(d, c, inner) => d = e
CallKept(c) == chain[c] # <<>> \/ c \in described => c \in called
FlyingOrder(c, e) ==
    \A j \in DOMAIN flying[c] : flying[c][j] = PeerMsg(e, "ice") =>
        Describes(c) \/ \E i \in 1..(j - 1) : flying[c][i] = PeerMsg(e, "offer")
ChainOrder(c) ==
    \A j \in DOMAIN chain[c] : chain[c][j] = "addCandidate" =>
        c \in described \/ \E i \in 1..(j - 1) : chain[c][i] = "setRemote"

\* Where its offer and its candidate are: to be announced, with the element,
\* the offer queued, the candidate queued, or neither.
Starting(c, e) == items = <<<<e, StartSessionMsg(c)>>>> /\ Blank(c) /\ flying[c] = <<>>
OfferToSay(c, e) == Unspoken(c) /\ Said(e, c, "offer") /\ NoCandidate(c, e)
OfferQueued(c, e) ==
    items = <<<<c, PeerMsg(e, "offer")>>>> /\ ~Said(e, c, "offer") /\ NoCandidate(c, e)
OfferSaid(c, e) ==
    /\ Unspoken(c) /\ ~Said(e, c, "offer")
    /\ Said(e, c, "ice") => Offered(c, e)
IceQueued(c, e) ==
    items = <<<<c, PeerMsg(e, "ice")>>>> /\ ~Said(e, c, "offer") /\ Offered(c, e)

Talking(c, e) ==
    /\ Partnered(c, e) /\ CallKept(c) /\ FlyingOrder(c, e) /\ ChainOrder(c)
    /\ \/ Starting(c, e) \/ OfferToSay(c, e) \/ OfferQueued(c, e)
       \/ OfferSaid(c, e) \/ IceQueued(c, e)

Healthy(c) ==
    \/ socket[c] = "connecting" /\ asked[c] = <<>> /\ Unregistered(c)
    \/ socket[c] = "open" /\ asked[c] = <<"register">> /\ Unregistered(c)
    \/ socket[c] = "open" /\ Waiting(c)
    \/ socket[c] = "open" /\ \E e \in target[c] : Talking(c, e)

SessionInv(c) ==
    /\ \A e \in target[c] : e \in comings.came
    /\ socket[c] = "unused" =>
          target[c] = NoSession /\ asked[c] = <<>> /\ Unregistered(c)
    /\ socket[c] # "unused" =>
          target[c] # NoSession /\ (c \in troubled \/ Gone(c) \/ Healthy(c))

SessionsHealthy == \A c \in SessionSocket : SessionInv(c)

\* Parts of what a session's health depends on, left alone by a step.
SameCall(c) ==
    /\ (c \in called') <=> (c \in called)
    /\ (c \in described') <=> (c \in described)
    /\ chain'[c] = chain[c]
SameSaid(c) == \A e \in Element, inner \in Saying : Said(e, c, inner)' <=> Said(e, c, inner)
SameKnown(c) ==
    /\ (c \in DOMAIN consumers') <=> (c \in DOMAIN consumers)
    /\ c \in DOMAIN consumers => consumers'[c] = consumers[c]
SameItems(c) == items' = items \/ (Unspoken(c) /\ Unspoken(c)')
SameView(c) ==
    /\ socket'[c] = socket[c] /\ asked'[c] = asked[c] /\ flying'[c] = flying[c]
    /\ target'[c] = target[c]
    /\ SameCall(c) /\ SameSaid(c) /\ SameKnown(c) /\ SameItems(c)

LEMMA SameBlank ==
    ASSUME NEW c, SameCall(c), SameSaid(c), Blank(c)
    PROVE  Blank(c)'
BY DEF SameCall, SameSaid, Blank

LEMMA SameUnspoken ==
    ASSUME NEW c, SameItems(c), Unspoken(c)
    PROVE  Unspoken(c)'
BY DEF SameItems, Unspoken

\* A queue with an item for the session, or about its start, speaks of it.
LEMMA SpokenOf ==
    ASSUME NEW c, NEW to, NEW msg, items = <<<<to, msg>>>>, to = c \/ msg = StartSessionMsg(c)
    PROVE  ~Unspoken(c)
BY DEF Unspoken

LEMMA ViewKeepsUnregistered ==
    ASSUME NEW c, SameView(c), Unregistered(c)
    PROVE  Unregistered(c)'
<1>1. Blank(c)'
  BY SameBlank DEF SameView, Unregistered
<1>2. Unspoken(c)'
  BY SameUnspoken DEF SameView, Unregistered
<1>. QED
  BY <1>1, <1>2 DEF SameView, SameKnown, Unregistered

LEMMA ViewKeepsWaiting ==
    ASSUME NEW c, SameView(c), Waiting(c)
    PROVE  Waiting(c)'
<1>1. Blank(c)'
  BY SameBlank DEF SameView, Waiting
<1>2. c \in DOMAIN consumers' /\ consumers'[c] = NoSession
  BY DEF SameView, SameKnown, Waiting
<1>3. CASE asked[c] = <<>> /\ items = <<<<c, Welcome(c)>>>> /\ flying[c] = <<>>
  <2>1. items' = items
    BY <1>3, SpokenOf DEF SameView, SameItems
  <2>2. Welcome(c)' = Welcome(c)
    BY DEF Welcome
  <2>. QED
    BY <1>1, <1>2, <1>3, <2>1 DEF SameView, Waiting, Welcome
<1>4. CASE Unspoken(c)
  <2>1. Unspoken(c)'
    BY <1>4, SameUnspoken DEF SameView
  <2>. QED
    BY <1>1, <1>2, <1>4, <2>1, SpokenOf DEF SameView, Waiting, Welcome
<1>. QED
  BY <1>3, <1>4 DEF Waiting

LEMMA SameOrders ==
    ASSUME NEW c, NEW e \in Element, SameCall(c), SameSaid(c), flying'[c] = flying[c]
    PROVE  /\ Describes(c)' <=> Describes(c)
           /\ CallKept(c)' <=> CallKept(c)
           /\ ChainOrder(c)' <=> ChainOrder(c)
           /\ FlyingOrder(c, e)' <=> FlyingOrder(c, e)
           /\ Offered(c, e)' <=> Offered(c, e)
           /\ NoCandidate(c, e)' <=> NoCandidate(c, e)
<1>1. Describes(c)' <=> Describes(c)
  BY DEF SameCall, Describes
<1>2. CallKept(c)' <=> CallKept(c)
  BY DEF SameCall, CallKept
<1>3. ChainOrder(c)' <=> ChainOrder(c)
  BY DEF SameCall, ChainOrder
<1>4. FlyingOrder(c, e)' <=> FlyingOrder(c, e)
  BY <1>1 DEF FlyingOrder
<1>5. Offered(c, e)' <=> Offered(c, e)
  BY <1>1 DEF Offered
<1>6. NoCandidate(c, e)' <=> NoCandidate(c, e)
  BY DEF SameCall, NoCandidate
<1>. QED
  BY <1>1, <1>2, <1>3, <1>4, <1>5, <1>6

LEMMA ViewKeepsTalking ==
    ASSUME NEW c, NEW e \in Element, SameView(c), Talking(c, e)
    PROVE  Talking(c, e)'
<1> USE DEF SameView
<1>1. Partnered(c, e)'
  BY DEF SameKnown, SameSaid, Talking, Partnered
<1>2. CallKept(c)' /\ FlyingOrder(c, e)' /\ ChainOrder(c)'
  BY SameOrders DEF Talking
<1>3. Said(e, c, "offer")' <=> Said(e, c, "offer")
  BY DEF SameSaid, Saying
<1>4. Said(e, c, "ice")' <=> Said(e, c, "ice")
  BY DEF SameSaid, Saying
<1>5. CASE Unspoken(c)
  <2>1. Unspoken(c)' /\ (OfferToSay(c, e) \/ OfferSaid(c, e))
    BY <1>5, SameUnspoken, SpokenOf DEF Talking, Starting, OfferQueued, IceQueued
  <2>2. OfferToSay(c, e)' \/ OfferSaid(c, e)'
    BY <2>1, <1>3, <1>4, SameOrders DEF OfferToSay, OfferSaid
  <2>. QED
    BY <1>1, <1>2, <2>2 DEF Talking
<1>6. CASE ~Unspoken(c)
  <2>1. items' = items
    BY <1>6 DEF SameItems
  <2>2. Starting(c, e)' \/ OfferQueued(c, e)' \/ IceQueued(c, e)'
    BY <1>3, <1>6, <2>1, SameBlank, SameOrders
    DEF Talking, OfferToSay, OfferSaid, Starting, OfferQueued, IceQueued
  <2>. QED
    BY <1>1, <1>2, <2>2 DEF Talking
<1>. QED
  BY <1>5, <1>6

LEMMA ViewKeepsSession ==
    ASSUME NEW c \in SessionSocket, target[c] \subseteq Element, SameView(c), SessionInv(c),
           \A e \in target[c] : e \in comings'.came,
           c \in troubled => c \in troubled', Gone(c) => Gone(c)'
    PROVE  SessionInv(c)'
<1>1. Healthy(c) => Healthy(c)'
  BY ViewKeepsUnregistered, ViewKeepsWaiting, ViewKeepsTalking DEF SameView, Healthy
<1>2. target'[c] = target[c] /\ socket'[c] = socket[c] /\ asked'[c] = asked[c]
  BY DEF SameView
<1>. QED
  BY <1>1, <1>2, ViewKeepsUnregistered DEF SessionInv

LEMMA TargetType ==
    ASSUME Sound, NEW c \in SessionSocket
    PROVE  /\ target[c] \subseteq Element
           /\ \A e \in target[c] : target[c] = {e}
<1>1. target[c] = NoSession \/ \E e \in Element : target[c] = Some(e)
  BY DEF Sound, PageTypes
<1>. QED
  BY <1>1 DEF NoSession, Some

\* An element that came and is gone does not come back, trouble does not end.
LEMMA GoneStays ==
    ASSUME Sound, Roles, Roles', [PageNext]_allVars, NEW c \in SessionSocket,
           \A e \in target[c] : e \in comings.came, target'[c] = target[c], Gone(c)
    PROVE  Gone(c)'
<1>1. PICK e \in target[c] : ~IsProducer(e)
  BY DEF Gone
<1>2. e \in comings.left
  BY <1>1 DEF Roles, IsProducer
<1>3. e \in comings'.left
  BY <1>2, ComingsGrow
<1>4. ~IsProducer(e)'
  BY <1>3 DEF Roles, IsProducer
<1>. QED
  BY <1>1, <1>4 DEF Gone

LEMMA TroubleStays ==
    ASSUME [PageNext]_allVars
    PROVE  troubled \subseteq troubled'
<1>1. ASSUME NEW s \in Socket,
             \/ Connect(s) \/ Open(s) \/ Deliver(s) \/ Lose(s) \/ HandleAsked(s) \/ HandleEnd(s)
      PROVE  troubled \subseteq troubled'
  BY <1>1 DEF Connect, Open, Deliver, Lose, HandleAsked, HandleEnd
<1>2. ASSUME NEW c \in SessionSocket,
             \/ Operate(c) \/ Click(c) \/ Refuse(c)
             \/ \E e \in Element, inner \in {"offer", "ice"} : Say(e, c, inner)
             \/ \E e \in Element : EndOf(e, c)
      PROVE  troubled \subseteq troubled'
  BY <1>2 DEF Operate, Click, Refuse, Say, EndOf
<1>3. ASSUME NEW e \in Element, Come(e) \/ LeaveElement(e) PROVE troubled' = troubled
  BY <1>3 DEF Come, LeaveElement
<1>4. CASE Dispatch \/ Crash \/ Restart \/ (\E p : Enter(p)) \/ UNCHANGED allVars
  BY <1>4 DEF Dispatch, Crash, Enter, Restart, allVars, netVars
<1>. QED
  BY <1>1, <1>2, <1>3, <1>4, PageSteps

\* A session's target is chosen once, by the click that takes it into use.
LEMMA TargetStays ==
    ASSUME Sound, [PageNext]_allVars, NEW c \in SessionSocket
    PROVE  \/ Click(c)
           \/ target'[c] = target[c] /\ (socket[c] # "unused" => socket'[c] # "unused")
<1> USE SocketsAreDisjoint
<1>1. socket \in [Socket -> SocketState] /\ c \in Socket
  BY DEF Sound, PageTypes
<1>2. ASSUME NEW d \in SessionSocket, Reset(d)
      PROVE  target' = target /\ (socket[c] # "unused" => socket'[c] # "unused")
  BY <1>1, <1>2 DEF Reset, SocketAfter
<1>3. ASSUME NEW s \in Socket, Deliver(s)
      PROVE  target' = target /\ (socket[c] # "unused" => socket'[c] # "unused")
  BY <1>2, <1>3 DEF Deliver, SessionReads, ReadsPeer, EndsOn, ListenerReads, pageVars
<1>4. ASSUME NEW s \in Socket, Connect(s) \/ Open(s) \/ Lose(s) \/ HandleAsked(s) \/ HandleEnd(s)
      PROVE  target' = target /\ (socket[c] # "unused" => socket'[c] # "unused")
  BY <1>1, <1>4 DEF Connect, Open, Lose, HandleAsked, HandleEnd, SocketAfter, pageVars
<1>5. ASSUME NEW d \in SessionSocket, d # c, Click(d)
      PROVE  target'[c] = target[c] /\ (socket[c] # "unused" => socket'[c] # "unused")
  BY <1>1, <1>5 DEF Click, Sound, PageTypes
<1>6. ASSUME NEW d \in SessionSocket,
             \/ Operate(d) \/ Refuse(d)
             \/ \E e \in Element, inner \in {"offer", "ice"} : Say(e, d, inner)
             \/ \E e \in Element : EndOf(e, d)
      PROVE  target' = target /\ (socket[c] # "unused" => socket'[c] # "unused")
  BY <1>2, <1>6 DEF Operate, Refuse, Say, EndOf, pageVars
<1>7. ASSUME NEW e \in Element, Come(e) \/ LeaveElement(e)
      PROVE  target' = target /\ socket' = socket
  BY <1>7 DEF Come, LeaveElement, pageVars
<1>8. CASE Crash
  BY <1>1, <1>8 DEF Crash, pageVars
<1>9. CASE Dispatch \/ Restart \/ (\E p : Enter(p)) \/ UNCHANGED allVars
  BY <1>9 DEF Dispatch, Enter, Restart, allVars, pageVars, netVars
<1>. QED
  BY <1>3, <1>4, <1>5, <1>6, <1>7, <1>8, <1>9, PageSteps

\* What a session that is not in use, or healthy, is known and told by.
Tended(c) ==
    /\ c \in DOMAIN consumers => consumers[c] \subseteq target[c]
    /\ \A e \in Element, inner \in Saying : Said(e, c, inner) => e \in target[c]

LEMMA HealthyIsTended ==
    ASSUME Sound, NEW c \in SessionSocket, Unregistered(c) \/ Healthy(c)
    PROVE  Tended(c)
<1>1. CASE Unregistered(c)
  BY <1>1 DEF Unregistered, Blank, Tended
<1>2. CASE Waiting(c)
  BY <1>2 DEF Waiting, Blank, Tended, NoSession
<1>3. ASSUME NEW e \in target[c], Talking(c, e) PROVE Tended(c)
  BY <1>3 DEF Talking, Partnered, Tended
<1>. QED
  BY <1>1, <1>2, <1>3 DEF Healthy

\* A departure that is not of the session's producer leaves it alone.
LEMMA OthersLeave ==
    ASSUME Sound, Sound', Roles, NEW c \in SessionSocket, Tended(c),
           items = <<>>, NEW peer \in PeerId, peer # c, peer \notin target[c], RemovePeer(peer)
    PROVE  SameKnown(c) /\ SameItems(c)
<1>1. ~InSession(peer, c)
  <2>1. SUFFICES ASSUME InSession(peer, c) PROVE FALSE
    OBVIOUS
  <2>2. c \in DOMAIN consumers /\ consumers[c] = {peer}
    BY <2>1 DEF Sound, HandlerInv, SessionsAgree, InSession, IsProducer, IsConsumer, Some
  <2>. QED
    BY <2>2 DEF Tended
<1>2. c \notin SessionsEnded(peer)
  BY <1>1 DEF InSession, SessionsEnded, IsProducer
<1>3. SameKnown(c)
  BY <1>2 DEF RemovePeer, Without, ConsumersFreed, SameKnown
<1>4. \A i \in DOMAIN items' :
         \/ items'[i][2] = ProducerRemoved(peer, MetaOf(peer)) /\ items'[i][1] \in listeners
         \/ /\ items'[i][2] = EndSessionMsg(peer)
            /\ InSession(peer, items'[i][1]) \/ items'[i][1] \in DOMAIN producers
  BY RemoveDoes
<1>5. c \notin listeners /\ c \notin DOMAIN producers
  BY SocketsAreDisjoint DEF Roles, Sound, PageTypes
<1>6. \A m : ProducerRemoved(peer, m) # StartSessionMsg(c) /\ EndSessionMsg(peer) # StartSessionMsg(c)
  BY DEF ProducerRemoved, StartSessionMsg, EndSessionMsg
<1>7. Unspoken(c)'
  BY <1>1, <1>4, <1>5, <1>6 DEF Unspoken
<1>8. Unspoken(c)
  BY DEF Unspoken
<1>. QED
  BY <1>3, <1>7, <1>8 DEF SameItems

\* One item that is not the session's.
LEMMA OthersQueue ==
    ASSUME NEW c, items = <<>>, NEW to, NEW msg, items' = <<<<to, msg>>>>,
           to # c, msg # StartSessionMsg(c)
    PROVE  SameItems(c)
BY DEF SameItems, Unspoken

\* The messages that start no session.
LEMMA OthersStartNothing ==
    ASSUME NEW c
    PROVE  /\ \A p, r, m, i : /\ Registered(r, p, m) # StartSessionMsg(c)
                              /\ ProducerAdded(p, m) # StartSessionMsg(c)
                              /\ PeerMsg(p, i) # StartSessionMsg(c)
           /\ \A s : StartSessionMsg(s) = StartSessionMsg(c) => s = c
           /\ ErrorMsg # StartSessionMsg(c) /\ ListMsg # StartSessionMsg(c)
<1>1. StartSessionMsg(c).type = "startSession"
  BY SessionMessages
<1>. QED
  BY <1>1, SessionMessages

LEMMA OthersAreHandled ==
    ASSUME Sound, Sound', Roles, NEW c \in SessionSocket, Tended(c),
           \/ \E s \in Socket \ {c} : HandleAsked(s) \/ HandleEnd(s)
           \/ \E e \in Element : Come(e) \/ (e \notin target[c] /\ LeaveElement(e))
           \/ \E d \in SessionSocket \ {c}, e \in Element, inner \in {"offer", "ice"} : Say(e, d, inner)
           \/ \E d \in SessionSocket \ {c}, e \in Element : EndOf(e, d)
    PROVE  SameView(c)
<1> USE SocketsAreDisjoint
<1>1. ASSUME NEW s \in Socket \ {c}, HandleAsked(s) PROVE SameView(c)
  <2>1. PICK to, msg :
                 /\ to \in Element \cup {s}
                 /\ items' = <<<<to, msg>>>>
                 /\ to # s => msg = StartSessionMsg(s) \/ msg = PeerMsg(s, "answer")
                 /\ to = s => \/ msg = ErrorMsg \/ msg = ListMsg
                              \/ \E r \in Role : msg = Registered(r, s, NoMeta)
    BY <1>1, AskedQueues
  <2>2. items = <<>> /\ UNCHANGED <<pageVars, up, socket, flying, comings, says, troubled>>
        /\ asked' = [asked EXCEPT ![s] = Tail(@)]
    BY <1>1 DEF HandleAsked
  <2>3. msg # StartSessionMsg(c)
    BY <2>1, OthersStartNothing
  <2>4. SameItems(c)
    BY <2>1, <2>2, <2>3, OthersQueue
  <2>5. SameKnown(c)
    BY <1>1, AskedKnows DEF SameKnown
  <2>. QED
    BY <2>2, <2>4, <2>5 DEF SameView, SameCall, SameSaid, Said, pageVars, Sound, PageTypes
<1>2. ASSUME NEW s \in Socket \ {c}, HandleEnd(s) PROVE SameView(c)
  <2>1. items = <<>> /\ RemovePeer(s) /\ socket' = [socket EXCEPT ![s] = "gone"]
        /\ UNCHANGED <<pageVars, up, asked, flying, comings, says, troubled>>
    BY <1>2 DEF HandleEnd
  <2>2. s \notin target[c]
    BY TargetType
  <2>3. SameKnown(c) /\ SameItems(c)
    BY <2>1, <2>2, OthersLeave
  <2>. QED
    BY <2>1, <2>3 DEF SameView, SameCall, SameSaid, Said, pageVars, Sound, PageTypes
<1>3. ASSUME NEW e \in Element, Come(e) PROVE SameView(c)
  <2>1. /\ consumers' = consumers
        /\ \A i \in DOMAIN items' :
                 \/ items'[i][1] \in listeners /\ items'[i][2] = ProducerAdded(e, NoMeta)
                 \/ items'[i][1] = e /\ items'[i][2] = Registered("producer", e, NoMeta)
    BY <1>3, ComeDoes
  <2>2. Unspoken(c)'
    BY <2>1, OthersStartNothing DEF Unspoken, Roles
  <2>3. items = <<>> /\ UNCHANGED <<pageVars, up, socket, asked, flying, says, troubled>>
    BY <1>3 DEF Come
  <2>4. Unspoken(c)
    BY <2>3 DEF Unspoken
  <2>. QED
    BY <2>1, <2>2, <2>3, <2>4 DEF SameView, SameItems, SameKnown, SameCall, SameSaid, Said, pageVars
<1>4. ASSUME NEW e \in Element, e \notin target[c], LeaveElement(e) PROVE SameView(c)
  <2>1. items = <<>> /\ RemovePeer(e) /\ says' = {t \in says : t[1] # e}
        /\ UNCHANGED <<pageVars, up, socket, asked, flying, troubled>>
    BY <1>4 DEF LeaveElement
  <2>2. SameKnown(c) /\ SameItems(c)
    BY <1>4, <2>1, OthersLeave
  <2>3. SameSaid(c)
    BY <1>4, <2>1 DEF SameSaid, Said, Tended
  <2>. QED
    BY <2>1, <2>2, <2>3 DEF SameView, SameCall, pageVars
<1>5. ASSUME NEW d \in SessionSocket \ {c}, NEW e \in Element, NEW inner \in {"offer", "ice"},
             Say(e, d, inner)
      PROVE  SameView(c)
  <2>1. /\ UNCHANGED peers /\ items = <<>>
        /\ items' = <<<<d, PeerMsg(e, inner)>>>> \/ items' = <<<<e, ErrorMsg>>>>
    BY <1>5, SayDoes
  <2>2. SameItems(c)
    BY <2>1, OthersQueue, OthersStartNothing
  <2>3. /\ says' = says \ {<<e, d, inner>>}
        /\ UNCHANGED <<pageVars, up, socket, asked, flying, comings>>
    BY <1>5 DEF Say
  <2>4. SameSaid(c)
    BY <2>3 DEF SameSaid, Said
  <2>. QED
    BY <2>1, <2>2, <2>3, <2>4 DEF SameView, SameKnown, SameCall, pageVars, peers
<1>6. ASSUME NEW d \in SessionSocket \ {c}, NEW e \in Element, EndOf(e, d) PROVE SameView(c)
  <2>1. /\ DOMAIN consumers' = DOMAIN consumers /\ items = <<>>
        /\ \A x \in DOMAIN consumers : x # d => consumers'[x] = consumers[x]
        /\ items' = <<<<d, EndSessionMsg(e)>>>> \/ items' = <<<<e, ErrorMsg>>>>
    BY <1>6, EndOfDoes
  <2>2. EndSessionMsg(e) # StartSessionMsg(c)
    BY DEF EndSessionMsg, StartSessionMsg
  <2>3. SameItems(c)
    BY <2>1, <2>2, OthersQueue, OthersStartNothing
  <2>4. /\ says' = says \ {<<e, d, "end">>}
        /\ UNCHANGED <<pageVars, up, socket, asked, flying, comings>>
    BY <1>6 DEF EndOf
  <2>5. SameSaid(c)
    BY <2>4 DEF SameSaid, Said
  <2>6. SameKnown(c)
    BY <2>1 DEF SameKnown
  <2>. QED
    BY <2>3, <2>4, <2>5, <2>6 DEF SameView, SameCall, pageVars
<1>. QED
  BY <1>1, <1>2, <1>3, <1>4, <1>5, <1>6

\* An item of the queue that is not the session's, dispatched.
LEMMA OthersDispatch ==
    ASSUME Sound, NEW c \in SessionSocket, Unspoken(c), Dispatch
    PROVE  SameView(c)
<1>1. items \in Seq(Item) /\ items # <<>> /\ items' = Tail(items) /\ UNCHANGED peers
  BY DEF Dispatch, PopItem, Sound, HandlerInv, TypeOK
<1>2. /\ 1 \in DOMAIN items /\ Head(items) = items[1]
      /\ \A i \in DOMAIN items' : i + 1 \in DOMAIN items /\ items'[i] = items[i + 1]
  BY <1>1
<1>3. Unspoken(c)'
  BY <1>2 DEF Unspoken
<1>4. Head(items)[1] # c /\ Head(items)[2] # StartSessionMsg(c) /\ Head(items)[2] \in Message
  BY <1>1, <1>2 DEF Unspoken, Item
<1>5. flying'[c] = flying[c]
  BY <1>4 DEF Dispatch, Sound, PageTypes
<1>6. Head(items)[2].type = "startSession" => Head(items)[2].peer # c
  BY <1>4, FieldsOfMessages
<1>7. SameSaid(c)
  <2>1. \/ says' = says
        \/ /\ Head(items)[2].type = "startSession"
           /\ \E words : says' = says \cup ({Head(items)[1]} \X {Head(items)[2].peer} \X words)
    BY DEF Dispatch
  <2>. QED
    BY <1>6, <2>1 DEF SameSaid, Said
<1>. QED
  BY <1>1, <1>3, <1>5, <1>7
  DEF Dispatch, SameView, SameItems, SameKnown, SameCall, peers, pageVars

\* Steps of the other sockets and sessions that the handler has no part in.
LEMMA OthersStep ==
    ASSUME Sound, NEW c \in SessionSocket,
           \/ \E s \in Socket \ {c} : Connect(s) \/ Open(s) \/ Deliver(s) \/ Lose(s)
           \/ \E d \in SessionSocket \ {c} : Operate(d) \/ Click(d) \/ Refuse(d)
           \/ Restart \/ (\E p : Enter(p)) \/ UNCHANGED allVars
    PROVE  SameView(c)
<1> USE SocketsAreDisjoint
<1>0. ASSUME UNCHANGED vars, says' = says
      PROVE  SameItems(c) /\ SameKnown(c) /\ SameSaid(c)
  <2>1. items' = items /\ consumers' = consumers
    BY <1>0 DEF vars
  <2>2. SameItems(c)
    BY <2>1 DEF SameItems
  <2>3. SameKnown(c)
    BY <2>1 DEF SameKnown
  <2>4. SameSaid(c)
    BY <1>0 DEF SameSaid, Said
  <2>. QED
    BY <2>2, <2>3, <2>4
<1>1. /\ socket \in [Socket -> SocketState] /\ asked = [s \in Socket |-> asked[s]]
      /\ flying \in [Socket -> Seq(Message)] /\ chain \in [SessionSocket -> Seq(Operation)]
      /\ target \in [SessionSocket -> {NoSession} \cup {Some(e) : e \in Element}]
  BY DEF Sound, PageTypes
<1>2. ASSUME NEW request, ListenerSends(request) PROVE asked'[c] = asked[c]
  <2>1. c \notin page.ws
    BY DEF Sound, PageTypes
  <2>. QED
    BY <1>2, <2>1 DEF ListenerSends
<1>3. ASSUME NEW d \in SessionSocket \ {c}, Reset(d)
      PROVE  /\ socket'[c] = socket[c] /\ SameCall(c)
             /\ UNCHANGED <<asked, page, target, described, answered>>
  BY <1>1, <1>3 DEF Reset, SameCall
<1>4. ASSUME NEW s \in Socket \ {c}, Connect(s) PROVE SameView(c)
  BY <1>0, <1>1, <1>4 DEF Connect, SameView, SameCall
<1>5. ASSUME NEW s \in Socket \ {c}, Open(s) PROVE SameView(c)
  <2>1. asked'[c] = asked[c]
    BY <1>1, <1>2, <1>5 DEF Open
  <2>. QED
    BY <1>0, <1>1, <1>5, <2>1 DEF Open, SameView, SameCall, pageVars
<1>6. ASSUME NEW s \in Socket \ {c}, Deliver(s) PROVE SameView(c)
  <2>1. PICK i \in DOMAIN flying[s] :
          /\ flying' = [flying EXCEPT ![s] = RemoveAt(@, i)]
          /\ \/ s \in SessionSocket /\ SessionReads(s, flying[s][i])
             \/ s \in page.attached /\ ListenerReads(flying[s][i])
    BY <1>6 DEF Deliver
  <2>2. UNCHANGED vars /\ says' = says
    BY <1>6 DEF Deliver
  <2>3. flying'[c] = flying[c]
    BY <1>1, <1>6, <2>1
  <2>4. CASE s \in page.attached /\ ListenerReads(flying[s][i])
    <3>1. asked'[c] = asked[c]
      BY <1>2, <2>4 DEF ListenerReads
    <3>. QED
      BY <1>0, <2>2, <2>3, <2>4, <3>1 DEF ListenerReads, SameView, SameCall
  <2>5. CASE s \in SessionSocket /\ SessionReads(s, flying[s][i])
    <3> DEFINE msg == flying[s][i]
    <3>1. CASE msg.type = "registered"
      <4>1. /\ SessionSends(s, "startSession")
            /\ UNCHANGED <<socket, page, target, called, chain, described, answered>>
        BY <2>5, <3>1 DEF SessionReads, EndsOn
      <4>2. asked'[c] = asked[c]
        BY <1>1, <1>6, <4>1 DEF SessionSends
      <4>. QED
        BY <1>0, <2>2, <2>3, <4>1, <4>2 DEF SameView, SameCall
    <3>2. CASE EndsOn(msg)
      <4>1. Reset(s)
        BY <2>5, <3>2 DEF SessionReads, EndsOn
      <4>. QED
        BY <1>0, <1>3, <1>6, <2>2, <2>3, <2>5, <4>1 DEF SameView
    <3>3. CASE msg.type = "peer"
      <4>1. ReadsPeer(s, msg.inner)
        BY <2>5, <3>3 DEF SessionReads, EndsOn
      <4>2. SameCall(c) /\ UNCHANGED <<asked, socket, page, target, answered>>
        BY <1>1, <1>6, <4>1 DEF ReadsPeer, SameCall
      <4>. QED
        BY <1>0, <2>2, <2>3, <4>2 DEF SameView
    <3>4. CASE msg.type # "registered" /\ ~EndsOn(msg) /\ msg.type # "peer"
      BY <1>0, <2>2, <2>3, <2>5, <3>4 DEF SessionReads, SameView, SameCall, pageVars
    <3>. QED
      BY <3>1, <3>2, <3>3, <3>4
  <2>. QED
    BY <2>1, <2>4, <2>5
<1>7. ASSUME NEW s \in Socket \ {c}, Lose(s) PROVE SameView(c)
  BY <1>0, <1>1, <1>7 DEF Lose, SameView, SameCall
<1>8. ASSUME NEW d \in SessionSocket \ {c}, NEW more, ChainAfter(d, more)
      PROVE  chain'[c] = chain[c]
  BY <1>1, <1>8 DEF ChainAfter
<1>9. ASSUME NEW d \in SessionSocket \ {c}, Operate(d) PROVE SameView(c)
  <2>1. UNCHANGED vars /\ says' = says /\ flying' = flying
    BY <1>9 DEF Operate
  <2>2. CASE Reset(d)
    BY <1>0, <1>3, <2>1, <2>2 DEF SameView
  <2>3. CASE Succeeds(d) /\ UNCHANGED <<socket, page, target, called>>
    <3>1. asked'[c] = asked[c]
      BY <1>1, <2>3 DEF Succeeds, SessionSends
    <3>2. chain'[c] = chain[c] /\ ((c \in described') <=> (c \in described))
      BY <1>8, <2>3 DEF Succeeds
    <3>. QED
      BY <1>0, <2>1, <2>3, <3>1, <3>2 DEF SameView, SameCall
  <2>. QED
    BY <1>9, <2>2, <2>3 DEF Operate
<1>10. ASSUME NEW d \in SessionSocket \ {c}, Refuse(d) PROVE SameView(c)
  <2>1. UNCHANGED vars /\ says' = says /\ flying' = flying
    BY <1>10 DEF Refuse
  <2>2. CASE Reset(d)
    BY <1>0, <1>3, <2>1, <2>2 DEF SameView
  <2>3. CASE ChainAfter(d, <<>>) /\ UNCHANGED <<asked, socket, page, target, called, described, answered>>
    BY <1>0, <1>8, <2>1, <2>3 DEF SameView, SameCall
  <2>. QED
    BY <1>10, <2>2, <2>3 DEF Refuse
<1>11. ASSUME NEW d \in SessionSocket \ {c}, Click(d) PROVE SameView(c)
  BY <1>0, <1>1, <1>11 DEF Click, SameView, SameCall
<1>12. CASE Restart \/ (\E p : Enter(p)) \/ UNCHANGED allVars
  BY <1>0, <1>12 DEF Restart, Enter, SameView, SameCall, allVars, vars, pageVars, netVars
<1>. QED
  BY <1>4, <1>5, <1>6, <1>7, <1>9, <1>10, <1>11, <1>12

-----------------------------------------------------------------------------
(* The session's own steps.                                                *)

LEMMA OpenKeepsHealthy ==
    ASSUME Sound, NEW c \in SessionSocket, Healthy(c), Open(c)
    PROVE  Healthy(c)'
<1>1. socket[c] = "connecting" /\ Unregistered(c)
  BY DEF Open, Healthy
<1>2. /\ socket' = [socket EXCEPT ![c] = "open"]
      /\ asked' = [asked EXCEPT ![c] = <<"register">>]
      /\ UNCHANGED <<vars, pageVars, up, flying, comings, says, troubled>>
  BY DEF Open
<1>3. socket'[c] = "open" /\ asked'[c] = <<"register">>
  BY <1>2, SocketsAreDisjoint DEF Sound, PageTypes
<1>4. items' = items /\ consumers' = consumers
  BY <1>2 DEF vars
<1>5. Unspoken(c)' /\ Blank(c)'
  BY <1>1, <1>2, <1>4 DEF Unregistered, Unspoken, Blank, Said, pageVars
<1>6. Unregistered(c)'
  BY <1>1, <1>2, <1>4, <1>5 DEF Unregistered
<1>. QED
  BY <1>3, <1>6 DEF Healthy

\* The handler answers what a healthy session asks as it hopes.
LEMMA AskKeepsHealthy ==
    ASSUME Sound, Roles, NEW c \in SessionSocket, Healthy(c), ~Gone(c), HandleAsked(c)
    PROVE  Healthy(c)'
<1> USE SocketsAreDisjoint
<1>1. /\ items = <<>> /\ asked[c] # <<>> /\ asked' = [asked EXCEPT ![c] = Tail(@)]
      /\ HandleRequest(c, Head(asked[c]))
      /\ UNCHANGED <<pageVars, up, socket, flying, comings, says, troubled>>
  BY DEF HandleAsked
<1>2. asked'[c] = Tail(asked[c]) /\ asked[c] \in Seq(Requests(c)) /\ c \in Socket
  BY <1>1 DEF Sound, PageTypes
<1>3. Blank(c) => Blank(c)'
  BY <1>1 DEF Blank, Said, pageVars
<1>4. CASE asked[c] = <<"register">> /\ Unregistered(c) /\ socket[c] = "open"
  <2>1. RegisterConsumer(c, NoMeta) /\ ~IsConsumer(c)
    BY <1>1, <1>4 DEF HandleRequest, Unregistered, IsConsumer
  <2>2. consumers' = Put(consumers, c, NoSession) /\ items' = <<<<c, Welcome(c)>>>>
    BY <1>1, <2>1 DEF RegisterConsumer, Send, Welcome
  <2>3. c \in DOMAIN consumers' /\ consumers'[c] = NoSession
    BY <2>2 DEF Put
  <2>4. asked'[c] = <<>> /\ flying'[c] = <<>>
    BY <1>1, <1>2, <1>4 DEF Unregistered
  <2>5. Welcome(c)' = Welcome(c)
    BY DEF Welcome
  <2>6. Waiting(c)'
    BY <1>3, <1>4, <2>2, <2>3, <2>4, <2>5 DEF Waiting, Unregistered
  <2>. QED
    BY <1>1, <1>4, <2>6 DEF Healthy
<1>5. CASE Waiting(c) /\ socket[c] = "open"
  <2>1. asked[c] = <<"startSession">> /\ flying[c] = <<>>
    BY <1>1, <1>5 DEF Waiting
  <2>2. PICK e \in target[c] : StartSession(c, e)
    BY <1>1, <2>1 DEF HandleRequest
  <2>3. IsProducer(e) /\ e \in Element /\ target[c] = {e}
    BY <2>2, TargetType DEF Gone
  <2>4. CanStart(c, e)
    BY <1>5, <2>3 DEF CanStart, Waiting, IsConsumer
  <2>5. consumers' = [consumers EXCEPT ![c] = Some(e)] /\ items' = <<<<e, StartSessionMsg(c)>>>>
    BY <1>1, <2>2, <2>4 DEF StartSession, Send
  <2>6. c \in DOMAIN consumers' /\ consumers'[c] = {e}
    BY <1>5, <2>5 DEF Waiting, Some
  <2>7. asked'[c] = <<>> /\ flying'[c] = <<>> /\ Blank(c)'
    BY <1>1, <1>2, <1>3, <1>5, <2>1 DEF Waiting
  <2>8. Partnered(c, e)'
    BY <2>6, <2>7 DEF Partnered, Blank
  <2>9. CallKept(c)' /\ FlyingOrder(c, e)' /\ ChainOrder(c)'
    BY <2>7 DEF CallKept, FlyingOrder, ChainOrder, Blank
  <2>10. Starting(c, e)'
    <3>1. StartSessionMsg(c)' = StartSessionMsg(c)
      BY DEF StartSessionMsg
    <3>. QED
      BY <2>5, <2>7, <3>1 DEF Starting
  <2>11. Talking(c, e)'
    BY <2>8, <2>9, <2>10 DEF Talking
  <2>. QED
    BY <1>1, <1>5, <2>2, <2>11 DEF Healthy, pageVars
<1>6. ASSUME socket[c] = "open", NEW e \in target[c], Talking(c, e) PROVE Healthy(c)'
  <2>1. e \in Element /\ target[c] = {e} /\ e # c
    BY TargetType
  <2>2. Head(asked[c]) = "answer"
    BY <1>1, <1>2, <1>6 DEF Talking, Partnered
  <2>3. PeerMessage(c, e, "answer")
    BY <1>1, <2>1, <2>2 DEF HandleRequest
  <2>4. Forwardable(c, e, "answer")
    BY <1>6 DEF Forwardable, Talking, Partnered, IsConsumer, Some
  <2>5. items' = <<<<e, PeerMsg(c, "answer")>>>> /\ UNCHANGED peers
    BY <1>1, <2>3, <2>4 DEF PeerMessage, Send
  <2>6. SameItems(c)
    BY <1>1, <2>1, <2>5, OthersQueue, OthersStartNothing
  <2>7. Unspoken(c) /\ Unspoken(c)'
    BY <1>1, <2>6, SameUnspoken DEF Unspoken
  <2>8. SameCall(c) /\ SameSaid(c) /\ flying'[c] = flying[c]
    BY <1>1 DEF SameCall, SameSaid, Said, pageVars
  <2>9. \A i \in DOMAIN asked'[c] : asked'[c][i] = "answer"
    BY <1>1, <1>2, <1>6 DEF Talking, Partnered
  <2>10. Partnered(c, e)'
    BY <1>1, <1>6, <2>5, <2>8, <2>9 DEF Talking, Partnered, SameSaid, peers
  <2>11. CallKept(c)' /\ FlyingOrder(c, e)' /\ ChainOrder(c)'
    BY <1>6, <2>1, <2>8, SameOrders DEF Talking
  <2>12. OfferToSay(c, e) \/ OfferSaid(c, e)
    BY <1>6, <2>7, SpokenOf DEF Talking, Starting, OfferQueued, IceQueued
  <2>13. OfferToSay(c, e)' \/ OfferSaid(c, e)'
    BY <2>1, <2>7, <2>8, <2>12, SameOrders DEF OfferToSay, OfferSaid, SameSaid, Saying
  <2>14. Talking(c, e)'
    BY <2>10, <2>11, <2>13 DEF Talking
  <2>. QED
    BY <1>1, <1>6, <2>14 DEF Healthy, pageVars
<1>. QED
  BY <1>1, <1>4, <1>5, <1>6 DEF Healthy

LEMMA SayKeepsHealthy ==
    ASSUME Sound, Roles, NEW c \in SessionSocket, Healthy(c), ~Gone(c), c \notin troubled',
           NEW e \in Element, NEW inner \in {"offer", "ice"}, Say(e, c, inner)
    PROVE  Healthy(c)'
<1> USE SocketsAreDisjoint
<1>1. /\ items = <<>> /\ Said(e, c, inner) /\ says' = says \ {<<e, c, inner>>}
      /\ UNCHANGED <<pageVars, up, socket, asked, flying, comings>>
      /\ inner = "ice" => ~Said(e, c, "offer")
  BY DEF Say, Said
<1>2. UNCHANGED peers
  BY SayDoes
<1>3. ~Blank(c)
  BY <1>1 DEF Blank, Saying
<1>4. PICK d \in target[c] : socket[c] = "open" /\ Talking(c, d)
  BY <1>3 DEF Healthy, Unregistered, Waiting
<1>5. d = e /\ IsProducer(e)
  BY <1>1, <1>4 DEF Talking, Partnered, Saying, Gone
<1>6. c \in producers[e]
  BY <1>4, <1>5
  DEF Sound, HandlerInv, SessionsAgree, InSession, Talking, Partnered
<1>7. items' = <<<<c, PeerMsg(e, inner)>>>>
  BY <1>5, <1>6, SayDoes DEF Forwardable, AsProducer
<1>8. /\ SameCall(c) /\ flying'[c] = flying[c]
      /\ \A f \in Element, i \in Saying : Said(f, c, i)' <=> Said(f, c, i) /\ ~(f = e /\ i = inner)
  BY <1>1 DEF SameCall, Said, pageVars
<1>9. Partnered(c, e)'
  BY <1>1, <1>2, <1>4, <1>5, <1>8 DEF Talking, Partnered, peers
<1>10. /\ Describes(c)' <=> Describes(c)
       /\ CallKept(c)' /\ ChainOrder(c)' /\ FlyingOrder(c, e)'
       /\ Offered(c, e)' <=> Offered(c, e)
       /\ NoCandidate(c, e)' <=> NoCandidate(c, e)
  <2>1. chain'[c] = chain[c] /\ flying'[c] = flying[c] /\ described' = described /\ called' = called
    BY <1>1 DEF pageVars
  <2>. QED
    BY <1>4, <1>5, <2>1
    DEF Talking, Describes, CallKept, ChainOrder, FlyingOrder, Offered, NoCandidate
<1>11. OfferToSay(c, e) \/ OfferSaid(c, e)
  BY <1>1, <1>3, <1>4, <1>5 DEF Talking, Starting, OfferQueued, IceQueued
<1>12. PeerMsg(e, "offer")' = PeerMsg(e, "offer") /\ PeerMsg(e, "ice")' = PeerMsg(e, "ice")
  BY DEF PeerMsg
<1>13. CASE inner = "offer"
  <2>1. OfferToSay(c, e)
    BY <1>1, <1>11, <1>13 DEF OfferSaid
  <2>2. OfferQueued(c, e)'
    BY <1>7, <1>8, <1>10, <1>12, <1>13, <2>1 DEF OfferToSay, OfferQueued, Saying
  <2>3. Talking(c, e)'
    BY <1>9, <1>10, <2>2 DEF Talking
  <2>. QED
    BY <1>1, <1>4, <1>5, <2>3 DEF Healthy, pageVars
<1>14. CASE inner = "ice"
  <2>1. OfferSaid(c, e) /\ Offered(c, e) /\ ~Said(e, c, "offer")
    BY <1>1, <1>11, <1>14 DEF OfferSaid, OfferToSay
  <2>2. IceQueued(c, e)'
    BY <1>7, <1>8, <1>10, <1>12, <1>14, <2>1 DEF IceQueued, Saying
  <2>3. Talking(c, e)'
    BY <1>9, <1>10, <2>2 DEF Talking
  <2>. QED
    BY <1>1, <1>4, <1>5, <2>3 DEF Healthy, pageVars
<1>. QED
  BY <1>13, <1>14

\* The items of the queue that are the session's, dispatched one by one.
LEMMA DispatchKeepsHealthy ==
    ASSUME Sound, NEW c \in SessionSocket, Healthy(c), ~Unspoken(c), c \notin troubled',
           Dispatch
    PROVE  Healthy(c)'
<1> USE SocketsAreDisjoint
<1> DEFINE to == Head(items)[1]
           msg == Head(items)[2]
<1>0. PICK words \in SUBSET {"offer", "ice"} :
      /\ flying' = IF to \in Socket \cap entered /\ socket[to] = "open"
                      THEN [flying EXCEPT ![to] = Append(@, msg)] ELSE flying
      /\ says' = IF to \in Element \cap entered /\ msg.type = "startSession"
                    THEN says \cup ({to} \X {msg.peer} \X (words \cup {"end"})) ELSE says
      /\ troubled' = troubled \cup GoesWithout(to, msg, words)
  BY DEF Dispatch
<1>1. /\ items # <<>> /\ items' = Tail(items) /\ UNCHANGED peers
      /\ UNCHANGED <<pageVars, up, socket, asked, comings>>
  BY DEF Dispatch, PopItem
<1>2. SameCall(c) /\ c \in Socket /\ flying[c] \in Seq(Message)
  BY <1>1 DEF SameCall, pageVars, Sound, PageTypes
<1>3. consumers' = consumers /\ asked' = asked /\ socket' = socket /\ target' = target
  BY <1>1 DEF peers, pageVars
<1>4. ASSUME NEW p, NEW m, items = <<<<p, m>>>>
      PROVE  to = p /\ msg = m /\ items' = <<>>
  BY <1>1, <1>4
<1>5. ASSUME items' = <<>> PROVE Unspoken(c)'
  BY <1>5 DEF Unspoken
<1> HIDE DEF to, msg
<1>6. ASSUME socket[c] = "open", NEW m, items = <<<<c, m>>>>
      PROVE  flying'[c] = Append(flying[c], m) /\ says' = says /\ items' = <<>>
  <2>1. to = c /\ msg = m /\ items' = <<>>
    BY <1>4, <1>6
  <2>. QED
    <3>1. c \in entered
      BY <1>0, <1>2, <2>1, SocketGoesWithout
    <3>2. c \notin Element
      OBVIOUS
    <3>. QED
      BY <1>0, <1>2, <1>6, <2>1, <3>1, <3>2 DEF Sound, PageTypes
<1>7. CASE Waiting(c) /\ socket[c] = "open"
  <2>1. asked[c] = <<>> /\ items = <<<<c, Welcome(c)>>>> /\ flying[c] = <<>>
    BY <1>7 DEF Waiting
  <2>2. flying'[c] = <<Welcome(c)>> /\ says' = says /\ Unspoken(c)'
    BY <1>5, <1>6, <1>7, <2>1
  <2>3. Blank(c)'
    BY <1>2, <1>7, <2>2, SameBlank DEF SameSaid, Said, Waiting
  <2>4. Welcome(c)' = Welcome(c)
    BY DEF Welcome
  <2>5. Waiting(c)'
    BY <1>3, <1>7, <2>1, <2>2, <2>3, <2>4 DEF Waiting
  <2>. QED
    BY <1>3, <1>7, <2>5 DEF Healthy
<1>8. ASSUME socket[c] = "open", NEW e \in target[c], Talking(c, e) PROVE Healthy(c)'
  <2>1. e \in Element /\ target[c] = {e} /\ e # c
    BY TargetType
  <2>2. SUFFICES Talking(c, e)'
    BY <1>3, <1>8 DEF Healthy
  <2>3. Describes(c)' <=> Describes(c)
    BY <1>2 DEF SameCall, Describes
  <2>4. CallKept(c)' /\ ChainOrder(c)'
    BY <1>2, <1>8 DEF SameCall, CallKept, ChainOrder, Talking
  <2>5. CASE Starting(c, e)
    <3>1. to = e /\ msg = StartSessionMsg(c) /\ items' = <<>>
      BY <1>4, <2>5 DEF Starting
    <3>2. /\ e \in entered /\ "offer" \in words
          /\ says' = says \cup ({e} \X {c} \X (words \cup {"end"})) /\ flying' = flying
      BY <1>0, <2>1, <3>1, SessionMessages DEF GoesWithout
    <3>3. \A f \in Element, i \in Saying : Said(f, c, i)' => f = e
      BY <1>8, <3>2 DEF Talking, Partnered, Said
    <3>4. Said(e, c, "offer")'
      BY <3>2 DEF Said
    <3>5. flying'[c] = <<>> /\ chain'[c] = <<>>
      BY <1>2, <2>5, <3>2 DEF Starting, Blank, SameCall
    <3>6. Partnered(c, e)'
      BY <1>3, <1>8, <3>3, <3>5 DEF Talking, Partnered
    <3>7. FlyingOrder(c, e)' /\ NoCandidate(c, e)'
      BY <3>5 DEF FlyingOrder, NoCandidate
    <3>8. OfferToSay(c, e)'
      BY <1>5, <3>1, <3>4, <3>7 DEF OfferToSay
    <3>. QED
      BY <2>4, <3>6, <3>7, <3>8 DEF Talking
  <2>6. ASSUME NEW inner \in Saying, items = <<<<c, PeerMsg(e, inner)>>>>, ~Said(e, c, "offer")
        PROVE  /\ flying'[c] = Append(flying[c], PeerMsg(e, inner))
               /\ \A i \in DOMAIN flying[c] : i \in DOMAIN flying'[c] /\ flying'[c][i] = flying[c][i]
               /\ \A i \in DOMAIN flying'[c] :
                     \/ i \in DOMAIN flying[c]
                     \/ i = Len(flying[c]) + 1 /\ flying'[c][i] = PeerMsg(e, inner)
               /\ Len(flying[c]) + 1 \in DOMAIN flying'[c]
               /\ Partnered(c, e)' /\ Unspoken(c)'
               /\ \A i \in Saying : Said(e, c, i)' <=> Said(e, c, i)
    <3>1. flying'[c] = Append(flying[c], PeerMsg(e, inner)) /\ says' = says /\ items' = <<>>
      BY <1>6, <1>8, <2>6
    <3>2. /\ \A i \in DOMAIN flying[c] : i \in DOMAIN flying'[c] /\ flying'[c][i] = flying[c][i]
          /\ \A i \in DOMAIN flying'[c] :
                     \/ i \in DOMAIN flying[c]
                     \/ i = Len(flying[c]) + 1 /\ flying'[c][i] = PeerMsg(e, inner)
          /\ Len(flying[c]) + 1 \in DOMAIN flying'[c]
      BY <1>2, <3>1
    <3>3. \A i \in DOMAIN flying'[c] : flying'[c][i] \in {PeerMsg(e, "offer"), PeerMsg(e, "ice")}
      BY <1>8, <2>6, <3>2 DEF Talking, Partnered, Saying
    <3>4. Partnered(c, e)'
      <4>1. PeerMsg(e, "offer")' = PeerMsg(e, "offer") /\ PeerMsg(e, "ice")' = PeerMsg(e, "ice")
        BY DEF PeerMsg
      <4>. QED
        BY <1>3, <1>8, <3>1, <3>3, <4>1 DEF Talking, Partnered, Said
    <3>. QED
      BY <1>5, <3>1, <3>2, <3>4 DEF Said
  <2>7. PeerMsg(e, "offer") # PeerMsg(e, "ice")
    <3>1. PeerMsg(e, "offer").inner = "offer" /\ PeerMsg(e, "ice").inner = "ice"
      BY DEF PeerMsg
    <3>. QED
      BY <3>1
  <2>8. CASE OfferQueued(c, e)
    <3> DEFINE n == Len(flying[c]) + 1
    <3>1. /\ \A i \in DOMAIN flying[c] : i \in DOMAIN flying'[c] /\ flying'[c][i] = flying[c][i]
          /\ \A i \in DOMAIN flying'[c] :
                     i \in DOMAIN flying[c] \/ (i = n /\ flying'[c][i] = PeerMsg(e, "offer"))
          /\ n \in DOMAIN flying'[c]
          /\ Partnered(c, e)' /\ Unspoken(c)' /\ ~Said(e, c, "offer")'
      BY <2>6, <2>8 DEF OfferQueued, Saying
    <3>2. \A i \in DOMAIN flying'[c] : flying'[c][i] # PeerMsg(e, "ice")
      BY <2>7, <2>8, <3>1 DEF OfferQueued, NoCandidate
    <3>3. FlyingOrder(c, e)'
      BY <3>2 DEF FlyingOrder
    <3>4. flying'[c][n] = PeerMsg(e, "offer")
      BY <1>2, <3>1
    <3>5. Offered(c, e)'
      BY <3>1, <3>4 DEF Offered
    <3>6. OfferSaid(c, e)'
      BY <3>1, <3>5 DEF OfferSaid
    <3>. QED
      BY <2>4, <3>1, <3>3, <3>6 DEF Talking
  <2>9. CASE IceQueued(c, e)
    <3> DEFINE n == Len(flying[c]) + 1
    <3>1. /\ \A i \in DOMAIN flying[c] : i \in DOMAIN flying'[c] /\ flying'[c][i] = flying[c][i]
          /\ \A i \in DOMAIN flying'[c] :
                     i \in DOMAIN flying[c] \/ (i = n /\ flying'[c][i] = PeerMsg(e, "ice"))
          /\ Partnered(c, e)' /\ Unspoken(c)' /\ ~Said(e, c, "offer")'
      BY <2>6, <2>9 DEF IceQueued, Saying
    <3>2. Describes(c) \/ \E i \in DOMAIN flying[c] : flying[c][i] = PeerMsg(e, "offer")
      BY <2>9 DEF IceQueued, Offered
    <3>3. Offered(c, e)'
      BY <2>3, <3>1, <3>2 DEF Offered
    <3>4. ASSUME NEW j \in DOMAIN flying'[c], flying'[c][j] = PeerMsg(e, "ice")
          PROVE  Describes(c) \/ \E i \in 1..(j - 1) : flying'[c][i] = PeerMsg(e, "offer")
      <4>1. CASE j \in DOMAIN flying[c]
        <5>1. Describes(c) \/ \E i \in 1..(j - 1) : flying[c][i] = PeerMsg(e, "offer")
          BY <1>8, <3>1, <3>4, <4>1 DEF Talking, FlyingOrder
        <5>2. \A i \in 1..(j - 1) : i \in DOMAIN flying[c]
          BY <1>2, <4>1
        <5>. QED
          BY <3>1, <5>1, <5>2
      <4>2. CASE j = n
        <5>1. \A i \in DOMAIN flying[c] : i \in 1..(j - 1)
          BY <1>2, <4>2
        <5>. QED
          BY <3>1, <3>2, <5>1
      <4>. QED
        BY <3>1, <3>4, <4>1, <4>2
    <3>5. FlyingOrder(c, e)'
      BY <2>3, <3>4 DEF FlyingOrder
    <3>6. OfferSaid(c, e)'
      BY <3>1, <3>3 DEF OfferSaid
    <3>. QED
      BY <2>4, <3>1, <3>5, <3>6 DEF Talking
  <2>. QED
    BY <1>8, <2>5, <2>8, <2>9 DEF Talking, OfferToSay, OfferSaid
<1>. QED
  BY <1>7, <1>8 DEF Healthy, Unregistered

\* A session in talks reads the offer or the candidate that is its next.
LEMMA ReadKeepsTalking ==
    ASSUME Sound, NEW c \in SessionSocket, NEW e \in target[c], Talking(c, e), e \in Element,
           flying[c] # <<>>, flying'[c] = RemoveAt(flying[c], 1),
           NEW inner \in {"offer", "ice"}, flying[c][1] = PeerMsg(e, inner), ReadsPeer(c, inner),
           UNCHANGED <<vars, says>>
    PROVE  Talking(c, e)'
<1> USE SocketsAreDisjoint
<1> DEFINE op == IF inner = "offer" THEN "setRemote" ELSE "addCandidate"
<1>1. c \in Socket /\ flying[c] \in Seq(Message) /\ chain[c] \in Seq(Operation)
  BY DEF Sound, PageTypes
<1>2. /\ 1 \in DOMAIN flying[c] /\ Len(flying[c]) \in Nat
      /\ DOMAIN flying[c] = 1..Len(flying[c]) /\ DOMAIN chain[c] = 1..Len(chain[c])
      /\ Len(chain[c]) \in Nat
  BY <1>1
<1>3. /\ DOMAIN flying'[c] = 1..(Len(flying[c]) - 1)
      /\ \A k \in DOMAIN flying'[c] : flying'[c][k] = flying[c][k + 1]
  <2>1. /\ RemoveAt(flying[c], 1) \in Seq(Message)
        /\ Len(RemoveAt(flying[c], 1)) = Len(flying[c]) - 1
        /\ \A k \in 1..(Len(flying[c]) - 1) :
              RemoveAt(flying[c], 1)[k] = IF k < 1 THEN flying[c][k] ELSE flying[c][k + 1]
    BY <1>1, <1>2, RemoveAtType
  <2>2. PICK q : q = flying'[c]
    OBVIOUS
  <2>3. /\ q \in Seq(Message) /\ Len(q) = Len(flying[c]) - 1
        /\ \A k \in 1..(Len(flying[c]) - 1) : q[k] = flying[c][k + 1]
    BY <1>2, <2>1, <2>2
  <2>4. DOMAIN q = 1..(Len(flying[c]) - 1)
    BY <2>3
  <2>. QED
    BY <2>2, <2>3, <2>4
<1>4. CallKept(c) /\ FlyingOrder(c, e) /\ ChainOrder(c) /\ Partnered(c, e)
  BY DEF Talking
<1>5. /\ chain'[c] = Append(chain[c], op) /\ c \in called'
      /\ c \in described' <=> c \in described
      /\ asked' = asked
  <2>1. c \notin called => chain[c] = <<>> /\ c \notin described
    BY <1>4 DEF CallKept
  <2>. QED
    BY <2>1 DEF ReadsPeer, NeedsCall, Sound, PageTypes
<1>6. /\ DOMAIN chain'[c] = 1..(Len(chain[c]) + 1)
      /\ \A k \in DOMAIN chain[c] : k \in DOMAIN chain'[c] /\ chain'[c][k] = chain[c][k]
      /\ chain'[c][Len(chain[c]) + 1] = op
  BY <1>1, <1>2, <1>5
<1>7. PeerMsg(e, "offer") # PeerMsg(e, "ice")
  <2>1. PeerMsg(e, "offer").inner = "offer" /\ PeerMsg(e, "ice").inner = "ice"
    BY DEF PeerMsg
  <2>. QED
    BY <2>1
<1>8. PeerMsg(e, "offer")' = PeerMsg(e, "offer") /\ PeerMsg(e, "ice")' = PeerMsg(e, "ice")
  BY DEF PeerMsg
<1>9. Describes(c) => Describes(c)'
  BY <1>5, <1>6 DEF Describes
<1>10. inner = "offer" => Describes(c)'
  BY <1>2, <1>6 DEF Describes
<1>11. items' = items /\ consumers' = consumers
  BY DEF vars
<1>12. Partnered(c, e)'
  <2>1. \A k \in DOMAIN flying'[c] : k + 1 \in DOMAIN flying[c] /\ flying'[c][k] = flying[c][k + 1]
    BY <1>2, <1>3
  <2>2. \A k \in DOMAIN flying'[c] : flying'[c][k] \in {PeerMsg(e, "offer"), PeerMsg(e, "ice")}
    BY <1>4, <2>1 DEF Partnered
  <2>. QED
    BY <1>4, <1>5, <1>8, <1>11, <2>2 DEF Partnered, Said
<1>13. CallKept(c)'
  BY <1>5 DEF CallKept
<1>14. ASSUME NEW i \in DOMAIN flying[c], flying[c][i] = PeerMsg(e, "offer")
       PROVE  \/ Describes(c)'
              \/ i - 1 \in DOMAIN flying'[c] /\ flying'[c][i - 1] = PeerMsg(e, "offer")
  <2>1. CASE i = 1
    <3>1. inner = "offer"
      BY <1>7, <1>14, <2>1
    <3>. QED
      BY <1>10, <3>1
  <2>2. CASE i # 1
    <3>1. i - 1 \in DOMAIN flying'[c] /\ (i - 1) + 1 = i
      BY <1>2, <1>3, <1>14, <2>2
    <3>2. flying'[c][i - 1] = flying[c][(i - 1) + 1]
      BY <1>3, <3>1
    <3>. QED
      BY <1>14, <3>1, <3>2
  <2>. QED
    BY <2>1, <2>2
<1>15. Offered(c, e) => Offered(c, e)'
  BY <1>8, <1>9, <1>14 DEF Offered
<1> HIDE DEF op
<1>16. FlyingOrder(c, e)'
  <2>1. SUFFICES ASSUME NEW j \in DOMAIN flying'[c], flying'[c][j] = PeerMsg(e, "ice"), ~Describes(c)'
                 PROVE  \E i \in 1..(j - 1) : flying'[c][i] = PeerMsg(e, "offer")
    BY <1>8 DEF FlyingOrder
  <2>2. j + 1 \in DOMAIN flying[c] /\ flying[c][j + 1] = PeerMsg(e, "ice") /\ ~Describes(c)
    BY <1>2, <1>3, <1>9, <2>1
  <2>3. PICK i \in 1..((j + 1) - 1) : flying[c][i] = PeerMsg(e, "offer")
    BY <1>4, <2>2 DEF FlyingOrder
  <2>4. i \in DOMAIN flying[c] /\ i - 1 <= j - 1
    BY <1>2, <1>3, <2>1, <2>3
  <2>5. i - 1 \in DOMAIN flying'[c] /\ flying'[c][i - 1] = PeerMsg(e, "offer")
    BY <1>14, <2>1, <2>3, <2>4
  <2>6. i - 1 \in 1..(j - 1)
    BY <1>2, <1>3, <2>1, <2>4, <2>5
  <2>. QED
    BY <2>5, <2>6
<1>17. inner = "ice" => Describes(c)
  <2>1. ASSUME inner = "ice"
        PROVE  Describes(c) \/ \E i \in 1..(1 - 1) : flying[c][i] = PeerMsg(e, "offer")
    BY <1>2, <1>4, <2>1 DEF FlyingOrder
  <2>. QED
    BY <2>1
<1>18. ChainOrder(c)'
  <2>1. SUFFICES ASSUME NEW j \in DOMAIN chain'[c], chain'[c][j] = "addCandidate", c \notin described
                 PROVE  \E i \in 1..(j - 1) : chain'[c][i] = "setRemote"
    BY <1>5 DEF ChainOrder
  <2>2. CASE j \in DOMAIN chain[c]
    <3>1. PICK i \in 1..(j - 1) : chain[c][i] = "setRemote"
      BY <1>4, <1>6, <2>1, <2>2 DEF ChainOrder
    <3>2. i \in DOMAIN chain[c]
      BY <1>2, <2>2, <3>1
    <3>. QED
      BY <1>6, <3>1, <3>2
  <2>3. CASE j = Len(chain[c]) + 1
    <3>1. inner = "ice"
      BY <1>6, <2>1, <2>3 DEF op
    <3>2. PICK i \in DOMAIN chain[c] : chain[c][i] = "setRemote"
      BY <1>17, <2>1, <3>1 DEF Describes
    <3>3. i \in 1..(j - 1)
      BY <1>2, <2>3, <3>2
    <3>. QED
      BY <1>6, <3>2, <3>3
  <2>. QED
    BY <1>2, <1>6, <2>2, <2>3
<1>19. NoCandidate(c, e) => NoCandidate(c, e)'
  <2>1. SUFFICES ASSUME NoCandidate(c, e) PROVE NoCandidate(c, e)'
    OBVIOUS
  <2>2. inner = "offer"
    BY <1>2, <2>1 DEF NoCandidate
  <2>3. \A k \in DOMAIN flying'[c] : flying'[c][k] # PeerMsg(e, "ice")
    <3>1. \A k \in DOMAIN flying'[c] : k + 1 \in DOMAIN flying[c] /\ flying'[c][k] = flying[c][k + 1]
      BY <1>2, <1>3
    <3>. QED
      BY <2>1, <3>1 DEF NoCandidate
  <2>4. \A k \in DOMAIN chain'[c] : chain'[c][k] # "addCandidate"
    <3>1. \A k \in DOMAIN chain'[c] : k \in DOMAIN chain[c] \/ k = Len(chain[c]) + 1
      BY <1>2, <1>6
    <3>. QED
      BY <1>6, <2>1, <2>2, <3>1 DEF NoCandidate, op
  <2>. QED
    BY <1>8, <2>3, <2>4 DEF NoCandidate
<1>20. (Unspoken(c)' <=> Unspoken(c)) /\ \A i \in Saying : Said(e, c, i)' <=> Said(e, c, i)
  BY <1>11 DEF Unspoken, Said
<1>21. OfferToSay(c, e) \/ OfferQueued(c, e) \/ OfferSaid(c, e) \/ IceQueued(c, e)
  BY DEF Talking, Starting
<1>22. OfferToSay(c, e)' \/ OfferQueued(c, e)' \/ OfferSaid(c, e)' \/ IceQueued(c, e)'
  BY <1>8, <1>11, <1>15, <1>19, <1>20, <1>21
  DEF OfferToSay, OfferQueued, OfferSaid, IceQueued, Saying
<1>. QED
  BY <1>12, <1>13, <1>16, <1>18, <1>22 DEF Talking

\* A message that reaches a healthy session in its turn.
LEMMA DeliverKeepsHealthy ==
    ASSUME Sound, NEW c \in SessionSocket, Healthy(c), c \notin troubled', Deliver(c)
    PROVE  Healthy(c)'
<1> USE SocketsAreDisjoint
<1>1. PICK i \in DOMAIN flying[c] :
          /\ flying' = [flying EXCEPT ![c] = RemoveAt(@, i)]
          /\ troubled' = IF i > 1 THEN troubled \cup {c} ELSE troubled
          /\ SessionReads(c, flying[c][i])
  BY DEF Deliver, Sound, PageTypes
<1>2. flying[c] \in Seq(Message) /\ c \in Socket
  BY DEF Sound, PageTypes
<1>3. i = 1
  BY <1>1, <1>2
<1>4. flying'[c] = RemoveAt(flying[c], 1) /\ SessionReads(c, flying[c][1]) /\ flying[c] # <<>>
  BY <1>1, <1>2, <1>3 DEF Sound, PageTypes
<1>5. UNCHANGED <<vars, says>>
  BY DEF Deliver
<1>6. items' = items /\ consumers' = consumers
  BY <1>5 DEF vars
<1>7. CASE Waiting(c) /\ socket[c] = "open"
  <2>1. asked[c] = <<>> /\ Unspoken(c) /\ flying[c] = <<Welcome(c)>>
    BY <1>4, <1>7 DEF Waiting
  <2>2. /\ SessionSends(c, "startSession")
        /\ UNCHANGED <<socket, page, target, called, chain, described, answered>>
    BY <1>4, <2>1 DEF SessionReads, EndsOn, Welcome, Registered
  <2>3. asked'[c] = <<"startSession">>
    BY <1>7, <2>1, <2>2 DEF SessionSends, Sound, PageTypes
  <2>4. flying'[c] = <<>>
    <3>1. 1 \in DOMAIN flying[c] /\ Len(flying[c]) = 1
      BY <2>1
    <3>2. RemoveAt(flying[c], 1) \in Seq(Message) /\ Len(RemoveAt(flying[c], 1)) = 0
      BY <1>2, <3>1, RemoveAtType
    <3>. QED
      BY <1>4, <3>2
  <2>5. Blank(c)' /\ Unspoken(c)'
    BY <1>5, <1>6, <1>7, <2>1, <2>2 DEF Waiting, Blank, Unspoken, Said
  <2>6. Waiting(c)'
    BY <1>6, <1>7, <2>3, <2>4, <2>5 DEF Waiting
  <2>. QED
    BY <1>7, <2>2, <2>6 DEF Healthy
<1>8. ASSUME socket[c] = "open", NEW e \in target[c], Talking(c, e) PROVE Healthy(c)'
  <2>1. e \in Element
    BY TargetType
  <2>2. 1 \in DOMAIN flying[c]
    BY <1>2, <1>4
  <2>3. PICK inner \in {"offer", "ice"} : flying[c][1] = PeerMsg(e, inner)
    BY <1>8, <2>2 DEF Talking, Partnered
  <2>4. flying[c][1].type = "peer" /\ flying[c][1].inner = inner
    BY <2>3 DEF PeerMsg
  <2>5. ReadsPeer(c, inner)
    BY <1>4, <2>4 DEF SessionReads, EndsOn
  <2>6. Talking(c, e)'
    BY <1>4, <1>5, <1>8, <2>1, <2>3, <2>5, ReadKeepsTalking
  <2>. QED
    BY <1>8, <2>5, <2>6 DEF Healthy, ReadsPeer
<1>. QED
  BY <1>4, <1>7, <1>8 DEF Healthy, Unregistered

\* A peer connection in talks does its next operation, which succeeds.
LEMMA OperateKeepsTalking ==
    ASSUME Sound, NEW c \in SessionSocket, NEW e \in target[c], Talking(c, e), e \in Element,
           socket[c] = "open", Operate(c)
    PROVE  Talking(c, e)' /\ socket'[c] = "open" /\ target' = target
<1> USE SocketsAreDisjoint
<1>1. c \in Socket /\ chain[c] \in Seq(Operation) /\ chain[c] # <<>> /\ asked[c] \in Seq(Requests(c))
  BY DEF Operate, Sound, PageTypes
<1>2. /\ 1 \in DOMAIN chain[c] /\ Len(chain[c]) \in Nat /\ DOMAIN chain[c] = 1..Len(chain[c])
      /\ Head(chain[c]) = chain[c][1]
  BY <1>1
<1>3. CallKept(c) /\ FlyingOrder(c, e) /\ ChainOrder(c) /\ Partnered(c, e)
  BY DEF Talking
<1>4. chain[c][1] = "addCandidate" => c \in described
  <2>1. ASSUME chain[c][1] = "addCandidate"
        PROVE  c \in described \/ \E i \in 1..(1 - 1) : chain[c][i] = "setRemote"
    BY <1>2, <1>3, <2>1 DEF ChainOrder
  <2>. QED
    BY <2>1
<1>5. Succeeds(c) /\ UNCHANGED <<socket, page, target, called>>
  BY <1>2, <1>4 DEF Operate
<1>6. UNCHANGED <<vars, flying, says>>
  BY DEF Operate
<1>7. PICK more \in {<<>>, <<"createAnswer">>, <<"setLocal">>} :
         /\ chain' = [chain EXCEPT ![c] = Tail(@) \o more]
         /\ c \in described' <=> c \in described \/ chain[c][1] = "setRemote"
  BY <1>2, <1>5 DEF Succeeds, ChainAfter
<1>8. asked'[c] = asked[c] \/ asked'[c] = Append(asked[c], "answer")
  BY <1>1, <1>5 DEF Succeeds, SessionSends, Sound, PageTypes
<1>9. chain'[c] = Tail(chain[c]) \o more
  BY <1>7 DEF Sound, PageTypes
<1>10. /\ DOMAIN chain'[c] \subseteq Nat
       /\ \A k \in DOMAIN chain[c] : k # 1 =>
             k - 1 \in DOMAIN chain'[c] /\ chain'[c][k - 1] = chain[c][k]
       /\ \A k \in DOMAIN chain'[c] :
             \/ k + 1 \in DOMAIN chain[c] /\ chain'[c][k] = chain[c][k + 1]
             \/ chain'[c][k] \in {"createAnswer", "setLocal"}
  <2> DEFINE rest == Tail(chain[c])
  <2>1. rest \in Seq(Operation) /\ Len(rest) = Len(chain[c]) - 1
        /\ \A k \in 1..(Len(chain[c]) - 1) : rest[k] = chain[c][k + 1]
    BY <1>1
  <2>2. more \in Seq(Operation) /\ \A k \in 1..Len(more) : more[k] \in {"createAnswer", "setLocal"}
    <3>1. CASE more = <<>>
      BY <3>1
    <3>2. ASSUME NEW op \in {"createAnswer", "setLocal"}, more = <<op>>
          PROVE  more \in Seq(Operation) /\ \A k \in 1..Len(more) : more[k] = op
      <4>1. op \in Operation
        BY DEF Operation
      <4>. QED
        BY <3>2, <4>1
    <3>. QED
      BY <3>1, <3>2
  <2>3. chain'[c] = rest \o more
    BY <1>9
  <2> HIDE DEF rest
  <2>4. /\ Len(rest) \in Nat /\ Len(more) \in Nat
        /\ DOMAIN chain'[c] = 1..(Len(rest) + Len(more))
        /\ \A k \in 1..(Len(rest) + Len(more)) :
              chain'[c][k] = IF k <= Len(rest) THEN rest[k] ELSE more[k - Len(rest)]
    <3>1. rest \in Seq(Operation) /\ more \in Seq(Operation)
      BY <2>1, <2>2
    <3>. QED
      BY <2>3, <3>1
  <2>5. ASSUME NEW k \in DOMAIN chain[c], k # 1
        PROVE  k - 1 \in DOMAIN chain'[c] /\ chain'[c][k - 1] = chain[c][k]
    <3>1. k - 1 \in 1..(Len(chain[c]) - 1) /\ (k - 1) + 1 = k
      BY <1>2, <2>5
    <3>2. k - 1 \in 1..(Len(rest) + Len(more)) /\ k - 1 <= Len(rest)
      BY <1>2, <2>1, <2>4, <3>1
    <3>3. rest[k - 1] = chain[c][(k - 1) + 1]
      BY <2>1, <3>1
    <3>4. chain'[c][k - 1] = rest[k - 1]
      BY <2>4, <3>2
    <3>. QED
      BY <2>4, <3>1, <3>2, <3>3, <3>4
  <2>6. ASSUME NEW k \in DOMAIN chain'[c]
        PROVE  \/ k + 1 \in DOMAIN chain[c] /\ chain'[c][k] = chain[c][k + 1]
               \/ chain'[c][k] \in {"createAnswer", "setLocal"}
    <3>1. CASE k <= Len(rest)
      <4>1. k \in 1..(Len(chain[c]) - 1) /\ k + 1 \in DOMAIN chain[c]
        BY <1>2, <2>1, <2>4, <3>1
      <4>2. chain'[c][k] = rest[k] /\ rest[k] = chain[c][k + 1]
        BY <2>1, <2>4, <3>1, <4>1
      <4>. QED
        BY <4>1, <4>2
    <3>2. CASE ~(k <= Len(rest))
      <4>1. k - Len(rest) \in 1..Len(more) /\ chain'[c][k] = more[k - Len(rest)]
        BY <2>4, <3>2
      <4>. QED
        BY <2>2, <4>1
    <3>. QED
      BY <3>1, <3>2
  <2>. QED
    BY <2>4, <2>5, <2>6
<1>11. Describes(c) => Describes(c)'
  <2>1. CASE c \in described
    BY <1>7, <2>1 DEF Describes
  <2>2. ASSUME NEW i \in DOMAIN chain[c], chain[c][i] = "setRemote" PROVE Describes(c)'
    <3>1. CASE i = 1
      BY <1>7, <2>2, <3>1 DEF Describes
    <3>2. CASE i # 1
      BY <1>10, <2>2, <3>2 DEF Describes
    <3>. QED
      BY <3>1, <3>2
  <2>. QED
    BY <2>1, <2>2 DEF Describes
<1>12. flying'[c] = flying[c] /\ items' = items /\ consumers' = consumers
  BY <1>6 DEF vars
<1>13. PeerMsg(e, "offer")' = PeerMsg(e, "offer") /\ PeerMsg(e, "ice")' = PeerMsg(e, "ice")
  BY DEF PeerMsg
<1>14. Partnered(c, e)'
  <2>1. \A i \in DOMAIN asked'[c] : asked'[c][i] = "answer"
    BY <1>1, <1>3, <1>8 DEF Partnered
  <2>. QED
    BY <1>3, <1>6, <1>12, <1>13, <2>1 DEF Partnered, Said
<1>15. CallKept(c)'
  BY <1>1, <1>3, <1>5 DEF CallKept
<1>16. FlyingOrder(c, e)'
  BY <1>3, <1>11, <1>12, <1>13 DEF FlyingOrder
<1>17. ChainOrder(c)'
  <2>1. SUFFICES ASSUME NEW j \in DOMAIN chain'[c], chain'[c][j] = "addCandidate", c \notin described'
                 PROVE  \E i \in 1..(j - 1) : chain'[c][i] = "setRemote"
    BY DEF ChainOrder
  <2>2. j + 1 \in DOMAIN chain[c] /\ chain[c][j + 1] = "addCandidate" /\ j \in Nat
    BY <1>10, <2>1
  <2>3. c \notin described /\ chain[c][1] # "setRemote"
    BY <1>7, <2>1
  <2>4. PICK i \in 1..((j + 1) - 1) : chain[c][i] = "setRemote"
    BY <1>3, <2>2, <2>3 DEF ChainOrder
  <2>5. i \in DOMAIN chain[c] /\ i # 1 /\ i - 1 \in 1..(j - 1)
    <3>1. i # 1
      BY <2>3, <2>4
    <3>. QED
      BY <1>2, <2>2, <2>4, <3>1
  <2>6. chain'[c][i - 1] = "setRemote"
    BY <1>10, <2>4, <2>5
  <2>. QED
    BY <2>5, <2>6
<1>18. NoCandidate(c, e) => NoCandidate(c, e)'
  <2>1. SUFFICES ASSUME NoCandidate(c, e) PROVE NoCandidate(c, e)'
    OBVIOUS
  <2>2. \A k \in DOMAIN chain'[c] : chain'[c][k] # "addCandidate"
    BY <1>10, <2>1 DEF NoCandidate
  <2>. QED
    BY <1>12, <1>13, <2>1, <2>2 DEF NoCandidate
<1>19. Offered(c, e) => Offered(c, e)'
  BY <1>11, <1>12, <1>13 DEF Offered
<1>20. (Unspoken(c)' <=> Unspoken(c)) /\ \A i \in Saying : Said(e, c, i)' <=> Said(e, c, i)
  BY <1>6, <1>12 DEF Unspoken, Said
<1>21. OfferToSay(c, e) \/ OfferQueued(c, e) \/ OfferSaid(c, e) \/ IceQueued(c, e)
  BY <1>1 DEF Talking, Starting, Blank
<1>22. OfferToSay(c, e)' \/ OfferQueued(c, e)' \/ OfferSaid(c, e)' \/ IceQueued(c, e)'
  BY <1>12, <1>13, <1>18, <1>19, <1>20, <1>21
  DEF OfferToSay, OfferQueued, OfferSaid, IceQueued, Saying
<1>23. Talking(c, e)'
  BY <1>14, <1>15, <1>16, <1>17, <1>22 DEF Talking
<1>. QED
  BY <1>5, <1>23

LEMMA OperateKeepsHealthy ==
    ASSUME Sound, NEW c \in SessionSocket, Healthy(c), Operate(c)
    PROVE  Healthy(c)'
<1>1. chain[c] # <<>>
  BY DEF Operate
<1>2. PICK e \in target[c] : socket[c] = "open" /\ Talking(c, e)
  BY <1>1 DEF Healthy, Unregistered, Waiting, Blank
<1>3. e \in Element
  BY TargetType
<1>4. Talking(c, e)' /\ socket'[c] = "open" /\ target' = target
  BY <1>2, <1>3, OperateKeepsTalking
<1>. QED
  BY <1>4 DEF Healthy

-----------------------------------------------------------------------------
(* Every step keeps every session.                                         *)

\* A step is one that the session does not see, or one of its own.
LEMMA StepOfSession ==
    ASSUME Sound, Sound', Roles, NEW c \in SessionSocket, Tended(c), [PageNext]_allVars
    PROVE  \/ SameView(c)
           \/ Click(c) \/ Refuse(c) \/ Operate(c)
           \/ Open(c) \/ Deliver(c) \/ Lose(c) \/ HandleAsked(c) \/ HandleEnd(c)
           \/ \E e \in Element, inner \in {"offer", "ice"} : Say(e, c, inner)
           \/ \E e \in Element : EndOf(e, c)
           \/ Dispatch /\ ~Unspoken(c)
           \/ \E e \in target[c] : e \in Element /\ LeaveElement(e)
           \/ Crash
<1>1. ~Connect(c)
  BY SocketsAreDisjoint DEF Connect
<1>2. CASE Dispatch /\ Unspoken(c)
  BY <1>2, OthersDispatch
<1>3. CASE Restart \/ (\E p : Enter(p)) \/ UNCHANGED allVars
  BY <1>3, OthersStep
<1>4. ASSUME NEW s \in Socket \ {c},
             \/ Connect(s) \/ Open(s) \/ Deliver(s) \/ Lose(s) \/ HandleAsked(s) \/ HandleEnd(s)
      PROVE  SameView(c)
  <2>1. CASE Connect(s) \/ Open(s) \/ Deliver(s) \/ Lose(s)
    BY <2>1, OthersStep
  <2>2. CASE HandleAsked(s) \/ HandleEnd(s)
    BY <2>2, OthersAreHandled
  <2>. QED
    BY <1>4, <2>1, <2>2
<1>5. \/ Dispatch \/ Crash \/ Restart \/ (\E p : Enter(p)) \/ UNCHANGED allVars
      \/ \E s \in Socket : \/ Connect(s) \/ Open(s) \/ Deliver(s) \/ Lose(s)
                           \/ HandleAsked(s) \/ HandleEnd(s)
      \/ \E d \in SessionSocket :
            \/ Operate(d) \/ Click(d) \/ Refuse(d)
            \/ \E e \in Element, inner \in {"offer", "ice"} : Say(e, d, inner)
            \/ \E e \in Element : EndOf(e, d)
      \/ \E e \in Element : Come(e) \/ LeaveElement(e)
  BY PageSteps
<1>6. ASSUME NEW d \in SessionSocket \ {c},
             \/ Operate(d) \/ Click(d) \/ Refuse(d)
             \/ \E e \in Element, inner \in {"offer", "ice"} : Say(e, d, inner)
             \/ \E e \in Element : EndOf(e, d)
      PROVE  SameView(c)
  <2>1. CASE Operate(d) \/ Click(d) \/ Refuse(d)
    BY <2>1, OthersStep
  <2>2. CASE \/ \E e \in Element, inner \in {"offer", "ice"} : Say(e, d, inner)
             \/ \E e \in Element : EndOf(e, d)
    BY <2>2, OthersAreHandled
  <2>. QED
    BY <1>6, <2>1, <2>2
<1>7. ASSUME NEW e \in Element, Come(e) \/ (e \notin target[c] /\ LeaveElement(e))
      PROVE  SameView(c)
  BY <1>7, OthersAreHandled
<1>8. ASSUME NEW s \in Socket,
             \/ Connect(s) \/ Open(s) \/ Deliver(s) \/ Lose(s) \/ HandleAsked(s) \/ HandleEnd(s)
      PROVE  SameView(c) \/ Open(c) \/ Deliver(c) \/ Lose(c) \/ HandleAsked(c) \/ HandleEnd(c)
  <2>1. CASE s = c
    BY <1>1, <1>8, <2>1
  <2>2. CASE s # c
    BY <1>4, <1>8, <2>2
  <2>. QED
    BY <2>1, <2>2
<1>9. ASSUME NEW d \in SessionSocket,
             \/ Operate(d) \/ Click(d) \/ Refuse(d)
             \/ \E e \in Element, inner \in {"offer", "ice"} : Say(e, d, inner)
             \/ \E e \in Element : EndOf(e, d)
      PROVE  \/ SameView(c) \/ Operate(c) \/ Click(c) \/ Refuse(c)
             \/ \E e \in Element, inner \in {"offer", "ice"} : Say(e, c, inner)
             \/ \E e \in Element : EndOf(e, c)
  <2>1. CASE d = c
    BY <1>9, <2>1
  <2>2. CASE d # c
    BY <1>6, <1>9, <2>2
  <2>. QED
    BY <2>1, <2>2
<1>10. ASSUME NEW e \in Element, Come(e) \/ LeaveElement(e)
       PROVE  SameView(c) \/ \E f \in target[c] : f \in Element /\ LeaveElement(f)
  BY <1>7, <1>10
<1>. QED
  BY <1>2, <1>3, <1>5, <1>8, <1>9, <1>10

\* A session that is not in use: a user opens it, or nothing happens to it.
LEMMA UnusedIsKept ==
    ASSUME Sound, Sound', Roles, ShownCame, NEW c \in SessionSocket, SessionInv(c),
           socket[c] = "unused", [PageNext]_allVars
    PROVE  SessionInv(c)'
<1> USE SocketsAreDisjoint
<1>1. target[c] = NoSession /\ asked[c] = <<>> /\ Unregistered(c)
  BY DEF SessionInv
<1>2. Tended(c)
  BY <1>1, HealthyIsTended
<1>3. CASE SameView(c)
  <2>1. socket'[c] = "unused" /\ target'[c] = NoSession /\ asked'[c] = <<>> /\ Unregistered(c)'
    BY <1>1, <1>3, ViewKeepsUnregistered DEF SameView
  <2>. QED
    BY <2>1 DEF SessionInv, NoSession
<1>4. CASE Click(c)
  <2>1. PICK e \in Element : page.entries[e] > 0 /\ target' = [target EXCEPT ![c] = Some(e)]
    BY <1>4 DEF Click
  <2>2. e \in comings.came
    BY <2>1 DEF ShownCame
  <2>3. /\ socket' = [socket EXCEPT ![c] = "connecting"]
        /\ UNCHANGED <<vars, page, called, chain, described, answered, up, asked,
                       flying, comings, says, troubled>>
    BY <1>4 DEF Click
  <2>4. socket'[c] = "connecting" /\ target'[c] = {e} /\ asked'[c] = <<>> /\ comings' = comings
    BY <1>1, <2>1, <2>3 DEF Sound, PageTypes, Some
  <2>5. Unregistered(c)'
    BY <1>1, <2>3 DEF Unregistered, Unspoken, Blank, Said, vars
  <2>6. Healthy(c)'
    BY <2>4, <2>5 DEF Healthy
  <2>. QED
    BY <2>2, <2>4, <2>6 DEF SessionInv, NoSession
<1>5. CASE Crash
  <2>1. /\ socket'[c] = "unused" /\ asked'[c] = <<>> /\ target' = target /\ flying' = flying
        /\ UNCHANGED <<called, described, chain>>
        /\ items' = <<>> /\ consumers' = << >> /\ says' = {}
    BY <1>5 DEF Crash, pageVars
  <2>2. DOMAIN << >> = {}
    OBVIOUS
  <2>3. Unregistered(c)'
    BY <1>1, <2>1, <2>2 DEF Unregistered, Unspoken, Blank, Said
  <2>. QED
    BY <1>1, <2>1, <2>3 DEF SessionInv, NoSession
<1>6. ~Refuse(c) /\ ~Operate(c) /\ ~HandleAsked(c) /\ chain[c] = <<>>
  BY <1>1 DEF Unregistered, Blank, Refuse, Operate, HandleAsked
<1>7. ~Open(c) /\ ~Deliver(c) /\ ~Lose(c) /\ ~HandleEnd(c)
  BY DEF Open, Deliver, Lose, HandleEnd
<1>8. ASSUME NEW e \in Element, NEW inner \in {"offer", "ice"} PROVE ~Say(e, c, inner)
  BY <1>1 DEF Unregistered, Blank, Saying, Said, Say
<1>9. ASSUME NEW e \in Element, EndOf(e, c) PROVE SameView(c)
  <2>1. /\ DOMAIN consumers' = DOMAIN consumers /\ items = <<>> /\ items' = <<<<e, ErrorMsg>>>>
    BY <1>1, <1>9, EndOfDoes DEF Unregistered
  <2>2. SameItems(c)
    BY <2>1, OthersQueue, OthersStartNothing
  <2>3. /\ says' = says \ {<<e, c, "end">>}
        /\ UNCHANGED <<pageVars, up, socket, asked, flying, comings>>
    BY <1>9 DEF EndOf
  <2>4. SameSaid(c)
    BY <2>3 DEF SameSaid, Said, Saying
  <2>5. SameKnown(c)
    BY <1>1, <2>1 DEF SameKnown, Unregistered
  <2>. QED
    BY <2>2, <2>3, <2>4, <2>5 DEF SameView, SameCall, pageVars
<1>10. Unspoken(c) /\ target[c] = {}
  BY <1>1 DEF Unregistered, NoSession
<1>. QED
  BY <1>2, <1>3, <1>4, <1>5, <1>6, <1>7, <1>8, <1>9, <1>10, StepOfSession

\* A healthy session stays so, unless a step troubles it or takes its producer.
LEMMA HealthyIsKept ==
    ASSUME Sound, Sound', Roles, NEW c \in SessionSocket, target[c] # NoSession,
           Healthy(c), ~Gone(c), [PageNext]_allVars, target'[c] = target[c]
    PROVE  c \in troubled' \/ Gone(c)' \/ Healthy(c)'
<1>1. Tended(c)
  BY HealthyIsTended
<1>2. CASE SameView(c)
  <2>1. target[c] \subseteq Element
    BY TargetType
  <2>. QED
    BY <1>2, <2>1, ViewKeepsUnregistered, ViewKeepsWaiting, ViewKeepsTalking DEF SameView, Healthy
<1>3. CASE Refuse(c) \/ Lose(c)
  BY <1>3 DEF Refuse, Lose
<1>4. CASE Operate(c)
  BY <1>4, OperateKeepsHealthy
<1>5. CASE Open(c)
  BY <1>5, OpenKeepsHealthy
<1>6. CASE Deliver(c)
  BY <1>6, DeliverKeepsHealthy
<1>7. CASE HandleAsked(c)
  BY <1>7, AskKeepsHealthy
<1>8. CASE \E e \in Element, inner \in {"offer", "ice"} : Say(e, c, inner)
  BY <1>8, SayKeepsHealthy
<1>9. CASE Dispatch /\ ~Unspoken(c)
  BY <1>9, DispatchKeepsHealthy
<1>10. ASSUME NEW e \in target[c], e \in Element, LeaveElement(e) PROVE Gone(c)'
  <2>1. items = <<>> /\ RemovePeer(e)
    BY <1>10 DEF LeaveElement
  <2>2. e \notin DOMAIN producers'
    BY <1>10, <2>1, RemoveDoes, SocketsAreDisjoint
  <2>. QED
    BY <2>2 DEF Gone, IsProducer
<1>11. CASE Crash
  <2>1. producers' = << >>
    BY <1>11 DEF Crash
  <2>2. DOMAIN << >> = {}
    OBVIOUS
  <2>3. PICK e \in target[c] : TRUE
    BY DEF NoSession
  <2>. QED
    BY <2>1, <2>2, <2>3 DEF Gone, IsProducer
<1>12. ASSUME NEW e \in Element, EndOf(e, c) PROVE c \in troubled'
  BY <1>12 DEF EndOf
<1>13. ~HandleEnd(c) /\ ~Click(c)
  BY DEF Healthy, HandleEnd, Click
<1>. QED
  BY <1>1, <1>2, <1>3, <1>4, <1>5, <1>6, <1>7, <1>8, <1>9, <1>10, <1>11, <1>12, <1>13, StepOfSession

LEMMA PageStepKeepsSessions ==
    ASSUME Sound, Sound', Roles, Roles', ShownCame, SessionsHealthy, [PageNext]_allVars
    PROVE  SessionsHealthy'
<1>1. SUFFICES ASSUME NEW c \in SessionSocket PROVE SessionInv(c)'
  BY DEF SessionsHealthy
<1>2. SessionInv(c)
  BY DEF SessionsHealthy
<1>3. CASE socket[c] = "unused"
  BY <1>2, <1>3, UnusedIsKept
<1>4. CASE socket[c] # "unused"
  <2>1. ~Click(c)
    BY <1>4 DEF Click
  <2>2. target'[c] = target[c] /\ socket'[c] # "unused"
    BY <1>4, <2>1, TargetStays
  <2>3. /\ \A e \in target[c] : e \in comings.came
        /\ target[c] # NoSession /\ (c \in troubled \/ Gone(c) \/ Healthy(c))
    BY <1>2, <1>4 DEF SessionInv
  <2>4. \A e \in target'[c] : e \in comings'.came
    BY <2>2, <2>3, ComingsGrow
  <2>5. c \in troubled' \/ Gone(c)' \/ Healthy(c)'
    <3>1. CASE c \in troubled
      BY <3>1, TroubleStays
    <3>2. CASE Gone(c)
      BY <2>2, <2>3, <3>2, GoneStays
    <3>3. CASE Healthy(c) /\ ~Gone(c)
      BY <2>2, <2>3, <3>3, HealthyIsKept
    <3>. QED
      BY <2>3, <3>1, <3>2, <3>3
  <2>. QED
    BY <2>2, <2>3, <2>4, <2>5 DEF SessionInv
<1>. QED
  BY <1>3, <1>4

\* What the page shows came, and every session is unused, healthy, or excused.
Excused ==
    /\ Sound /\ Roles
    /\ ItemsAnnounced /\ FlyingAnnounced /\ ShownCame
    /\ SessionsHealthy

LEMMA InitExcused == PageInit => Excused
<1>. SUFFICES ASSUME PageInit PROVE Excused
  OBVIOUS
<1>1. Sound
  BY InitPage DEF Sound
<1>2. DOMAIN << >> = {}
  OBVIOUS
<1>3. Roles
  BY <1>2 DEF PageInit, Init, Roles
<1>4. ItemsAnnounced /\ FlyingAnnounced
  BY <1>2 DEF PageInit, Init, ItemsAnnounced, FlyingAnnounced
<1>5. ShownCame
  BY DEF PageInit, NoEntries, ShownCame
<1>6. ASSUME NEW c \in SessionSocket PROVE SessionInv(c)
  <2>1. /\ socket[c] = "unused" /\ asked[c] = <<>> /\ flying[c] = <<>>
        /\ target[c] = NoSession /\ chain[c] = <<>>
    BY SocketsAreDisjoint DEF PageInit
  <2>2. Unregistered(c)
    BY <1>2, <2>1 DEF PageInit, Init, Unregistered, Unspoken, Blank, Said
  <2>. QED
    BY <2>1, <2>2 DEF SessionInv, NoSession
<1>. QED
  BY <1>1, <1>3, <1>4, <1>5, <1>6 DEF Excused, SessionsHealthy

LEMMA StepKeepsExcused ==
    ASSUME Excused, [PageNext]_allVars
    PROVE  Excused'
<1> USE DEF Excused
<1>1. Sound'
  BY PageStepKeepsHandler, PageStepKeepsTypes, PageStepKeepsOne DEF Sound, HandlerInv
<1>2. Roles'
  BY <1>1, PageStepKeepsRoles
<1>3. ItemsAnnounced' /\ FlyingAnnounced' /\ ShownCame'
  BY <1>1, <1>2, PageStepKeepsItems, PageStepKeepsFlying, PageStepKeepsShown
<1>4. SessionsHealthy'
  BY <1>1, <1>2, PageStepKeepsSessions
<1>. QED
  BY <1>1, <1>2, <1>3, <1>4

LEMMA ExcusedHolds == PageSpec => []Excused
<1>1. Excused /\ [PageNext]_allVars => Excused'
  BY StepKeepsExcused
<1>. QED
  BY <1>1, InitExcused, PTL DEF PageSpec

(* A session that its producer offered and did not end, whose messages     *)
(* came all and in their order, which no network cut and whose offer the   *)
(* browser took, is over only if its producer has left, be it for however  *)
(* many sessions, producers and crashes: the handler sends it no error, no *)
(* endSession and no candidate before the offer.                           *)
THEOREM OnlyTroubleAlwaysEnds == PageSpec => []OnlyTroubleEnds
<1>1. Excused => OnlyTroubleEnds
  <2>. SUFFICES ASSUME Excused, NEW c \in SessionSocket, Over(c)
                PROVE  c \in troubled \/ \E e \in target[c] : ~IsProducer(e)
    BY DEF OnlyTroubleEnds
  <2>1. SessionInv(c) /\ socket[c] # "unused" /\ ~Healthy(c)
    BY DEF Excused, SessionsHealthy, Over, Healthy
  <2>. QED
    BY <2>1 DEF SessionInv, Gone
<1>. QED
  BY <1>1, ExcusedHolds, PTL

-----------------------------------------------------------------------------
(* The catalogue.  What a listener has still to read is in an order: what  *)
(* is underway to it, and then the item that the handler has for it.  The  *)
(* list is the base of what it shows or will show, and each producer that  *)
(* came or left after the list was made has its announcements behind it.   *)

Silent(s) == \A i \in DOMAIN items : items[i][1] # s

\* q is what the socket s has still to read.
Awaits(s, q) ==
    \/ Silent(s) /\ q = flying[s]
    \/ \E i \in DOMAIN items :
          /\ items[i][1] = s /\ \A k \in DOMAIN items : items[k][1] = s => k = i
          /\ q = Append(flying[s], items[i][2])

About(msg, e) == msg.type \in {"producerAdded", "producerRemoved"} /\ msg.peer = e

\* What q has about e behind its place n: nothing, one announcement, or that it
\* came and then that it left.
NoneAfter(q, n, e) == \A i \in DOMAIN q : i > n => ~About(q[i], e)
OneAfter(q, n, e, type) ==
    \E i \in DOMAIN q :
       /\ i > n /\ q[i].type = type /\ About(q[i], e)
       /\ \A k \in DOMAIN q : k > n /\ k # i => ~About(q[k], e)
BothAfter(q, n, e) ==
    \E i, j \in DOMAIN q :
       /\ n < i /\ i < j /\ About(q[i], e) /\ About(q[j], e)
       /\ q[i].type = "producerAdded" /\ q[j].type = "producerRemoved"
       /\ \A k \in DOMAIN q : k > n /\ k # i /\ k # j => ~About(q[k], e)

Standing(e) == IF e \notin comings.came THEN "expected"
               ELSE IF IsProducer(e) THEN "here" ELSE "left"

\* base entries for e, with what q has behind n, come to what e's standing is.
Follows(q, n, e, base, standing) ==
    \/ standing = "expected" /\ base = 0 /\ NoneAfter(q, n, e)
    \/ standing = "here" /\ base = 1 /\ NoneAfter(q, n, e)
    \/ standing = "here" /\ base = 0 /\ OneAfter(q, n, e, "producerAdded")
    \/ standing = "left" /\ base = 0 /\ NoneAfter(q, n, e)
    \/ standing = "left" /\ base = 1 /\ OneAfter(q, n, e, "producerRemoved")
    \/ standing = "left" /\ base = 0 /\ BothAfter(q, n, e)

Only(q, n, type) == \A i \in DOMAIN q : i # n => q[i].type # type

\* A registered listener: it is to learn that, has asked for the list, is to
\* read the list, or has read it.
ToRegister(s, q) ==
    /\ asked[s] = <<>> /\ Only(q, 0, "list")
    /\ \E n \in DOMAIN q : q[n].type = "registered" /\ Only(q, n, "registered")
ToList(s, q) == asked[s] = <<"list">> /\ Only(q, 0, "list") /\ Only(q, 0, "registered")
ToRead(s, q) ==
    /\ asked[s] = <<>> /\ Only(q, 0, "registered")
    /\ \E n \in DOMAIN q :
          /\ q[n].type = "list" /\ Only(q, n, "list")
          /\ \A e \in Element : Follows(q, n, e, EntriesOfList(q[n])[e], Standing(e))
Shows(s, q) ==
    /\ asked[s] = <<>> /\ Only(q, 0, "list") /\ Only(q, 0, "registered")
    /\ \A e \in Element : Follows(q, 0, e, page.entries[e], Standing(e))

Catalogued(s, q) == ToRegister(s, q) \/ ToList(s, q) \/ ToRead(s, q) \/ Shows(s, q)

ListenerInv(s) ==
    /\ socket[s] \in {"unused", "connecting"} =>
          s \notin listeners /\ asked[s] = <<>> /\ flying[s] = <<>> /\ Silent(s)
    /\ socket[s] = "open" /\ s \notin troubled =>
          \/ asked[s] = <<"register">> /\ s \notin listeners /\ flying[s] = <<>> /\ Silent(s)
          \/ s \in listeners /\ \E q \in Seq(Message) : Awaits(s, q) /\ Catalogued(s, q)

ListenersFollow == \A s \in ListenerSocket : ListenerInv(s)

\* Appending a message, and taking the first.
LEMMA AppendPlaces ==
    ASSUME NEW S, NEW q \in Seq(S), NEW m \in S
    PROVE  /\ Append(q, m) \in Seq(S) /\ Len(q) \in Nat /\ DOMAIN q = 1..Len(q)
           /\ DOMAIN Append(q, m) = 1..(Len(q) + 1)
           /\ \A k \in DOMAIN q : k \in DOMAIN Append(q, m) /\ Append(q, m)[k] = q[k]
           /\ Append(q, m)[Len(q) + 1] = m
OBVIOUS

LEMMA TailPlaces ==
    ASSUME NEW S, NEW q \in Seq(S), q # <<>>
    PROVE  /\ Tail(q) \in Seq(S) /\ Len(q) \in Nat /\ DOMAIN q = 1..Len(q) /\ 1 \in DOMAIN q
           /\ DOMAIN Tail(q) = 1..(Len(q) - 1)
           /\ \A k \in DOMAIN Tail(q) :
                 k \in Nat /\ k >= 1 /\ k + 1 \in DOMAIN q /\ Tail(q)[k] = q[k + 1]
           /\ \A k \in DOMAIN q : k # 1 => k - 1 \in DOMAIN Tail(q) /\ Tail(q)[k - 1] = q[k]
<1>1. /\ Tail(q) \in Seq(S) /\ Len(q) \in Nat /\ DOMAIN q = 1..Len(q) /\ 1 \in DOMAIN q
      /\ Len(Tail(q)) = Len(q) - 1 /\ DOMAIN Tail(q) = 1..(Len(q) - 1)
      /\ \A k \in 1..(Len(q) - 1) : Tail(q)[k] = q[k + 1]
  OBVIOUS
<1>2. ASSUME NEW k \in DOMAIN Tail(q)
      PROVE  k \in Nat /\ k >= 1 /\ k + 1 \in DOMAIN q /\ Tail(q)[k] = q[k + 1]
  BY <1>1
<1>3. ASSUME NEW k \in DOMAIN q, k # 1
      PROVE  k - 1 \in DOMAIN Tail(q) /\ Tail(q)[k - 1] = q[k]
  <2>1. k - 1 \in DOMAIN Tail(q) /\ (k - 1) + 1 = k
    BY <1>1, <1>3
  <2>2. Tail(q)[k - 1] = q[(k - 1) + 1]
    BY <1>1, <2>1
  <2>. QED
    BY <2>1, <2>2
<1>. QED
  BY <1>1, <1>2, <1>3

\* A message that is not about e changes nothing behind the base.
LEMMA FollowsOthers ==
    ASSUME NEW S, NEW q \in Seq(S), NEW m \in S, NEW n, NEW e, NEW base, NEW standing,
           ~About(m, e), Follows(q, n, e, base, standing)
    PROVE  Follows(Append(q, m), n, e, base, standing)
<1> DEFINE r == Append(q, m)
<1>1. /\ \A k \in DOMAIN q : k \in DOMAIN r /\ r[k] = q[k]
      /\ \A k \in DOMAIN r : k \in DOMAIN q \/ r[k] = m
  <2>1. \A k \in DOMAIN r : k \in DOMAIN q \/ k = Len(q) + 1
    BY AppendPlaces
  <2>. QED
    BY <2>1, AppendPlaces
<1> HIDE DEF r
<1>2. NoneAfter(q, n, e) => NoneAfter(r, n, e)
  BY <1>1 DEF NoneAfter
<1>3. \A type : OneAfter(q, n, e, type) => OneAfter(r, n, e, type)
  BY <1>1 DEF OneAfter
<1>4. BothAfter(q, n, e) => BothAfter(r, n, e)
  <2>1. SUFFICES ASSUME BothAfter(q, n, e) PROVE BothAfter(r, n, e)
    OBVIOUS
  <2>2. PICK i \in DOMAIN q, j \in DOMAIN q :
           /\ n < i /\ i < j /\ About(q[i], e) /\ About(q[j], e)
           /\ q[i].type = "producerAdded" /\ q[j].type = "producerRemoved"
           /\ \A k \in DOMAIN q : k > n /\ k # i /\ k # j => ~About(q[k], e)
    BY <2>1 DEF BothAfter
  <2>. QED
    BY <1>1, <2>2 DEF BothAfter
<1>5. Follows(r, n, e, base, standing)
  BY <1>2, <1>3, <1>4 DEF Follows
<1>. QED
  BY <1>5 DEF r

\* The announcement of a producer that comes, ...
LEMMA FollowsComing ==
    ASSUME NEW S, NEW q \in Seq(S), NEW m \in S, NEW n \in Nat, n <= Len(q), NEW e, NEW base,
           About(m, e), m.type = "producerAdded", Follows(q, n, e, base, "expected")
    PROVE  Follows(Append(q, m), n, e, base, "here")
<1> DEFINE r == Append(q, m)
           l == Len(q) + 1
<1>1. /\ l \in DOMAIN r /\ l > n /\ r[l] = m
      /\ \A k \in DOMAIN r : k # l => k \in DOMAIN q /\ r[k] = q[k]
  BY AppendPlaces
<1>2. base = 0 /\ NoneAfter(q, n, e)
  BY DEF Follows
<1> HIDE DEF r, l
<1>3. OneAfter(r, n, e, "producerAdded")
  BY <1>1, <1>2 DEF OneAfter, NoneAfter
<1>4. Follows(r, n, e, base, "here")
  BY <1>2, <1>3 DEF Follows
<1>. QED
  BY <1>4 DEF r

\* ... and of one that leaves.
LEMMA FollowsLeaving ==
    ASSUME NEW S, NEW q \in Seq(S), NEW m \in S, NEW n \in Nat, n <= Len(q), NEW e, NEW base,
           About(m, e), m.type = "producerRemoved", Follows(q, n, e, base, "here")
    PROVE  Follows(Append(q, m), n, e, base, "left")
<1> DEFINE r == Append(q, m)
           l == Len(q) + 1
<1>1. /\ l \in DOMAIN r /\ l > n /\ r[l] = m
      /\ \A k \in DOMAIN r : k # l => k \in DOMAIN q /\ r[k] = q[k]
      /\ \A k \in DOMAIN q : k \in DOMAIN r /\ r[k] = q[k] /\ k < l /\ k # l
  BY AppendPlaces
<1> HIDE DEF r, l
<1>2. CASE base = 1 /\ NoneAfter(q, n, e)
  <2>1. OneAfter(r, n, e, "producerRemoved")
    BY <1>1, <1>2 DEF OneAfter, NoneAfter
  <2>2. Follows(r, n, e, base, "left")
    BY <1>2, <2>1 DEF Follows
  <2>. QED
    BY <2>2 DEF r
<1>3. CASE base = 0 /\ OneAfter(q, n, e, "producerAdded")
  <2>1. PICK i \in DOMAIN q :
           /\ i > n /\ q[i].type = "producerAdded" /\ About(q[i], e)
           /\ \A k \in DOMAIN q : k > n /\ k # i => ~About(q[k], e)
    BY <1>3 DEF OneAfter
  <2>2. i \in DOMAIN r /\ r[i] = q[i] /\ i < l /\ n < i
    BY <1>1, <2>1, AppendPlaces
  <2>3. \A k \in DOMAIN r : k > n /\ k # i /\ k # l => ~About(r[k], e)
    BY <1>1, <2>1
  <2>4. BothAfter(r, n, e)
    BY <1>1, <2>1, <2>2, <2>3 DEF BothAfter
  <2>5. Follows(r, n, e, base, "left")
    BY <1>3, <2>4 DEF Follows
  <2>. QED
    BY <2>5 DEF r
<1>. QED
  BY <1>2, <1>3 DEF Follows

\* Taking the first message, which is not about e or is not behind the base.
LEMMA FollowsShifted ==
    ASSUME NEW S, NEW q \in Seq(S), q # <<>>, NEW n \in Nat, NEW m \in Nat,
           NEW e, NEW base, NEW standing, Follows(q, n, e, base, standing),
           \/ n = m + 1
           \/ n = 0 /\ m = 0 /\ ~About(q[1], e)
    PROVE  Follows(Tail(q), m, e, base, standing)
<1> DEFINE r == Tail(q)
<1>1. /\ \A k \in DOMAIN r : k + 1 \in DOMAIN q /\ r[k] = q[k + 1] /\ (k > m <=> k + 1 > n) /\ k \in Nat
      /\ \A k \in DOMAIN q : /\ k \in Nat
                             /\ k # 1 => k - 1 \in DOMAIN r /\ r[k - 1] = q[k]
                             /\ k > n /\ About(q[k], e) => k # 1 /\ k - 1 > m
  <2>1. ASSUME NEW k \in DOMAIN r
        PROVE  k + 1 \in DOMAIN q /\ r[k] = q[k + 1] /\ (k > m <=> k + 1 > n) /\ k \in Nat
    <3>1. k \in Nat /\ k >= 1 /\ k + 1 \in DOMAIN q /\ r[k] = q[k + 1]
      BY TailPlaces
    <3>. QED
      BY <3>1
  <2>2. ASSUME NEW k \in DOMAIN q
        PROVE  /\ k \in Nat
               /\ k # 1 => k - 1 \in DOMAIN r /\ r[k - 1] = q[k]
               /\ k > n /\ About(q[k], e) => k # 1 /\ k - 1 > m
    <3>1. k \in Nat /\ k >= 1 /\ (k # 1 => k - 1 \in DOMAIN r /\ r[k - 1] = q[k])
      BY TailPlaces
    <3>2. ASSUME k > n, About(q[k], e) PROVE k # 1 /\ k - 1 > m
      BY <3>1, <3>2
    <3>. QED
      BY <3>1, <3>2
  <2>. QED
    BY <2>1, <2>2
<1> HIDE DEF r
<1>2. NoneAfter(q, n, e) => NoneAfter(r, m, e)
  BY <1>1 DEF NoneAfter
<1>3. ASSUME NEW type, OneAfter(q, n, e, type) PROVE OneAfter(r, m, e, type)
  <2>1. PICK i \in DOMAIN q :
           /\ i > n /\ q[i].type = type /\ About(q[i], e)
           /\ \A k \in DOMAIN q : k > n /\ k # i => ~About(q[k], e)
    BY <1>3 DEF OneAfter
  <2>2. i - 1 \in DOMAIN r /\ r[i - 1] = q[i] /\ i - 1 > m /\ i \in Nat
    BY <1>1, <2>1
  <2>3. ASSUME NEW k \in DOMAIN r, k > m, k # i - 1 PROVE ~About(r[k], e)
    <3>2. k \in Nat
      BY <1>1, <2>3
    <3>1. k + 1 # i
      BY <2>2, <2>3, <3>2
    <3>. QED
      BY <1>1, <2>1, <2>3, <3>1
  <2>. QED
    BY <2>1, <2>2, <2>3 DEF OneAfter
<1>4. ASSUME BothAfter(q, n, e) PROVE BothAfter(r, m, e)
  <2>1. PICK i \in DOMAIN q, j \in DOMAIN q :
           /\ n < i /\ i < j /\ About(q[i], e) /\ About(q[j], e)
           /\ q[i].type = "producerAdded" /\ q[j].type = "producerRemoved"
           /\ \A k \in DOMAIN q : k > n /\ k # i /\ k # j => ~About(q[k], e)
    BY <1>4 DEF BothAfter
  <2>2. i - 1 \in DOMAIN r /\ r[i - 1] = q[i] /\ m < i - 1 /\ i \in Nat
    BY <1>1, <2>1
  <2>3. j > n /\ j \in Nat
    BY <1>1, <2>1
  <2>4. j - 1 \in DOMAIN r /\ r[j - 1] = q[j] /\ i - 1 < j - 1
    BY <1>1, <2>1, <2>2, <2>3
  <2>5. ASSUME NEW k \in DOMAIN r, k > m, k # i - 1, k # j - 1 PROVE ~About(r[k], e)
    <3>2. k \in Nat
      BY <1>1, <2>5
    <3>1. k + 1 # i /\ k + 1 # j
      BY <2>2, <2>3, <2>5, <3>2
    <3>. QED
      BY <1>1, <2>1, <2>5, <3>1
  <2>. QED
    BY <2>1, <2>2, <2>4, <2>5 DEF BothAfter
<1>5. Follows(r, m, e, base, standing)
  BY <1>2, <1>3, <1>4 DEF Follows
<1>. QED
  BY <1>5 DEF r

\* The first message taken with the base at the front: it changes the base as
\* the page changes its entries.
LEMMA FollowsRead ==
    ASSUME NEW S, NEW q \in Seq(S), q # <<>>, NEW e, NEW base, NEW standing,
           Follows(q, 0, e, base, standing)
    PROVE  /\ ~About(q[1], e) => Follows(Tail(q), 0, e, base, standing)
           /\ About(q[1], e) /\ q[1].type = "producerAdded" =>
                 base = 0 /\ Follows(Tail(q), 0, e, 1, standing)
           /\ About(q[1], e) /\ q[1].type = "producerRemoved" =>
                 base = 1 /\ Follows(Tail(q), 0, e, 0, standing)
<1> DEFINE r == Tail(q)
<1>1. ~About(q[1], e) => Follows(Tail(q), 0, e, base, standing)
  BY FollowsShifted
<1>2. /\ 1 \in DOMAIN q /\ r \in Seq(S)
      /\ \A k \in DOMAIN r : k + 1 \in DOMAIN q /\ r[k] = q[k + 1] /\ k > 0 /\ k + 1 # 1 /\ k \in Nat
      /\ \A k \in DOMAIN q : /\ k \in Nat /\ k >= 1 /\ k > 0
                             /\ k # 1 => k - 1 \in DOMAIN r /\ r[k - 1] = q[k] /\ k - 1 > 0
  <2>1. ASSUME NEW k \in DOMAIN r
        PROVE  k + 1 \in DOMAIN q /\ r[k] = q[k + 1] /\ k > 0 /\ k + 1 # 1 /\ k \in Nat
    <3>1. k \in Nat /\ k >= 1 /\ k + 1 \in DOMAIN q /\ r[k] = q[k + 1]
      BY TailPlaces
    <3>. QED
      BY <3>1
  <2>2. ASSUME NEW k \in DOMAIN q
        PROVE  /\ k \in Nat /\ k >= 1 /\ k > 0
               /\ k # 1 => k - 1 \in DOMAIN r /\ r[k - 1] = q[k] /\ k - 1 > 0
    <3>1. k \in Nat /\ k >= 1 /\ (k # 1 => k - 1 \in DOMAIN r /\ r[k - 1] = q[k])
      BY TailPlaces
    <3>. QED
      BY <3>1
  <2>. QED
    BY <2>1, <2>2, TailPlaces
<1> HIDE DEF r
<1>3. SUFFICES ASSUME About(q[1], e)
               PROVE  /\ q[1].type = "producerAdded" => base = 0 /\ Follows(r, 0, e, 1, standing)
                      /\ q[1].type = "producerRemoved" => base = 1 /\ Follows(r, 0, e, 0, standing)
  BY <1>1 DEF r
<1>4. ~NoneAfter(q, 0, e)
  BY <1>2, <1>3 DEF NoneAfter
<1>5. ASSUME NEW type, OneAfter(q, 0, e, type)
      PROVE  q[1].type = type /\ NoneAfter(r, 0, e)
  <2>1. PICK i \in DOMAIN q :
           /\ i > 0 /\ q[i].type = type /\ About(q[i], e)
           /\ \A k \in DOMAIN q : k > 0 /\ k # i => ~About(q[k], e)
    BY <1>5 DEF OneAfter
  <2>2. i = 1
    BY <1>2, <1>3, <2>1
  <2>. QED
    BY <1>2, <2>1, <2>2 DEF NoneAfter
<1>6. ASSUME BothAfter(q, 0, e)
      PROVE  q[1].type = "producerAdded" /\ OneAfter(r, 0, e, "producerRemoved")
  <2>1. PICK i \in DOMAIN q, j \in DOMAIN q :
           /\ 0 < i /\ i < j /\ About(q[i], e) /\ About(q[j], e)
           /\ q[i].type = "producerAdded" /\ q[j].type = "producerRemoved"
           /\ \A k \in DOMAIN q : k > 0 /\ k # i /\ k # j => ~About(q[k], e)
    BY <1>6 DEF BothAfter
  <2>2. i \in Nat /\ j \in Nat /\ i >= 1 /\ j >= 1
    BY <1>2, <2>1
  <2>3. j # 1
    BY <2>1, <2>2
  <2>4. i = 1
    BY <1>2, <1>3, <2>1, <2>3
  <2>5. j - 1 \in DOMAIN r /\ r[j - 1] = q[j] /\ j - 1 > 0
    BY <1>2, <2>3
  <2>6. ASSUME NEW k \in DOMAIN r, k # j - 1 PROVE ~About(r[k], e)
    <3>1. k \in Nat /\ k + 1 \in DOMAIN q /\ r[k] = q[k + 1] /\ k + 1 # 1
      BY <1>2
    <3>2. k + 1 # j /\ k + 1 > 0
      BY <2>2, <2>6, <3>1
    <3>. QED
      BY <2>1, <2>4, <3>1, <3>2
  <2>. QED
    BY <2>1, <2>4, <2>5, <2>6 DEF OneAfter
<1>. QED
  BY <1>4, <1>5, <1>6 DEF Follows

\* With nothing left to read, what the page shows is whether e is here.
LEMMA FollowsToTheEnd ==
    ASSUME NEW e, NEW base, NEW standing, Follows(<<>>, 0, e, base, standing)
    PROVE  base = IF standing = "here" THEN 1 ELSE 0
<1>1. DOMAIN <<>> = {}
  OBVIOUS
<1>2. ~BothAfter(<<>>, 0, e) /\ \A type : ~OneAfter(<<>>, 0, e, type)
  BY <1>1 DEF BothAfter, OneAfter
<1>. QED
  BY <1>2 DEF Follows

\* The base that the list gives, with nothing behind it.
LEMMA FollowsList ==
    ASSUME Roles, NEW S, NEW q \in Seq(S), ListMsg \in S, NEW e \in Element
    PROVE  Follows(Append(q, ListMsg), Len(q) + 1, e, EntriesOfList(ListMsg)[e], Standing(e))
<1> DEFINE r == Append(q, ListMsg)
           n == Len(q) + 1
<1>1. \A k \in DOMAIN r : ~(k > n)
  BY AppendPlaces
<1>2. NoneAfter(r, n, e)
  BY <1>1 DEF NoneAfter
<1> HIDE DEF r, n
<1>3. e \in {p.id : p \in ListMsg.producers} <=> IsProducer(e)
  <2>1. ListMsg.producers = {[id |-> p, meta |-> MetaOf(p)] : p \in DOMAIN producers}
    BY DEF ListMsg
  <2>2. \A p \in ListMsg.producers : p.id \in DOMAIN producers
    BY <2>1
  <2>3. ASSUME NEW x \in DOMAIN producers PROVE \E p \in ListMsg.producers : p.id = x
    <3>1. [id |-> x, meta |-> MetaOf(x)] \in ListMsg.producers
      BY <2>1
    <3>. QED
      BY <3>1
  <2>. QED
    BY <2>2, <2>3 DEF IsProducer
<1>4. EntriesOfList(ListMsg)[e] = IF IsProducer(e) THEN 1 ELSE 0
  BY <1>3 DEF EntriesOfList
<1>5. IsProducer(e) => e \in comings.came
  BY DEF Roles, IsProducer
<1>6. Follows(r, n, e, EntriesOfList(ListMsg)[e], Standing(e))
  BY <1>2, <1>4, <1>5 DEF Follows, Standing
<1>. QED
  BY <1>6 DEF r, n

LEMMA OnlyAppended ==
    ASSUME NEW S, NEW q \in Seq(S), NEW m \in S, NEW n, NEW type, m.type # type, Only(q, n, type)
    PROVE  Only(Append(q, m), n, type)
<1> DEFINE r == Append(q, m)
<1>1. \A k \in DOMAIN r : (k \in DOMAIN q /\ r[k] = q[k]) \/ r[k] = m
  <2>1. \A k \in DOMAIN r : k \in DOMAIN q \/ k = Len(q) + 1
    BY AppendPlaces
  <2>. QED
    BY <2>1, AppendPlaces
<1> HIDE DEF r
<1>2. Only(r, n, type)
  BY <1>1 DEF Only
<1>. QED
  BY <1>2 DEF r

LEMMA OnlyShifted ==
    ASSUME NEW S, NEW q \in Seq(S), q # <<>>, NEW n \in Nat, NEW m \in Nat, NEW type,
           Only(q, n, type), n = m + 1 \/ (n = 0 /\ m = 0)
    PROVE  Only(Tail(q), m, type)
<1> DEFINE r == Tail(q)
<1>1. ASSUME NEW k \in DOMAIN r, k # m PROVE r[k].type # type
  <2>1. k \in Nat /\ k >= 1 /\ k + 1 \in DOMAIN q /\ r[k] = q[k + 1]
    BY TailPlaces
  <2> HIDE DEF r
  <2>2. k + 1 # n
    BY <1>1, <2>1
  <2>. QED
    BY <2>1, <2>2 DEF Only
<1>. QED
  BY <1>1 DEF Only

\* What is to be read while nothing is queued, ...
LEMMA AwaitsFlying ==
    ASSUME NEW s, NEW q, items = <<>>, Awaits(s, q)
    PROVE  q = flying[s]
BY DEF Awaits

\* ... after a step that queues nothing for the socket, ...
LEMMA SilentByCount ==
    ASSUME TypeOK', NEW s, \A msg : Times(items', <<s, msg>>) = 0
    PROVE  Silent(s)'
BY QueuedCounts DEF Silent

\* ... and after one that queues a message for it.
LEMMA OneByCount ==
    ASSUME TypeOK', NEW s, NEW m,
           \A msg : Times(items', <<s, msg>>) = IF msg = m THEN 1 ELSE 0
    PROVE  Awaits(s, Append(flying[s], m))'
<1>1. items' \in Seq(Item)
  BY DEF TypeOK
<1>2. ASSUME NEW k \in DOMAIN items', items'[k][1] = s PROVE items'[k] = <<s, m>>
  <2>1. items'[k] = <<s, items'[k][2]>> /\ Times(items', <<s, items'[k][2]>>) # 0
    BY <1>2, QueuedCounts
  <2>. QED
    BY <2>1
<1>3. PICK i \in DOMAIN items' : items'[i] = <<s, m>>
  <2>1. SUFFICES ASSUME \A k \in DOMAIN items' : items'[k] # <<s, m>> PROVE FALSE
    OBVIOUS
  <2>2. Times(items', <<s, m>>) = 0
    BY <2>1, TimesNever
  <2>. QED
    BY <2>2
<1>4. Times(items', <<s, m>>) = 1
  OBVIOUS
<1>5. \A j, k \in DOMAIN items' : items'[j] = <<s, m>> /\ items'[k] = <<s, m>> => j = k
  BY <1>1, <1>4, TimesOne
<1>6. \A k \in DOMAIN items' : items'[k][1] = s => k = i
  BY <1>2, <1>3, <1>5
<1>. QED
  BY <1>3, <1>6 DEF Awaits

LEMMA OneItem ==
    ASSUME NEW s, NEW m, items' = <<<<s, m>>>>
    PROVE  Awaits(s, Append(flying[s], m))'
<1>1. DOMAIN items' = {1} /\ items'[1][1] = s /\ items'[1][2] = m
  OBVIOUS
<1>. QED
  BY <1>1 DEF Awaits

\* An item dispatched is still to be read.
LEMMA DispatchKeepsAwaits ==
    ASSUME Sound, NEW s \in Socket, NEW q, socket[s] = "open", Awaits(s, q), Dispatch,
           s \notin troubled'
    PROVE  Awaits(s, q)'
<1>1. items \in Seq(Item) /\ items # <<>> /\ items' = Tail(items)
  BY DEF Dispatch, PopItem, Sound, HandlerInv, TypeOK
<1>2. /\ 1 \in DOMAIN items /\ Head(items) = items[1]
      /\ \A k \in DOMAIN items' : k \in Nat /\ k >= 1 /\ k + 1 \in DOMAIN items /\ items'[k] = items[k + 1]
      /\ \A k \in DOMAIN items : k # 1 => k - 1 \in DOMAIN items' /\ items'[k - 1] = items[k]
  BY <1>1, TailPlaces
<1>3. flying'[s] = IF items[1][1] = s THEN Append(flying[s], items[1][2]) ELSE flying[s]
  <2>1. PICK words :
          /\ flying' = IF items[1][1] \in Socket \cap entered /\ socket[items[1][1]] = "open"
                          THEN [flying EXCEPT ![items[1][1]] = Append(@, items[1][2])] ELSE flying
          /\ troubled' = troubled \cup GoesWithout(items[1][1], items[1][2], words)
    BY <1>2 DEF Dispatch
  <2>2. items[1][1] = s => s \in entered
    BY <2>1, SocketGoesWithout
  <2>. QED
    BY <2>1, <2>2 DEF Sound, PageTypes
<1>4. CASE Silent(s) /\ q = flying[s]
  <2>1. Silent(s)' /\ flying'[s] = flying[s]
    BY <1>2, <1>3, <1>4 DEF Silent
  <2>. QED
    BY <1>4, <2>1 DEF Awaits
<1>5. ASSUME NEW i \in DOMAIN items, items[i][1] = s, \A k \in DOMAIN items : items[k][1] = s => k = i,
             q = Append(flying[s], items[i][2])
      PROVE  Awaits(s, q)'
  <2>1. CASE i = 1
    <3>1. q = flying'[s]
      BY <1>3, <1>5, <2>1
    <3>2. ASSUME NEW k \in DOMAIN items' PROVE items'[k][1] # s
      <4>1. k + 1 # 1 /\ k + 1 \in DOMAIN items /\ items'[k] = items[k + 1]
        BY <1>2
      <4>. QED
        BY <1>5, <2>1, <4>1
    <3>. QED
      BY <3>1, <3>2 DEF Awaits, Silent
  <2>2. CASE i # 1
    <3>1. i - 1 \in DOMAIN items' /\ items'[i - 1] = items[i] /\ flying'[s] = flying[s]
      BY <1>2, <1>3, <1>5, <2>2
    <3>2. ASSUME NEW k \in DOMAIN items', items'[k][1] = s PROVE k = i - 1
      <4>1. k \in Nat /\ k + 1 \in DOMAIN items /\ items'[k] = items[k + 1]
        BY <1>2
      <4>2. k + 1 = i
        BY <1>5, <3>2, <4>1
      <4>. QED
        BY <4>1, <4>2
    <3>. QED
      BY <1>5, <3>1, <3>2 DEF Awaits
  <2>. QED
    BY <2>1, <2>2
<1>. QED
  BY <1>4, <1>5 DEF Awaits

\* A message taken in its turn is the first that was to be read.
LEMMA TakeKeepsAwaits ==
    ASSUME Sound, NEW s \in Socket, NEW q, flying[s] # <<>>, Awaits(s, q),
           flying'[s] = Tail(flying[s]), items' = items
    PROVE  q # <<>> /\ q[1] = flying[s][1] /\ Awaits(s, Tail(q))'
<1>1. flying[s] \in Seq(Message) /\ items \in Seq(Item)
  BY DEF Sound, PageTypes, HandlerInv, TypeOK
<1>2. CASE Silent(s) /\ q = flying[s]
  BY <1>2 DEF Awaits, Silent
<1>3. ASSUME NEW i \in DOMAIN items, items[i][1] = s, \A k \in DOMAIN items : items[k][1] = s => k = i,
             q = Append(flying[s], items[i][2])
      PROVE  q # <<>> /\ q[1] = flying[s][1] /\ Awaits(s, Tail(q))'
  <2>1. items[i][2] \in Message
    BY <1>1 DEF Item
  <2>2. q # <<>> /\ q[1] = flying[s][1]
    BY <1>1, <1>3, <2>1
  <2>3. Tail(q) = Append(Tail(flying[s]), items[i][2])
    BY <1>1, <1>3, <2>1
  <2>. QED
    BY <1>3, <2>2, <2>3 DEF Awaits
<1>. QED
  BY <1>2, <1>3 DEF Awaits

\* What a listener's place in all this depends on, left alone by a step.
SameSight(s) ==
    /\ socket'[s] = socket[s] /\ asked'[s] = asked[s] /\ flying'[s] = flying[s]
    /\ s \in listeners' <=> s \in listeners
    /\ socket[s] = "open" => page'.entries = page.entries
    /\ \A e \in Element : Standing(e)' = Standing(e)
    /\ items' = items \/ (Silent(s) /\ Silent(s)')

LEMMA SightKeepsListener ==
    ASSUME NEW s \in ListenerSocket, SameSight(s), troubled \subseteq troubled', ListenerInv(s)
    PROVE  ListenerInv(s)'
<1>1. Silent(s) => Silent(s)'
  BY DEF SameSight, Silent
<1>2. CASE socket[s] \in {"unused", "connecting"}
  BY <1>1, <1>2 DEF SameSight, ListenerInv
<1>3. CASE socket[s] = "open" /\ s \in troubled
  BY <1>3 DEF SameSight, ListenerInv
<1>4. CASE socket[s] = "open" /\ s \notin troubled
  <2>1. CASE asked[s] = <<"register">> /\ s \notin listeners /\ flying[s] = <<>> /\ Silent(s)
    BY <1>1, <1>4, <2>1 DEF SameSight, ListenerInv
  <2>2. ASSUME s \in listeners, NEW q \in Seq(Message), Awaits(s, q), Catalogued(s, q)
        PROVE  ListenerInv(s)'
    <3>1. Awaits(s, q)'
      BY <2>2 DEF SameSight, Awaits, Silent
    <3>2. Catalogued(s, q)'
      <4>1. asked'[s] = asked[s] /\ page'.entries = page.entries
            /\ \A e \in Element : Standing(e)' = Standing(e)
        BY <1>4 DEF SameSight
      <4>2. ToRegister(s, q) => ToRegister(s, q)'
        BY <4>1 DEF ToRegister
      <4>3. ToList(s, q) => ToList(s, q)'
        BY <4>1 DEF ToList
      <4>4. ToRead(s, q) => ToRead(s, q)'
        BY <4>1 DEF ToRead
      <4>5. Shows(s, q) => Shows(s, q)'
        BY <4>1 DEF Shows
      <4>. QED
        BY <2>2, <4>2, <4>3, <4>4, <4>5 DEF Catalogued
    <3>. QED
      BY <1>4, <2>2, <3>1, <3>2 DEF SameSight, ListenerInv
  <2>. QED
    BY <1>4, <2>1, <2>2 DEF ListenerInv
<1>5. CASE socket[s] \notin {"unused", "connecting", "open"}
  BY <1>5 DEF SameSight, ListenerInv
<1>. QED
  BY <1>2, <1>3, <1>4, <1>5

\* Who is known is all that an element's standing depends on.
LEMMA SameStanding ==
    ASSUME DOMAIN producers' = DOMAIN producers, comings' = comings
    PROVE  \A e \in Element : Standing(e)' = Standing(e)
BY DEF Standing, IsProducer

LEMMA SameHandlerSight ==
    ASSUME UNCHANGED vars, UNCHANGED comings, NEW s
    PROVE  /\ s \in listeners' <=> s \in listeners
           /\ \A e \in Element : Standing(e)' = Standing(e)
           /\ items' = items
BY SameStanding DEF vars

\* What an open listener's page, connection and messages are to the others.
LEMMA OthersAreNotListening ==
    ASSUME Sound, NEW s \in ListenerSocket, NEW t \in Socket, t # s
    PROVE  /\ Connect(t) \/ Open(t) \/ Lose(t) => t \in SessionSocket \/ socket[s] # "open"
           /\ Open(t) /\ t \in ListenerSocket => s \notin page.ws
           /\ t \in page.attached => s \notin page.ws /\ socket[s] # "open"
<1>1. /\ OneListener
      /\ t \in ListenerSocket /\ Live(t) => page.ws = {t} /\ ~Live(s)
      /\ t \in page.attached => page.ws = {t} /\ ~Live(s) /\ t \in ListenerSocket
  BY DEF Sound, OneListener, PageTypes
<1>2. socket[s] = "open" => Live(s) /\ page.timers = 0
  BY <1>1 DEF OneListener, Live, Sound, PageTypes
<1>3. /\ Connect(t) => page.timers # 0
      /\ Open(t) \/ Lose(t) => Live(t)
  BY DEF Connect, Open, Lose, Live, Sound, PageTypes
<1>. QED
  BY <1>1, <1>2, <1>3, SocketsAreDisjoint

LEMMA OthersNotSeen ==
    ASSUME Sound, NEW s \in ListenerSocket,
           \/ \E t \in Socket \ {s} : Connect(t) \/ Open(t) \/ Deliver(t) \/ Lose(t)
           \/ \E c \in SessionSocket : Operate(c) \/ Click(c) \/ Refuse(c)
           \/ Restart \/ (\E p : Enter(p)) \/ UNCHANGED allVars
    PROVE  SameSight(s)
<1> USE SocketsAreDisjoint
<1>1. /\ socket \in [Socket -> SocketState] /\ asked = [t \in Socket |-> asked[t]] /\ s \in Socket
      /\ flying \in [Socket -> Seq(Message)] /\ page \in PageRecord
  BY DEF Sound, PageTypes, PageRecord
<1>2. ASSUME NEW request, s \notin page.ws, ListenerSends(request) PROVE asked'[s] = asked[s]
  BY <1>1, <1>2 DEF ListenerSends
<1>3. ASSUME NEW c \in SessionSocket, NEW request, SessionSends(c, request)
      PROVE  asked'[s] = asked[s]
  BY <1>1, <1>3 DEF SessionSends
<1>4. ASSUME NEW c \in SessionSocket, Reset(c)
      PROVE  socket'[s] = socket[s] /\ asked' = asked /\ page' = page
  BY <1>1, <1>4 DEF Reset
<1>5. ASSUME NEW t \in Socket \ {s}, Connect(t) PROVE SameSight(s)
  <2>1. /\ socket'[s] = socket[s] /\ page'.entries = page.entries
        /\ UNCHANGED <<vars, asked, flying, comings>>
    BY <1>1, <1>5 DEF Connect, PageRecord
  <2>. QED
    BY <2>1, SameHandlerSight DEF SameSight
<1>6. ASSUME NEW t \in Socket \ {s}, Open(t) PROVE SameSight(s)
  <2>1. socket'[s] = socket[s] /\ UNCHANGED <<vars, page, flying, comings>>
    BY <1>1, <1>6 DEF Open, pageVars
  <2>2. asked'[s] = asked[s]
    <3>1. CASE t \in SessionSocket
      BY <1>1, <1>6, <3>1 DEF Open
    <3>2. CASE t \in ListenerSocket
      BY <1>2, <1>6, <3>2, OthersAreNotListening DEF Open
    <3>. QED
      BY <3>1, <3>2
  <2>. QED
    BY <2>1, <2>2, SameHandlerSight DEF SameSight
<1>7. ASSUME NEW t \in Socket \ {s}, Deliver(t) PROVE SameSight(s)
  <2>1. PICK i \in DOMAIN flying[t] :
          /\ flying' = [flying EXCEPT ![t] = RemoveAt(@, i)]
          /\ \/ t \in SessionSocket /\ SessionReads(t, flying[t][i])
             \/ t \in page.attached /\ ListenerReads(flying[t][i])
    BY <1>7 DEF Deliver
  <2>2. UNCHANGED <<vars, comings>> /\ flying'[s] = flying[s] /\ flying[t][i] \in Message
    BY <1>1, <1>7, <2>1 DEF Deliver
  <2>3. CASE t \in SessionSocket /\ SessionReads(t, flying[t][i])
    <3>1. page' = page
      BY <2>2, <2>3, SessionReadsTypes DEF Sound
    <3>2. socket'[s] = socket[s] /\ asked'[s] = asked[s]
      BY <1>3, <1>4, <2>3 DEF SessionReads, ReadsPeer, EndsOn
    <3>. QED
      BY <2>2, <3>1, <3>2, SameHandlerSight DEF SameSight
  <2>4. CASE t \in page.attached /\ ListenerReads(flying[t][i])
    <3>1. s \notin page.ws /\ socket[s] # "open"
      BY <1>7, <2>4, OthersAreNotListening
    <3>2. socket' = socket /\ asked'[s] = asked[s]
      BY <1>2, <2>4, <3>1 DEF ListenerReads
    <3>. QED
      BY <2>2, <3>1, <3>2, SameHandlerSight DEF SameSight
  <2>. QED
    BY <2>1, <2>3, <2>4
<1>8. ASSUME NEW t \in Socket \ {s}, Lose(t) PROVE SameSight(s)
  <2>1. /\ socket'[s] = socket[s] /\ asked'[s] = asked[s] /\ flying'[s] = flying[s]
        /\ UNCHANGED <<vars, comings>> /\ (t \in SessionSocket => page' = page)
    BY <1>1, <1>8 DEF Lose
  <2>2. t \in SessionSocket \/ socket[s] # "open"
    BY <1>8, OthersAreNotListening
  <2>. QED
    BY <2>1, <2>2, SameHandlerSight DEF SameSight
<1>9. ASSUME NEW c \in SessionSocket, Operate(c) \/ Click(c) \/ Refuse(c) PROVE SameSight(s)
  <2>1. UNCHANGED <<vars, flying, comings>>
    BY <1>9 DEF Operate, Click, Refuse
  <2>2. socket'[s] = socket[s] /\ asked'[s] = asked[s] /\ page' = page
    <3>1. CASE Operate(c)
      BY <1>3, <1>4, <3>1 DEF Operate, Succeeds
    <3>2. CASE Click(c)
      BY <1>1, <3>2 DEF Click
    <3>3. CASE Refuse(c)
      BY <1>4, <3>3 DEF Refuse
    <3>. QED
      BY <1>9, <3>1, <3>2, <3>3
  <2>. QED
    BY <2>1, <2>2, SameHandlerSight DEF SameSight
<1>10. CASE Restart \/ (\E p : Enter(p)) \/ UNCHANGED allVars
  <2>1. UNCHANGED <<vars, page, socket, asked, flying, comings>>
    BY <1>10 DEF Restart, Enter, allVars, pageVars, netVars
  <2>. QED
    BY <2>1, SameHandlerSight DEF SameSight
<1>. QED
  BY <1>5, <1>6, <1>7, <1>8, <1>9, <1>10

\* A request adds a listener at most.
LEMMA AskedKeepsListeners ==
    ASSUME Sound, NEW t \in Socket, HandleAsked(t), NEW s \in ListenerSocket, s # t
    PROVE  s \in listeners' <=> s \in listeners
<1>1. /\ asked[t] \in Seq(Requests(t)) /\ asked[t] # <<>>
      /\ HandleRequest(t, Head(asked[t]))
  BY DEF HandleAsked, Sound, PageTypes
<1>2. Head(asked[t]) \in Requests(t)
  BY <1>1, HeadTailProperties
<1>3. Reject(t) => UNCHANGED listeners
  BY DEF Reject, peers
<1>4. \/ RegisterListener(t, NoMeta) \/ RegisterConsumer(t, NoMeta) \/ List(t)
      \/ \E e \in target[t] : StartSession(t, e) \/ PeerMessage(t, e, "answer")
  BY <1>1, <1>2 DEF HandleRequest, Requests
<1>. QED
  BY <1>3, <1>4 DEF RegisterListener, RegisterConsumer, List, StartSession, PeerMessage, peers

LEMMA OthersHandledNotSeen ==
    ASSUME Sound, Sound', Roles, NEW s \in ListenerSocket,
           \/ \E t \in Socket \ {s} : HandleAsked(t) \/ HandleEnd(t)
           \/ \E c \in SessionSocket, e \in Element, inner \in {"offer", "ice"} : Say(e, c, inner)
           \/ \E c \in SessionSocket, e \in Element : EndOf(e, c)
    PROVE  SameSight(s)
<1> USE SocketsAreDisjoint
<1>0. ASSUME items = <<>> PROVE Silent(s)
  BY <1>0 DEF Silent
<1>1. ASSUME NEW t \in Socket \ {s}, HandleAsked(t) PROVE SameSight(s)
  <2>1. PICK to, msg : to \in Element \cup {t} /\ items' = <<<<to, msg>>>>
    BY <1>1, AskedQueues
  <2>2. items = <<>> /\ UNCHANGED <<pageVars, up, socket, flying, comings, says, troubled>>
        /\ asked' = [asked EXCEPT ![t] = Tail(@)]
    BY <1>1 DEF HandleAsked
  <2>3. Silent(s) /\ Silent(s)'
    BY <1>0, <2>1, <2>2 DEF Silent
  <2>4. \A e \in Element : Standing(e)' = Standing(e)
    BY <1>1, <2>2, AskedKnows, SameStanding
  <2>5. asked'[s] = asked[s]
    BY <2>2 DEF Sound, PageTypes
  <2>6. s \in listeners' <=> s \in listeners
    BY <1>1, AskedKeepsListeners
  <2>. QED
    BY <2>2, <2>3, <2>4, <2>5, <2>6 DEF SameSight, pageVars
<1>2. ASSUME NEW t \in Socket \ {s}, HandleEnd(t) PROVE SameSight(s)
  <2>1. items = <<>> /\ RemovePeer(t) /\ socket' = [socket EXCEPT ![t] = "gone"]
        /\ UNCHANGED <<pageVars, up, asked, flying, comings, says, troubled>>
    BY <1>2 DEF HandleEnd
  <2>2. t \notin DOMAIN producers /\ t \in PeerId
    BY DEF Roles, Sound, PageTypes
  <2>3. /\ DOMAIN producers' = DOMAIN producers \ {t} /\ listeners' = listeners \ {t}
        /\ \A x, msg : x \in ListenerSocket => Times(items', <<x, msg>>) =
               IF /\ IsProducer(t) /\ x \in listeners \ {t}
                  /\ msg = ProducerRemoved(t, MetaOf(t)) THEN 1 ELSE 0
    BY <2>1, <2>2, RemoveDoes
  <2>4. \A msg : Times(items', <<s, msg>>) = 0
    BY <2>2, <2>3 DEF IsProducer
  <2>5. Silent(s) /\ Silent(s)'
    BY <1>0, <2>1, <2>4, SilentByCount DEF Sound, HandlerInv
  <2>6. \A e \in Element : Standing(e)' = Standing(e)
    BY <2>1, <2>2, <2>3, SameStanding
  <2>7. socket'[s] = socket[s] /\ (s \in listeners' <=> s \in listeners)
    BY <1>2, <2>1, <2>3 DEF Sound, PageTypes
  <2>. QED
    BY <2>1, <2>5, <2>6, <2>7 DEF SameSight, pageVars
<1>3. ASSUME NEW c \in SessionSocket, NEW e \in Element, NEW inner \in {"offer", "ice"},
             Say(e, c, inner)
      PROVE  SameSight(s)
  <2>1. /\ UNCHANGED peers /\ items = <<>>
        /\ items' = <<<<c, PeerMsg(e, inner)>>>> \/ items' = <<<<e, ErrorMsg>>>>
    BY <1>3, SayDoes
  <2>2. UNCHANGED <<pageVars, up, socket, asked, flying, comings>>
    BY <1>3 DEF Say
  <2>3. Silent(s) /\ Silent(s)'
    BY <1>0, <2>1 DEF Silent
  <2>4. listeners' = listeners /\ \A f \in Element : Standing(f)' = Standing(f)
    BY <2>1, <2>2, SameStanding DEF peers
  <2>. QED
    BY <2>2, <2>3, <2>4 DEF SameSight, pageVars
<1>4. ASSUME NEW c \in SessionSocket, NEW e \in Element, EndOf(e, c) PROVE SameSight(s)
  <2>1. /\ DOMAIN producers' = DOMAIN producers /\ listeners' = listeners /\ items = <<>>
        /\ items' = <<<<c, EndSessionMsg(e)>>>> \/ items' = <<<<e, ErrorMsg>>>>
    BY <1>4, EndOfDoes
  <2>2. UNCHANGED <<pageVars, up, socket, asked, flying, comings>>
    BY <1>4 DEF EndOf
  <2>3. Silent(s) /\ Silent(s)'
    BY <1>0, <2>1 DEF Silent
  <2>4. \A f \in Element : Standing(f)' = Standing(f)
    BY <2>1, <2>2, SameStanding
  <2>. QED
    BY <2>1, <2>2, <2>3, <2>4 DEF SameSight, pageVars
<1>. QED
  BY <1>1, <1>2, <1>3, <1>4

\* An announcement goes behind what a registered listener has to read.
LEMMA AppendKeepsCatalogued ==
    ASSUME NEW s, NEW q \in Seq(Message), NEW m \in Message, m.type \notin {"registered", "list"},
           asked'[s] = asked[s], page'.entries = page.entries,
           \A n \in Nat, f \in Element : \A base :
              n <= Len(q) /\ Follows(q, n, f, base, Standing(f)) =>
                 Follows(Append(q, m), n, f, base, Standing(f)'),
           Catalogued(s, q)
    PROVE  Catalogued(s, Append(q, m))'
<1> DEFINE r == Append(q, m)
<1>1. /\ Len(q) \in Nat /\ DOMAIN q = 1..Len(q)
      /\ \A k \in DOMAIN q : k \in DOMAIN r /\ r[k] = q[k] /\ k \in Nat /\ k <= Len(q)
  BY AppendPlaces
<1>2. \A n, type : m.type # type /\ Only(q, n, type) => Only(r, n, type)
  BY OnlyAppended
<1>3. m.type # "registered" /\ m.type # "list"
  OBVIOUS
<1>4. \A n \in Nat, f \in Element : \A base :
         n <= Len(q) /\ Follows(q, n, f, base, Standing(f)) => Follows(r, n, f, base, Standing(f)')
  OBVIOUS
<1> HIDE DEF r
<1>5. ToRegister(s, q) => ToRegister(s, r)'
  BY <1>1, <1>2, <1>3 DEF ToRegister
<1>6. ToList(s, q) => ToList(s, r)'
  BY <1>2, <1>3 DEF ToList
<1>7. ToRead(s, q) => ToRead(s, r)'
  <2>1. SUFFICES ASSUME ToRead(s, q) PROVE ToRead(s, r)'
    OBVIOUS
  <2>2. PICK n \in DOMAIN q :
           /\ q[n].type = "list" /\ Only(q, n, "list")
           /\ \A e \in Element : Follows(q, n, e, EntriesOfList(q[n])[e], Standing(e))
    BY <2>1 DEF ToRead
  <2>3. n \in DOMAIN r /\ r[n] = q[n] /\ n \in Nat /\ n <= Len(q) /\ Only(r, n, "list")
    BY <1>1, <1>2, <1>3, <2>2
  <2>4. \A e \in Element : Follows(r, n, e, EntriesOfList(r[n])[e], Standing(e)')
    BY <1>4, <2>2, <2>3
  <2>. QED
    BY <1>2, <1>3, <2>1, <2>2, <2>3, <2>4 DEF ToRead
<1>8. Shows(s, q) => Shows(s, r)'
  <2>1. SUFFICES ASSUME Shows(s, q) PROVE Shows(s, r)'
    OBVIOUS
  <2>2. \A e \in Element : Follows(r, 0, e, page.entries[e], Standing(e)')
    BY <1>1, <1>4, <2>1 DEF Shows
  <2>. QED
    BY <1>2, <1>3, <2>1, <2>2 DEF Shows
<1>9. Catalogued(s, r)'
  BY <1>5, <1>6, <1>7, <1>8 DEF Catalogued
<1>. QED
  BY <1>9 DEF r

\* A producer that comes or leaves: every registered listener is to read it.
LEMMA AnnouncingKeepsListener ==
    ASSUME Sound, Sound', NEW s \in ListenerSocket, ListenerInv(s), items = <<>>,
           NEW e \in Element, NEW m \in Message, About(m, e),
           \/ m.type = "producerAdded" /\ Standing(e) = "expected" /\ Standing(e)' = "here"
           \/ m.type = "producerRemoved" /\ Standing(e) = "here" /\ Standing(e)' = "left",
           \A f \in Element : f # e => Standing(f)' = Standing(f),
           \A msg : Times(items', <<s, msg>>) = IF s \in listeners /\ msg = m THEN 1 ELSE 0,
           s \in listeners' <=> s \in listeners,
           UNCHANGED <<page, socket, asked, flying, troubled>>
    PROVE  ListenerInv(s)'
<1>1. TypeOK'
  BY DEF Sound, HandlerInv
<1>2. s \notin listeners => Silent(s)'
  BY <1>1, SilentByCount
<1>3. CASE s \in listeners /\ socket[s] = "open" /\ s \notin troubled
  <2>1. PICK q \in Seq(Message) : Awaits(s, q) /\ Catalogued(s, q)
    BY <1>3 DEF ListenerInv
  <2>2. q = flying[s]
    BY <2>1, AwaitsFlying
  <2>3. Awaits(s, Append(flying[s], m))'
    BY <1>1, <1>3, OneByCount
  <2>4. Awaits(s, Append(q, m))'
    BY <2>2, <2>3
  <2>5. ASSUME NEW n \in Nat, NEW f \in Element, NEW base, n <= Len(q),
               Follows(q, n, f, base, Standing(f))
        PROVE  Follows(Append(q, m), n, f, base, Standing(f)')
    <3>1. CASE f = e
      BY <2>5, <3>1, FollowsComing, FollowsLeaving
    <3>2. CASE f # e
      <4>1. ~About(m, f)
        BY <3>2 DEF About
      <4>. QED
        BY <2>5, <3>2, <4>1, FollowsOthers
    <3>. QED
      BY <3>1, <3>2
  <2>6. Catalogued(s, Append(q, m))'
    <3>1. m.type \notin {"registered", "list"}
      OBVIOUS
    <3>. QED
      BY <2>1, <2>5, <3>1, AppendKeepsCatalogued
  <2>7. Append(q, m) \in Seq(Message)
    BY AppendPlaces
  <2>. QED
    BY <1>3, <2>4, <2>6, <2>7 DEF ListenerInv
<1>4. CASE ~(s \in listeners /\ socket[s] = "open" /\ s \notin troubled)
  BY <1>2, <1>4 DEF ListenerInv
<1>. QED
  BY <1>3, <1>4

LEMMA ComeKeepsListener ==
    ASSUME Sound, Sound', Roles, NEW s \in ListenerSocket, ListenerInv(s),
           NEW e \in Element, Come(e)
    PROVE  ListenerInv(s)'
<1> USE SocketsAreDisjoint
<1>1. PICK m \in Message : m = ProducerAdded(e, NoMeta)
  BY NoMetaIsMeta DEF ProducerAdded, Message
<1>2. About(m, e) /\ m.type = "producerAdded"
  BY <1>1 DEF ProducerAdded, About
<1>3. /\ e \notin comings.came /\ producers' = Put(producers, e, {}) /\ listeners' = listeners
      /\ comings' = [comings EXCEPT !.came = @ \cup {e}]
      /\ \A x, msg : Times(items', <<x, msg>>) =
             (IF x \in listeners /\ msg = ProducerAdded(e, NoMeta) THEN 1 ELSE 0)
           + (IF x = e /\ msg = Registered("producer", e, NoMeta) THEN 1 ELSE 0)
  BY ComeDoes
<1>4. items = <<>> /\ UNCHANGED <<page, socket, asked, flying, troubled>>
  BY DEF Come, pageVars
<1>5. DOMAIN producers' = DOMAIN producers \cup {e} /\ comings'.came = comings.came \cup {e}
  BY <1>3 DEF Put, Sound, PageTypes
<1>6. Standing(e) = "expected" /\ Standing(e)' = "here"
  BY <1>3, <1>5 DEF Standing, IsProducer
<1>7. \A f \in Element : f # e => Standing(f)' = Standing(f)
  BY <1>5 DEF Standing, IsProducer
<1>8. s # e
  OBVIOUS
<1>9. \A msg : Times(items', <<s, msg>>) = IF s \in listeners /\ msg = m THEN 1 ELSE 0
  BY <1>1, <1>3, <1>8
<1>. QED
  BY <1>2, <1>3, <1>4, <1>6, <1>7, <1>9, AnnouncingKeepsListener

LEMMA LeaveKeepsListener ==
    ASSUME Sound, Sound', Roles, NEW s \in ListenerSocket, ListenerInv(s),
           NEW e \in Element, LeaveElement(e)
    PROVE  ListenerInv(s)'
<1> USE SocketsAreDisjoint
<1>1. /\ items = <<>> /\ e \in comings.came \ comings.left /\ RemovePeer(e)
      /\ comings' = [comings EXCEPT !.left = @ \cup {e}]
      /\ UNCHANGED <<page, socket, asked, flying, troubled>>
  BY DEF LeaveElement, pageVars
<1>2. MetaOf(e) \in Meta /\ IsProducer(e) /\ s # e /\ e \in PeerId
  BY <1>1, MetaOfType DEF Roles, IsProducer, Sound, HandlerInv, TypeOK
<1>3. PICK m \in Message : m = ProducerRemoved(e, MetaOf(e))
  BY <1>2 DEF ProducerRemoved, Message
<1>4. About(m, e) /\ m.type = "producerRemoved"
  BY <1>3 DEF ProducerRemoved, About
<1>5. /\ DOMAIN producers' = DOMAIN producers \ {e} /\ listeners' = listeners \ {e}
      /\ \A x, msg : x \in ListenerSocket => Times(items', <<x, msg>>) =
             IF /\ IsProducer(e) /\ x \in listeners \ {e}
                /\ msg = ProducerRemoved(e, MetaOf(e)) THEN 1 ELSE 0
  BY <1>1, <1>2, RemoveDoes
<1>6. comings'.came = comings.came
  BY <1>1 DEF Sound, PageTypes
<1>7. Standing(e) = "here" /\ Standing(e)' = "left"
  BY <1>1, <1>2, <1>5, <1>6 DEF Standing, IsProducer
<1>8. \A f \in Element : f # e => Standing(f)' = Standing(f)
  BY <1>5, <1>6 DEF Standing, IsProducer
<1>9. \A msg : Times(items', <<s, msg>>) = IF s \in listeners /\ msg = m THEN 1 ELSE 0
  BY <1>2, <1>3, <1>5
<1>10. s \in listeners' <=> s \in listeners
  BY <1>2, <1>5
<1>. QED
  BY <1>1, <1>4, <1>7, <1>8, <1>9, <1>10, AnnouncingKeepsListener

\* The only message of its kind, at the end.
LEMMA OnlyTheLast ==
    ASSUME NEW S, NEW q \in Seq(S), NEW m \in S, NEW type, Only(q, 0, type)
    PROVE  /\ Only(Append(q, m), Len(q) + 1, type)
           /\ Len(q) + 1 \in DOMAIN Append(q, m) /\ Append(q, m)[Len(q) + 1] = m
<1> DEFINE r == Append(q, m)
           n == Len(q) + 1
<1>1. n \in DOMAIN r /\ r[n] = m /\ \A k \in DOMAIN r : k # n => k \in DOMAIN q /\ r[k] = q[k] /\ k # 0
  BY AppendPlaces
<1> HIDE DEF r, n
<1>2. Only(r, n, type)
  BY <1>1 DEF Only
<1>. QED
  BY <1>1, <1>2 DEF r, n

LEMMA EmptyOnly == \A n, type : Only(<<>>, n, type)
BY DEF Only

\* A listener's request is handled: it is registered, ...
LEMMA RegisterKeepsListener ==
    ASSUME Sound, NEW s \in ListenerSocket, HandleAsked(s), s \notin listeners,
           asked[s] = <<"register">>, flying[s] = <<>>, socket[s] = "open"
    PROVE  ListenerInv(s)'
<1> USE SocketsAreDisjoint
<1>1. /\ items = <<>> /\ asked' = [asked EXCEPT ![s] = Tail(@)] /\ RegisterListener(s, NoMeta)
      /\ UNCHANGED <<page, socket, flying, troubled>>
  <2>1. HandleRequest(s, "register")
    BY DEF HandleAsked
  <2>. QED
    BY <2>1 DEF HandleRequest, HandleAsked, pageVars
<1>2. PICK m \in Message : m = Registered("listener", s, NoMeta)
  BY NoMetaIsMeta DEF Registered, Message, Role
<1>3. items' = <<<<s, m>>>> /\ s \in listeners'
  BY <1>1, <1>2 DEF RegisterListener, Send
<1>4. Awaits(s, Append(flying[s], m))'
  BY <1>3, OneItem
<1>5. PICK q \in Seq(Message) : q = Append(<<>>, m)
  <2>1. <<>> \in Seq(Message)
    OBVIOUS
  <2>. QED
    BY <2>1, AppendPlaces
<1>6. Awaits(s, q)'
  BY <1>1, <1>4, <1>5
<1>7. DOMAIN q = {1} /\ q[1].type = "registered"
  BY <1>2, <1>5 DEF Registered
<1>8. asked'[s] = <<>>
  BY <1>1 DEF Sound, PageTypes
<1>9. ToRegister(s, q)'
  BY <1>7, <1>8 DEF ToRegister, Only
<1>. QED
  BY <1>1, <1>3, <1>6, <1>9 DEF ListenerInv, Catalogued

\* ... or is told the producers.
LEMMA ListKeepsListener ==
    ASSUME Sound, Sound', Roles, NEW s \in ListenerSocket, HandleAsked(s), s \in listeners,
           socket[s] = "open", ToList(s, flying[s])
    PROVE  ListenerInv(s)'
<1> USE SocketsAreDisjoint
<1>1. /\ items = <<>> /\ asked[s] = <<"list">> /\ asked' = [asked EXCEPT ![s] = Tail(@)] /\ List(s)
      /\ UNCHANGED <<page, socket, flying, troubled, comings>>
  <2>1. HandleRequest(s, "list")
    BY DEF HandleAsked, ToList
  <2>. QED
    BY <2>1 DEF HandleRequest, HandleAsked, ToList, pageVars
<1>2. PICK m \in Message : m = ListMsg
  BY MetaOfType DEF Sound, HandlerInv, TypeOK
<1>3. items' = <<<<s, m>>>> /\ s \in listeners' /\ producers' = producers
  BY <1>1, <1>2 DEF List, Send, peers
<1>4. PICK f \in Seq(Message) : f = flying[s]
  BY DEF Sound, PageTypes
<1>5. PICK q \in Seq(Message) : q = Append(f, m)
  BY AppendPlaces
<1>6. Awaits(s, q)'
  <2>1. Awaits(s, Append(flying[s], m))'
    BY <1>3, OneItem
  <2>. QED
    BY <1>1, <1>4, <1>5, <2>1
<1>7. asked'[s] = <<>>
  BY <1>1 DEF Sound, PageTypes
<1>8. m.type = "list"
  BY <1>2 DEF ListMsg
<1>9. Only(q, 0, "registered")
  BY <1>4, <1>5, <1>8, OnlyAppended DEF ToList
<1>10. Only(f, 0, "list")
  BY <1>4 DEF ToList
<1>11. PICK n : n = Len(f) + 1
  OBVIOUS
<1>12. n \in DOMAIN q /\ q[n] = m /\ Only(q, n, "list")
  BY <1>5, <1>10, <1>11, OnlyTheLast
<1>13. ASSUME NEW e \in Element
       PROVE  Follows(q, n, e, EntriesOfList(q[n])[e], Standing(e)')
  <2>1. Follows(q, n, e, EntriesOfList(m)[e], Standing(e))
    BY <1>2, <1>5, <1>11, FollowsList
  <2>2. Standing(e)' = Standing(e)
    BY <1>1, <1>3, SameStanding
  <2>. QED
    BY <1>12, <2>1, <2>2
<1>14. ToRead(s, q)'
  BY <1>7, <1>8, <1>9, <1>12, <1>13 DEF ToRead
<1>. QED
  BY <1>1, <1>3, <1>6, <1>14 DEF ListenerInv, Catalogued

LEMMA AskedKeepsListener ==
    ASSUME Sound, Sound', Roles, NEW s \in ListenerSocket, ListenerInv(s), HandleAsked(s)
    PROVE  ListenerInv(s)'
<1>1. asked[s] # <<>> /\ items = <<>> /\ UNCHANGED <<socket, troubled>>
  BY DEF HandleAsked
<1>2. CASE socket[s] # "open" \/ s \in troubled
  BY <1>1, <1>2 DEF ListenerInv
<1>3. CASE socket[s] = "open" /\ s \notin troubled
  <2>1. CASE asked[s] = <<"register">> /\ s \notin listeners /\ flying[s] = <<>>
    BY <1>3, <2>1, RegisterKeepsListener
  <2>2. ASSUME s \in listeners, NEW q \in Seq(Message), Awaits(s, q), Catalogued(s, q)
        PROVE  ListenerInv(s)'
    <3>1. ToList(s, q)
      BY <1>1, <2>2 DEF Catalogued, ToRegister, ToRead, Shows
    <3>2. q = flying[s]
      BY <1>1, <2>2, AwaitsFlying
    <3>. QED
      BY <1>3, <2>2, <3>1, <3>2, ListKeepsListener
  <2>. QED
    BY <1>3, <2>1, <2>2 DEF ListenerInv
<1>. QED
  BY <1>2, <1>3

\* The first of a sequence, taken by its place.
LEMMA FirstRemoved ==
    ASSUME NEW S, NEW q \in Seq(S), 1 \in DOMAIN q
    PROVE  RemoveAt(q, 1) = Tail(q) /\ q # <<>>
<1>1. q # <<>>
  <2>1. SUFFICES ASSUME q = <<>> PROVE FALSE
    OBVIOUS
  <2>2. Len(q) = 0 /\ DOMAIN q = 1..Len(q)
    BY <2>1
  <2>. QED
    BY <2>2
<1>2. /\ RemoveAt(q, 1) \in Seq(S) /\ Len(RemoveAt(q, 1)) = Len(q) - 1
      /\ \A k \in 1..(Len(q) - 1) : RemoveAt(q, 1)[k] = IF k < 1 THEN q[k] ELSE q[k + 1]
  BY RemoveAtType
<1>3. PICK r : r = RemoveAt(q, 1)
  OBVIOUS
<1>4. /\ r \in Seq(S) /\ Len(r) = Len(q) - 1
      /\ \A k \in 1..(Len(q) - 1) : r[k] = q[k + 1]
  BY <1>2, <1>3
<1>5. /\ Tail(q) \in Seq(S) /\ Len(Tail(q)) = Len(q) - 1
      /\ \A k \in 1..(Len(q) - 1) : Tail(q)[k] = q[k + 1]
  BY <1>1
<1>6. r = Tail(q)
  <2>1. Len(r) = Len(Tail(q)) /\ \A k \in 1..Len(r) : r[k] = Tail(q)[k]
    BY <1>4, <1>5
  <2>. QED
    BY <1>4, <1>5, <2>1, SeqEqual
<1>. QED
  BY <1>1, <1>3, <1>6

\* What the page does with a message that it takes in its turn.
LEMMA TurnKeepsCatalogued ==
    ASSUME Sound, NEW s \in ListenerSocket, socket[s] = "open", page.ws = {s},
           NEW q \in Seq(Message), q # <<>>, ListenerReads(q[1]), Catalogued(s, q),
           \A e \in Element : Standing(e)' = Standing(e)
    PROVE  Catalogued(s, Tail(q))'
<1> USE SocketsAreDisjoint
<1> DEFINE m == q[1]
           r == Tail(q)
<1>1. /\ 1 \in DOMAIN q /\ m \in Message /\ \A n \in DOMAIN q : n \in Nat /\ n >= 1
      /\ \A k \in DOMAIN q : k # 1 => k - 1 \in DOMAIN r /\ r[k - 1] = q[k]
  BY TailPlaces
<1>2. /\ page'.entries = EntriesAfter(page.entries, m)
      /\ m.type = "registered" => asked'[s] = Append(asked[s], "list")
      /\ m.type # "registered" => asked'[s] = asked[s]
  BY DEF ListenerReads, ListenerSends, Sound, PageTypes
<1>3. \A type : Only(q, 0, type) => q[1].type # type /\ Only(r, 0, type)
  <2>1. ASSUME NEW type, Only(q, 0, type) PROVE q[1].type # type /\ Only(r, 0, type)
    BY <1>1, <2>1, OnlyShifted DEF Only
  <2>. QED
    BY <2>1
<1>4. ASSUME NEW n \in DOMAIN q, n # 1
      PROVE  /\ n - 1 \in DOMAIN r /\ r[n - 1] = q[n]
             /\ \A type : Only(q, n, type) => q[1].type # type /\ Only(r, n - 1, type)
             /\ \A e, base, standing : Follows(q, n, e, base, standing) => Follows(r, n - 1, e, base, standing)
  <2>1. n \in Nat /\ n - 1 \in Nat /\ n = (n - 1) + 1 /\ n - 1 \in DOMAIN r /\ r[n - 1] = q[n]
    BY <1>1, <1>4
  <2>2. ASSUME NEW type, Only(q, n, type) PROVE q[1].type # type /\ Only(r, n - 1, type)
    <3>1. Only(r, n - 1, type)
      BY <2>1, <2>2, OnlyShifted
    <3>. QED
      BY <1>1, <1>4, <2>2, <3>1 DEF Only
  <2>3. ASSUME NEW e, NEW base, NEW standing, Follows(q, n, e, base, standing)
        PROVE  Follows(r, n - 1, e, base, standing)
    BY <2>1, <2>3, FollowsShifted
  <2>. QED
    BY <2>1, <2>2, <2>3
<1>5. \A type : Only(q, 1, type) => Only(r, 0, type)
  <2>1. ASSUME NEW type, Only(q, 1, type) PROVE Only(r, 0, type)
    BY <2>1, OnlyShifted
  <2>. QED
    BY <2>1
<1> HIDE DEF m, r
<1>6. ASSUME ToRegister(s, q) PROVE Catalogued(s, r)'
  <2>1. PICK n \in DOMAIN q : q[n].type = "registered" /\ Only(q, n, "registered")
    BY <1>6 DEF ToRegister
  <2>2. CASE n = 1
    <3>1. asked'[s] = <<"list">>
      BY <1>2, <1>6, <2>1, <2>2 DEF ToRegister, m
    <3>2. Only(r, 0, "registered") /\ Only(r, 0, "list")
      BY <1>3, <1>5, <1>6, <2>1, <2>2 DEF ToRegister
    <3>3. ToList(s, r)'
      BY <3>1, <3>2 DEF ToList
    <3>. QED
      BY <3>3 DEF Catalogued
  <2>3. CASE n # 1
    <3>1. /\ n - 1 \in DOMAIN r /\ r[n - 1] = q[n]
          /\ q[1].type # "registered" /\ Only(r, n - 1, "registered")
      BY <1>4, <2>1, <2>3
    <3>2. ToRegister(s, r)'
      BY <1>2, <1>3, <1>6, <2>1, <3>1 DEF ToRegister, m
    <3>. QED
      BY <3>2 DEF Catalogued
  <2>. QED
    BY <2>2, <2>3
<1>7. ASSUME ToList(s, q) PROVE Catalogued(s, r)'
  <2>1. q[1].type # "registered" /\ Only(r, 0, "registered") /\ Only(r, 0, "list")
    BY <1>3, <1>7 DEF ToList
  <2>2. ToList(s, r)'
    BY <1>2, <1>7, <2>1 DEF ToList, m
  <2>. QED
    BY <2>2 DEF Catalogued
<1>8. ASSUME ToRead(s, q) PROVE Catalogued(s, r)'
  <2>1. PICK n \in DOMAIN q :
           /\ q[n].type = "list" /\ Only(q, n, "list")
           /\ \A e \in Element : Follows(q, n, e, EntriesOfList(q[n])[e], Standing(e))
    BY <1>8 DEF ToRead
  <2>2. q[1].type # "registered" /\ Only(r, 0, "registered") /\ asked'[s] = <<>>
    BY <1>2, <1>3, <1>8 DEF ToRead, m
  <2>3. CASE n = 1
    <3>1. page'.entries = EntriesOfList(q[1]) /\ Only(r, 0, "list")
      BY <1>2, <1>5, <2>1, <2>3 DEF EntriesAfter, m
    <3>2. ASSUME NEW e \in Element PROVE Follows(r, 0, e, EntriesOfList(q[1])[e], Standing(e))
      <4>1. Follows(q, 1, e, EntriesOfList(q[1])[e], Standing(e))
        BY <2>1, <2>3
      <4>. QED
        BY <4>1, FollowsShifted DEF r
    <3>3. Shows(s, r)'
      BY <2>2, <3>1, <3>2 DEF Shows
    <3>. QED
      BY <3>3 DEF Catalogued
  <2>4. CASE n # 1
    <3>1. /\ n - 1 \in DOMAIN r /\ r[n - 1] = q[n] /\ Only(r, n - 1, "list")
          /\ \A e \in Element : Follows(r, n - 1, e, EntriesOfList(q[n])[e], Standing(e))
      BY <1>4, <2>1, <2>4
    <3>2. ToRead(s, r)'
      BY <2>1, <2>2, <3>1 DEF ToRead
    <3>. QED
      BY <3>2 DEF Catalogued
  <2>. QED
    BY <2>3, <2>4
<1>9. ASSUME Shows(s, q) PROVE Catalogued(s, r)'
  <2>1. /\ q[1].type # "registered" /\ q[1].type # "list" /\ asked'[s] = <<>>
        /\ Only(r, 0, "registered") /\ Only(r, 0, "list")
    BY <1>2, <1>3, <1>9 DEF Shows, m
  <2>2. ASSUME NEW e \in Element PROVE Follows(r, 0, e, page'.entries[e], Standing(e)')
    <3>1. Follows(q, 0, e, page.entries[e], Standing(e))
      BY <1>9 DEF Shows
    <3>2. /\ ~About(m, e) => Follows(r, 0, e, page.entries[e], Standing(e))
          /\ About(m, e) /\ m.type = "producerAdded" =>
                page.entries[e] = 0 /\ Follows(r, 0, e, 1, Standing(e))
          /\ About(m, e) /\ m.type = "producerRemoved" =>
                page.entries[e] = 1 /\ Follows(r, 0, e, 0, Standing(e))
      BY <3>1, FollowsRead DEF m, r
    <3>3. page.entries \in [Element -> Nat]
      BY DEF Sound, PageTypes
    <3>4. CASE ~About(m, e)
      <4>1. page'.entries[e] = page.entries[e]
        BY <1>2, <2>1, <3>3, <3>4
        DEF About, EntriesAfter, EntriesAdded, EntriesRemoved, m
      <4>. QED
        BY <3>2, <3>4, <4>1
    <3>5. CASE About(m, e) /\ m.type = "producerAdded"
      <4>1. page'.entries[e] = 1
        BY <1>2, <3>2, <3>3, <3>5 DEF About, EntriesAfter, EntriesAdded
      <4>. QED
        BY <3>2, <3>5, <4>1
    <3>6. CASE About(m, e) /\ m.type = "producerRemoved"
      <4>1. page'.entries[e] = 0
        BY <1>2, <3>2, <3>3, <3>6 DEF About, EntriesAfter, EntriesRemoved
      <4>. QED
        BY <3>2, <3>6, <4>1
    <3>. QED
      BY <3>4, <3>5, <3>6 DEF About
  <2>3. Shows(s, r)'
    BY <2>1, <2>2 DEF Shows
  <2>. QED
    BY <2>3 DEF Catalogued
<1>10. Catalogued(s, r)'
  BY <1>6, <1>7, <1>8, <1>9 DEF Catalogued
<1>. QED
  BY <1>10 DEF r

\* A message delivered to a listener.
LEMMA DeliverKeepsListener ==
    ASSUME Sound, NEW s \in ListenerSocket, ListenerInv(s), Deliver(s)
    PROVE  ListenerInv(s)'
<1> USE SocketsAreDisjoint
<1>1. PICK i \in DOMAIN flying[s] :
        /\ flying' = [flying EXCEPT ![s] = RemoveAt(@, i)]
        /\ troubled' = IF i > 1 THEN troubled \cup {s} ELSE troubled
        /\ s \in page.attached /\ ListenerReads(flying[s][i])
  BY DEF Deliver
<1>2. /\ socket[s] \in {"open", "broken"} /\ socket' = socket
      /\ UNCHANGED vars /\ UNCHANGED comings
  BY <1>1 DEF Deliver, ListenerReads
<1>3. flying[s] \in Seq(Message) /\ flying'[s] = RemoveAt(flying[s], i)
  BY <1>1 DEF Sound, PageTypes
<1>4. SUFFICES ASSUME socket[s] = "open", s \notin troubled' PROVE ListenerInv(s)'
  BY <1>2 DEF ListenerInv
<1>5. i = 1 /\ s \notin troubled
  <2>1. i \in Nat /\ i >= 1
    BY <1>3
  <2>. QED
    BY <1>1, <1>4, <2>1
<1>6. flying'[s] = Tail(flying[s]) /\ flying[s] # <<>>
  <2>1. PICK f \in Seq(Message) : f = flying[s] /\ 1 \in DOMAIN f
    BY <1>3, <1>5
  <2>2. RemoveAt(f, 1) = Tail(f) /\ f # <<>>
    BY <2>1, FirstRemoved
  <2>. QED
    BY <1>3, <1>5, <2>1, <2>2
<1>7. s \in listeners
  BY <1>4, <1>5, <1>6 DEF ListenerInv
<1>8. PICK q \in Seq(Message) : Awaits(s, q) /\ Catalogued(s, q)
  BY <1>4, <1>5, <1>6 DEF ListenerInv
<1>9. items' = items /\ listeners' = listeners /\ \A e \in Element : Standing(e)' = Standing(e)
  BY <1>2, SameStanding DEF vars
<1>10. q # <<>> /\ q[1] = flying[s][1] /\ Awaits(s, Tail(q))'
  BY <1>6, <1>8, <1>9, TakeKeepsAwaits
<1>11. page.ws = {s}
  BY <1>1 DEF Sound, OneListener
<1>12. Catalogued(s, Tail(q))'
  BY <1>1, <1>4, <1>5, <1>8, <1>9, <1>10, <1>11, TurnKeepsCatalogued
<1>13. PICK r \in Seq(Message) : r = Tail(q)
  BY <1>10, TailPlaces
<1>14. Awaits(s, r)' /\ Catalogued(s, r)'
  BY <1>10, <1>12, <1>13
<1>. QED
  BY <1>2, <1>4, <1>7, <1>9, <1>14 DEF ListenerInv

\* An item dispatched, for this listener or for another peer.
LEMMA DispatchKeepsListener ==
    ASSUME Sound, NEW s \in ListenerSocket, ListenerInv(s), Dispatch
    PROVE  ListenerInv(s)'
<1> USE SocketsAreDisjoint
<1>1. /\ items \in Seq(Item) /\ items # <<>> /\ items' = Tail(items) /\ listeners' = listeners
      /\ UNCHANGED <<page, socket, asked, comings>> /\ troubled \subseteq troubled'
      /\ \A e \in Element : Standing(e)' = Standing(e)
  BY SameStanding DEF Dispatch, PopItem, peers, pageVars, Sound, HandlerInv, TypeOK
<1>2. /\ 1 \in DOMAIN items /\ Head(items) = items[1]
      /\ \A k \in DOMAIN items' : k + 1 \in DOMAIN items /\ items'[k] = items[k + 1]
  BY <1>1, TailPlaces
<1>3. ASSUME Silent(s) PROVE Silent(s)' /\ flying'[s] = flying[s]
  <2>1. items[1][1] # s
    BY <1>2, <1>3 DEF Silent
  <2>2. flying'[s] = flying[s]
    BY <1>2, <2>1 DEF Dispatch, Sound, PageTypes
  <2>3. Silent(s)'
    BY <1>2, <1>3 DEF Silent
  <2>. QED
    BY <2>2, <2>3
<1>4. CASE socket[s] \in {"unused", "connecting"}
  BY <1>1, <1>3, <1>4 DEF ListenerInv
<1>5. CASE socket[s] = "open" /\ s \notin troubled'
  <2>1. CASE asked[s] = <<"register">> /\ s \notin listeners /\ flying[s] = <<>> /\ Silent(s)
    BY <1>1, <1>3, <1>5, <2>1 DEF ListenerInv
  <2>2. ASSUME s \in listeners, NEW q \in Seq(Message), Awaits(s, q), Catalogued(s, q)
        PROVE  ListenerInv(s)'
    <3>1. Awaits(s, q)'
      BY <1>5, <2>2, DispatchKeepsAwaits
    <3>2. Catalogued(s, q)'
      BY <1>1, <2>2 DEF Catalogued, ToRegister, ToList, ToRead, Shows
    <3>. QED
      BY <1>1, <1>5, <2>2, <3>1, <3>2 DEF ListenerInv
  <2>. QED
    BY <1>1, <1>5, <2>1, <2>2 DEF ListenerInv
<1>6. CASE ~(socket[s] \in {"unused", "connecting"} \/ (socket[s] = "open" /\ s \notin troubled'))
  BY <1>1, <1>6 DEF ListenerInv
<1>. QED
  BY <1>4, <1>5, <1>6

\* The listener's own connection: made, opened, lost and forgotten.
LEMMA SocketKeepsListener ==
    ASSUME Sound, NEW s \in ListenerSocket, ListenerInv(s),
           Connect(s) \/ Open(s) \/ Lose(s) \/ HandleEnd(s)
    PROVE  ListenerInv(s)'
<1> USE SocketsAreDisjoint
<1>1. /\ s \in Socket /\ socket \in [Socket -> SocketState] /\ asked = [t \in Socket |-> asked[t]]
      /\ s \notin SessionSocket
  BY DEF Sound, PageTypes
<1>2. CASE Connect(s)
  <2>1. /\ socket[s] = "unused" /\ socket'[s] = "connecting" /\ UNCHANGED <<items, listeners, asked, flying>>
    BY <1>1, <1>2 DEF Connect, vars, peers
  <2>. QED
    BY <2>1 DEF ListenerInv, Silent
<1>3. CASE Open(s)
  <2>1. /\ socket[s] = "connecting" /\ socket'[s] = "open" /\ ListenerSends("register")
        /\ UNCHANGED <<items, listeners, flying, page>>
    BY <1>1, <1>3 DEF Open, vars, peers, pageVars
  <2>2. s \in page.ws
    BY <2>1 DEF Sound, OneListener, Live
  <2>3. s \notin listeners /\ asked[s] = <<>> /\ flying[s] = <<>> /\ Silent(s)
    BY <2>1 DEF ListenerInv
  <2>4. asked'[s] = <<"register">>
    BY <1>1, <2>1, <2>2, <2>3 DEF ListenerSends
  <2>. QED
    BY <2>1, <2>3, <2>4 DEF ListenerInv, Silent
<1>4. CASE Lose(s)
  <2>1. socket'[s] = SocketAfter(s)
    BY <1>1, <1>4 DEF Lose
  <2>. QED
    BY <2>1 DEF SocketAfter, ListenerInv
<1>5. CASE HandleEnd(s)
  <2>1. socket'[s] = "gone"
    BY <1>1, <1>5 DEF HandleEnd
  <2>. QED
    BY <2>1 DEF ListenerInv
<1>. QED
  BY <1>2, <1>3, <1>4, <1>5

LEMMA CrashKeepsListener ==
    ASSUME Sound, NEW s \in ListenerSocket, ListenerInv(s), Crash
    PROVE  ListenerInv(s)'
<1>1. /\ s \in Socket /\ items' = <<>> /\ listeners' = {} /\ asked'[s] = <<>> /\ flying' = flying
      /\ socket'[s] = CASE socket[s] = "open" -> "broken"
                        [] socket[s] = "closed" -> "gone"
                        [] OTHER -> socket[s]
  BY SocketsAreDisjoint DEF Crash
<1>2. Silent(s)'
  BY <1>1 DEF Silent
<1>. QED
  BY <1>1, <1>2 DEF ListenerInv

LEMMA PageStepKeepsListeners ==
    ASSUME Sound, Sound', Roles, ListenersFollow, [PageNext]_allVars
    PROVE  ListenersFollow'
<1>1. SUFFICES ASSUME NEW s \in ListenerSocket PROVE ListenerInv(s)'
  BY DEF ListenersFollow
<1>2. ListenerInv(s) /\ s \in Socket
  BY SocketsAreDisjoint DEF ListenersFollow
<1>3. ASSUME SameSight(s) PROVE ListenerInv(s)'
  BY <1>2, <1>3, SightKeepsListener, TroubleStays
<1>4. CASE Dispatch
  BY <1>2, <1>4, DispatchKeepsListener
<1>5. CASE Crash
  BY <1>2, <1>5, CrashKeepsListener
<1>6. CASE Restart \/ (\E p : Enter(p)) \/ UNCHANGED allVars
  BY <1>3, <1>6, OthersNotSeen
<1>7. ASSUME NEW t \in Socket, Connect(t) \/ Open(t) \/ Lose(t) \/ HandleEnd(t)
      PROVE  ListenerInv(s)'
  <2>1. CASE t = s
    BY <1>2, <1>7, <2>1, SocketKeepsListener
  <2>2. CASE t # s
    BY <1>3, <1>7, <2>2, OthersNotSeen, OthersHandledNotSeen
  <2>. QED
    BY <2>1, <2>2
<1>8. ASSUME NEW t \in Socket, Deliver(t) PROVE ListenerInv(s)'
  <2>1. CASE t = s
    BY <1>2, <1>8, <2>1, DeliverKeepsListener
  <2>2. CASE t # s
    BY <1>3, <1>8, <2>2, OthersNotSeen
  <2>. QED
    BY <2>1, <2>2
<1>9. ASSUME NEW t \in Socket, HandleAsked(t) PROVE ListenerInv(s)'
  <2>1. CASE t = s
    BY <1>2, <1>9, <2>1, AskedKeepsListener
  <2>2. CASE t # s
    BY <1>3, <1>9, <2>2, OthersHandledNotSeen
  <2>. QED
    BY <2>1, <2>2
<1>10. ASSUME NEW c \in SessionSocket, Operate(c) \/ Click(c) \/ Refuse(c) PROVE ListenerInv(s)'
  BY <1>3, <1>10, OthersNotSeen
<1>11. ASSUME NEW c \in SessionSocket, NEW e \in Element, NEW inner \in {"offer", "ice"},
              Say(e, c, inner)
       PROVE  ListenerInv(s)'
  BY <1>3, <1>11, OthersHandledNotSeen
<1>12. ASSUME NEW c \in SessionSocket, NEW e \in Element, EndOf(e, c) PROVE ListenerInv(s)'
  BY <1>3, <1>12, OthersHandledNotSeen
<1>13. ASSUME NEW e \in Element, Come(e) \/ LeaveElement(e) PROVE ListenerInv(s)'
  BY <1>2, <1>13, ComeKeepsListener, LeaveKeepsListener
<1>. QED
  BY <1>4, <1>5, <1>6, <1>7, <1>8, <1>9, <1>10, <1>11, <1>12, <1>13, PageSteps

\* What holds of the catalogue after any step.
Catalogue == Sound /\ Roles /\ ListenersFollow

LEMMA CatalogueHolds == PageSpec => []Catalogue
<1>1. PageInit => Catalogue
  <2>. SUFFICES ASSUME PageInit PROVE Catalogue
    OBVIOUS
  <2>1. Sound
    BY InitPage DEF Sound
  <2>2. Roles
    <3>1. DOMAIN << >> = {}
      OBVIOUS
    <3>. QED
      BY <3>1 DEF PageInit, Init, Roles
  <2>3. ASSUME NEW s \in ListenerSocket PROVE ListenerInv(s)
    <3>1. /\ socket[s] = "unused" /\ asked[s] = <<>> /\ flying[s] = <<>>
          /\ items = <<>> /\ listeners = {}
      BY SocketsAreDisjoint DEF PageInit, Init
    <3>2. Silent(s)
      BY <3>1 DEF Silent
    <3>. QED
      BY <3>1, <3>2 DEF ListenerInv
  <2>. QED
    BY <2>1, <2>2, <2>3 DEF Catalogue, ListenersFollow
<1>2. Catalogue /\ [PageNext]_allVars => Catalogue'
  <2>. SUFFICES ASSUME Catalogue, [PageNext]_allVars PROVE Catalogue'
    OBVIOUS
  <2>1. Sound'
    BY PageStepKeepsHandler, PageStepKeepsTypes, PageStepKeepsOne DEF Catalogue, Sound, HandlerInv
  <2>. QED
    BY <2>1, PageStepKeepsRoles, PageStepKeepsListeners DEF Catalogue
<1>. QED
  BY <1>1, <1>2, PTL DEF PageSpec

\* A listener that has nothing left to read shows the producers.
LEMMA NothingLeftShows ==
    ASSUME Catalogue, NEW s \in ListenerSocket, Listening(s), items = <<>>, asked[s] = <<>>,
           flying[s] = <<>>, s \notin troubled
    PROVE  page.entries = [e \in Element |-> IF IsProducer(e) THEN 1 ELSE 0]
<1>1. Sound /\ Roles /\ ListenerInv(s) /\ socket[s] = "open"
  BY DEF Catalogue, ListenersFollow, Listening
<1>2. PICK q \in Seq(Message) : Awaits(s, q) /\ Catalogued(s, q)
  BY <1>1 DEF ListenerInv
<1>3. q = <<>>
  BY <1>2, AwaitsFlying
<1>4. DOMAIN q = {}
  BY <1>3
<1>5. Shows(s, q)
  BY <1>2, <1>4 DEF Catalogued, ToRegister, ToList, ToRead
<1>6. ASSUME NEW e \in Element PROVE page.entries[e] = IF IsProducer(e) THEN 1 ELSE 0
  <2>1. page.entries[e] = IF Standing(e) = "here" THEN 1 ELSE 0
    BY <1>3, <1>5, FollowsToTheEnd DEF Shows
  <2>2. Standing(e) = "here" <=> IsProducer(e)
    BY <1>1 DEF Standing, Roles, IsProducer
  <2>. QED
    BY <2>1, <2>2
<1>7. page.entries \in [Element -> Nat]
  BY <1>1 DEF Sound, PageTypes
<1>. QED
  BY <1>6, <1>7

\* A removal that is to be read next takes out the one entry there is.
LEMMA RemovalFollows ==
    ASSUME NEW q \in Seq(Message), q # <<>>, NEW e, q[1].type = "producerRemoved", q[1].peer = e,
           NEW base, NEW standing, Follows(q, 0, e, base, standing)
    PROVE  base = 1
<1>1. 1 \in DOMAIN q /\ \A i \in DOMAIN q : i \in Nat /\ i >= 1
  BY AppendPlaces
<1>2. About(q[1], e)
  BY DEF About
<1>3. ~NoneAfter(q, 0, e)
  BY <1>1, <1>2 DEF NoneAfter
<1>4. ~OneAfter(q, 0, e, "producerAdded")
  BY <1>1, <1>2 DEF OneAfter
<1>5. ~BothAfter(q, 0, e)
  <2>1. SUFFICES ASSUME NEW i \in DOMAIN q, NEW j \in DOMAIN q, 0 < i, i < j,
                        q[i].type = "producerAdded",
                        \A k \in DOMAIN q : k > 0 /\ k # i /\ k # j => ~About(q[k], e)
                 PROVE  FALSE
    BY DEF BothAfter
  <2>2. 1 # i /\ 1 # j
    BY <1>1, <2>1
  <2>. QED
    BY <1>1, <1>2, <2>1, <2>2
<1>. QED
  BY <1>3, <1>4, <1>5 DEF Follows

LEMMA RemovalIsOfEntry ==
    ASSUME Catalogue, Excused, NEW s \in ListenerSocket, Listening(s), s \notin troubled,
           ListIsRead(s), flying[s] # <<>>, Head(flying[s]).type = "producerRemoved"
    PROVE  page.entries[Head(flying[s]).peer] > 0
<1> DEFINE e == Head(flying[s]).peer
<1>1. Sound /\ Roles /\ ListenerInv(s) /\ socket[s] = "open" /\ s \in Socket
  BY SocketsAreDisjoint DEF Catalogue, ListenersFollow, Listening
<1>2. /\ flying[s] \in Seq(Message) /\ items \in Seq(Item)
      /\ 1 \in DOMAIN flying[s] /\ Head(flying[s]) = flying[s][1]
  BY <1>1, TailPlaces DEF Sound, PageTypes, HandlerInv, TypeOK
<1>3. PICK q \in Seq(Message) : Awaits(s, q) /\ Catalogued(s, q)
  BY <1>1, <1>2 DEF ListenerInv, Listening
<1>4. q # <<>> /\ q[1] = flying[s][1]
  <2>1. CASE Silent(s) /\ q = flying[s]
    BY <1>2, <2>1
  <2>2. ASSUME NEW i \in DOMAIN items, q = Append(flying[s], items[i][2])
        PROVE  q # <<>> /\ q[1] = flying[s][1]
    <3>1. items[i][2] \in Message
      BY <1>2 DEF Item
    <3>. QED
      BY <1>2, <2>2, <3>1
  <2>. QED
    BY <1>3, <2>1, <2>2 DEF Awaits
<1>5. asked[s] = <<>> /\ \A k \in DOMAIN q : q[k].type \notin {"registered", "list"}
  <2>1. \A k \in DOMAIN flying[s] : flying[s][k].type \notin {"registered", "list"}
    BY DEF ListIsRead, ToSet
  <2>2. \A i \in DOMAIN items : items[i][1] = s => items[i][2].type \notin {"registered", "list"}
    BY DEF ListIsRead, ToSet
  <2>3. CASE Silent(s) /\ q = flying[s]
    BY <2>1, <2>3 DEF ListIsRead
  <2>4. ASSUME NEW i \in DOMAIN items, items[i][1] = s, q = Append(flying[s], items[i][2])
        PROVE  \A k \in DOMAIN q : q[k].type \notin {"registered", "list"}
    <3>1. items[i][2] \in Message
      BY <1>2 DEF Item
    <3>2. \A k \in DOMAIN q : (k \in DOMAIN flying[s] /\ q[k] = flying[s][k]) \/ q[k] = items[i][2]
      BY <1>2, <2>4, <3>1
    <3>. QED
      BY <2>1, <2>2, <2>4, <3>2
  <2>. QED
    BY <1>3, <2>3, <2>4 DEF Awaits, ListIsRead
<1>6. Shows(s, q)
  BY <1>3, <1>5 DEF Catalogued, ToRegister, ToList, ToRead
<1>7. e \in Element
  <2>1. Announced(flying[s][1])
    BY <1>1, <1>2 DEF Excused, FlyingAnnounced
  <2>. QED
    BY <1>1, <1>2, <2>1 DEF Announced, Sound, PageTypes
<1>8. Follows(q, 0, e, page.entries[e], Standing(e))
  BY <1>6, <1>7 DEF Shows
<1>9. page.entries[e] = 1
  BY <1>2, <1>4, <1>8, RemovalFollows
<1>. QED
  BY <1>9

(* A listener that has its list, and for which nothing was overtaken or    *)
(* dropped, has the entry of each producer that it is told has left: for   *)
(* any number of producers that come and go, and whatever its earlier      *)
(* connections left behind, onServerMessage finds what it takes out.       *)
THEOREM RemovalsAlwaysFind == PageSpec => []RemovalsFind
<1>1. Catalogue /\ Excused => RemovalsFind
  BY RemovalIsOfEntry DEF RemovalsFind
<1>. QED
  BY <1>1, CatalogueHolds, ExcusedHolds, PTL

(* When a listener has read all that was sent to it, and nothing was       *)
(* overtaken or dropped, its entries are the producers, once each: for     *)
(* however many producers came and left between its registration, the list *)
(* and the end, and whatever its earlier connections left behind.          *)
THEOREM CatalogueAlwaysSettles == PageSpec => []CatalogueSettles
<1>1. Catalogue => CatalogueSettles
  BY NothingLeftShows DEF CatalogueSettles
<1>. QED
  BY <1>1, CatalogueHolds, PTL

=============================================================================
