----------------------- MODULE SignallingViews_proofs -----------------------
(***************************************************************************)
(* Proofs about SignallingViews, for any set of peers and of metadata.     *)
(***************************************************************************)
EXTENDS SignallingViews, SignallingHandler_proofs

(***************************************************************************)
(* The inductive invariant.                                                *)
(*                                                                         *)
(* What the handler relies on comes with its own proofs: the views only    *)
(* watch it.  While items are on their way a view lags behind, by what the *)
(* queue holds for it: that is what the balances say.                      *)
(***************************************************************************)

\* The variables of the views have their types.
ViewTypes ==
    /\ connected \subseteq PeerId
    /\ links \in [PeerId -> [PeerId -> 0..2]]
    /\ listed \subseteq listeners
    /\ catalogue \in [PeerId -> SUBSET PeerId]

\* The handler knows none but connected peers.
KnownAreConnected == Known \subseteq connected

\* A connected peer's count lacks the starts queued for it and still has the
\* sessions whose end is queued for it; only one of the two is ever queued.  A
\* peer whose socket closed counts nothing.
Balanced(p, q) ==
    /\ p \notin connected => links[p][q] = 0
    /\ p \in connected =>
          /\ StartsFor(p, q) = 0 \/ EndsFor(p, q) = 0
          /\ links[p][q] + StartsFor(p, q) = SessionCount(p, q) + EndsFor(p, q)
LinksBalance == \A p, q \in PeerId : Balanced(p, q)

(* The views watch the handler: every step of theirs is one of its steps,  *)
(* or leaves it alone.                                                     *)
LEMMA ViewStepIsHandlerStep ==
    ASSUME [ViewNext]_viewVars
    PROVE  [Next]_vars
<1>1. CASE Deliver \/ Discard
  BY <1>1 DEF Deliver, Discard, Next
<1>2. ASSUME NEW peer \in PeerId, Connect(peer)
      PROVE  UNCHANGED vars
  BY <1>2 DEF Connect
<1>3. ASSUME NEW peer \in PeerId, Ask(peer) \/ AskOther(peer)
      PROVE  HandleMessage(peer)
  BY <1>3 DEF Ask, AskOther, HandleMessage
<1>4. ASSUME NEW peer \in PeerId, Depart(peer)
      PROVE  HandleGone(peer)
  BY <1>4 DEF Depart
<1>5. CASE UNCHANGED viewVars
  BY <1>5 DEF viewVars
<1>. QED
  BY <1>1, <1>2, <1>3, <1>4, <1>5 DEF ViewNext, Next

-----------------------------------------------------------------------------
(* Delivery.                                                               *)

(* Yielding an item takes it off what is owed, and moves no session.       *)
LEMMA PopOwes ==
    ASSUME TypeOK, PopItem, NEW p, NEW q
    PROVE  /\ StartsFor(p, q) = StartsFor(p, q)'
                + (IF Head(items) = <<p, StartSessionMsg(q)>> THEN 1 ELSE 0)
           /\ EndsFor(p, q) = EndsFor(p, q)'
                + (IF Head(items) = <<p, EndSessionMsg(q)>> THEN 1 ELSE 0)
           /\ SessionCount(p, q)' = SessionCount(p, q)
<1>1. items \in Seq(Item) /\ items # <<>> /\ items' = Tail(items)
  BY DEF TypeOK, PopItem
<1>2. \A x : Times(items, x) = Times(items', x) + (IF x = Head(items) THEN 1 ELSE 0)
  BY <1>1, TimesTail
<1>3. SessionCount(p, q)' = SessionCount(p, q)
  BY DEF PopItem, peers, SessionCount, InSession, IsProducer
<1>. QED
  BY <1>2, <1>3 DEF StartsFor, EndsFor

LEMMA DeliverKeepsLinks ==
    ASSUME TypeOK, TypeOK', ViewTypes, LinksBalance, KnownAreConnected, Deliver
    PROVE  /\ links' \in [PeerId -> [PeerId -> 0..2]]
           /\ LinksBalance'
<1>. DEFINE to == Head(items)[1]
            msg == Head(items)[2]
<1>1. PopItem /\ connected' = connected /\ to \in connected
  BY DEF Deliver
<1>2. Head(items) \in Item /\ Head(items) = <<to, msg>> /\ to \in PeerId /\ msg \in Message
  BY <1>1 DEF PopItem, TypeOK, Item
<1>3. links' = CASE msg.type = "startSession" -> [links EXCEPT ![to][msg.peer] = @ + 1]
                 [] msg.type = "endSession"   -> [links EXCEPT ![to][msg.peer] = @ - 1]
                 [] OTHER -> links
  BY DEF Deliver
<1>. HIDE DEF to, msg
<1>4. ASSUME NEW p \in PeerId, NEW q \in PeerId
      PROVE  /\ StartsFor(p, q) \in Nat /\ EndsFor(p, q) \in Nat
             /\ StartsFor(p, q)' \in Nat /\ EndsFor(p, q)' \in Nat
             /\ StartsFor(p, q) = StartsFor(p, q)'
                  + (IF p = to /\ msg = StartSessionMsg(q) THEN 1 ELSE 0)
             /\ EndsFor(p, q) = EndsFor(p, q)'
                  + (IF p = to /\ msg = EndSessionMsg(q) THEN 1 ELSE 0)
             /\ SessionCount(p, q)' = SessionCount(p, q)
             /\ SessionCount(p, q) \in 0..2
  <2>1. StartsFor(p, q)' \in Nat /\ EndsFor(p, q)' \in Nat
    BY TimesType DEF TypeOK, StartsFor, EndsFor
  <2>. QED
    BY <1>1, <1>2, <2>1, OwedType, PopOwes, SessionCountType
<1>5. CASE msg.type = "startSession"
  <2>1. PICK s \in PeerId : s = msg.peer /\ msg = StartSessionMsg(s)
    BY <1>2, <1>5, FieldsOfMessages
  <2>2. links' = [links EXCEPT ![to][s] = @ + 1]
    BY <1>3, <1>5, <2>1
  <2>3. \A p, q \in PeerId :
            links'[p][q] = links[p][q] + (IF p = to /\ q = s THEN 1 ELSE 0)
    BY <1>2, <2>2 DEF ViewTypes
  <2>4. \A q \in PeerId : /\ msg = StartSessionMsg(q) <=> q = s
                          /\ msg # EndSessionMsg(q)
    BY <2>1, SessionMessages
  <2>5. links[to][s] + 1 \in 0..2
    BY <1>1, <1>2, <1>4, <2>4 DEF LinksBalance, Balanced, ViewTypes
  <2>6. links' \in [PeerId -> [PeerId -> 0..2]]
    BY <1>2, <2>2, <2>5 DEF ViewTypes
  <2>7. ASSUME NEW p \in PeerId, NEW q \in PeerId
        PROVE  Balanced(p, q)'
    BY <1>1, <1>4, <2>3, <2>4 DEF LinksBalance, Balanced, ViewTypes
  <2>. QED
    BY <2>6, <2>7 DEF LinksBalance
<1>6. CASE msg.type = "endSession"
  <2>1. PICK s \in PeerId : s = msg.peer /\ msg = EndSessionMsg(s)
    BY <1>2, <1>6, FieldsOfMessages
  <2>2. links' = [links EXCEPT ![to][s] = @ - 1]
    BY <1>3, <1>6, <2>1
  <2>3. \A p, q \in PeerId :
            links'[p][q] = links[p][q] - (IF p = to /\ q = s THEN 1 ELSE 0)
    BY <1>2, <2>2 DEF ViewTypes
  <2>4. \A q \in PeerId : /\ msg = EndSessionMsg(q) <=> q = s
                          /\ msg # StartSessionMsg(q)
    BY <2>1, SessionMessages
  <2>5. links[to][s] - 1 \in 0..2
    BY <1>1, <1>2, <1>4, <2>4 DEF LinksBalance, Balanced, ViewTypes
  <2>6. links' \in [PeerId -> [PeerId -> 0..2]]
    BY <1>2, <2>2, <2>5 DEF ViewTypes
  <2>7. ASSUME NEW p \in PeerId, NEW q \in PeerId
        PROVE  Balanced(p, q)'
    BY <1>1, <1>4, <2>3, <2>4 DEF LinksBalance, Balanced, ViewTypes
  <2>. QED
    BY <2>6, <2>7 DEF LinksBalance
<1>7. CASE msg.type \notin {"startSession", "endSession"}
  <2>1. links' = links
    BY <1>3, <1>7
  <2>2. \A q \in PeerId : msg # EndSessionMsg(q) /\ msg # StartSessionMsg(q)
    BY <1>7, SessionMessages
  <2>3. ASSUME NEW p \in PeerId, NEW q \in PeerId
        PROVE  Balanced(p, q)'
    BY <1>1, <1>4, <2>1, <2>2 DEF LinksBalance, Balanced, ViewTypes
  <2>. QED
    BY <2>1, <2>3 DEF LinksBalance, Balanced, ViewTypes
<1>. QED
  BY <1>5, <1>6, <1>7

(* An item discarded was for a peer whose count is over. *)
LEMMA DiscardKeepsLinks ==
    ASSUME TypeOK, LinksBalance, Discard
    PROVE  LinksBalance'
<1>1. PopItem /\ UNCHANGED <<connected, links>> /\ Head(items)[1] \notin connected
  BY DEF Discard, views
<1>2. ASSUME NEW p \in connected, NEW q \in PeerId
      PROVE  /\ StartsFor(p, q)' = StartsFor(p, q)
             /\ EndsFor(p, q)' = EndsFor(p, q)
             /\ SessionCount(p, q)' = SessionCount(p, q)
  <2>1. Head(items) # <<p, StartSessionMsg(q)>> /\ Head(items) # <<p, EndSessionMsg(q)>>
    BY <1>1
  <2>2. StartsFor(p, q)' \in Nat /\ EndsFor(p, q)' \in Nat
    <3>1. items' \in Seq(Item)
      BY <1>1 DEF PopItem, TypeOK
    <3>. QED
      BY <3>1, TimesType DEF StartsFor, EndsFor
  <2>. QED
    BY <1>1, <2>1, <2>2, PopOwes
<1>. QED
  BY <1>1, <1>2 DEF LinksBalance, Balanced

-----------------------------------------------------------------------------
(* Requests, arrivals and departures.                                      *)

(* A start or an end of a session: the requester's own count moves at once, *)
(* the other's when it is told.                                            *)
LEMMA AskKeepsLinks ==
    ASSUME SessionsAgree, ViewTypes, LinksBalance, KnownAreConnected,
           NEW peer \in PeerId, Ask(peer)
    PROVE  /\ links' \in [PeerId -> [PeerId -> 0..2]]
           /\ LinksBalance'
<1>1. items = <<>> /\ peer \in connected /\ connected' = connected
  BY DEF Ask
<1>2. PICK other \in PeerId :
          \/ /\ StartSession(peer, other)
             /\ links' = IF CanStart(peer, other)
                            THEN [links EXCEPT ![peer][other] = @ + 1] ELSE links
          \/ /\ EndSession(peer, other)
             /\ links' = IF AsProducer(peer, other) \/ AsConsumer(peer, other)
                            THEN [links EXCEPT ![peer][other] = @ - 1] ELSE links
  BY DEF Ask
<1>3. ASSUME NEW p \in PeerId, NEW q \in PeerId
      PROVE  /\ p \notin connected => links[p][q] = 0
             /\ p \in connected => links[p][q] = SessionCount(p, q)
             /\ links[p][q] \in 0..2
             /\ SessionCount(p, q) \in 0..2 /\ SessionCount(p, q)' \in 0..2
  <2>1. StartsFor(p, q) = 0 /\ EndsFor(p, q) = 0
    BY <1>1, NothingQueued
  <2>2. SessionCount(p, q) \in 0..2 /\ SessionCount(p, q)' \in 0..2
    BY SessionCountType DEF SessionCount
  <2>. QED
    BY <2>1, <2>2 DEF LinksBalance, Balanced, ViewTypes
<1>4. CASE /\ StartSession(peer, other)
           /\ links' = IF CanStart(peer, other)
                          THEN [links EXCEPT ![peer][other] = @ + 1] ELSE links
  <2>1. ASSUME NEW p \in PeerId, NEW q \in PeerId
        PROVE  /\ EndsFor(p, q)' = 0
               /\ StartsFor(p, q)' \in {0, 1}
               /\ SessionCount(p, q)' = SessionCount(p, q) + StartsFor(p, q)'
                    + (IF CanStart(peer, other) /\ p = peer /\ q = other THEN 1 ELSE 0)
    BY <1>1, <1>4, StartSessionTells
  <2>2. CASE CanStart(peer, other)
    <3>1. links' = [links EXCEPT ![peer][other] = @ + 1]
      BY <1>4, <2>2
    <3>2. \A p, q \in PeerId :
              links'[p][q] = links[p][q] + (IF p = peer /\ q = other THEN 1 ELSE 0)
      BY <3>1 DEF ViewTypes
    <3>3. links[peer][other] + 1 \in 0..2
      BY <1>1, <1>3, <2>1, <2>2
    <3>4. links' \in [PeerId -> [PeerId -> 0..2]]
      BY <3>1, <3>3 DEF ViewTypes
    <3>5. ASSUME NEW p \in PeerId, NEW q \in PeerId
          PROVE  Balanced(p, q)'
      BY <1>1, <1>3, <2>1, <2>2, <3>2 DEF Balanced
    <3>. QED
      BY <3>4, <3>5 DEF LinksBalance
  <2>3. CASE ~CanStart(peer, other)
    <3>1. links' = links
      BY <1>4, <2>3
    <3>2. ASSUME NEW p \in PeerId, NEW q \in PeerId
          PROVE  Balanced(p, q)'
      <4>1. ~CanStart(peer, other) => StartsFor(p, q)' = 0
        BY <1>1, <1>4, <2>3, RejectTellsNothing DEF StartSession
      <4>. QED
        BY <1>1, <1>3, <2>1, <2>3, <3>1, <4>1 DEF Balanced
    <3>. QED
      BY <3>1, <3>2 DEF LinksBalance, ViewTypes
  <2>. QED
    BY <2>2, <2>3
<1>5. CASE /\ EndSession(peer, other)
           /\ links' = IF AsProducer(peer, other) \/ AsConsumer(peer, other)
                          THEN [links EXCEPT ![peer][other] = @ - 1] ELSE links
  <2>. DEFINE Ends == AsProducer(peer, other) \/ AsConsumer(peer, other)
  <2>1. ASSUME NEW p \in PeerId, NEW q \in PeerId
        PROVE  /\ StartsFor(p, q)' = 0
               /\ EndsFor(p, q)' \in {0, 1}
               /\ SessionCount(p, q) = SessionCount(p, q)' + EndsFor(p, q)'
                    + (IF Ends /\ p = peer /\ q = other THEN 1 ELSE 0)
    BY <1>1, <1>5, EndSessionTells
  <2>2. CASE Ends
    <3>1. links' = [links EXCEPT ![peer][other] = @ - 1]
      BY <1>5, <2>2
    <3>2. \A p, q \in PeerId :
              links'[p][q] = links[p][q] - (IF p = peer /\ q = other THEN 1 ELSE 0)
      BY <3>1 DEF ViewTypes
    <3>. HIDE DEF Ends
    <3>3. links[peer][other] - 1 \in 0..2
      BY <1>1, <1>3, <2>1, <2>2
    <3>4. links' \in [PeerId -> [PeerId -> 0..2]]
      BY <3>1, <3>3 DEF ViewTypes
    <3>5. ASSUME NEW p \in PeerId, NEW q \in PeerId
          PROVE  Balanced(p, q)'
      BY <1>1, <1>3, <2>1, <2>2, <3>2 DEF Balanced
    <3>. QED
      BY <3>4, <3>5 DEF LinksBalance
  <2>3. CASE ~Ends
    <3>1. links' = links
      BY <1>5, <2>3
    <3>. HIDE DEF Ends
    <3>2. ASSUME NEW p \in PeerId, NEW q \in PeerId
          PROVE  Balanced(p, q)'
      BY <1>1, <1>3, <2>1, <2>3, <3>1 DEF Balanced
    <3>. QED
      BY <3>1, <3>2 DEF LinksBalance, ViewTypes
  <2>. QED
    BY <2>2, <2>3
<1>. QED
  BY <1>2, <1>4, <1>5

(* Every other request leaves the counts and the sessions as they are. *)
LEMMA AskOtherKeepsLinks ==
    ASSUME TypeOK, LinksBalance, NEW peer \in PeerId, AskOther(peer)
    PROVE  LinksBalance'
<1>1. items = <<>> /\ UNCHANGED <<connected, links>>
  BY DEF AskOther, views
<1>2. /\ \A p, q : InSession(p, q)' <=> InSession(p, q)
      /\ \A p, q : StartsFor(p, q)' = 0 /\ EndsFor(p, q)' = 0
  BY <1>1, RegisterTellsNothing, ForwardTellsNothing DEF AskOther
<1>3. \A p, q : SessionCount(p, q)' = SessionCount(p, q)
  BY <1>2 DEF SessionCount
<1>4. \A p, q : StartsFor(p, q) = 0 /\ EndsFor(p, q) = 0
  BY <1>1, NothingQueued
<1>. QED
  BY <1>1, <1>2, <1>3, <1>4 DEF LinksBalance, Balanced

(* A departed peer counts nothing any more; its partners are told. *)
LEMMA DepartKeepsLinks ==
    ASSUME TypeOK, SessionsAgree, ViewTypes, LinksBalance, NEW peer \in PeerId, Depart(peer)
    PROVE  /\ links' \in [PeerId -> [PeerId -> 0..2]]
           /\ LinksBalance'
<1>1. /\ items = <<>> /\ RemovePeer(peer)
      /\ connected' = connected \ {peer}
      /\ links' = [links EXCEPT ![peer] = NoLinks]
  BY DEF Depart, HandleGone
<1>2. NoLinks \in [PeerId -> 0..2] /\ \A q \in PeerId : NoLinks[q] = 0
  BY DEF NoLinks
<1>3. links' \in [PeerId -> [PeerId -> 0..2]]
  BY <1>1, <1>2 DEF ViewTypes
<1>4. \A q \in PeerId : links'[peer][q] = 0
  BY <1>1, <1>2 DEF ViewTypes
<1>5. \A p \in PeerId : p # peer => links'[p] = links[p]
  BY <1>1 DEF ViewTypes
<1>6. ASSUME NEW p \in PeerId, NEW q \in PeerId, p # peer
      PROVE  /\ p \notin connected => links[p][q] = 0
             /\ p \in connected => links[p][q] = SessionCount(p, q)
             /\ StartsFor(p, q)' = 0
             /\ EndsFor(p, q)' \in Nat
             /\ SessionCount(p, q) = SessionCount(p, q)' + EndsFor(p, q)'
             /\ SessionCount(p, q)' \in 0..2
  <2>1. StartsFor(p, q) = 0 /\ EndsFor(p, q) = 0 /\ SessionCount(p, q)' \in 0..2
    BY <1>1, NothingQueued DEF SessionCount
  <2>2. /\ StartsFor(p, q)' = 0
        /\ EndsFor(p, q)' \in Nat
        /\ SessionCount(p, q) = SessionCount(p, q)' + EndsFor(p, q)'
    BY <1>1, <1>6, RemovePeerTells
  <2>. QED
    BY <2>1, <2>2 DEF LinksBalance, Balanced, ViewTypes
<1>7. ASSUME NEW p \in PeerId, NEW q \in PeerId
      PROVE  Balanced(p, q)'
  <2>1. CASE p = peer
    BY <1>1, <1>4, <2>1 DEF Balanced
  <2>2. CASE p # peer
    <3>1. links'[p][q] = links[p][q] /\ (p \in connected' <=> p \in connected)
      BY <1>1, <1>5, <2>2
    <3>. QED
      BY <1>6, <2>2, <3>1 DEF Balanced
  <2>. QED
    BY <2>1, <2>2
<1>. QED
  BY <1>3, <1>7 DEF LinksBalance

(* A peer that connects is new: nothing is known of it. *)
LEMMA ConnectKeepsLinks ==
    ASSUME TypeOK, SessionsAgree, ViewTypes, LinksBalance, KnownAreConnected,
           NEW peer \in PeerId, Connect(peer)
    PROVE  LinksBalance'
<1>1. /\ items = <<>> /\ items' = items /\ links' = links
      /\ peer \notin connected /\ connected' = connected \cup {peer}
      /\ UNCHANGED producers
  BY DEF Connect, vars, views
<1>2. ASSUME NEW p \in PeerId, NEW q \in PeerId
      PROVE  /\ StartsFor(p, q) = 0 /\ EndsFor(p, q) = 0
             /\ StartsFor(p, q)' = 0 /\ EndsFor(p, q)' = 0
             /\ SessionCount(p, q)' = SessionCount(p, q)
             /\ p = peer => SessionCount(p, q) = 0
  <2>1. StartsFor(p, q) = 0 /\ EndsFor(p, q) = 0
    BY <1>1, NothingQueued
  <2>2. p = peer => ~InSession(p, q) /\ ~InSession(q, p)
    BY <1>1, PartnersAreKnown DEF KnownAreConnected
  <2>. QED
    BY <1>1, <2>1, <2>2 DEF StartsFor, EndsFor, SessionCount, InSession, IsProducer
<1>. QED
  BY <1>1, <1>2 DEF LinksBalance, Balanced

-----------------------------------------------------------------------------
(* The listeners' catalogues.                                              *)

News == {"producerAdded", "producerRemoved"}
AboutProducers(l) == {i \in DOMAIN items : items[i][1] = l /\ items[i][2].type \in News}
AddedFor(l, x) ==
    \E i \in DOMAIN items : /\ items[i][1] = l
                            /\ items[i][2].type = "producerAdded"
                            /\ items[i][2].peer = x
RemovedFor(l, x) ==
    \E i \in DOMAIN items : /\ items[i][1] = l
                            /\ items[i][2].type = "producerRemoved"
                            /\ items[i][2].peer = x

\* One piece of news at most is on its way to a listener that has a list: it
\* is news to it, and with it the list is that of the producers there are.
CatalogueBalance ==
    \A l \in listed :
        /\ \A i, j \in AboutProducers(l) : i = j
        /\ \A x \in PeerId :
              /\ AddedFor(l, x) => x \notin catalogue[l]
              /\ RemovedFor(l, x) => x \in catalogue[l]
              /\ x \in DOMAIN producers <=>
                    (x \in catalogue[l] /\ ~RemovedFor(l, x)) \/ AddedFor(l, x)

\* A list on its way is the only item there is, and still true.
ListsAreCurrent ==
    \A i \in DOMAIN items : items[i][2].type = "list" =>
        /\ Len(items) = 1
        /\ {entry.id : entry \in items[i][2].producers} = DOMAIN producers

(* With nothing queued, the lists are those of the producers there are. *)
LEMMA SettledCatalogue ==
    ASSUME TypeOK, ViewTypes, CatalogueBalance, items = <<>>, NEW l \in listed
    PROVE  catalogue[l] = DOMAIN producers
<1>1. \A x \in PeerId : ~AddedFor(l, x) /\ ~RemovedFor(l, x)
  BY DEF AddedFor, RemovedFor
<1>2. l \in PeerId /\ DOMAIN producers \subseteq PeerId /\ catalogue[l] \subseteq PeerId
  BY DEF TypeOK, PeersTypeOK, ViewTypes
<1>. QED
  BY <1>1, <1>2 DEF CatalogueBalance

(* A step of the handler that queues no news and leaves the producers.     *)
LEMMA QuietKeepsCatalogue ==
    ASSUME TypeOK, ViewTypes, CatalogueBalance, items = <<>>,
           DOMAIN producers' = DOMAIN producers,
           \A i \in DOMAIN items' : items'[i][2].type \notin News,
           listed' \subseteq listed,
           \A l \in listed' : catalogue'[l] = catalogue[l]
    PROVE  CatalogueBalance'
<1>1. ASSUME NEW l \in listed'
      PROVE  /\ catalogue'[l] = DOMAIN producers'
             /\ AboutProducers(l)' = {}
             /\ \A x : ~AddedFor(l, x)' /\ ~RemovedFor(l, x)'
  <2>1. catalogue'[l] = DOMAIN producers'
    BY SettledCatalogue
  <2>2. AboutProducers(l)' = {}
    BY DEF AboutProducers
  <2>3. \A x : ~AddedFor(l, x)' /\ ~RemovedFor(l, x)'
    BY DEF AddedFor, RemovedFor, News
  <2>. QED
    BY <2>1, <2>2, <2>3
<1>. QED
  BY <1>1 DEF CatalogueBalance

(* What one step tells each listener once.                                 *)
LEMMA NewsKeepsCatalogue ==
    ASSUME TypeOK, TypeOK', ViewTypes, CatalogueBalance, items = <<>>,
           NEW peer \in PeerId, NEW news \in Message,
           news.peer = peer,
           \/ /\ news.type = "producerAdded"
              /\ peer \notin DOMAIN producers
              /\ DOMAIN producers' = DOMAIN producers \cup {peer}
           \/ /\ news.type = "producerRemoved"
              /\ peer \in DOMAIN producers
              /\ DOMAIN producers' = DOMAIN producers \ {peer},
           listed' \subseteq listed,
           \A l \in listed' : /\ catalogue'[l] = catalogue[l]
                              /\ Times(items', <<l, news>>) = 1,
           \A i \in DOMAIN items' : items'[i][2].type \in News => items'[i][2] = news
    PROVE  CatalogueBalance'
<1>1. items' \in Seq(Item) /\ \A i \in DOMAIN items' : items'[i] = <<items'[i][1], items'[i][2]>>
  BY DEF TypeOK, Item
<1>2. ASSUME NEW l \in listed'
      PROVE  /\ \A i, j \in AboutProducers(l)' : i = j
             /\ \E i \in DOMAIN items' : items'[i] = <<l, news>>
             /\ catalogue'[l] = DOMAIN producers
  <2>1. Times(items', <<l, news>>) = 1
    OBVIOUS
  <2>2. \A i, j \in DOMAIN items' : items'[i] = <<l, news>> /\ items'[j] = <<l, news>> => i = j
    BY <1>1, <2>1, TimesOne
  <2>3. \A i \in AboutProducers(l)' : items'[i] = <<l, news>>
    BY <1>1 DEF AboutProducers
  <2>4. AboutProducers(l)' \subseteq DOMAIN items'
    BY DEF AboutProducers
  <2>5. \E i \in DOMAIN items' : items'[i] = <<l, news>>
    BY <2>1, TimesNever
  <2>. QED
    BY <2>2, <2>3, <2>4, <2>5, SettledCatalogue
<1>3. ASSUME NEW l \in listed', NEW x \in PeerId
      PROVE  /\ AddedFor(l, x)' <=> news.type = "producerAdded" /\ x = peer
             /\ RemovedFor(l, x)' <=> news.type = "producerRemoved" /\ x = peer
  <2>1. PICK i \in DOMAIN items' : items'[i] = <<l, news>>
    BY <1>2
  <2>2. items'[i][1] = l /\ items'[i][2] = news
    BY <2>1
  <2>3. AddedFor(l, x)' <=> news.type = "producerAdded" /\ x = peer
    BY <2>2 DEF AddedFor, News
  <2>4. RemovedFor(l, x)' <=> news.type = "producerRemoved" /\ x = peer
    BY <2>2 DEF RemovedFor, News
  <2>. QED
    BY <2>3, <2>4
<1>4. CASE /\ news.type = "producerAdded"
           /\ peer \notin DOMAIN producers
           /\ DOMAIN producers' = DOMAIN producers \cup {peer}
  BY <1>2, <1>3, <1>4 DEF CatalogueBalance
<1>5. CASE /\ news.type = "producerRemoved"
           /\ peer \in DOMAIN producers
           /\ DOMAIN producers' = DOMAIN producers \ {peer}
  BY <1>2, <1>3, <1>5 DEF CatalogueBalance
<1>. QED
  BY <1>4, <1>5

(* A refusal or an answer of one message is no news; a list is the current *)
(* one.                                                                    *)
LEMMA OneAnswerKeepsCatalogue ==
    ASSUME TypeOK, ViewTypes, CatalogueBalance, items = <<>>,
           NEW to, NEW msg, Send(to, msg), msg.type \notin News,
           msg.type = "list" => msg = ListMsg,
           DOMAIN producers' = DOMAIN producers,
           listed' = listed, catalogue' = catalogue
    PROVE  CatalogueBalance' /\ ListsAreCurrent'
<1>1. items' = <<<<to, msg>>>>
  BY SendQueuesOne
<1>2. DOMAIN items' = {1} /\ Len(items') = 1 /\ items'[1][2] = msg
  BY <1>1
<1>3. CatalogueBalance'
  BY <1>2, QuietKeepsCatalogue
<1>4. {entry.id : entry \in ListMsg.producers} = DOMAIN producers
  <2>1. ListMsg.producers = {[id |-> p, meta |-> MetaOf(p)] : p \in DOMAIN producers}
    BY DEF ListMsg
  <2>2. \A entry \in ListMsg.producers : entry.id \in DOMAIN producers
    BY <2>1
  <2>3. ASSUME NEW p \in DOMAIN producers
        PROVE  \E entry \in ListMsg.producers : entry.id = p
    <3>1. [id |-> p, meta |-> MetaOf(p)] \in ListMsg.producers
      BY <2>1
    <3>. QED
      BY <3>1
  <2>. QED
    BY <2>2, <2>3
<1>. QED
  BY <1>2, <1>3, <1>4 DEF ListsAreCurrent

LEMMA MessageKeepsCatalogue ==
    ASSUME TypeOK, TypeOK', ViewTypes, CatalogueBalance, NEW peer \in PeerId,
           HandleMessage(peer), listed' = listed, catalogue' = catalogue
    PROVE  CatalogueBalance' /\ ListsAreCurrent'
<1>1. items = <<>>
  BY DEF HandleMessage
<1>2. ASSUME Reject(peer) PROVE CatalogueBalance' /\ ListsAreCurrent'
  <2>1. Send(peer, ErrorMsg) /\ DOMAIN producers' = DOMAIN producers
    BY <1>2 DEF Reject, Send, peers
  <2>. QED
    BY <1>1, <2>1, SessionMessages, OneAnswerKeepsCatalogue DEF News
<1>3. ASSUME NEW m \in Meta, RegisterConsumer(peer, m) \/ RegisterListener(peer, m)
      PROVE  CatalogueBalance' /\ ListsAreCurrent'
  <2>1. ASSUME NEW r, Send(peer, Registered(r, peer, m)), producers' = producers
        PROVE  CatalogueBalance' /\ ListsAreCurrent'
    BY <1>1, <2>1, SessionMessages, OneAnswerKeepsCatalogue DEF News
  <2>. QED
    BY <1>2, <1>3, <2>1 DEF RegisterConsumer, RegisterListener
<1>4. ASSUME NEW other \in PeerId, StartSession(peer, other)
      PROVE  CatalogueBalance' /\ ListsAreCurrent'
  <2>1. ASSUME Send(other, StartSessionMsg(peer)),
               producers' = [producers EXCEPT ![other] = @ \cup {peer}]
        PROVE  CatalogueBalance' /\ ListsAreCurrent'
    BY <1>1, <2>1, SessionMessages, OneAnswerKeepsCatalogue DEF News
  <2>. QED
    BY <1>2, <1>4, <2>1 DEF StartSession
<1>5. ASSUME NEW other \in PeerId, EndSession(peer, other)
      PROVE  CatalogueBalance' /\ ListsAreCurrent'
  <2>1. ASSUME Send(other, EndSessionMsg(peer)), NEW r, NEW s,
               producers' = [producers EXCEPT ![r] = @ \ {s}]
        PROVE  CatalogueBalance' /\ ListsAreCurrent'
    BY <1>1, <2>1, SessionMessages, OneAnswerKeepsCatalogue DEF News
  <2>. QED
    BY <1>2, <1>5, <2>1 DEF EndSession, TellOther
<1>6. CASE List(peer)
  BY <1>1, <1>6, SessionMessages, OneAnswerKeepsCatalogue DEF List, News, peers
<1>7. ASSUME NEW other \in PeerId, NEW inner \in Inner, PeerMessage(peer, other, inner)
      PROVE  CatalogueBalance' /\ ListsAreCurrent'
  <2>1. ASSUME Send(other, PeerMsg(peer, inner)), UNCHANGED peers
        PROVE  CatalogueBalance' /\ ListsAreCurrent'
    BY <1>1, <2>1, SessionMessages, OneAnswerKeepsCatalogue DEF News, peers
  <2>. QED
    BY <1>2, <1>7, <2>1 DEF PeerMessage
<1>8. ASSUME NEW m \in Meta, RegisterProducer(peer, m), ~IsProducer(peer)
      PROVE  CatalogueBalance' /\ ListsAreCurrent'
  <2>. DEFINE news == ProducerAdded(peer, m)
              answer == Registered("producer", peer, m)
  <2>1. news \in Message /\ news.peer = peer /\ news.type = "producerAdded"
        /\ answer.type = "registered"
    BY MessageTypes, SessionMessages
  <2>2. peer \notin DOMAIN producers /\ DOMAIN producers' = DOMAIN producers \cup {peer}
    BY <1>8 DEF RegisterProducer, IsProducer, Put
  <2>3. ASSUME NEW x, NEW msg
        PROVE  Times(items', <<x, msg>>) = (IF x \in listeners /\ msg = news THEN 1 ELSE 0)
                                         + (IF x = peer /\ msg = answer THEN 1 ELSE 0)
    BY <1>1, <1>8, RegisterProducerCounts
  <2>. HIDE DEF news, answer
  <2>4. ASSUME NEW i \in DOMAIN items' PROVE items'[i][2] \in {news, answer}
    <3>1. items' \in Seq(Item) /\ items'[i] = <<items'[i][1], items'[i][2]>>
      BY DEF TypeOK, Item
    <3>2. Times(items', <<items'[i][1], items'[i][2]>>) # 0
      BY <3>1, TimesZero
    <3>. QED
      BY <2>3, <3>2
  <2>5. \A i \in DOMAIN items' : /\ items'[i][2].type \in News => items'[i][2] = news
                                 /\ items'[i][2].type # "list"
    BY <2>1, <2>4 DEF News
  <2>6. \A l \in listed' : Times(items', <<l, news>>) = 1
    <3>1. news # answer
      BY <2>1
    <3>2. \A l \in listed' : l \in listeners
      BY DEF ViewTypes
    <3>. QED
      BY <2>3, <3>1, <3>2
  <2>7. CatalogueBalance'
    BY <1>1, <2>1, <2>2, <2>5, <2>6, NewsKeepsCatalogue
  <2>. QED
    BY <2>5, <2>7 DEF ListsAreCurrent
<1>9. ASSUME NEW m \in Meta, RegisterProducer(peer, m)
      PROVE  CatalogueBalance' /\ ListsAreCurrent'
  BY <1>2, <1>8, <1>9 DEF RegisterProducer
<1>. QED
  BY <1>3, <1>4, <1>5, <1>6, <1>7, <1>9 DEF HandleMessage

LEMMA DepartKeepsCatalogue ==
    ASSUME TypeOK, TypeOK', ViewTypes, CatalogueBalance, NEW peer \in PeerId, Depart(peer)
    PROVE  CatalogueBalance' /\ ListsAreCurrent'
<1>. DEFINE partner == SessionOf(ConsumersFreed(peer), peer)
            over == EndSessionMsg(peer)
            removed == ProducerRemoved(peer, MetaOf(peer))
<1>1. /\ items = <<>> /\ RemovePeer(peer)
      /\ listed' = listed \ {peer}
      /\ catalogue' = [catalogue EXCEPT ![peer] = {}]
  BY DEF Depart, HandleGone
<1>2. listed' \subseteq listed /\ \A l \in listed' : catalogue'[l] = catalogue[l]
  BY <1>1 DEF ViewTypes
<1>3. /\ removed \in Message /\ removed.peer = peer /\ removed.type = "producerRemoved"
      /\ over.type = "endSession"
  BY MessageTypes, MetaOfType, NoMetaIsMeta, SessionMessages DEF TypeOK
<1>4. ASSUME NEW x, NEW m
      PROVE  Times(items', <<x, m>>) =
                   (IF x \in SessionsEnded(peer) /\ m = over THEN 1 ELSE 0)
                 + (IF x \in ListenersTold(peer) /\ m = removed THEN 1 ELSE 0)
                 + (IF x \in partner /\ m = over THEN 1 ELSE 0)
  BY <1>1, RemovePeerCounts
<1>5. DOMAIN producers' = DOMAIN producers \ {peer}
  BY <1>1 DEF RemovePeer
<1>. HIDE DEF over, removed, partner
<1>6. ASSUME NEW i \in DOMAIN items'
      PROVE  LET m == items'[i][2]
             IN  m = over \/ (m = removed /\ ListenersTold(peer) # {})
  <2>1. items' \in Seq(Item) /\ items'[i] = <<items'[i][1], items'[i][2]>>
    BY DEF TypeOK, Item
  <2>2. Times(items', <<items'[i][1], items'[i][2]>>) # 0
    BY <2>1, TimesZero
  <2>3. ASSUME NEW x, NEW m, Times(items', <<x, m>>) # 0
        PROVE  m = over \/ (m = removed /\ ListenersTold(peer) # {})
    <3>1. Times(items', <<x, m>>) =
                   (IF x \in SessionsEnded(peer) /\ m = over THEN 1 ELSE 0)
                 + (IF x \in ListenersTold(peer) /\ m = removed THEN 1 ELSE 0)
                 + (IF x \in partner /\ m = over THEN 1 ELSE 0)
      BY <1>4
    <3>2. CASE m # over /\ ~(x \in ListenersTold(peer) /\ m = removed)
      BY <2>3, <3>1, <3>2
    <3>3. CASE m = over
      BY <3>3
    <3>4. CASE x \in ListenersTold(peer) /\ m = removed
      BY <3>4
    <3>. QED
      BY <3>2, <3>3, <3>4
  <2>. QED
    BY <2>2, <2>3
<1>7. \A i \in DOMAIN items' : /\ items'[i][2].type \in News => items'[i][2] = removed
                               /\ items'[i][2].type # "list"
  BY <1>3, <1>6 DEF News
<1>8. CASE IsProducer(peer)
  <2>1. \A l \in listed' : Times(items', <<l, removed>>) = 1
    <3>1. removed # over
      BY <1>3
    <3>2. \A l \in listed' : l \in ListenersTold(peer)
      BY <1>1, <1>8 DEF ViewTypes, ListenersTold, ListenersLeft
    <3>. QED
      BY <1>4, <3>1, <3>2
  <2>2. CatalogueBalance'
    BY <1>1, <1>2, <1>3, <1>5, <1>7, <1>8, <2>1, NewsKeepsCatalogue DEF IsProducer
  <2>. QED
    BY <1>7, <2>2 DEF ListsAreCurrent
<1>9. CASE ~IsProducer(peer)
  <2>1. ListenersTold(peer) = {} /\ DOMAIN producers' = DOMAIN producers
    BY <1>5, <1>9 DEF ListenersTold, IsProducer
  <2>2. \A i \in DOMAIN items' : items'[i][2].type \notin News
    BY <1>3, <1>6, <2>1 DEF News
  <2>3. CatalogueBalance'
    BY <1>1, <1>2, <2>1, <2>2, QuietKeepsCatalogue
  <2>. QED
    BY <1>7, <2>3 DEF ListsAreCurrent
<1>. QED
  BY <1>8, <1>9

(* Yielding an item moves the others one place up. *)
LEMMA PopMovesUp ==
    ASSUME TypeOK, PopItem
    PROVE  /\ \A i \in DOMAIN items' : i + 1 \in DOMAIN items /\ items'[i] = items[i + 1]
           /\ \A i \in DOMAIN items : \/ i = 1 /\ items[i] = Head(items)
                                      \/ i - 1 \in DOMAIN items' /\ items'[i - 1] = items[i]
           /\ 1 \in DOMAIN items /\ items[1] = Head(items)
           /\ Len(items') = Len(items) - 1
           /\ \A i \in DOMAIN items' : i \in Nat /\ Len(items) # 1
BY DEF TypeOK, PopItem

(* What an item yielded to another peer, or without news, leaves on its way. *)
LEMMA PopKeepsNews ==
    ASSUME TypeOK, PopItem, CatalogueBalance, NEW l \in listed,
           Head(items)[1] # l \/ Head(items)[2].type \notin News
    PROVE  /\ \A i, j \in AboutProducers(l)' : i = j
           /\ \A x : /\ AddedFor(l, x)' <=> AddedFor(l, x)
                     /\ RemovedFor(l, x)' <=> RemovedFor(l, x)
<1>1. \A i \in AboutProducers(l)' : i + 1 \in AboutProducers(l) /\ i \in Nat
  BY PopMovesUp DEF AboutProducers
<1>2. \A i, j \in AboutProducers(l)' : i = j
  <2>1. TAKE i, j \in AboutProducers(l)'
  <2>2. i + 1 = j + 1
    BY <1>1 DEF CatalogueBalance
  <2>. QED
    BY <1>1, <2>2
<1>3. ASSUME NEW x
      PROVE  /\ AddedFor(l, x)' <=> AddedFor(l, x)
             /\ RemovedFor(l, x)' <=> RemovedFor(l, x)
  <2>1. \A i \in DOMAIN items' : i + 1 \in DOMAIN items /\ items'[i] = items[i + 1]
    BY PopMovesUp
  <2>2. \A i \in DOMAIN items : items[i][1] = l /\ items[i][2].type \in News =>
            i - 1 \in DOMAIN items' /\ items'[i - 1] = items[i]
    BY PopMovesUp
  <2>3. AddedFor(l, x)' => AddedFor(l, x)
    BY <2>1 DEF AddedFor
  <2>4. RemovedFor(l, x)' => RemovedFor(l, x)
    BY <2>1 DEF RemovedFor
  <2>5. AddedFor(l, x) => AddedFor(l, x)'
    BY <2>2 DEF AddedFor, News
  <2>6. RemovedFor(l, x) => RemovedFor(l, x)'
    BY <2>2 DEF RemovedFor, News
  <2>. QED
    BY <2>3, <2>4, <2>5, <2>6
<1>. QED
  BY <1>2, <1>3

(* What is left for a listener that has just had its news: none. *)
LEMMA PopTakesNews ==
    ASSUME TypeOK, PopItem, CatalogueBalance, NEW l \in listed,
           Head(items)[1] = l, Head(items)[2].type \in News
    PROVE  /\ AboutProducers(l)' = {}
           /\ \A x : ~AddedFor(l, x)' /\ ~RemovedFor(l, x)'
           /\ \A x : /\ AddedFor(l, x) <=> /\ Head(items)[2].type = "producerAdded"
                                           /\ Head(items)[2].peer = x
                     /\ RemovedFor(l, x) <=> /\ Head(items)[2].type = "producerRemoved"
                                             /\ Head(items)[2].peer = x
<1>1. 1 \in AboutProducers(l) /\ items[1] = Head(items)
  BY PopMovesUp DEF AboutProducers
<1>2. \A i \in AboutProducers(l) : i = 1
  BY <1>1 DEF CatalogueBalance
<1>3. AboutProducers(l)' = {}
  <2>1. \A i \in AboutProducers(l)' : i + 1 \in AboutProducers(l) /\ i \in Nat /\ i + 1 # 1
    BY PopMovesUp DEF AboutProducers
  <2>. QED
    BY <1>2, <2>1
<1>4. ASSUME NEW x PROVE ~AddedFor(l, x)' /\ ~RemovedFor(l, x)'
  BY <1>3 DEF AboutProducers, AddedFor, RemovedFor, News
<1>5. ASSUME NEW x
      PROVE  /\ AddedFor(l, x) <=> /\ Head(items)[2].type = "producerAdded"
                                   /\ Head(items)[2].peer = x
             /\ RemovedFor(l, x) <=> /\ Head(items)[2].type = "producerRemoved"
                                     /\ Head(items)[2].peer = x
  <2>1. \A i \in DOMAIN items : items[i][1] = l /\ items[i][2].type \in News => i = 1
    BY <1>2 DEF AboutProducers
  <2>2. 1 \in DOMAIN items
    BY PopMovesUp
  <2>. QED
    BY <1>1, <2>1, <2>2 DEF AddedFor, RemovedFor, News
<1>. QED
  BY <1>3, <1>4, <1>5

LEMMA DiscardKeepsCatalogue ==
    ASSUME TypeOK, ViewTypes, CatalogueBalance, ListsAreCurrent, KnownAreConnected, Discard
    PROVE  CatalogueBalance' /\ ListsAreCurrent'
<1>1. /\ PopItem /\ UNCHANGED <<listed, catalogue, producers>>
      /\ Head(items)[1] \notin connected
  BY DEF Discard, views, PopItem, peers
<1>2. \A l \in listed : Head(items)[1] # l
  BY <1>1 DEF ViewTypes, KnownAreConnected, Known
<1>3. CatalogueBalance'
  BY <1>1, <1>2, PopKeepsNews DEF CatalogueBalance
<1>4. ListsAreCurrent'
  BY <1>1, PopMovesUp DEF ListsAreCurrent
<1>. QED
  BY <1>3, <1>4

LEMMA DeliverKeepsCatalogue ==
    ASSUME TypeOK, ViewTypes, CatalogueBalance, ListsAreCurrent, Deliver
    PROVE  /\ listed' \subseteq listeners'
           /\ catalogue' \in [PeerId -> SUBSET PeerId]
           /\ CatalogueBalance'
           /\ ListsAreCurrent'
<1>. DEFINE to == Head(items)[1]
            msg == Head(items)[2]
<1>1. PopItem /\ UNCHANGED <<producers, listeners>>
  BY DEF Deliver, PopItem, peers
<1>2. Head(items) \in Item /\ to \in PeerId /\ msg \in Message
  BY <1>1 DEF PopItem, TypeOK, Item
<1>3. /\ listed' = IF msg.type = "list" THEN listed \cup ({to} \cap listeners) ELSE listed
      /\ catalogue' =
           CASE msg.type = "list" /\ to \in listeners ->
                   [catalogue EXCEPT ![to] = {entry.id : entry \in msg.producers}]
             [] msg.type = "producerAdded" /\ to \in listed ->
                   [catalogue EXCEPT ![to] = @ \cup {msg.peer}]
             [] msg.type = "producerRemoved" /\ to \in listed ->
                   [catalogue EXCEPT ![to] = @ \ {msg.peer}]
             [] OTHER -> catalogue
  BY DEF Deliver
<1>4. ListsAreCurrent'
  BY <1>1, PopMovesUp DEF ListsAreCurrent
<1>5. listed' \subseteq listeners'
  BY <1>1, <1>3 DEF ViewTypes
<1>6. CASE msg.type = "list"
  <2>1. Len(items) = 1 /\ {entry.id : entry \in msg.producers} = DOMAIN producers
    BY <1>1, <1>6, PopMovesUp DEF ListsAreCurrent
  <2>2. DOMAIN items' = {}
    BY <1>1, <2>1, PopMovesUp DEF TypeOK, PopItem
  <2>3. \A l : /\ AboutProducers(l)' = {}
               /\ \A x : ~AddedFor(l, x)' /\ ~RemovedFor(l, x)'
    BY <2>2 DEF AboutProducers, AddedFor, RemovedFor
  <2>4. catalogue' = IF to \in listeners THEN [catalogue EXCEPT ![to] = DOMAIN producers]
                                         ELSE catalogue
    BY <1>3, <1>6, <2>1
  <2>5. DOMAIN producers \subseteq PeerId
    BY DEF TypeOK, PeersTypeOK
  <2>6. \A l \in listed : l # to => catalogue[l] = DOMAIN producers
    <3>1. \A i \in DOMAIN items : i = 1 /\ items[i] = Head(items)
      BY <1>1, <2>1, PopMovesUp DEF TypeOK
    <3>2. \A l, x : l # to => ~AddedFor(l, x) /\ ~RemovedFor(l, x)
      BY <3>1 DEF AddedFor, RemovedFor
    <3>3. ASSUME NEW l \in listed, l # to
          PROVE  catalogue[l] = DOMAIN producers
      <4>1. l \in PeerId
        BY DEF ViewTypes, TypeOK, PeersTypeOK
      <4>2. \A x \in PeerId : x \in DOMAIN producers <=> x \in catalogue[l]
        BY <3>2, <3>3 DEF CatalogueBalance
      <4>3. catalogue[l] \subseteq PeerId
        BY <4>1 DEF ViewTypes
      <4>. QED
        BY <2>5, <4>2, <4>3
    <3>. QED
      BY <3>3
  <2>7. to \in listeners => catalogue'[to] = DOMAIN producers
    BY <1>2, <2>4 DEF ViewTypes
  <2>8. ASSUME NEW l \in listed' PROVE catalogue'[l] = DOMAIN producers
    <3>1. l \in listed \/ (l = to /\ to \in listeners)
      BY <1>3, <1>6
    <3>2. CASE l = to
      BY <2>7, <3>1, <3>2 DEF ViewTypes
    <3>3. CASE l # to
      <4>1. catalogue'[l] = catalogue[l]
        BY <2>4, <3>3 DEF ViewTypes
      <4>. QED
        BY <2>6, <3>1, <3>3, <4>1
    <3>. QED
      BY <3>2, <3>3
  <2>9. CatalogueBalance'
    BY <1>1, <2>3, <2>8 DEF CatalogueBalance
  <2>. QED
    BY <1>2, <1>4, <1>5, <2>4, <2>5, <2>9 DEF ViewTypes
<1>7. CASE msg.type \in News /\ to \in listed
  <2>1. listed' = listed /\ msg.peer \in PeerId
    BY <1>2, <1>3, <1>7, FieldsOfMessages DEF News
  <2>2. catalogue' = [catalogue EXCEPT ![to] =
                         IF msg.type = "producerAdded" THEN @ \cup {msg.peer}
                                                       ELSE @ \ {msg.peer}]
    BY <1>3, <1>7 DEF News
  <2>3. catalogue' \in [PeerId -> SUBSET PeerId]
    BY <2>1, <2>2 DEF ViewTypes
  <2>4. ASSUME NEW l \in listed
        PROVE  /\ \A i, j \in AboutProducers(l)' : i = j
               /\ \A x \in PeerId :
                     /\ AddedFor(l, x)' => x \notin catalogue'[l]
                     /\ RemovedFor(l, x)' => x \in catalogue'[l]
                     /\ x \in DOMAIN producers' <=>
                           (x \in catalogue'[l] /\ ~RemovedFor(l, x)') \/ AddedFor(l, x)'
    <3>1. CASE l # to
      <4>1. catalogue'[l] = catalogue[l]
        BY <2>2, <2>4, <3>1 DEF ViewTypes
      <4>. QED
        BY <1>1, <3>1, <4>1, PopKeepsNews DEF CatalogueBalance
    <3>2. CASE l = to
      <4>1. catalogue'[l] = IF msg.type = "producerAdded" THEN catalogue[l] \cup {msg.peer}
                                                          ELSE catalogue[l] \ {msg.peer}
        BY <1>2, <2>2, <3>2 DEF ViewTypes
      <4>2. /\ AboutProducers(l)' = {}
            /\ \A x : ~AddedFor(l, x)' /\ ~RemovedFor(l, x)'
            /\ \A x : /\ AddedFor(l, x) <=> msg.type = "producerAdded" /\ msg.peer = x
                      /\ RemovedFor(l, x) <=> msg.type = "producerRemoved" /\ msg.peer = x
        BY <1>1, <1>7, <3>2, PopTakesNews
      <4>. QED
        BY <1>1, <1>7, <4>1, <4>2 DEF CatalogueBalance, News
    <3>. QED
      BY <3>1, <3>2
  <2>5. CatalogueBalance'
    BY <2>1, <2>4 DEF CatalogueBalance
  <2>. QED
    BY <1>4, <1>5, <2>3, <2>5
<1>8. CASE msg.type # "list" /\ ~(msg.type \in News /\ to \in listed)
  <2>1. listed' = listed /\ catalogue' = catalogue
    BY <1>3, <1>8 DEF News
  <2>2. \A l \in listed : to # l \/ msg.type \notin News
    BY <1>8
  <2>3. CatalogueBalance'
    BY <1>1, <2>1, <2>2, PopKeepsNews DEF CatalogueBalance
  <2>. QED
    BY <1>4, <1>5, <2>1, <2>3 DEF ViewTypes
<1>. QED
  BY <1>6, <1>7, <1>8

-----------------------------------------------------------------------------
(* The invariant, and what follows from it.                                *)

IInv == ViewTypes /\ KnownAreConnected /\ LinksBalance /\ CatalogueBalance /\ ListsAreCurrent

LEMMA InitIInv == ViewInit => IInv
<1>. SUFFICES ASSUME ViewInit PROVE IInv
  OBVIOUS
<1>1. /\ items = <<>> /\ producers = << >> /\ consumers = << >> /\ listeners = {}
      /\ connected = {} /\ listed = {}
      /\ links = [p \in PeerId |-> NoLinks]
      /\ catalogue = [p \in PeerId |-> {}]
  BY DEF ViewInit, Init
<1>2. NoLinks \in [PeerId -> 0..2] /\ \A q \in PeerId : NoLinks[q] = 0
  BY DEF NoLinks
<1>3. ViewTypes
  BY <1>1, <1>2 DEF ViewTypes
<1>4. KnownAreConnected
  BY <1>1 DEF KnownAreConnected, Known
<1>5. LinksBalance
  BY <1>1, <1>2 DEF LinksBalance, Balanced
<1>6. CatalogueBalance /\ ListsAreCurrent
  BY <1>1 DEF CatalogueBalance, ListsAreCurrent
<1>. QED
  BY <1>3, <1>4, <1>5, <1>6 DEF IInv

LEMMA NextKeepsIInv ==
    ASSUME HandlerInv, HandlerInv', IInv, [ViewNext]_viewVars
    PROVE  IInv'
<1>1. /\ TypeOK /\ TypeOK' /\ SessionsAgree
      /\ ViewTypes /\ KnownAreConnected /\ LinksBalance /\ CatalogueBalance /\ ListsAreCurrent
  BY DEF HandlerInv, IInv
<1>2. CASE Deliver
  <2>1. links' \in [PeerId -> [PeerId -> 0..2]] /\ LinksBalance'
    BY <1>1, <1>2, DeliverKeepsLinks
  <2>2. /\ listed' \subseteq listeners'
        /\ catalogue' \in [PeerId -> SUBSET PeerId]
        /\ CatalogueBalance'
        /\ ListsAreCurrent'
    BY <1>1, <1>2, DeliverKeepsCatalogue
  <2>3. connected' = connected /\ Known' = Known
    BY <1>2 DEF Deliver, PopItem, peers, Known
  <2>. QED
    BY <1>1, <2>1, <2>2, <2>3 DEF IInv, ViewTypes, KnownAreConnected
<1>3. CASE Discard
  <2>1. LinksBalance'
    BY <1>1, <1>3, DiscardKeepsLinks
  <2>2. CatalogueBalance' /\ ListsAreCurrent'
    BY <1>1, <1>3, DiscardKeepsCatalogue
  <2>3. ViewTypes' /\ KnownAreConnected'
    BY <1>1, <1>3 DEF Discard, PopItem, peers, views, ViewTypes, KnownAreConnected, Known
  <2>. QED
    BY <2>1, <2>2, <2>3 DEF IInv
<1>4. ASSUME NEW peer \in PeerId, Connect(peer)
      PROVE  IInv'
  <2>1. LinksBalance'
    BY <1>1, <1>4, ConnectKeepsLinks
  <2>2. /\ items = <<>> /\ UNCHANGED <<items, producers, consumers, listeners, links, listed, catalogue>>
        /\ connected' = connected \cup {peer}
    BY <1>4 DEF Connect, vars, views
  <2>3. ViewTypes' /\ KnownAreConnected'
    BY <1>1, <2>2 DEF ViewTypes, KnownAreConnected, Known
  <2>4. CatalogueBalance' /\ ListsAreCurrent'
    BY <1>1, <2>2 DEF CatalogueBalance, ListsAreCurrent, AboutProducers, AddedFor, RemovedFor
  <2>. QED
    BY <2>1, <2>3, <2>4 DEF IInv
<1>5. ASSUME NEW peer \in PeerId, Ask(peer) \/ AskOther(peer)
      PROVE  IInv'
  <2>1. /\ HandleMessage(peer) /\ peer \in connected
        /\ UNCHANGED <<connected, listed, catalogue>>
    BY <1>5 DEF Ask, AskOther, HandleMessage, views
  <2>2. links' \in [PeerId -> [PeerId -> 0..2]] /\ LinksBalance'
    <3>1. CASE Ask(peer)
      BY <1>1, <3>1, AskKeepsLinks
    <3>2. CASE AskOther(peer)
      BY <1>1, <3>2, AskOtherKeepsLinks DEF AskOther, views, ViewTypes
    <3>. QED
      BY <1>5, <3>1, <3>2
  <2>3. CatalogueBalance' /\ ListsAreCurrent'
    BY <1>1, <2>1, MessageKeepsCatalogue
  <2>4. KnownAreConnected'
    BY <1>1, <2>1, OnlySenderBecomesKnown DEF KnownAreConnected
  <2>5. listeners \subseteq listeners'
    BY <2>1 DEF HandleMessage, RegisterProducer, RegisterConsumer, RegisterListener,
                List, StartSession, EndSession, PeerMessage, Reject, peers
  <2>6. ViewTypes'
    BY <1>1, <2>1, <2>2, <2>5 DEF ViewTypes
  <2>. QED
    BY <2>2, <2>3, <2>4, <2>6 DEF IInv
<1>6. ASSUME NEW peer \in PeerId, Depart(peer)
      PROVE  IInv'
  <2>1. links' \in [PeerId -> [PeerId -> 0..2]] /\ LinksBalance'
    BY <1>1, <1>6, DepartKeepsLinks
  <2>2. CatalogueBalance' /\ ListsAreCurrent'
    BY <1>1, <1>6, DepartKeepsCatalogue
  <2>3. /\ RemovePeer(peer) /\ connected' = connected \ {peer}
        /\ listed' = listed \ {peer} /\ catalogue' = [catalogue EXCEPT ![peer] = {}]
        /\ listeners' = listeners \ {peer}
    BY <1>6 DEF Depart, HandleGone, RemovePeer, ListenersLeft
  <2>4. KnownAreConnected'
    BY <1>1, <2>3, OnlyGoneForgotten DEF KnownAreConnected
  <2>5. ViewTypes'
    BY <1>1, <2>1, <2>3 DEF ViewTypes
  <2>. QED
    BY <2>1, <2>2, <2>4, <2>5 DEF IInv
<1>7. CASE UNCHANGED viewVars
  <2>1. /\ UNCHANGED <<items, producers, consumers, listeners>>
        /\ UNCHANGED <<connected, links, listed, catalogue>>
    BY <1>7 DEF viewVars, vars, views
  <2>2. ViewTypes' /\ KnownAreConnected'
    BY <1>1, <2>1 DEF ViewTypes, KnownAreConnected, Known
  <2>3. LinksBalance'
    BY <1>1, <2>1 DEF LinksBalance, Balanced, StartsFor, EndsFor, SessionCount, InSession, IsProducer
  <2>4. \A l : /\ AboutProducers(l)' = AboutProducers(l)
               /\ \A x : /\ AddedFor(l, x)' <=> AddedFor(l, x)
                         /\ RemovedFor(l, x)' <=> RemovedFor(l, x)
    BY <2>1 DEF AboutProducers, AddedFor, RemovedFor
  <2>5. CatalogueBalance' /\ ListsAreCurrent'
    BY <1>1, <2>1, <2>4 DEF CatalogueBalance, ListsAreCurrent
  <2>. QED
    BY <2>2, <2>3, <2>5 DEF IInv
<1>. QED
  BY <1>2, <1>3, <1>4, <1>5, <1>6, <1>7 DEF ViewNext

(* A behaviour of the views is one of the handler, so that what the        *)
(* handler relies on holds here as well.                                   *)
LEMMA ViewsFollowHandler == ViewSpec => Spec
<1>1. ViewInit => Init
  BY DEF ViewInit
<1>2. [ViewNext]_viewVars => [Next]_vars
  BY ViewStepIsHandlerStep
<1>. QED
  BY <1>1, <1>2, PTL DEF ViewSpec, Spec

LEMMA IInvHolds == ViewSpec => [](HandlerInv /\ IInv)
<1>1. ViewSpec => []HandlerInv
  BY ViewsFollowHandler, HandlerInvHolds, PTL
<1>. QED
  BY <1>1, InitIInv, NextKeepsIInv, PTL DEF ViewSpec

(* Once its items are out, every peer counts exactly the sessions that the *)
(* server keeps, whatever the requests, the departures and the orders in   *)
(* which remove_peer walks its maps.                                       *)
THEOREM LinksAreExact == ViewSpec => []LinksExact
<1>1. HandlerInv /\ IInv => LinksExact
  <2>. SUFFICES ASSUME IInv, HandlerInv, items = <<>>, NEW p \in PeerId, NEW q \in PeerId
                PROVE  links[p][q] = LinksBetween(p, q)
    BY DEF LinksExact
  <2>1. StartsFor(p, q) = 0 /\ EndsFor(p, q) = 0
    BY NothingQueued
  <2>2. links[p][q] \in 0..2 /\ SessionCount(p, q) \in 0..2
    BY SessionCountType DEF IInv, ViewTypes
  <2>3. p \notin connected => SessionCount(p, q) = 0
    BY PartnersAreKnown DEF SessionCount, IInv, KnownAreConnected, HandlerInv
  <2>4. links[p][q] = SessionCount(p, q)
    BY <2>1, <2>2, <2>3 DEF IInv, LinksBalance, Balanced
  <2>. QED
    BY <2>4 DEF SessionCount, LinksBetween
<1>. QED
  BY <1>1, IInvHolds, PTL

(* A listener that asked for a list after registering is told each change  *)
(* of the producers once, and of nothing that it knows already: its list   *)
(* has the identifiers of those registered.                                *)
THEOREM CatalogueIsTrue == ViewSpec => []CatalogueTrue
<1>1. HandlerInv /\ IInv => CatalogueTrue
  <2>. SUFFICES ASSUME HandlerInv, IInv PROVE CatalogueExact /\ NoSurprise
    BY DEF CatalogueTrue
  <2>1. TypeOK /\ ViewTypes /\ CatalogueBalance
    BY DEF HandlerInv, IInv
  <2>2. CatalogueExact
    BY <2>1, SettledCatalogue DEF CatalogueExact
  <2>3. NoSurprise
    <3>. SUFFICES ASSUME items # <<>>, Head(items)[1] \in listed
                  PROVE  LET l == Head(items)[1]
                             msg == Head(items)[2]
                         IN  /\ msg.type = "producerAdded" => msg.peer \notin catalogue[l]
                             /\ msg.type = "producerRemoved" => msg.peer \in catalogue[l]
      BY DEF NoSurprise
    <3>. DEFINE l == Head(items)[1]
                msg == Head(items)[2]
    <3>1. 1 \in DOMAIN items /\ items[1] = Head(items) /\ msg \in Message
      BY <2>1 DEF TypeOK, Item
    <3>2. msg.type \in News => msg.peer \in PeerId
      BY <3>1, FieldsOfMessages DEF News
    <3>3. CASE msg.type = "producerAdded"
      <4>1. AddedFor(l, msg.peer)
        BY <3>1, <3>3 DEF AddedFor
      <4>. QED
        BY <2>1, <3>2, <3>3, <4>1 DEF CatalogueBalance, News
    <3>4. CASE msg.type = "producerRemoved"
      <4>1. RemovedFor(l, msg.peer)
        BY <3>1, <3>4 DEF RemovedFor
      <4>. QED
        BY <2>1, <3>2, <3>4, <4>1 DEF CatalogueBalance, News
    <3>. QED
      BY <3>3, <3>4
  <2>. QED
    BY <2>2, <2>3
<1>. QED
  BY <1>1, IInvHolds, PTL

(* No peer counts more than the two sessions that two peers can have, a    *)
(* listener with a list is registered, and no role, session or metadata    *)
(* survives the socket of its peer.                                        *)
THEOREM ViewsInvHolds == ViewSpec => []ViewsInv
<1>1. HandlerInv /\ IInv => ViewsInv
  <2>. SUFFICES ASSUME HandlerInv, IInv PROVE ViewTypeOK /\ OnlyConnectedKnown
    BY DEF ViewsInv
  <2>1. /\ SessionsAgree /\ MetaMatchesRoles
        /\ ViewTypes /\ KnownAreConnected
    BY DEF HandlerInv, IInv
  <2>2. ViewTypeOK
    BY <2>1 DEF ViewTypes, ViewTypeOK
  <2>3. OnlyConnectedKnown
    BY <2>1, PartnersAreKnown DEF KnownAreConnected, Known, MetaMatchesRoles, OnlyConnectedKnown
  <2>. QED
    BY <2>2, <2>3
<1>. QED
  BY <1>1, IInvHolds, PTL

=============================================================================
