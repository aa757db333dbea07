---------------------- MODULE ConsumerSessions_proofs ----------------------
(***************************************************************************)
(* Proofs about an element's consumers, for any peers, streams and habits  *)
(* of the clients: that the map, the finalized consumers and the links     *)
(* agree; and, with clients that wait for what is left of their own, that  *)
(* a session goes on in one place at a time, so that nothing panics, and   *)
(* that the element and the server agree in the end on who is in session.  *)
(***************************************************************************)
EXTENDS ConsumerSessions, SequenceTheorems, FiniteSetTheorems, TLAPS

-----------------------------------------------------------------------------
(* Sequences, entry by entry.                                              *)

\* Appending leaves the entries there are alone,
LEMMA Appended ==
    ASSUME NEW S, NEW seq \in Seq(S), NEW e \in S, NEW new, new = Append(seq, e)
    PROVE  /\ new \in Seq(S)
           /\ Len(new) = Len(seq) + 1
           /\ DOMAIN new = DOMAIN seq \cup {Len(new)} /\ Len(new) \notin DOMAIN seq
           /\ new[Len(new)] = e
           /\ \A i \in DOMAIN seq : new[i] = seq[i]
  <1>1. /\ Len(seq) \in Nat /\ DOMAIN seq = 1..Len(seq)
        /\ new \in Seq(S) /\ Len(new) = Len(seq) + 1
    BY LenProperties
  <1>2. DOMAIN new = 1..(Len(seq) + 1)
    BY <1>1, LenProperties
  <1>3. \A i \in 1..Len(seq) : new[i] = seq[i]
    BY <1>1
  <1>4. new[Len(seq) + 1] = e
    BY <1>1
  <1> QED BY <1>1, <1>2, <1>3, <1>4

\* changing one leaves the others alone,
LEMMA Changed ==
    ASSUME NEW S, NEW seq \in Seq(S), NEW i \in DOMAIN seq, NEW e \in S,
           NEW new, new = [seq EXCEPT ![i] = e]
    PROVE  /\ new \in Seq(S)
           /\ DOMAIN new = DOMAIN seq
           /\ new[i] = e
           /\ \A k \in DOMAIN seq : k # i => new[k] = seq[k]
  <1>1. i \in 1..Len(seq)
    BY LenProperties
  <1>2. new \in Seq(S)
    BY <1>1, ExceptSeq
  <1> QED BY <1>2

\* and all may change at once.
LEMMA AllChanged ==
    ASSUME NEW S, NEW seq \in Seq(S), NEW new,
           DOMAIN new = DOMAIN seq, new = [i \in DOMAIN seq |-> new[i]],
           \A i \in DOMAIN seq : new[i] \in S
    PROVE  new \in Seq(S)
  <1>1. Len(seq) \in Nat /\ DOMAIN seq = 1..Len(seq)
    BY LenProperties
  <1>2. new \in [1..Len(seq) -> S]
    BY <1>1
  <1> QED BY <1>1, <1>2

-----------------------------------------------------------------------------
(* The inductive invariant, in parts.                                      *)

\* The map's entries are consumers made for the peer, and not finalized,
Map ==
    /\ DOMAIN consumers \subseteq Peer
    /\ made \in Seq(Consumer)
    /\ \A p \in DOMAIN consumers :
          consumers[p] \in DOMAIN made /\ made[consumers[p]].peer = p
    /\ \A n \in DOMAIN made : made[n].gone <=> ~InMap(n)

\* the receive task adds a consumer or is idle,
Receiver ==
    /\ step \in {"idle", "settings", "negotiate", "play"}
    /\ adding \subseteq Peer /\ (adding = {} <=> step = "idle")

\* one consumer's streams are connected at a time, of one in the map: nobody
\* else can take it out while the lock is held,
Target ==
    /\ connecting = {} \/ \E c : connecting = {c}
    /\ \A c \in connecting : c.target \in DOMAIN made /\ c.todo \subseteq Stream
    /\ \A c \in connecting : InMap(c.target)

\* and what is sent is about consumers there were.
Messages ==
    /\ panicked \in BOOLEAN /\ habit \in Habit /\ joins \in 0..MaxSessions
    /\ client \in [Peer -> {"out", "waiting", "offered", "answered"}]
    /\ refused \subseteq Peer /\ overtaken \subseteq Peer
    /\ inbox \in [Word \X Peer -> Nat]
    /\ outbox \subseteq {"end", "offer"} \X DOMAIN made

IInv == Map /\ LinksOfPresent /\ Receiver /\ Target /\ Messages

-----------------------------------------------------------------------------
(* What a step may do to the consumers.                                    *)

\* It leaves in them who they are, whether they are finalized, and the streams of
\* those that are not in the map.
Alike(new) ==
    /\ new \in Seq(Consumer) /\ DOMAIN new = DOMAIN made
    /\ \A n \in DOMAIN made :
          /\ new[n].peer = made[n].peer /\ new[n].gone = made[n].gone
          /\ InMap(n) \/ new[n].links = made[n].links

\* A step that does this and leaves the map alone,
LEMMA AlikeKeeps ==
    ASSUME Map, LinksOfPresent, Alike(made'), consumers' = consumers
    PROVE  /\ Map' /\ LinksOfPresent' /\ DOMAIN made' = DOMAIN made
           /\ \A n \in DOMAIN made : InMap(n) => InMap(n)'
  <1>1. \A n \in DOMAIN made : InMap(n)' <=> InMap(n)
    BY DEF Alike, InMap, Present, About
  <1> QED BY <1>1 DEF Map, LinksOfPresent, Alike

\* or removes a consumer from it and finalizes it.
LEMMA RemoveKeeps ==
    ASSUME Map, LinksOfPresent, NEW base, Alike(base), NEW p, NEW signal,
           RemoveConsumer(base, p, signal), outbox \subseteq {"end", "offer"} \X DOMAIN made
    PROVE  /\ Map' /\ LinksOfPresent' /\ DOMAIN made' = DOMAIN made
           /\ outbox' \subseteq {"end", "offer"} \X DOMAIN made'
  <1> DEFINE Hit == {n \in DOMAIN base : Present(p) /\ consumers[p] = n}
  <1>1. base \in Seq(Consumer) /\ \A n \in DOMAIN base : base[n] \in Consumer
    BY LenProperties DEF Alike
  <1>2. /\ made' = [n \in DOMAIN base |-> IF n \in Hit THEN Finalized(base[n]) ELSE base[n]]
        /\ consumers' = [q \in DOMAIN consumers \ {p} |-> consumers[q]]
        /\ outbox' = outbox \cup (IF signal THEN Tell(Hit) ELSE {})
    BY DEF RemoveConsumer, Others
  <1>3. \A n \in Hit : n \in DOMAIN made /\ InMap(n) /\ made[n].peer = p
    BY DEF Map, InMap, Present, About, Alike
  <1>4. \A n \in DOMAIN made \ Hit : InMap(n) => made[n].peer # p
    BY DEF Map, InMap, Present, About, Alike
  <1> HIDE DEF Hit
  <1>5. /\ DOMAIN made' = DOMAIN base
        /\ made' = [n \in DOMAIN base |-> made'[n]]
        /\ \A n \in DOMAIN base :
              /\ made'[n] \in Consumer /\ made'[n].peer = base[n].peer
              /\ n \in Hit => made'[n].gone /\ made'[n].links = {}
              /\ n \notin Hit => made'[n] = base[n]
    BY <1>1, <1>2 DEF Finalized, Consumer
  <1>6. made' \in Seq(Consumer)
    BY <1>1, <1>5, AllChanged
  <1>7. \A n \in DOMAIN made : InMap(n)' <=> InMap(n) /\ n \notin Hit
    BY <1>2, <1>3, <1>4, <1>5 DEF InMap, Present, About, Alike
  <1>8. Map'
    <2>1. DOMAIN consumers' \subseteq Peer
      BY <1>2 DEF Map
    <2>2. \A q \in DOMAIN consumers' :
             consumers'[q] \in DOMAIN made' /\ made'[consumers'[q]].peer = q
      BY <1>2, <1>5 DEF Map, Alike
    <2>3. \A n \in DOMAIN made' : made'[n].gone <=> ~InMap(n)'
      BY <1>5, <1>7 DEF Map, Alike
    <2> QED BY <1>6, <2>1, <2>2, <2>3 DEF Map
  <1>9. LinksOfPresent'
    BY <1>5, <1>7 DEF LinksOfPresent, Alike
  <1>10. outbox' \subseteq {"end", "offer"} \X DOMAIN made'
    BY <1>2, <1>3, <1>5 DEF Tell, Alike
  <1> QED BY <1>5, <1>8, <1>9, <1>10 DEF Alike

\* A change of one consumer is such a step if it is one for that consumer.
LEMMA OneAlike ==
    ASSUME Map, NEW n \in DOMAIN made, NEW e \in Consumer, NEW new,
           new = [made EXCEPT ![n] = e],
           e.peer = made[n].peer, e.gone = made[n].gone,
           InMap(n) \/ e.links = made[n].links
    PROVE  Alike(new)
  <1>1. made \in Seq(Consumer)
    BY DEF Map
  <1>2. /\ new \in Seq(Consumer) /\ DOMAIN new = DOMAIN made
        /\ new[n] = e
        /\ \A k \in DOMAIN made : k # n => new[k] = made[k]
    BY <1>1, Changed
  <1> QED BY <1>2 DEF Alike

\* No change is one.
LEMMA SameAlike ==
    ASSUME Map
    PROVE  Alike(made)
  BY DEF Map, Alike

\* What is queued for a consumer's webrtcbin, and that it has called back, is one.
LEMMA QueueAlike ==
    ASSUME Map, NEW n \in DOMAIN made, NEW op \in {"offer", "remote"}
    PROVE  Alike(Queue(n, op))
  <1>1. made[n] \in Consumer
    BY LenProperties DEF Map
  <1>2. PICK e \in Consumer :
          /\ Queue(n, op) = [made EXCEPT ![n] = e]
          /\ e.peer = made[n].peer /\ e.gone = made[n].gone /\ e.links = made[n].links
    <2> DEFINE f == [made[n] EXCEPT !.ops = Append(@, op)]
    <2>1. Append(made[n].ops, op) \in Seq({"offer", "remote"})
      BY <1>1, AppendProperties DEF Consumer
    <2>2. /\ f \in Consumer
          /\ f.peer = made[n].peer /\ f.gone = made[n].gone /\ f.links = made[n].links
      BY <1>1, <2>1 DEF Consumer
    <2>3. Queue(n, op) = [made EXCEPT ![n] = f]
      BY DEF Queue
    <2> HIDE DEF f
    <2> QED BY <2>2, <2>3
  <1> QED BY <1>2, OneAlike

LEMMA CalledBackAlike ==
    ASSUME Map, NEW n \in DOMAIN made, made[n].ops # <<>>
    PROVE  Alike(CalledBack(n))
  <1>1. made[n] \in Consumer
    BY LenProperties DEF Map
  <1>2. PICK e \in Consumer :
          /\ CalledBack(n) = [made EXCEPT ![n] = e]
          /\ e.peer = made[n].peer /\ e.gone = made[n].gone /\ e.links = made[n].links
    <2> DEFINE f == [made[n] EXCEPT !.ops = Tail(@)]
    <2>1. Tail(made[n].ops) \in Seq({"offer", "remote"})
      BY <1>1, HeadTailProperties DEF Consumer
    <2>2. /\ f \in Consumer
          /\ f.peer = made[n].peer /\ f.gone = made[n].gone /\ f.links = made[n].links
      BY <1>1, <2>1 DEF Consumer
    <2>3. CalledBack(n) = [made EXCEPT ![n] = f]
      BY DEF CalledBack
    <2> HIDE DEF f
    <2> QED BY <2>2, <2>3
  <1> QED BY <1>2, OneAlike

\* A step that leaves the map and the lock alone keeps what is being connected.
LEMMA TargetKept ==
    ASSUME Map, LinksOfPresent, Target, Alike(made'), UNCHANGED <<consumers, connecting>>
    PROVE  Target'
  <1>1. DOMAIN made' = DOMAIN made /\ \A n \in DOMAIN made : InMap(n) => InMap(n)'
    BY AlikeKeeps
  <1> QED BY <1>1 DEF Target

\* Nobody else removes a consumer while its streams are connected.
LEMMA TargetUnlocked ==
    ASSUME Target, ~Locked, connecting' = connecting
    PROVE  Target'
  BY DEF Target, Locked

-----------------------------------------------------------------------------
(* The clients and the server.                                             *)

\* A client's step says something and changes no consumer.
LEMMA ClientKeeps ==
    ASSUME IInv, NEW p \in Peer, Join(p) \/ Answer(p) \/ Leave(p)
    PROVE  IInv'
  <1>1. PICK what \in Word : Say(what, p)
    BY DEF Word, Join, Answer, Leave
  <1>2. inbox' \in [Word \X Peer -> Nat]
    BY <1>1 DEF Say, IInv, Messages
  <1>3. /\ UNCHANGED <<consumers, made, step, adding, connecting, panicked, habit, outbox>>
        /\ refused' \subseteq refused /\ overtaken' \subseteq overtaken
        /\ client' \in [Peer -> {"out", "waiting", "offered", "answered"}]
    BY DEF Join, Answer, Leave, elementVars, heard, IInv, Messages
  <1>4. joins' \in 0..MaxSessions
    BY HabitsAreKnown DEF HabitsAreKnown, Join, Answer, Leave, IInv, Messages
  <1> USE <1>3 DEF IInv
  <1>5. Map' /\ LinksOfPresent'
    BY DEF Map, LinksOfPresent, InMap, Present, About
  <1>6. Receiver' /\ Target'
    BY DEF Receiver, Target, InMap, Present, About
  <1>7. Messages'
    BY <1>2, <1>4 DEF Messages
  <1> QED BY <1>5, <1>6, <1>7

\* A message that gets to the server is no longer on its way.
LEMMA DeliverKeeps ==
    ASSUME IInv, NEW m \in outbox, Deliver(m)
    PROVE  IInv'
  <1>1. /\ UNCHANGED <<consumers, made, step, adding, connecting, panicked, refused, overtaken, habit, joins,
                       inbox>>
        /\ outbox' \subseteq outbox
    BY DEF Deliver, elementVars, heard
  <1>2. About(m[2]) \in Peer
    <2>1. m[2] \in DOMAIN made
      BY DEF IInv, Messages
    <2>2. made[m[2]] \in Consumer
      BY <2>1, LenProperties DEF IInv, Map
    <2> QED BY <2>2 DEF About, Consumer
  <1>3. client' \in [Peer -> {"out", "waiting", "offered", "answered"}]
    BY <1>2 DEF Deliver, IInv, Messages
  <1> USE <1>1 DEF IInv
  <1>4. Map' /\ LinksOfPresent'
    BY DEF Map, LinksOfPresent, InMap, Present, About
  <1>5. Receiver' /\ Target'
    BY DEF Receiver, Target, InMap, Present, About
  <1>6. Messages'
    BY <1>3 DEF Messages
  <1> QED BY <1>4, <1>5, <1>6

-----------------------------------------------------------------------------
(* The signaller's receive task.                                           *)

\* What is read is taken from the inbox.
LEMMA ReadsOne ==
    ASSUME Messages, NEW what \in Word, NEW p \in Peer, Reads(what, p)
    PROVE  inbox' \in [Word \X Peer -> Nat]
  BY DEF Reads, Coming, Messages

\* The receive task takes a start and the settings lock.
LEMMA TakeSettingsKeeps ==
    ASSUME IInv, NEW p \in Peer, TakeSettings(p)
    PROVE  IInv'
  <1>1. /\ step' = "settings" /\ adding' = {p} /\ Reads("start", p)
        /\ UNCHANGED <<consumers, made, connecting, panicked, refused, overtaken, habit, client, joins,
                       outbox>>
    BY DEF TakeSettings, clientVars, heard
  <1>2. inbox' \in [Word \X Peer -> Nat]
    BY <1>1, ReadsOne DEF IInv, Word
  <1> USE <1>1 DEF IInv
  <1>3. Map' /\ LinksOfPresent'
    BY DEF Map, LinksOfPresent, InMap, Present, About
  <1>4. Receiver' /\ Target'
    BY DEF Receiver, Target, InMap, Present, About
  <1>5. Messages'
    BY <1>2 DEF Messages
  <1> QED BY <1>3, <1>4, <1>5

\* A consumer is added for a peer that has none, or refused.
LEMMA AddConsumerKeeps ==
    ASSUME IInv, NEW p \in Peer, AddConsumer(p)
    PROVE  IInv'
  <1>1. /\ step = "settings" /\ adding = {p} /\ ~Locked
        /\ UNCHANGED <<connecting, panicked, overtaken, habit, client, joins, inbox, outbox>>
    BY DEF AddConsumer, clientVars
  <1>2. connecting = {} /\ Target'
    BY <1>1, TargetUnlocked DEF Locked, IInv
  <1>3. CASE /\ ~Present(p)
             /\ made' = Append(made, NewConsumer(p))
             /\ consumers' = [q \in DOMAIN consumers \cup {p} |->
                                 IF q = p THEN Len(made') ELSE consumers[q]]
             /\ step' = "negotiate"
             /\ UNCHANGED <<adding, refused>>
    <2>1. /\ NewConsumer(p) \in Consumer /\ NewConsumer(p).peer = p
          /\ NewConsumer(p).gone = FALSE /\ NewConsumer(p).links = {}
      BY DEF NewConsumer, Consumer
    <2>2. made \in Seq(Consumer)
      BY DEF IInv, Map
    <2>3. PICK new : new = Len(made')
      OBVIOUS
    <2>4. /\ made' \in Seq(Consumer)
          /\ DOMAIN made' = DOMAIN made \cup {new} /\ new \notin DOMAIN made
          /\ made'[new] = NewConsumer(p)
          /\ \A n \in DOMAIN made : made'[n] = made[n]
      BY <1>3, <2>1, <2>2, <2>3, Appended
    <2>5. /\ DOMAIN consumers' = DOMAIN consumers \cup {p} /\ p \notin DOMAIN consumers
          /\ consumers'[p] = new
          /\ \A q \in DOMAIN consumers : consumers'[q] = consumers[q]
      BY <1>3, <2>3 DEF Present
    <2>6. InMap(new)'
      BY <2>1, <2>4, <2>5 DEF InMap, Present, About
    <2>7. \A n \in DOMAIN made : InMap(n)' <=> InMap(n)
      BY <2>4, <2>5 DEF InMap, Present, About, IInv, Map
    <2>8. Map'
      BY <2>1, <2>4, <2>5, <2>6, <2>7 DEF IInv, Map
    <2>9. LinksOfPresent'
      BY <2>1, <2>4, <2>6, <2>7 DEF IInv, LinksOfPresent
    <2>10. Receiver' /\ Messages'
      BY <1>1, <1>3, <2>4 DEF IInv, Receiver, Messages
    <2> QED BY <1>2, <2>8, <2>9, <2>10 DEF IInv
  <1>4. CASE /\ step' = "idle" /\ adding' = {}
             /\ refused' = refused \cup {p}
             /\ UNCHANGED <<consumers, made>>
    <2>1. Map' /\ LinksOfPresent'
      BY <1>4 DEF IInv, Map, LinksOfPresent, InMap, Present, About
    <2>2. Receiver' /\ Messages'
      BY <1>1, <1>4 DEF IInv, Receiver, Messages
    <2> QED BY <1>2, <2>1, <2>2 DEF IInv
  <1> QED BY <1>3, <1>4 DEF AddConsumer

\* An offer is asked of a consumer that is still there.
LEMMA NegotiateKeeps ==
    ASSUME IInv, NEW p \in Peer, Negotiate(p)
    PROVE  IInv'
  <1>1. /\ step = "negotiate" /\ step' = "play" /\ made' = AskedForOffer(p)
        /\ UNCHANGED <<consumers, adding, connecting, panicked, refused, overtaken, habit, client, joins,
                       inbox, outbox>>
    BY DEF Negotiate, clientVars, heard
  <1>2. Alike(made')
    <2>1. CASE Present(p)
      <3>1. consumers[p] \in DOMAIN made
        BY <2>1 DEF IInv, Map, Present
      <3> QED BY <1>1, <2>1, <3>1, QueueAlike DEF AskedForOffer, IInv
    <2>2. CASE ~Present(p)
      BY <1>1, <2>2, SameAlike DEF AskedForOffer, IInv
    <2> QED BY <2>1, <2>2
  <1>3. Map' /\ LinksOfPresent' /\ DOMAIN made' = DOMAIN made
    BY <1>1, <1>2, AlikeKeeps DEF IInv
  <1>4. Target'
    BY <1>1, <1>2, TargetKept DEF IInv
  <1>5. Receiver' /\ Messages'
    BY <1>1, <1>3 DEF IInv, Receiver, Messages
  <1> QED BY <1>3, <1>4, <1>5 DEF IInv
\* Playing ends what the receive task was at.
LEMMA PlayKeeps ==
    ASSUME IInv, Play
    PROVE  IInv'
  <1>1. /\ step' = "idle" /\ adding' = {}
        /\ UNCHANGED <<consumers, made, connecting, panicked, refused, overtaken, habit, client, joins,
                       inbox, outbox>>
    BY DEF Play, clientVars, heard
  <1>2. Alike(made')
    BY <1>1, SameAlike DEF IInv
  <1>3. Map' /\ LinksOfPresent' /\ DOMAIN made' = DOMAIN made
    BY <1>1, <1>2, AlikeKeeps DEF IInv
  <1>4. Target'
    BY <1>1, <1>2, TargetKept DEF IInv
  <1>5. Receiver' /\ Messages'
    BY <1>1, <1>3 DEF IInv, Receiver, Messages
  <1> QED BY <1>3, <1>4, <1>5 DEF IInv
\* An answer is set on a consumer that is still there.
LEMMA HandleAnswerKeeps ==
    ASSUME IInv, NEW p \in Peer, HandleAnswer(p)
    PROVE  IInv'
  <1>1. /\ made' = IF Present(p)
                     THEN [made EXCEPT ![consumers[p]] = SetAnswer(made[consumers[p]])]
                     ELSE made
        /\ Reads("answer", p)
        /\ UNCHANGED <<consumers, step, adding, connecting, panicked, refused, overtaken, habit, client,
                       joins, outbox>>
    BY DEF HandleAnswer, clientVars, heard
  <1>2. Alike(made')
    <2>1. CASE Present(p)
      <3> DEFINE n == consumers[p]
      <3>1. n \in DOMAIN made
        BY <2>1 DEF IInv, Map, Present
      <3>2. made[n] \in Consumer
        BY <3>1, LenProperties DEF IInv, Map
      <3> HIDE DEF n
      <3>3. Append(made[n].ops, "remote") \in Seq({"offer", "remote"})
        BY <3>2, AppendProperties DEF Consumer
      <3>4. /\ SetAnswer(made[n]) \in Consumer /\ SetAnswer(made[n]).peer = made[n].peer
            /\ SetAnswer(made[n]).gone = made[n].gone
            /\ SetAnswer(made[n]).links = made[n].links
        BY <3>2, <3>3 DEF SetAnswer, Consumer
      <3>5. made' = [made EXCEPT ![n] = SetAnswer(made[n])]
        BY <1>1, <2>1 DEF n
      <3> QED BY <3>1, <3>4, <3>5, OneAlike DEF IInv
    <2>2. CASE ~Present(p)
      BY <1>1, <2>2, SameAlike DEF IInv
    <2> QED BY <2>1, <2>2
  <1>3. inbox' \in [Word \X Peer -> Nat]
    BY <1>1, ReadsOne DEF IInv, Word
  <1>4. Map' /\ LinksOfPresent' /\ DOMAIN made' = DOMAIN made
    BY <1>1, <1>2, AlikeKeeps DEF IInv
  <1>5. Target'
    BY <1>1, <1>2, TargetKept DEF IInv
  <1>6. Receiver' /\ Messages'
    BY <1>1, <1>3, <1>4 DEF IInv, Receiver, Messages
  <1> QED BY <1>4, <1>5, <1>6 DEF IInv

\* A session's end, and an answer that is unfit, remove the consumer.
LEMMA RemovalKeeps ==
    ASSUME IInv, NEW p \in Peer, EndSession(p) \/ HandleRefusal(p)
    PROVE  IInv'
  <1>1. /\ ~Locked /\ (Reads("end", p) \/ Reads("refusal", p))
        /\ \E signal \in BOOLEAN : RemoveConsumer(made, p, signal)
        /\ overtaken' \in {overtaken, overtaken \cup {p}}
        /\ UNCHANGED <<step, adding, connecting, panicked, refused, habit, client, joins>>
    BY DEF EndSession, HandleRefusal, clientVars, heard
  <1>2. inbox' \in [Word \X Peer -> Nat]
    BY <1>1, ReadsOne DEF IInv, Word
  <1>3. /\ Map' /\ LinksOfPresent' /\ DOMAIN made' = DOMAIN made
        /\ outbox' \subseteq {"end", "offer"} \X DOMAIN made'
    BY <1>1, SameAlike, RemoveKeeps DEF IInv, Messages
  <1>4. Target'
    BY <1>1, TargetUnlocked DEF IInv
  <1>5. Receiver' /\ Messages'
    BY <1>1, <1>2, <1>3 DEF IInv, Receiver, Messages
  <1> QED BY <1>3, <1>4, <1>5 DEF IInv

-----------------------------------------------------------------------------
(* The consumers' own threads.                                             *)

\* A promise of an offer is kept, or its peer's consumer removed.
LEMMA OfferCreatedKeeps ==
    ASSUME IInv, NEW n \in DOMAIN made, OfferCreated(n)
    PROVE  IInv'
  <1>1. /\ ~Locked /\ made[n].ops # <<>>
        /\ UNCHANGED <<step, adding, connecting, panicked, refused, overtaken, habit, client, joins, inbox>>
    BY DEF OfferCreated, CallsBack, clientVars, heard
  <1>2. Alike(CalledBack(n)) /\ Target'
    BY <1>1, CalledBackAlike, TargetUnlocked DEF IInv
  <1>3. CASE /\ made' = CalledBack(n) /\ UNCHANGED consumers
             /\ outbox' = IF Present(About(n)) THEN outbox \cup {<<"offer", n>>} ELSE outbox
    <2>1. Map' /\ LinksOfPresent' /\ DOMAIN made' = DOMAIN made
      BY <1>2, <1>3, AlikeKeeps DEF IInv
    <2>2. Receiver' /\ Messages'
      BY <1>1, <1>3, <2>1 DEF IInv, Receiver, Messages
    <2> QED BY <1>2, <2>1, <2>2 DEF IInv
  <1>4. CASE RemoveConsumer(CalledBack(n), About(n), TRUE)
    <2>1. /\ Map' /\ LinksOfPresent' /\ DOMAIN made' = DOMAIN made
          /\ outbox' \subseteq {"end", "offer"} \X DOMAIN made'
      BY <1>2, <1>4, RemoveKeeps DEF IInv, Messages
    <2>2. Receiver' /\ Messages'
      BY <1>1, <2>1 DEF IInv, Receiver, Messages
    <2> QED BY <1>2, <2>1, <2>2 DEF IInv
  <1> QED BY <1>3, <1>4 DEF OfferCreated

\* An answer that is set has the streams of its peer's consumer connected, or
\* panics, or removes the consumer.
LEMMA RemoteDescriptionSetKeeps ==
    ASSUME IInv, NEW n \in DOMAIN made, RemoteDescriptionSet(n)
    PROVE  IInv'
  <1> DEFINE p == About(n)
  <1>1. /\ ~Locked /\ made[n].ops # <<>> /\ connecting = {}
        /\ UNCHANGED <<step, adding, refused, overtaken, habit, client, joins, inbox>>
    BY DEF RemoteDescriptionSet, CallsBack, Locked, clientVars, heard
  <1>2. Alike(CalledBack(n))
    BY <1>1, CalledBackAlike DEF IInv
  <1>3. CASE /\ made' = CalledBack(n) /\ UNCHANGED <<consumers, outbox>>
             /\ panicked' \in BOOLEAN
             /\ \/ connecting' = {}
                \/ Present(p) /\ connecting' = {[target |-> consumers[p], todo |-> Stream]}
    <2>1. /\ Map' /\ LinksOfPresent' /\ DOMAIN made' = DOMAIN made
          /\ \A k \in DOMAIN made : InMap(k) => InMap(k)'
      BY <1>2, <1>3, AlikeKeeps DEF IInv
    <2>2. Target'
      <3>1. CASE connecting' = {}
        BY <3>1 DEF Target
      <3>2. CASE Present(p) /\ connecting' = {[target |-> consumers[p], todo |-> Stream]}
        <4>1. consumers[p] \in DOMAIN made /\ InMap(consumers[p])
          BY <3>2 DEF IInv, Map, InMap, Present, About
        <4>2. PICK c : c = [target |-> consumers[p], todo |-> Stream]
          OBVIOUS
        <4>3. /\ connecting' = {c} /\ c.todo = Stream /\ c.target \in DOMAIN made'
              /\ InMap(c.target)'
          BY <2>1, <3>2, <4>1, <4>2
        <4> QED BY <4>3 DEF Target
      <3> QED BY <1>3, <3>1, <3>2
    <2>3. Receiver' /\ Messages'
      BY <1>1, <1>3, <2>1 DEF IInv, Receiver, Messages
    <2> QED BY <2>1, <2>2, <2>3 DEF IInv
  <1>4. CASE RemoveConsumer(CalledBack(n), p, TRUE) /\ UNCHANGED <<connecting, panicked>>
    <2>1. /\ Map' /\ LinksOfPresent' /\ DOMAIN made' = DOMAIN made
          /\ outbox' \subseteq {"end", "offer"} \X DOMAIN made'
      BY <1>2, <1>4, RemoveKeeps DEF IInv, Messages
    <2>2. Target'
      BY <1>1, <1>4, TargetUnlocked DEF IInv
    <2>3. Receiver' /\ Messages'
      BY <1>1, <1>4, <2>1 DEF IInv, Receiver, Messages
    <2> QED BY <2>1, <2>2, <2>3 DEF IInv
  <1>5. panicked \in BOOLEAN
    BY DEF IInv, Messages
  <1> QED BY <1>1, <1>3, <1>4, <1>5 DEF RemoteDescriptionSet

\* A stream is linked to the consumer that is being connected, or takes it along.
LEMMA ConnectStreamKeeps ==
    ASSUME IInv, ConnectStream
    PROVE  IInv'
  <1>1. UNCHANGED <<step, adding, panicked, refused, overtaken, habit, client, joins, inbox>>
    BY DEF ConnectStream, clientVars, heard
  <1>2. PICK c \in connecting, s \in Stream :
          \/ /\ made' = [made EXCEPT ![c.target].links = @ \cup {s}]
             /\ connecting' = {[c EXCEPT !.todo = @ \ {s}]}
             /\ UNCHANGED <<consumers, outbox>>
          \/ /\ RemoveConsumer(made, About(c.target), TRUE)
             /\ connecting' = {}
    BY DEF ConnectStream
  <1>3. c.target \in DOMAIN made /\ c.todo \subseteq Stream /\ InMap(c.target)
    BY DEF IInv, Target
  <1>4. CASE /\ made' = [made EXCEPT ![c.target].links = @ \cup {s}]
             /\ connecting' = {[c EXCEPT !.todo = @ \ {s}]}
             /\ UNCHANGED <<consumers, outbox>>
    <2>1. made[c.target] \in Consumer
      BY <1>3, LenProperties DEF IInv, Map
    <2>2. PICK e \in Consumer :
            /\ made' = [made EXCEPT ![c.target] = e]
            /\ e.peer = made[c.target].peer /\ e.gone = made[c.target].gone
      <3> DEFINE f == [made[c.target] EXCEPT !.links = @ \cup {s}]
      <3>1. f \in Consumer /\ f.peer = made[c.target].peer /\ f.gone = made[c.target].gone
        BY <2>1 DEF Consumer
      <3>2. made' = [made EXCEPT ![c.target] = f]
        BY <1>4
      <3> HIDE DEF f
      <3> QED BY <3>1, <3>2
    <2>3. Alike(made')
      BY <1>3, <2>2, OneAlike DEF IInv
    <2>4. /\ Map' /\ LinksOfPresent' /\ DOMAIN made' = DOMAIN made
          /\ InMap(c.target)'
      BY <1>3, <1>4, <2>3, AlikeKeeps DEF IInv
    <2>5. Target'
      <3> DEFINE d == [c EXCEPT !.todo = @ \ {s}]
      <3>1. connecting' = {d}
        BY <1>4
      <3>2. d.target = c.target /\ d.todo \subseteq Stream
        BY <1>3
      <3> HIDE DEF d
      <3> QED BY <1>3, <2>4, <3>1, <3>2 DEF Target
    <2>6. Receiver' /\ Messages'
      BY <1>1, <1>4, <2>4 DEF IInv, Receiver, Messages
    <2> QED BY <2>4, <2>5, <2>6 DEF IInv
  <1>5. CASE RemoveConsumer(made, About(c.target), TRUE) /\ connecting' = {}
    <2>1. /\ Map' /\ LinksOfPresent' /\ DOMAIN made' = DOMAIN made
          /\ outbox' \subseteq {"end", "offer"} \X DOMAIN made'
      BY <1>5, SameAlike, RemoveKeeps DEF IInv, Messages
    <2>2. Target'
      BY <1>5 DEF Target
    <2>3. Receiver' /\ Messages'
      BY <1>1, <2>1 DEF IInv, Receiver, Messages
    <2> QED BY <2>1, <2>2, <2>3 DEF IInv
  <1> QED BY <1>2, <1>4, <1>5

\* All streams are connected, and the lock given back.
LEMMA ConnectedKeeps ==
    ASSUME IInv, Connected
    PROVE  IInv'
  <1>1. /\ connecting' = {}
        /\ UNCHANGED <<consumers, made, step, adding, panicked, refused, overtaken, habit, client, joins,
                       inbox, outbox>>
    BY DEF Connected, clientVars, heard
  <1>2. Map' /\ LinksOfPresent'
    BY <1>1 DEF IInv, Map, LinksOfPresent, InMap, Present, About
  <1>3. Receiver' /\ Target' /\ Messages'
    BY <1>1 DEF IInv, Receiver, Target, Messages
  <1> QED BY <1>2, <1>3 DEF IInv

\* A finalized consumer's pipeline stops.
LEMMA ShutDownKeeps ==
    ASSUME IInv, NEW n \in DOMAIN made, ShutDown(n)
    PROVE  IInv'
  <1>1. UNCHANGED <<consumers, step, adding, connecting, panicked, refused, overtaken, habit, client, joins,
                    inbox, outbox>>
    BY DEF ShutDown, clientVars, heard
  <1>2. Alike(made')
    <2>1. made[n] \in Consumer
      BY LenProperties DEF IInv, Map
    <2>2. PICK left \in {<<>>, made[n].ops} :
            made' = [made EXCEPT ![n].down = TRUE, ![n].ops = left]
      BY DEF ShutDown
    <2>3. left \in Seq({"offer", "remote"})
      <3>1. made[n].ops \in Seq({"offer", "remote"})
        BY <2>1 DEF Consumer
      <3>2. <<>> \in Seq({"offer", "remote"})
        OBVIOUS
      <3> QED BY <2>2, <3>1, <3>2
    <2>4. PICK e \in Consumer :
            /\ made' = [made EXCEPT ![n] = e]
            /\ e.peer = made[n].peer /\ e.gone = made[n].gone /\ e.links = made[n].links
      <3> DEFINE f == [made[n] EXCEPT !.down = TRUE, !.ops = left]
      <3>1. /\ f \in Consumer
            /\ f.peer = made[n].peer /\ f.gone = made[n].gone /\ f.links = made[n].links
        BY <2>1, <2>3 DEF Consumer
      <3>2. made' = [made EXCEPT ![n] = f]
        BY <2>1, <2>2 DEF Consumer, IInv, Map
      <3> HIDE DEF f
      <3> QED BY <3>1, <3>2
    <2> QED BY <2>4, OneAlike DEF IInv
  <1>3. Map' /\ LinksOfPresent' /\ DOMAIN made' = DOMAIN made
    BY <1>1, <1>2, AlikeKeeps DEF IInv
  <1>4. Target'
    BY <1>1, <1>2, TargetKept DEF IInv
  <1>5. Receiver' /\ Messages'
    BY <1>1, <1>3 DEF IInv, Receiver, Messages
  <1> QED BY <1>3, <1>4, <1>5 DEF IInv

\* That it broke changes nothing else of a consumer.
LEMMA BrokeAlike ==
    ASSUME Map, NEW n \in DOMAIN made, NEW how \in {"seen", "handled"}
    PROVE  Alike([made EXCEPT ![n].broke = how])
  <1>1. made[n] \in Consumer
    BY LenProperties DEF Map
  <1>2. PICK e \in Consumer :
          /\ [made EXCEPT ![n].broke = how] = [made EXCEPT ![n] = e]
          /\ e.peer = made[n].peer /\ e.gone = made[n].gone /\ e.links = made[n].links
    <2> DEFINE f == [made[n] EXCEPT !.broke = how]
    <2>1. /\ f \in Consumer
          /\ f.peer = made[n].peer /\ f.gone = made[n].gone /\ f.links = made[n].links
      BY <1>1 DEF Consumer
    <2>2. [made EXCEPT ![n].broke = how] = [made EXCEPT ![n] = f]
      OBVIOUS
    <2> HIDE DEF f
    <2> QED BY <2>1, <2>2
  <1> QED BY <1>2, OneAlike

\* A consumer that breaks,
LEMMA BreakKeeps ==
    ASSUME IInv, NEW n \in DOMAIN made, Break(n)
    PROVE  IInv'
  <1>1. /\ made' = [made EXCEPT ![n].broke = "seen"]
        /\ UNCHANGED <<consumers, step, adding, connecting, panicked, refused, overtaken, habit, client,
                       joins, inbox, outbox>>
    BY DEF Break, clientVars, heard
  <1>2. Alike(made')
    BY <1>1, BrokeAlike DEF IInv
  <1>3. Map' /\ LinksOfPresent' /\ DOMAIN made' = DOMAIN made
    BY <1>1, <1>2, AlikeKeeps DEF IInv
  <1>4. Target'
    BY <1>1, <1>2, TargetKept DEF IInv
  <1>5. Receiver' /\ Messages'
    BY <1>1, <1>3 DEF IInv, Receiver, Messages
  <1> QED BY <1>3, <1>4, <1>5 DEF IInv

\* has whoever has its peer's identifier removed.
LEMMA HandleBreakKeeps ==
    ASSUME IInv, NEW n \in DOMAIN made, HandleBreak(n)
    PROVE  IInv'
  <1>1. /\ ~Locked
        /\ RemoveConsumer([made EXCEPT ![n].broke = "handled"], About(n), TRUE)
        /\ UNCHANGED <<step, adding, connecting, panicked, refused, overtaken, habit, client, joins, inbox>>
    BY DEF HandleBreak, clientVars, heard
  <1>2. Alike([made EXCEPT ![n].broke = "handled"])
    BY BrokeAlike DEF IInv
  <1>3. /\ Map' /\ LinksOfPresent' /\ DOMAIN made' = DOMAIN made
        /\ outbox' \subseteq {"end", "offer"} \X DOMAIN made'
    BY <1>1, <1>2, RemoveKeeps DEF IInv, Messages
  <1>4. Target'
    BY <1>1, TargetUnlocked DEF IInv
  <1>5. Receiver' /\ Messages'
    BY <1>1, <1>3 DEF IInv, Receiver, Messages
  <1> QED BY <1>3, <1>4, <1>5 DEF IInv

-----------------------------------------------------------------------------
(* Theorems.                                                               *)

\* Nobody is in session at first.
LEMMA InitIInv == Init => IInv
  <1> SUFFICES ASSUME Init PROVE IInv
    OBVIOUS
  <1> USE DEF Init
  <1>1. Map /\ LinksOfPresent
    BY DEF Map, LinksOfPresent
  <1>2. Receiver /\ Target
    BY DEF Receiver, Target
  <1>3. Messages
    <2>1. habit \in Habit /\ joins \in 0..MaxSessions
      BY HabitsAreKnown DEF HabitsAreKnown
    <2>2. inbox \in [Word \X Peer -> Nat]
      OBVIOUS
    <2>3. client \in [Peer -> {"out", "waiting", "offered", "answered"}]
      OBVIOUS
    <2> QED BY <2>1, <2>2, <2>3 DEF Messages
  <1> QED BY <1>1, <1>2, <1>3 DEF IInv

\* Every step keeps the invariant.
LEMMA NextKeepsIInv == IInv /\ [Next]_vars => IInv'
  <1> SUFFICES ASSUME IInv, [Next]_vars PROVE IInv'
    OBVIOUS
  <1>1. CASE Clients
    BY <1>1, ClientKeeps DEF Clients
  <1>2. CASE ReceiveTask
    BY <1>2, TakeSettingsKeeps, AddConsumerKeeps, NegotiateKeeps, PlayKeeps, HandleAnswerKeeps,
       RemovalKeeps DEF ReceiveTask
  <1>3. CASE Connection
    BY <1>3, ConnectStreamKeeps, ConnectedKeeps DEF Connection
  <1>4. CASE \E m \in outbox : Deliver(m)
    BY <1>4, DeliverKeeps
  <1>5. CASE \E n \in DOMAIN made : Callback(n) \/ ShutDown(n) \/ Break(n) \/ HandleBreak(n)
    BY <1>5, OfferCreatedKeeps, RemoteDescriptionSetKeeps, ShutDownKeeps, BreakKeeps,
       HandleBreakKeeps DEF Callback
  <1>6. CASE UNCHANGED vars
    <2> USE <1>6 DEF IInv, vars, elementVars, heard, clientVars, heard
    <2>1. Map' /\ LinksOfPresent'
      BY DEF Map, LinksOfPresent, InMap, Present, About
    <2>2. Receiver' /\ Target'
      BY DEF Receiver, Target, InMap, Present, About
    <2>3. Messages'
      BY DEF Messages
    <2> QED BY <2>1, <2>2, <2>3
  <1> QED BY <1>1, <1>2, <1>3, <1>4, <1>5, <1>6 DEF Next

LEMMA IInvHolds == Spec => []IInv
  BY InitIInv, NextKeepsIInv, PTL DEF Spec

\* The consumers in the map are those not finalized, and no other is fed by a
\* stream: finalize, remove_consumer and on_remote_description_set, whatever goes
\* wrong half-way through connecting and whoever is back with an old identifier.
THEOREM ConsumersInvHolds == Spec => []ConsumersInv
  <1>1. IInv => TypeOK
    <2> SUFFICES ASSUME IInv PROVE TypeOK
      OBVIOUS
    <2>1. Cardinality(connecting) <= 1
      <3>1. CASE connecting = {}
        BY <3>1, FS_EmptySet
      <3>2. CASE \E c : connecting = {c}
        BY <3>2, FS_Singleton
      <3> QED BY <3>1, <3>2 DEF IInv, Target
    <2> QED BY <2>1 DEF IInv, Map, Receiver, Target, Messages, TypeOK
  <1>2. IInv => ConsumersInv
    BY <1>1 DEF IInv, ConsumersInv
  <1> QED BY <1>2, IInvHolds, PTL

-----------------------------------------------------------------------------
(* Sessions of clients that wait for what is left of their own.            *)

\* What p says that its session goes on with.
Going == {"start", "answer", "refusal"}
Asks(p) == \E what \in Going : Coming(what, p)

\* Where a session of p can be: what it goes on with is in the inbox, with the
\* receive task, with the client, or with consumer n: the callback that its
\* webrtcbin owes, the offer on its way, or its streams.
Holds(p, where, n) ==
    \/ where = "inbox" /\ n = 0 /\ Asks(p)
    \/ where = "adding" /\ n = 0 /\ p \in adding /\ step # "play"
    \/ where = "client" /\ n = 0 /\ client[p] = "offered"
    \/ /\ n \in DOMAIN made /\ About(n) = p
       /\ \/ where = "callback" /\ made[n].ops # <<>>
          \/ where = "outbox" /\ <<"offer", n>> \in outbox
          \/ /\ where = "streams"
             /\ made[n].links # {} \/ \E c \in connecting : c.target = n

\* A session is in one place at a time,
InOnePlace(p) ==
    \A v, w, m, n : Holds(p, v, m) /\ Holds(p, w, n) => v = w /\ m = n

\* once,
AskedOnce(p) ==
    \A what, other \in Going :
        Coming(what, p) => inbox[<<what, p>>] = 1 /\ (Coming(other, p) => what = other)

\* and a callback is for the consumer that is in the map, if any is; with its
\* answer set, if it is that of an answer.
OwnCallback(n) ==
    made[n].ops # <<>> =>
        /\ Len(made[n].ops) = 1
        /\ Present(About(n)) => InMap(n)
        /\ made[n].ops[1] = "remote" => made[n].answered

Sessions ==
    /\ \A p \in Peer : InOnePlace(p) /\ AskedOnce(p)
    /\ \A n \in DOMAIN made : OwnCallback(n)

\* What a step may do to a session: leave it where it is, or lose it, ...
LEMMA StaysInPlace ==
    ASSUME NEW p, InOnePlace(p), \A v, m : Holds(p, v, m)' => Holds(p, v, m)
    PROVE  InOnePlace(p)'
BY DEF InOnePlace

\* ... or move it.
LEMMA MovesOn ==
    ASSUME NEW p, InOnePlace(p), NEW from, NEW n, Holds(p, from, n), NEW to, NEW k,
           \A v, m : Holds(p, v, m)' =>
               \/ v = to /\ m = k
               \/ Holds(p, v, m) /\ ~(v = from /\ m = n)
    PROVE  InOnePlace(p)'
<1>1. \A v, m : Holds(p, v, m) => v = from /\ m = n
  BY DEF InOnePlace
<1>2. \A v, m : Holds(p, v, m)' => v = to /\ m = k
  BY <1>1
<1>. QED
  BY <1>2 DEF InOnePlace

\* What is said is then coming, and changes nothing of the rest;
LEMMA SaidOne ==
    ASSUME Messages, NEW what \in Word, NEW p \in Peer, Say(what, p)
    PROVE  /\ inbox' \in [Word \X Peer -> Nat]
           /\ inbox'[<<what, p>>] = inbox[<<what, p>>] + 1
           /\ \A other \in Word, q \in Peer :
                 <<other, q>> # <<what, p>> => inbox'[<<other, q>>] = inbox[<<other, q>>]
BY DEF Messages, Say

\* and what is read is one less.
LEMMA ReadOne ==
    ASSUME Messages, NEW what \in Word, NEW p \in Peer, Reads(what, p)
    PROVE  /\ inbox' \in [Word \X Peer -> Nat]
           /\ inbox[<<what, p>>] > 0 /\ inbox'[<<what, p>>] = inbox[<<what, p>>] - 1
           /\ \A other \in Word, q \in Peer :
                 <<other, q>> # <<what, p>> => inbox'[<<other, q>>] = inbox[<<other, q>>]
BY DEF Messages, Reads, Coming

\* So of what a peer asks, saying adds one at most,
LEMMA SayAsks ==
    ASSUME Messages, NEW what \in Word, NEW p \in Peer,
           Say(what, p), NEW q \in Peer, AskedOnce(q),
           \/ q # p \/ what = "end"
           \/ ~Asks(q)
    PROVE  /\ AskedOnce(q)'
           /\ Asks(q)' => Asks(q) \/ (q = p /\ what # "end")
<1>1. /\ inbox' \in [Word \X Peer -> Nat] /\ inbox \in [Word \X Peer -> Nat]
      /\ inbox'[<<what, p>>] = inbox[<<what, p>>] + 1
      /\ \A other \in Word, r \in Peer :
            <<other, r>> # <<what, p>> => inbox'[<<other, r>>] = inbox[<<other, r>>]
  BY SaidOne DEF Messages
<1>2. Going \subseteq Word /\ Word = Going \cup {"end"} /\ "end" \notin Going
  BY DEF Going, Word
<1>3. CASE q # p \/ what = "end"
  <2>1. \A other \in Going : inbox'[<<other, q>>] = inbox[<<other, q>>]
    BY <1>1, <1>2, <1>3
  <2>. QED
    BY <2>1 DEF AskedOnce, Asks, Coming
<1>4. CASE q = p /\ ~Asks(q) /\ what # "end"
  <2>1. \A other \in Going : inbox[<<other, q>>] = 0
    BY <1>1, <1>2, <1>4 DEF Asks, Coming
  <2>2. \A other \in Going : inbox'[<<other, q>>] = IF other = what THEN 1 ELSE 0
    BY <1>1, <1>2, <1>4, <2>1
  <2>. QED
    BY <1>4, <2>2 DEF AskedOnce, Asks, Coming
<1>. QED
  BY <1>3, <1>4

\* and reading takes it, whoever asks.
LEMMA ReadAsks ==
    ASSUME Messages, NEW what \in Word, NEW p \in Peer, Reads(what, p), NEW q \in Peer,
           AskedOnce(q)
    PROVE  /\ AskedOnce(q)'
           /\ Asks(q)' => Asks(q)
           /\ q = p /\ what \in Going => Asks(q) /\ ~Asks(q)'
<1>1. /\ inbox' \in [Word \X Peer -> Nat] /\ inbox \in [Word \X Peer -> Nat]
      /\ inbox[<<what, p>>] > 0 /\ inbox'[<<what, p>>] = inbox[<<what, p>>] - 1
      /\ \A other \in Word, r \in Peer :
            <<other, r>> # <<what, p>> => inbox'[<<other, r>>] = inbox[<<other, r>>]
  BY ReadOne DEF Messages
<1>2. Going \subseteq Word
  BY DEF Going, Word
<1>3. CASE q # p \/ what \notin Going
  <2>1. \A other \in Going : inbox'[<<other, q>>] = inbox[<<other, q>>]
    BY <1>1, <1>2, <1>3
  <2>. QED
    BY <1>3, <2>1 DEF AskedOnce, Asks, Coming
<1>4. CASE q = p /\ what \in Going
  <2>1. Asks(q) /\ inbox[<<what, q>>] = 1
    BY <1>1, <1>4 DEF Asks, AskedOnce, Coming
  <2>2. \A other \in Going : other # what => ~Coming(other, q)
    BY <1>1, <1>4 DEF AskedOnce, Coming
  <2>3. \A other \in Going : ~Coming(other, q)'
    BY <1>1, <1>2, <1>4, <2>1, <2>2 DEF Coming
  <2>. QED
    BY <2>1, <2>3 DEF AskedOnce, Asks
<1>. QED
  BY <1>3, <1>4

\* What a removal does to the consumers: it takes one out of the map, stops
\* feeding it and, if it should, tells its end.
LEMMA RemovalTakesOne ==
    ASSUME Map, NEW base, base \in Seq(Consumer), DOMAIN base = DOMAIN made,
           NEW p, NEW signal, RemoveConsumer(base, p, signal)
    PROVE  /\ DOMAIN made' = DOMAIN made
           /\ \A n \in DOMAIN made :
                 /\ made'[n].peer = base[n].peer /\ made'[n].ops = base[n].ops
                 /\ made'[n].answered = base[n].answered
                 /\ made'[n].links = base[n].links \/ made'[n].links = {}
           /\ \A q : /\ Present(q)' <=> Present(q) /\ q # p
                     /\ Present(q)' => consumers'[q] = consumers[q]
           /\ \A m : m \in outbox' <=>
                 m \in outbox \/ (signal /\ Present(p) /\ m = <<"end", consumers[p]>>)
<1>. DEFINE Hit == {n \in DOMAIN base : Present(p) /\ consumers[p] = n}
<1>1. /\ made' = [n \in DOMAIN base |-> IF n \in Hit THEN Finalized(base[n]) ELSE base[n]]
      /\ consumers' = [q \in DOMAIN consumers \ {p} |-> consumers[q]]
      /\ outbox' = outbox \cup (IF signal THEN Tell(Hit) ELSE {})
  BY DEF RemoveConsumer, Others
<1>2. \A n : n \in Hit <=> Present(p) /\ n = consumers[p]
  BY DEF Map, Present
<1>. HIDE DEF Hit
<1>3. \A n \in DOMAIN base : base[n] \in Consumer
  BY LenProperties
<1>4. \A n \in DOMAIN base :
          /\ made'[n].peer = base[n].peer /\ made'[n].ops = base[n].ops
          /\ made'[n].answered = base[n].answered
          /\ made'[n].links = base[n].links \/ made'[n].links = {}
  <2>1. TAKE n \in DOMAIN base
  <2>2. CASE n \in Hit
    <3>1. made'[n] = [base[n] EXCEPT !.gone = TRUE, !.links = {}]
      BY <1>1, <2>2 DEF Finalized
    <3>. QED
      BY <1>3, <3>1 DEF Consumer
  <2>3. CASE n \notin Hit
    BY <1>1, <2>3
  <2>. QED
    BY <2>2, <2>3
<1>5. \A q : /\ Present(q)' <=> Present(q) /\ q # p
             /\ Present(q)' => consumers'[q] = consumers[q]
  BY <1>1 DEF Present
<1>6. \A m : m \in outbox' <=>
          m \in outbox \/ (signal /\ Present(p) /\ m = <<"end", consumers[p]>>)
  BY <1>1, <1>2 DEF Tell
<1>. QED
  BY <1>1, <1>4, <1>5, <1>6

\* A step that gives no session anything to go on with, and takes none out
\* of the map's order, keeps what is known of the sessions.
LEMMA SessionsKept ==
    ASSUME Sessions, DOMAIN made' = DOMAIN made,
           \A n \in DOMAIN made :
               /\ made'[n].peer = made[n].peer /\ made'[n].answered = made[n].answered
               /\ made'[n].ops = made[n].ops \/ made'[n].ops = <<>>
               /\ made'[n].links # {} =>
                     made[n].links # {} \/ \E c \in connecting : c.target = n
               /\ <<"offer", n>> \in outbox' => <<"offer", n>> \in outbox,
           \A q : Present(q)' => Present(q) /\ consumers'[q] = consumers[q],
           \A c \in connecting' : \E d \in connecting : d.target = c.target,
           \A q \in Peer :
               /\ AskedOnce(q)'
               /\ Asks(q)' => Asks(q)
               /\ q \in adding' /\ step' # "play" => q \in adding /\ step # "play"
               /\ client'[q] = "offered" => client[q] = "offered"
    PROVE  Sessions'
<1>1. ASSUME NEW q \in Peer
      PROVE  InOnePlace(q)'
  <2>1. ASSUME NEW v, NEW m, Holds(q, v, m)' PROVE Holds(q, v, m)
    BY <2>1 DEF Holds, About
  <2>. QED
    BY <2>1, StaysInPlace DEF Sessions
<1>2. ASSUME NEW n \in DOMAIN made'
      PROVE  OwnCallback(n)'
  <2>1. n \in DOMAIN made /\ OwnCallback(n)
    BY <1>2 DEF Sessions
  <2>2. CASE made'[n].ops = <<>>
    BY <2>2 DEF OwnCallback
  <2>3. CASE made'[n].ops = made[n].ops /\ made[n].ops # <<>>
    <3>1. /\ Len(made'[n].ops) = 1
          /\ made'[n].ops[1] = "remote" => made'[n].answered
      BY <2>1, <2>3 DEF OwnCallback
    <3>2. PICK q : q = made[n].peer /\ q = made'[n].peer
      BY <2>1
    <3>3. Present(q) => consumers[q] = n
      BY <2>1, <2>3, <3>2 DEF OwnCallback, InMap, About
    <3>4. Present(q)' => consumers'[q] = n
      BY <3>3
    <3>5. Present(About(n))' => InMap(n)'
      BY <3>2, <3>4 DEF InMap, About, Present
    <3>. QED
      BY <3>1, <3>5 DEF OwnCallback
  <2>. QED
    BY <2>1, <2>2, <2>3
<1>. QED
  BY <1>1, <1>2 DEF Sessions

\* A client that joins has nothing left of an earlier session.
LEMMA JoinKeepsSessions ==
    ASSUME IInv, Sessions, NEW p \in Peer, Join(p), habit # "returning"
    PROVE  Sessions'
<1>1. /\ Settled(p) /\ client' = [client EXCEPT ![p] = "waiting"] /\ Say("start", p)
      /\ UNCHANGED <<consumers, made, step, adding, connecting, outbox>>
  BY DEF Join
<1>2. ~Asks(p)
  BY <1>1 DEF Settled, Asks, Going, Word
<1>3. ASSUME NEW q \in Peer
      PROVE  /\ AskedOnce(q)'
             /\ Asks(q)' =>
                   (Asks(q)) \/ q = p
  BY <1>1, <1>2, SayAsks DEF IInv, Sessions, Word
<1>4. \A v, m : ~Holds(p, v, m)
  <2>1. ASSUME NEW n \in DOMAIN made, About(n) = p
        PROVE  /\ made[n].ops = <<>> /\ <<"offer", n>> \notin outbox
               /\ made[n].links = {} /\ \A c \in connecting : c.target # n
    <3>1. made[n].ops = <<>> /\ ~Present(p) /\ \A m \in outbox : About(m[2]) # p
      BY <1>1, <2>1 DEF Settled
    <3>2. ~InMap(n)
      BY <2>1, <3>1 DEF InMap
    <3>. QED
      BY <2>1, <3>1, <3>2 DEF IInv, LinksOfPresent, Target
  <2>. QED
    BY <1>1, <1>2, <2>1 DEF Holds, Settled
<1>5. \A q \in Peer : q # p => client'[q] = client[q]
  BY <1>1
<1>6. client'[p] # "offered"
  BY <1>1 DEF IInv, Messages
<1>7. ASSUME NEW q \in Peer
      PROVE  InOnePlace(q)'
  <2>1. CASE q = p
    <3>1. ASSUME NEW v, NEW m, Holds(p, v, m)' PROVE v = "inbox" /\ m = 0
      <4>1. ~Holds(p, v, m)
        BY <1>4
      <4>. QED
        BY <1>1, <1>6, <3>1, <4>1 DEF Holds, About
    <3>. QED
      BY <2>1, <3>1 DEF InOnePlace
  <2>2. CASE q # p
    <3>1. ASSUME NEW v, NEW m, Holds(q, v, m)' PROVE Holds(q, v, m)
      BY <1>1, <1>3, <1>5, <2>2, <3>1 DEF Holds, About
    <3>. QED
      BY <3>1, StaysInPlace DEF Sessions
  <2>. QED
    BY <2>1, <2>2
<1>8. \A n \in DOMAIN made' : OwnCallback(n)'
  BY <1>1 DEF Sessions, OwnCallback, InMap, Present, About
<1>. QED
  BY <1>3, <1>7, <1>8 DEF Sessions

\* Its answer takes up the offer,
LEMMA AnswerKeepsSessions ==
    ASSUME IInv, Sessions, NEW p \in Peer, Answer(p)
    PROVE  Sessions'
<1>1. /\ client[p] = "offered" /\ client' = [client EXCEPT ![p] = "answered"]
      /\ UNCHANGED <<consumers, made, step, adding, connecting, outbox>>
  BY DEF Answer, elementVars, heard
<1>2. PICK what \in {"answer", "refusal"} : Say(what, p)
  BY DEF Answer
<1>3. Holds(p, "client", 0)
  BY <1>1 DEF Holds
<1>4. ~Asks(p)
  <2>1. ~Holds(p, "inbox", 0)
    BY <1>3 DEF Sessions, InOnePlace
  <2>. QED
    BY <2>1 DEF Holds
<1>5. ASSUME NEW q \in Peer
      PROVE  /\ AskedOnce(q)'
             /\ Asks(q)' =>
                   (Asks(q)) \/ q = p
  BY <1>2, <1>4, SayAsks DEF IInv, Sessions, Word
<1>6. client'[p] # "offered" /\ \A q \in Peer : q # p => client'[q] = client[q]
  BY <1>1 DEF IInv, Messages
<1>7. ASSUME NEW q \in Peer
      PROVE  InOnePlace(q)'
  <2>1. CASE q = p
    <3>1. ASSUME NEW v, NEW m, Holds(p, v, m)'
          PROVE  \/ v = "inbox" /\ m = 0
                 \/ Holds(p, v, m) /\ ~(v = "client" /\ m = 0)
      BY <1>1, <1>6, <3>1 DEF Holds, About
    <3>. QED
      BY <1>3, <2>1, <3>1, MovesOn DEF Sessions
  <2>2. CASE q # p
    <3>1. ASSUME NEW v, NEW m, Holds(q, v, m)' PROVE Holds(q, v, m)
      BY <1>1, <1>5, <1>6, <2>2, <3>1 DEF Holds, About
    <3>. QED
      BY <3>1, StaysInPlace DEF Sessions
  <2>. QED
    BY <2>1, <2>2
<1>8. \A n \in DOMAIN made' : OwnCallback(n)'
  BY <1>1 DEF Sessions, OwnCallback, InMap, Present, About
<1>. QED
  BY <1>5, <1>7, <1>8 DEF Sessions

\* and who leaves has nothing to go on with.
LEMMA LeaveKeepsSessions ==
    ASSUME IInv, Sessions, NEW p \in Peer, Leave(p)
    PROVE  Sessions'
<1>1. /\ client' = [client EXCEPT ![p] = "out"] /\ Say("end", p)
      /\ UNCHANGED <<consumers, made, step, adding, connecting, outbox>>
  BY DEF Leave, elementVars, heard
<1>2. ASSUME NEW q \in Peer
      PROVE  /\ AskedOnce(q)'
             /\ Asks(q)' => Asks(q)
  BY <1>1, SayAsks DEF IInv, Sessions, Word
<1>3. \A q \in Peer : client'[q] = "offered" => client[q] = "offered"
  BY <1>1 DEF IInv, Messages
<1>. QED
  BY <1>1, <1>2, <1>3, SessionsKept DEF Present

\* A step that leaves the inbox alone.
LEMMA InboxAlone ==
    ASSUME Sessions, inbox' = inbox, NEW q \in Peer
    PROVE  /\ AskedOnce(q)'
           /\ Asks(q)' <=> Asks(q)
BY DEF Sessions, AskedOnce, Asks, Coming

\* An offer that gets there moves its session on to the client.
LEMMA DeliverKeepsSessions ==
    ASSUME IInv, Sessions, NEW m \in outbox, Deliver(m)
    PROVE  Sessions'
<1>1. m \in {"end", "offer"} \X DOMAIN made
  BY DEF IInv, Messages
<1>2. PICK p \in Peer : p = About(m[2])
  <2>1. made[m[2]] \in Consumer
    BY <1>1, LenProperties DEF IInv, Map
  <2>. QED
    BY <2>1 DEF About, Consumer
<1>3. /\ outbox' = outbox \ {m} /\ inbox' = inbox
      /\ client' = IF client[p] = "out" THEN client
                   ELSE [client EXCEPT ![p] = IF m[1] = "end" THEN "out" ELSE "offered"]
      /\ UNCHANGED <<consumers, made, step, adding, connecting>>
  BY <1>2 DEF Deliver, elementVars, heard
<1>4. client \in [Peer -> {"out", "waiting", "offered", "answered"}]
  BY DEF IInv, Messages
<1>5. CASE m[1] = "end"
  <2>1. \A q \in Peer : client'[q] = "offered" => client[q] = "offered"
    BY <1>3, <1>4, <1>5
  <2>. QED
    BY <1>3, <2>1, InboxAlone, SessionsKept DEF Present
<1>6. CASE m[1] = "offer"
  <2>1. PICK n \in DOMAIN made : m = <<"offer", n>> /\ About(n) = p
    BY <1>1, <1>2, <1>6
  <2>2. Holds(p, "outbox", n)
    BY <2>1 DEF Holds
  <2>3. \A q \in Peer : q # p => client'[q] = client[q]
    BY <1>3, <1>4
  <2>4. ASSUME NEW q \in Peer
        PROVE  InOnePlace(q)'
    <3>1. CASE q = p
      <4>1. ASSUME NEW v, NEW k, Holds(p, v, k)'
            PROVE  \/ v = "client" /\ k = 0
                   \/ Holds(p, v, k) /\ ~(v = "outbox" /\ k = n)
        BY <1>3, <2>1, <4>1, InboxAlone DEF Holds, About, Asks
      <4>. QED
        BY <2>2, <3>1, <4>1, MovesOn DEF Sessions
    <3>2. CASE q # p
      <4>1. ASSUME NEW v, NEW k, Holds(q, v, k)' PROVE Holds(q, v, k)
        BY <1>3, <2>3, <3>2, <4>1 DEF Holds, About, Asks, Coming
      <4>. QED
        BY <4>1, StaysInPlace DEF Sessions
    <3>. QED
      BY <3>1, <3>2
  <2>5. \A k \in DOMAIN made' : OwnCallback(k)'
    BY <1>3 DEF Sessions, OwnCallback, InMap, Present, About
  <2>. QED
    BY <1>3, <2>4, <2>5, InboxAlone DEF Sessions
<1>. QED
  BY <1>1, <1>5, <1>6

\* The receive task takes a start,
LEMMA TakeSettingsKeepsSessions ==
    ASSUME IInv, Sessions, NEW p \in Peer, TakeSettings(p)
    PROVE  Sessions'
<1>1. /\ Reads("start", p) /\ step = "idle" /\ adding' = {p} /\ adding = {}
      /\ UNCHANGED <<consumers, made, connecting, client, outbox>>
  BY DEF TakeSettings, Reads, clientVars, heard, IInv, Receiver
<1>2. ASSUME NEW q \in Peer
      PROVE  /\ AskedOnce(q)'
             /\ Asks(q)' => Asks(q)
             /\ q = p => /\ Asks(q)
                         /\ ~Asks(q)'
  BY <1>1, ReadAsks DEF IInv, Sessions, Word, Going
<1>3. ASSUME NEW q \in Peer
      PROVE  InOnePlace(q)'
  <2>1. CASE q = p
    <3>1. Holds(p, "inbox", 0)
      BY <1>2 DEF Holds
    <3>2. ASSUME NEW v, NEW m, Holds(p, v, m)'
          PROVE  \/ v = "adding" /\ m = 0
                 \/ Holds(p, v, m) /\ ~(v = "inbox" /\ m = 0)
      BY <1>1, <1>2, <3>2 DEF Holds, About
    <3>. QED
      BY <2>1, <3>1, <3>2, MovesOn DEF Sessions
  <2>2. CASE q # p
    <3>1. ASSUME NEW v, NEW m, Holds(q, v, m)' PROVE Holds(q, v, m)
      BY <1>1, <1>2, <2>2, <3>1 DEF Holds, About
    <3>. QED
      BY <3>1, StaysInPlace DEF Sessions
  <2>. QED
    BY <2>1, <2>2
<1>4. \A n \in DOMAIN made' : OwnCallback(n)'
  BY <1>1 DEF Sessions, OwnCallback, InMap, Present, About
<1>. QED
  BY <1>2, <1>3, <1>4 DEF Sessions

\* makes a consumer that is owed nothing yet,
LEMMA AddConsumerKeepsSessions ==
    ASSUME IInv, Sessions, NEW p \in Peer, AddConsumer(p)
    PROVE  Sessions'
<1>1. /\ step = "settings" /\ adding = {p} /\ ~Locked
      /\ UNCHANGED <<connecting, client, inbox, outbox>>
  BY DEF AddConsumer, clientVars, heard
<1>2. Holds(p, "adding", 0)
  BY <1>1 DEF Holds
<1>3. CASE /\ ~Present(p)
           /\ made' = Append(made, NewConsumer(p))
           /\ consumers' = [q \in DOMAIN consumers \cup {p} |->
                               IF q = p THEN Len(made') ELSE consumers[q]]
           /\ step' = "negotiate"
           /\ UNCHANGED <<adding, refused>>
  <2>1. /\ NewConsumer(p) \in Consumer /\ NewConsumer(p).peer = p
        /\ NewConsumer(p).ops = <<>> /\ NewConsumer(p).links = {}
    BY DEF NewConsumer, Consumer
  <2>2. made \in Seq(Consumer)
    BY DEF IInv, Map
  <2>3. PICK new : new = Len(made')
    OBVIOUS
  <2>4. /\ DOMAIN made' = DOMAIN made \cup {new} /\ new \notin DOMAIN made
        /\ made'[new] = NewConsumer(p)
        /\ \A n \in DOMAIN made : made'[n] = made[n]
    BY <1>3, <2>1, <2>2, <2>3, Appended
  <2>5. /\ Present(p)' /\ consumers'[p] = new
        /\ \A q : q # p => (Present(q)' <=> Present(q))
        /\ \A q : Present(q) => consumers'[q] = consumers[q]
    BY <1>3, <2>3 DEF Present
  <2>6. <<"offer", new>> \notin outbox /\ \A c \in connecting : c.target # new
    BY <2>4 DEF IInv, Messages, Target
  <2>7. ASSUME NEW q \in Peer
        PROVE  InOnePlace(q)'
    <3>1. ASSUME NEW v, NEW m, Holds(q, v, m)' PROVE Holds(q, v, m)
      <4>1. CASE v \in {"inbox", "adding", "client"}
        BY <1>1, <1>3, <3>1, <4>1 DEF Holds, Asks, Coming
      <4>2. CASE v \notin {"inbox", "adding", "client"} /\ m = new
        BY <1>1, <2>1, <2>4, <2>6, <3>1, <4>2 DEF Holds
      <4>3. CASE v \notin {"inbox", "adding", "client"} /\ m \in DOMAIN made
        BY <1>1, <2>4, <3>1, <4>3 DEF Holds, About
      <4>. QED
        BY <2>4, <3>1, <4>1, <4>2, <4>3 DEF Holds
    <3>. QED
      BY <3>1, StaysInPlace DEF Sessions
  <2>8. ASSUME NEW n \in DOMAIN made'
        PROVE  OwnCallback(n)'
    <3>1. CASE n = new
      BY <2>1, <2>4, <3>1 DEF OwnCallback
    <3>2. CASE n \in DOMAIN made /\ About(n) = p
      <4>1. ~Holds(p, "callback", n)
        BY <1>2 DEF Sessions, InOnePlace
      <4>2. made'[n].ops = <<>>
        BY <2>4, <3>2, <4>1 DEF Holds
      <4>. QED
        BY <4>2 DEF OwnCallback
    <3>3. CASE n \in DOMAIN made /\ About(n) # p
      <4>1. OwnCallback(n) /\ made'[n] = made[n]
        BY <2>4, <3>3 DEF Sessions
      <4>2. PICK q : q = made[n].peer /\ q = made'[n].peer /\ q # p
        BY <3>3, <4>1 DEF About
      <4>. QED
        BY <2>5, <4>1, <4>2 DEF OwnCallback, InMap, About
    <3>. QED
      BY <2>4, <3>1, <3>2, <3>3
  <2>. QED
    BY <1>1, <2>7, <2>8, InboxAlone DEF Sessions
<1>4. CASE /\ step' = "idle" /\ adding' = {}
           /\ refused' = refused \cup {p}
           /\ UNCHANGED <<consumers, made>>
  BY <1>1, <1>4, InboxAlone, SessionsKept DEF Present
<1>. QED
  BY <1>3, <1>4 DEF AddConsumer

\* What a queued callback does to its consumer.
LEMMA QueuedOne ==
    ASSUME Map, NEW n \in DOMAIN made, NEW op \in {"offer", "remote"}, made[n].ops = <<>>
    PROVE  /\ DOMAIN Queue(n, op) = DOMAIN made
           /\ Queue(n, op)[n].ops = <<op>>
           /\ Queue(n, op)[n].peer = made[n].peer
           /\ Queue(n, op)[n].links = made[n].links
           /\ Queue(n, op)[n].answered = made[n].answered
           /\ \A k \in DOMAIN made : k # n => Queue(n, op)[k] = made[k]
<1>1. made[n] \in Consumer
  BY LenProperties DEF Map
<1>2. /\ Queue(n, op)[n] = [made[n] EXCEPT !.ops = Append(@, op)]
      /\ DOMAIN Queue(n, op) = DOMAIN made
      /\ \A k \in DOMAIN made : k # n => Queue(n, op)[k] = made[k]
  BY DEF Queue, Map
<1>3. Append(made[n].ops, op) = <<op>>
  OBVIOUS
<1>. QED
  BY <1>1, <1>2, <1>3 DEF Consumer

\* A consumer of p in the map comes to be owed a callback, be it asked for
\* an offer or set an answer, in place of what p's session had in hand.
LEMMA CallbackOwed ==
    ASSUME IInv, Sessions, NEW p \in Peer, Present(p), NEW n, n = consumers[p],
           NEW op \in {"offer", "remote"},
           NEW from \in {"adding", "inbox"}, Holds(p, from, 0), ~Holds(p, from, 0)',
           DOMAIN made' = DOMAIN made,
           made'[n].ops = Append(made[n].ops, op),
           made'[n].peer = made[n].peer, made'[n].links = made[n].links,
           made'[n].answered = (op = "remote" \/ made[n].answered),
           \A k \in DOMAIN made : k # n => made'[k] = made[k],
           UNCHANGED <<consumers, connecting, client, outbox>>,
           \A q \in Peer :
               /\ AskedOnce(q)'
               /\ Asks(q)' => Asks(q)
               /\ q \in adding' /\ step' # "play" => q \in adding /\ step # "play"
    PROVE  Sessions'
<1>1. n \in DOMAIN made /\ made[n].peer = p /\ About(n) = p
  BY DEF IInv, Map, Present, About
<1>2. InOnePlace(p) /\ from # "callback"
  BY DEF Sessions
<1>3. made'[n].ops = <<op>>
  <2>1. ~Holds(p, "callback", n)
    BY <1>2 DEF InOnePlace
  <2>2. made[n].ops = <<>>
    BY <1>1, <2>1 DEF Holds
  <2>3. Append(<<>>, op) = <<op>>
    OBVIOUS
  <2>. QED
    BY <2>2, <2>3
<1>4. ASSUME NEW q \in Peer
      PROVE  InOnePlace(q)'
  <2>1. CASE q = p
    <3>1. ASSUME NEW v, NEW m, Holds(p, v, m)'
          PROVE  \/ v = "callback" /\ m = n
                 \/ Holds(p, v, m) /\ ~(v = from /\ m = 0)
      <4>1. CASE v \in {"inbox", "adding", "client"}
        BY <3>1, <4>1 DEF Holds
      <4>2. CASE v \notin {"inbox", "adding", "client"}
        BY <1>1, <3>1, <4>2 DEF Holds, About
      <4>. QED
        BY <4>1, <4>2
    <3>. QED
      <4>1. \A v, m : Holds(p, v, m) => v = from /\ m = 0
        BY <1>2 DEF InOnePlace
      <4>2. \A v, m : Holds(p, v, m)' => v = "callback" /\ m = n
        BY <3>1, <4>1
      <4>. QED
        BY <2>1, <4>2 DEF InOnePlace
  <2>2. CASE q # p
    <3>1. ASSUME NEW v, NEW m, Holds(q, v, m)' PROVE Holds(q, v, m)
      <4>1. CASE v \in {"inbox", "adding", "client"}
        BY <3>1, <4>1 DEF Holds
      <4>2. CASE v \notin {"inbox", "adding", "client"}
        BY <1>1, <2>2, <3>1, <4>2 DEF Holds, About
      <4>. QED
        BY <4>1, <4>2
    <3>. QED
      BY <3>1, StaysInPlace DEF Sessions
  <2>. QED
    BY <2>1, <2>2
<1>5. ASSUME NEW k \in DOMAIN made'
      PROVE  OwnCallback(k)'
  <2>1. CASE k = n
    <3>1. InMap(n)'
      BY <1>1 DEF InMap, Present, About
    <3>2. Len(made'[n].ops) = 1 /\ made'[n].ops[1] = op
      BY <1>3
    <3>3. op = "remote" => made'[n].answered
      OBVIOUS
    <3>. QED
      BY <2>1, <3>1, <3>2, <3>3 DEF OwnCallback
  <2>2. CASE k # n
    <3>1. OwnCallback(k) /\ made'[k] = made[k]
      BY <2>2 DEF Sessions
    <3>. QED
      BY <3>1 DEF OwnCallback, InMap, Present, About
  <2>. QED
    BY <2>1, <2>2
<1>. QED
  BY <1>4, <1>5 DEF Sessions

\* has it asked for an offer,
LEMMA NegotiateKeepsSessions ==
    ASSUME IInv, Sessions, NEW p \in Peer, Negotiate(p)
    PROVE  Sessions'
<1>1. /\ step = "negotiate" /\ adding = {p} /\ made' = AskedForOffer(p) /\ step' = "play"
      /\ UNCHANGED <<consumers, adding, connecting, client, inbox, outbox>>
  BY DEF Negotiate, clientVars, heard
<1>2. CASE Present(p)
  <2>1. PICK n : n = consumers[p]
    OBVIOUS
  <2>2. n \in DOMAIN made /\ About(n) = p /\ made[n] \in Consumer /\ made' = Queue(n, "offer")
    BY <1>1, <1>2, <2>1, LenProperties DEF IInv, Map, Present, About, AskedForOffer
  <2>3. Holds(p, "adding", 0) /\ ~Holds(p, "adding", 0)'
    BY <1>1 DEF Holds
  <2>4. made[n].ops = <<>>
    <3>1. ~Holds(p, "callback", n)
      BY <2>3 DEF Sessions, InOnePlace
    <3>. QED
      BY <2>2, <3>1 DEF Holds
  <2>5. /\ DOMAIN made' = DOMAIN made
        /\ made'[n].ops = Append(made[n].ops, "offer")
        /\ made'[n].peer = made[n].peer /\ made'[n].links = made[n].links
        /\ made'[n].answered = made[n].answered
        /\ \A k \in DOMAIN made : k # n => made'[k] = made[k]
    <3>1. Append(made[n].ops, "offer") = <<"offer">>
      BY <2>4
    <3>. QED
      BY <2>2, <2>4, <3>1, QueuedOne DEF IInv
  <2>6. made'[n].answered = ("offer" = "remote" \/ made[n].answered)
    BY <2>2, <2>5 DEF Consumer
  <2>. QED
    BY <1>1, <1>2, <2>1, <2>3, <2>5, <2>6, InboxAlone, CallbackOwed
<1>3. CASE ~Present(p)
  <2>1. made' = made
    BY <1>1, <1>3 DEF AskedForOffer
  <2>. QED
    BY <1>1, <2>1, InboxAlone, SessionsKept DEF Present
<1>. QED
  BY <1>2, <1>3

\* plays it,
LEMMA PlayKeepsSessions ==
    ASSUME IInv, Sessions, Play
    PROVE  Sessions'
<1>1. /\ adding' = {}
      /\ UNCHANGED <<consumers, made, connecting, client, inbox, outbox>>
  BY DEF Play, clientVars, heard
<1>. QED
  BY <1>1, InboxAlone, SessionsKept DEF Present

\* sets the answer on a consumer that is still there,
LEMMA HandleAnswerKeepsSessions ==
    ASSUME IInv, Sessions, NEW p \in Peer, HandleAnswer(p)
    PROVE  Sessions'
<1>1. /\ Reads("answer", p)
      /\ made' = IF Present(p)
                    THEN [made EXCEPT ![consumers[p]] = SetAnswer(made[consumers[p]])]
                    ELSE made
      /\ UNCHANGED <<consumers, step, adding, connecting, client, outbox>>
  BY DEF HandleAnswer, clientVars, heard
<1>2. ASSUME NEW q \in Peer
      PROVE  /\ AskedOnce(q)'
             /\ Asks(q)' => Asks(q)
             /\ q = p => /\ Asks(q)
                         /\ ~Asks(q)'
  BY <1>1, ReadAsks DEF IInv, Sessions, Word, Going
<1>3. CASE Present(p)
  <2>1. PICK n : n = consumers[p]
    OBVIOUS
  <2>2. n \in DOMAIN made /\ made[n] \in Consumer
    BY <1>3, <2>1, LenProperties DEF IInv, Map, Present
  <2>3. Holds(p, "inbox", 0) /\ ~Holds(p, "inbox", 0)'
    BY <1>2 DEF Holds
  <2>4. /\ DOMAIN made' = DOMAIN made
        /\ made'[n] = SetAnswer(made[n])
        /\ \A k \in DOMAIN made : k # n => made'[k] = made[k]
    BY <1>1, <1>3, <2>1, <2>2 DEF IInv, Map
  <2>5. /\ made'[n].ops = Append(made[n].ops, "remote")
        /\ made'[n].peer = made[n].peer /\ made'[n].links = made[n].links
        /\ made'[n].answered = TRUE
    BY <2>2, <2>4 DEF SetAnswer, Consumer
  <2>6. made'[n].answered = ("remote" = "remote" \/ made[n].answered)
    BY <2>5
  <2>. QED
    BY <1>1, <1>2, <1>3, <2>1, <2>3, <2>4, <2>5, <2>6, CallbackOwed
<1>4. CASE ~Present(p)
  <2>1. made' = made
    BY <1>1, <1>4
  <2>. QED
    BY <1>1, <1>2, <2>1, SessionsKept DEF Present
<1>. QED
  BY <1>3, <1>4

\* and removes one whose session ends or whose answer is not fit.
LEMMA ReadRemovalKeepsSessions ==
    ASSUME IInv, Sessions, NEW p \in Peer, EndSession(p) \/ HandleRefusal(p)
    PROVE  Sessions'
<1>1. /\ \E what \in Word : Reads(what, p)
      /\ \E signal \in BOOLEAN : RemoveConsumer(made, p, signal)
      /\ UNCHANGED <<step, adding, connecting, client>>
  BY DEF EndSession, HandleRefusal, Word, clientVars
<1>2. ASSUME NEW q \in Peer
      PROVE  /\ AskedOnce(q)'
             /\ Asks(q)' => Asks(q)
  BY <1>1, ReadAsks DEF IInv, Sessions, Word, Going
<1>3. /\ DOMAIN made' = DOMAIN made
      /\ \A n \in DOMAIN made :
            /\ made'[n].peer = made[n].peer /\ made'[n].ops = made[n].ops
            /\ made'[n].answered = made[n].answered
            /\ made'[n].links = made[n].links \/ made'[n].links = {}
            /\ <<"offer", n>> \in outbox' => <<"offer", n>> \in outbox
      /\ \A q : Present(q)' => Present(q) /\ consumers'[q] = consumers[q]
  BY <1>1, RemovalTakesOne DEF IInv, Map
<1>. QED
  BY <1>1, <1>2, <1>3, SessionsKept

\* What is left of a consumer that has called back.
LEMMA CalledBackOne ==
    ASSUME Map, NEW n \in DOMAIN made, OwnCallback(n), made[n].ops # <<>>
    PROVE  /\ CalledBack(n) \in Seq(Consumer) /\ DOMAIN CalledBack(n) = DOMAIN made
           /\ CalledBack(n)[n].ops = <<>>
           /\ CalledBack(n)[n].peer = made[n].peer
           /\ CalledBack(n)[n].links = made[n].links
           /\ CalledBack(n)[n].answered = made[n].answered
           /\ \A k \in DOMAIN made : k # n => CalledBack(n)[k] = made[k]
<1>1. made[n] \in Consumer
  BY LenProperties DEF Map
<1>2. CalledBack(n) \in Seq(Consumer) /\ DOMAIN CalledBack(n) = DOMAIN made
  BY CalledBackAlike DEF Alike
<1>3. /\ CalledBack(n)[n] = [made[n] EXCEPT !.ops = Tail(@)]
      /\ \A k \in DOMAIN made : k # n => CalledBack(n)[k] = made[k]
  BY DEF CalledBack, Map
<1>4. Tail(made[n].ops) = <<>>
  <2>1. made[n].ops \in Seq({"offer", "remote"}) /\ Len(made[n].ops) = 1
    BY <1>1 DEF Consumer, OwnCallback
  <2>2. Tail(made[n].ops) \in Seq({"offer", "remote"}) /\ Len(Tail(made[n].ops)) = 0
    BY <2>1, HeadTailProperties
  <2>. QED
    BY <2>2, EmptySeq
<1>. QED
  BY <1>1, <1>2, <1>3, <1>4 DEF Consumer

\* Whose callback brings nothing is removed, or nobody is.
LEMMA LostCallbackKeepsSessions ==
    ASSUME IInv, Sessions, NEW n \in DOMAIN made, made[n].ops # <<>>,
           \/ RemoveConsumer(CalledBack(n), About(n), TRUE)
           \/ made' = CalledBack(n) /\ UNCHANGED <<consumers, outbox>>,
           UNCHANGED <<step, adding, connecting, client, inbox>>
    PROVE  Sessions'
<1>1. /\ CalledBack(n) \in Seq(Consumer) /\ DOMAIN CalledBack(n) = DOMAIN made
      /\ CalledBack(n)[n].ops = <<>>
      /\ \A k \in DOMAIN made :
            /\ CalledBack(n)[k].peer = made[k].peer
            /\ CalledBack(n)[k].answered = made[k].answered
            /\ CalledBack(n)[k].links = made[k].links
            /\ CalledBack(n)[k].ops = made[k].ops \/ CalledBack(n)[k].ops = <<>>
  BY CalledBackOne DEF Sessions, IInv
<1>2. /\ DOMAIN made' = DOMAIN made
      /\ \A k \in DOMAIN made :
            /\ made'[k].peer = CalledBack(n)[k].peer
            /\ made'[k].answered = CalledBack(n)[k].answered
            /\ made'[k].ops = CalledBack(n)[k].ops
            /\ made'[k].links = CalledBack(n)[k].links \/ made'[k].links = {}
            /\ <<"offer", k>> \in outbox' => <<"offer", k>> \in outbox
      /\ \A q : Present(q)' => Present(q) /\ consumers'[q] = consumers[q]
  <2>1. CASE RemoveConsumer(CalledBack(n), About(n), TRUE)
    <3>1. DOMAIN made' = DOMAIN made
      BY <1>1, <2>1, RemovalTakesOne DEF IInv
    <3>2. \A k \in DOMAIN made :
            /\ made'[k].peer = CalledBack(n)[k].peer
            /\ made'[k].answered = CalledBack(n)[k].answered
            /\ made'[k].ops = CalledBack(n)[k].ops
            /\ made'[k].links = CalledBack(n)[k].links \/ made'[k].links = {}
      BY <1>1, <2>1, RemovalTakesOne DEF IInv
    <3>3. PICK p : p = About(n)
      OBVIOUS
    <3>4. \A m : m \in outbox' =>
            m \in outbox \/ m = <<"end", consumers[p]>>
      BY <1>1, <2>1, <3>3, RemovalTakesOne DEF IInv
    <3>5. \A k : <<"offer", k>> \in outbox' => <<"offer", k>> \in outbox
      BY <3>4
    <3>6. \A q : Present(q)' => Present(q) /\ consumers'[q] = consumers[q]
      BY <1>1, <2>1, <3>3, RemovalTakesOne DEF IInv
    <3>. QED
      BY <3>1, <3>2, <3>5, <3>6
  <2>2. CASE made' = CalledBack(n) /\ UNCHANGED <<consumers, outbox>>
    BY <1>1, <2>2 DEF Present
  <2>. QED
    BY <2>1, <2>2
<1>. QED
  BY <1>1, <1>2, InboxAlone, SessionsKept

\* An offer that is made is on its way.
LEMMA OfferCreatedKeepsSessions ==
    ASSUME IInv, Sessions, NEW n \in DOMAIN made, OfferCreated(n)
    PROVE  Sessions'
<1>1. /\ made[n].ops # <<>>
      /\ UNCHANGED <<step, adding, connecting, client, inbox>>
  BY DEF OfferCreated, CallsBack, clientVars, heard
<1>2. OwnCallback(n)
  BY DEF Sessions
<1>3. CASE Present(About(n)) /\ made' = CalledBack(n)
           /\ outbox' = outbox \cup {<<"offer", n>>} /\ UNCHANGED consumers
  <2>1. PICK p \in Peer : p = About(n)
    BY <1>3 DEF Present, IInv, Map
  <2>2. /\ DOMAIN made' = DOMAIN made /\ made'[n].ops = <<>>
        /\ made'[n].peer = made[n].peer /\ made'[n].links = made[n].links
        /\ \A k \in DOMAIN made : k # n => made'[k] = made[k]
    BY <1>1, <1>2, <1>3, CalledBackOne DEF IInv
  <2>3. Holds(p, "callback", n)
    BY <1>1, <2>1 DEF Holds
  <2>4. \A k : <<"offer", k>> \in outbox' <=> <<"offer", k>> \in outbox \/ k = n
    BY <1>3
  <2>5. ASSUME NEW q \in Peer
        PROVE  InOnePlace(q)'
    <3>1. ASSUME NEW v, NEW m, Holds(q, v, m)'
          PROVE  \/ v = "outbox" /\ m = n /\ q = p
                 \/ Holds(q, v, m) /\ ~(v = "callback" /\ m = n)
      <4>1. CASE v \in {"inbox", "adding", "client"}
        BY <1>1, <3>1, <4>1 DEF Holds, Asks, Coming
      <4>2. CASE v \notin {"inbox", "adding", "client"} /\ m = n
        BY <1>1, <2>1, <2>2, <2>4, <3>1, <4>2 DEF Holds, About
      <4>3. CASE v \notin {"inbox", "adding", "client"} /\ m # n
        BY <1>1, <2>2, <2>4, <3>1, <4>3 DEF Holds, About
      <4>. QED
        BY <4>1, <4>2, <4>3
    <3>2. CASE q = p
      BY <2>3, <3>1, <3>2, MovesOn DEF Sessions
    <3>3. CASE q # p
      BY <3>1, <3>3, StaysInPlace DEF Sessions
    <3>. QED
      BY <3>2, <3>3
  <2>6. ASSUME NEW k \in DOMAIN made'
        PROVE  OwnCallback(k)'
    <3>1. CASE k = n
      BY <2>2, <3>1 DEF OwnCallback
    <3>2. CASE k # n
      <4>1. OwnCallback(k) /\ made'[k] = made[k]
        BY <2>2, <3>2 DEF Sessions
      <4>. QED
        BY <1>3, <4>1 DEF OwnCallback, InMap, Present, About
    <3>. QED
      BY <3>1, <3>2
  <2>. QED
    BY <1>1, <2>5, <2>6, InboxAlone DEF Sessions
<1>4. CASE \/ RemoveConsumer(CalledBack(n), About(n), TRUE)
           \/ made' = CalledBack(n) /\ UNCHANGED <<consumers, outbox>>
  BY <1>1, <1>4, LostCallbackKeepsSessions
<1>. QED
  BY <1>3, <1>4 DEF OfferCreated

\* Whoever is called back about its answer has one set, and no streams yet:
\* nothing is unwrapped that is not there.
LEMMA AnswerFits ==
    ASSUME IInv, Sessions, NEW n \in DOMAIN made, CallsBack(n, "remote"), Present(About(n))
    PROVE  /\ consumers[About(n)] = n
           /\ made[n].answered /\ made[n].links = {}
<1>1. OwnCallback(n) /\ made[n].ops # <<>> /\ Head(made[n].ops) = "remote"
  BY DEF Sessions, CallsBack
<1>2. InMap(n)
  BY <1>1 DEF OwnCallback
<1>3. made[n].answered
  <2>1. made[n].ops[1] = "remote"
    BY <1>1
  <2>. QED
    BY <1>1, <2>1 DEF OwnCallback
<1>4. PICK p \in Peer : p = About(n)
  BY DEF Present, IInv, Map
<1>5. Holds(p, "callback", n)
  BY <1>1, <1>4 DEF Holds
<1>6. ~Holds(p, "streams", n)
  BY <1>5 DEF Sessions, InOnePlace
<1>7. made[n].links = {}
  BY <1>4, <1>6 DEF Holds
<1>. QED
  BY <1>2, <1>3, <1>7 DEF InMap

\* The answer that is set leads to streams,
LEMMA RemoteDescriptionSetKeepsSessions ==
    ASSUME IInv, Sessions, NEW n \in DOMAIN made, RemoteDescriptionSet(n)
    PROVE  Sessions' /\ panicked' = panicked
<1>1. /\ CallsBack(n, "remote") /\ made[n].ops # <<>> /\ connecting = {}
      /\ UNCHANGED <<step, adding, client, inbox>>
  BY DEF RemoteDescriptionSet, CallsBack, Locked, clientVars, heard
<1>2. OwnCallback(n)
  BY DEF Sessions
<1>3. Present(About(n)) =>
          /\ consumers[About(n)] = n
          /\ made[consumers[About(n)]].answered /\ made[consumers[About(n)]].links = {}
  BY <1>1, AnswerFits
<1>4. /\ panicked' = panicked
      /\ \/ /\ Present(About(n)) /\ made' = CalledBack(n) /\ UNCHANGED <<consumers, outbox>>
            /\ connecting' = {[target |-> n, todo |-> Stream]}
         \/ /\ \/ RemoveConsumer(CalledBack(n), About(n), TRUE)
               \/ made' = CalledBack(n) /\ UNCHANGED <<consumers, outbox>>
            /\ UNCHANGED connecting
  BY <1>1, <1>3 DEF RemoteDescriptionSet
<1>5. CASE /\ Present(About(n)) /\ made' = CalledBack(n) /\ UNCHANGED <<consumers, outbox>>
           /\ connecting' = {[target |-> n, todo |-> Stream]}
  <2>1. PICK p \in Peer : p = About(n)
    BY <1>5 DEF Present, IInv, Map
  <2>2. /\ DOMAIN made' = DOMAIN made /\ made'[n].ops = <<>>
        /\ made'[n].peer = made[n].peer /\ made'[n].links = made[n].links
        /\ \A k \in DOMAIN made : k # n => made'[k] = made[k]
    BY <1>1, <1>2, <1>5, CalledBackOne DEF IInv
  <2>3. Holds(p, "callback", n)
    BY <1>1, <2>1 DEF Holds
  <2>4. \A c \in connecting' : c.target = n
    BY <1>5
  <2>5. ASSUME NEW q \in Peer
        PROVE  InOnePlace(q)'
    <3>1. ASSUME NEW v, NEW m, Holds(q, v, m)'
          PROVE  \/ v = "streams" /\ m = n /\ q = p
                 \/ Holds(q, v, m) /\ ~(v = "callback" /\ m = n)
      <4>1. CASE v \in {"inbox", "adding", "client"}
        BY <1>1, <3>1, <4>1 DEF Holds, Asks, Coming
      <4>2. CASE v \notin {"inbox", "adding", "client"} /\ m = n
        BY <1>5, <2>1, <2>2, <3>1, <4>2 DEF Holds, About
      <4>3. CASE v \notin {"inbox", "adding", "client"} /\ m # n
        BY <1>5, <2>2, <2>4, <3>1, <4>3 DEF Holds, About
      <4>. QED
        BY <4>1, <4>2, <4>3
    <3>2. CASE q = p
      BY <2>3, <3>1, <3>2, MovesOn DEF Sessions
    <3>3. CASE q # p
      BY <3>1, <3>3, StaysInPlace DEF Sessions
    <3>. QED
      BY <3>2, <3>3
  <2>6. ASSUME NEW k \in DOMAIN made'
        PROVE  OwnCallback(k)'
    <3>1. CASE k = n
      BY <2>2, <3>1 DEF OwnCallback
    <3>2. CASE k # n
      <4>1. OwnCallback(k) /\ made'[k] = made[k]
        BY <2>2, <3>2 DEF Sessions
      <4>. QED
        BY <1>5, <4>1 DEF OwnCallback, InMap, Present, About
    <3>. QED
      BY <3>1, <3>2
  <2>. QED
    BY <1>1, <1>4, <2>5, <2>6, InboxAlone DEF Sessions
<1>6. CASE /\ \/ RemoveConsumer(CalledBack(n), About(n), TRUE)
              \/ made' = CalledBack(n) /\ UNCHANGED <<consumers, outbox>>
           /\ UNCHANGED connecting
  BY <1>1, <1>4, <1>6, LostCallbackKeepsSessions
<1>. QED
  BY <1>4, <1>5, <1>6

\* that are connected one by one,
LEMMA ConnectStreamKeepsSessions ==
    ASSUME IInv, Sessions, ConnectStream
    PROVE  Sessions'
<1>1. UNCHANGED <<step, adding, client, inbox>>
  BY DEF ConnectStream, clientVars, heard
<1>2. PICK c \in connecting, s \in Stream :
        \/ /\ made' = [made EXCEPT ![c.target].links = @ \cup {s}]
           /\ connecting' = {[c EXCEPT !.todo = @ \ {s}]}
           /\ UNCHANGED <<consumers, outbox>>
        \/ /\ RemoveConsumer(made, About(c.target), TRUE)
           /\ connecting' = {}
  BY DEF ConnectStream
<1>3. c.target \in DOMAIN made /\ made \in Seq(Consumer) /\ made[c.target] \in Consumer
  BY LenProperties DEF IInv, Target, Map
<1>4. CASE /\ made' = [made EXCEPT ![c.target].links = @ \cup {s}]
           /\ connecting' = {[c EXCEPT !.todo = @ \ {s}]}
           /\ UNCHANGED <<consumers, outbox>>
  <2>1. \A d \in connecting' : d.target = c.target
    <3>1. [c EXCEPT !.todo = @ \ {s}].target = c.target
      OBVIOUS
    <3>. QED
      BY <1>4, <3>1
  <2>2. /\ DOMAIN made' = DOMAIN made
        /\ \A n \in DOMAIN made :
              /\ made'[n].peer = made[n].peer /\ made'[n].answered = made[n].answered
              /\ made'[n].ops = made[n].ops
              /\ made'[n].links = made[n].links \/ n = c.target
    BY <1>3, <1>4 DEF Consumer
  <2>. QED
    BY <1>1, <1>4, <2>1, <2>2, InboxAlone, SessionsKept DEF Present
<1>5. CASE /\ RemoveConsumer(made, About(c.target), TRUE)
           /\ connecting' = {}
  <2>1. /\ DOMAIN made' = DOMAIN made
        /\ \A n \in DOMAIN made :
              /\ made'[n].peer = made[n].peer /\ made'[n].answered = made[n].answered
              /\ made'[n].ops = made[n].ops
              /\ made'[n].links = made[n].links \/ made'[n].links = {}
              /\ <<"offer", n>> \in outbox' => <<"offer", n>> \in outbox
        /\ \A q : Present(q)' => Present(q) /\ consumers'[q] = consumers[q]
    <3>1. DOMAIN made' = DOMAIN made
      BY <1>3, <1>5, RemovalTakesOne DEF IInv
    <3>2. \A n \in DOMAIN made :
            /\ made'[n].peer = made[n].peer /\ made'[n].answered = made[n].answered
            /\ made'[n].ops = made[n].ops
            /\ made'[n].links = made[n].links \/ made'[n].links = {}
      BY <1>3, <1>5, RemovalTakesOne DEF IInv
    <3>3. PICK p : p = About(c.target)
      OBVIOUS
    <3>4. \A m : m \in outbox' =>
            m \in outbox \/ m = <<"end", consumers[p]>>
      BY <1>3, <1>5, <3>3, RemovalTakesOne DEF IInv
    <3>5. \A n : <<"offer", n>> \in outbox' => <<"offer", n>> \in outbox
      BY <3>4
    <3>6. \A q : Present(q)' => Present(q) /\ consumers'[q] = consumers[q]
      BY <1>3, <1>5, <3>3, RemovalTakesOne DEF IInv
    <3>. QED
      BY <3>1, <3>2, <3>5, <3>6
  <2>. QED
    BY <1>1, <1>5, <2>1, InboxAlone, SessionsKept
<1>. QED
  BY <1>2, <1>4, <1>5

\* that are connected in the end,
LEMMA ConnectedKeepsSessions ==
    ASSUME IInv, Sessions, Connected
    PROVE  Sessions'
<1>1. /\ connecting' = {}
      /\ UNCHANGED <<consumers, made, step, adding, client, inbox, outbox>>
  BY DEF Connected, clientVars, heard
<1>2. ASSUME NEW q \in Peer, NEW v, NEW m, Holds(q, v, m)'
      PROVE  Holds(q, v, m)
  BY <1>1, <1>2 DEF Holds, Asks, Coming, About
<1>3. \A n \in DOMAIN made' : OwnCallback(n)'
  BY <1>1 DEF Sessions, OwnCallback, InMap, Present, About
<1>4. \A q \in Peer : InOnePlace(q)'
  BY <1>2, StaysInPlace DEF Sessions
<1>. QED
  BY <1>1, <1>3, <1>4, InboxAlone DEF Sessions

\* until the consumer breaks or shuts down.
LEMMA EndingKeepsSessions ==
    ASSUME IInv, Sessions, NEW n \in DOMAIN made, ShutDown(n) \/ Break(n) \/ HandleBreak(n)
    PROVE  Sessions'
<1>1. UNCHANGED <<step, adding, connecting, client, inbox>>
  BY DEF ShutDown, Break, HandleBreak, clientVars, heard
<1>2. made \in Seq(Consumer) /\ \A k \in DOMAIN made : made[k] \in Consumer
  BY LenProperties DEF IInv, Map
<1>3. CASE ShutDown(n)
  <2>1. PICK left \in {<<>>, made[n].ops} :
          made' = [made EXCEPT ![n].down = TRUE, ![n].ops = left]
    BY <1>3 DEF ShutDown
  <2>2. /\ DOMAIN made' = DOMAIN made
        /\ \A k \in DOMAIN made :
              /\ made'[k].peer = made[k].peer /\ made'[k].answered = made[k].answered
              /\ made'[k].links = made[k].links
              /\ made'[k].ops = made[k].ops \/ made'[k].ops = <<>>
    BY <1>2, <2>1 DEF Consumer
  <2>3. UNCHANGED <<consumers, outbox>>
    BY <1>3 DEF ShutDown
  <2>. QED
    BY <1>1, <2>2, <2>3, InboxAlone, SessionsKept DEF Present
<1>4. CASE Break(n)
  <2>1. /\ DOMAIN made' = DOMAIN made
        /\ \A k \in DOMAIN made :
              /\ made'[k].peer = made[k].peer /\ made'[k].answered = made[k].answered
              /\ made'[k].links = made[k].links /\ made'[k].ops = made[k].ops
    BY <1>2, <1>4 DEF Break, Consumer
  <2>2. UNCHANGED <<consumers, outbox>>
    BY <1>4 DEF Break
  <2>. QED
    BY <1>1, <2>1, <2>2, InboxAlone, SessionsKept DEF Present
<1>5. CASE HandleBreak(n)
  <2>1. PICK base : base = [made EXCEPT ![n].broke = "handled"]
    OBVIOUS
  <2>2. RemoveConsumer(base, About(n), TRUE)
    BY <1>5, <2>1 DEF HandleBreak
  <2>3. base \in Seq(Consumer) /\ DOMAIN base = DOMAIN made
    BY <2>1, BrokeAlike DEF Alike, IInv
  <2>4. \A k \in DOMAIN made :
           /\ base[k].peer = made[k].peer /\ base[k].answered = made[k].answered
           /\ base[k].links = made[k].links /\ base[k].ops = made[k].ops
    BY <1>2, <2>1 DEF Consumer
  <2>5. /\ DOMAIN made' = DOMAIN made
        /\ \A k \in DOMAIN made :
              /\ made'[k].peer = made[k].peer /\ made'[k].answered = made[k].answered
              /\ made'[k].ops = made[k].ops
              /\ made'[k].links = made[k].links \/ made'[k].links = {}
              /\ <<"offer", k>> \in outbox' => <<"offer", k>> \in outbox
        /\ \A q : Present(q)' => Present(q) /\ consumers'[q] = consumers[q]
    <3>1. DOMAIN made' = DOMAIN made
      BY <2>2, <2>3, RemovalTakesOne DEF IInv
    <3>2. \A k \in DOMAIN made :
            /\ made'[k].peer = base[k].peer /\ made'[k].answered = base[k].answered
            /\ made'[k].ops = base[k].ops
            /\ made'[k].links = base[k].links \/ made'[k].links = {}
      BY <2>2, <2>3, RemovalTakesOne DEF IInv
    <3>3. PICK p : p = About(n)
      OBVIOUS
    <3>4. \A m : m \in outbox' =>
            m \in outbox \/ m = <<"end", consumers[p]>>
      BY <2>2, <2>3, <3>3, RemovalTakesOne DEF IInv
    <3>5. \A k : <<"offer", k>> \in outbox' => <<"offer", k>> \in outbox
      BY <3>4
    <3>6. \A q : Present(q)' => Present(q) /\ consumers'[q] = consumers[q]
      BY <2>2, <2>3, <3>3, RemovalTakesOne DEF IInv
    <3>. QED
      BY <2>4, <3>1, <3>2, <3>5, <3>6
  <2>. QED
    BY <1>1, <2>5, InboxAlone, SessionsKept
<1>. QED
  BY <1>3, <1>4, <1>5

\* So sessions stay in one place, and nothing panics, with clients that
\* wait for what is left of their own.
Orderly == habit # "returning" => Sessions /\ ~panicked

\* At first there is no session.
LEMMA InitOrderly == Init => Orderly
<1>. SUFFICES ASSUME Init PROVE Sessions /\ ~panicked
  BY DEF Orderly
<1>1. ASSUME NEW p \in Peer, NEW v, NEW m
      PROVE  ~Holds(p, v, m)
  BY DEF Init, Holds, Asks, Going, Word, Coming
<1>. QED
  BY <1>1 DEF Init, Sessions, InOnePlace, AskedOnce, Going, Word, Coming

\* Each step keeps them in their place.
LEMMA NextKeepsOrderly == IInv /\ Orderly /\ [Next]_vars => Orderly'
<1>. SUFFICES ASSUME IInv, Orderly, [Next]_vars, habit' # "returning"
              PROVE  Sessions' /\ ~panicked'
  BY DEF Orderly
<1>1. habit' = habit
  BY DEF Next, Clients, ReceiveTask, Connection, Callback, Join, Answer, Leave, Deliver,
     TakeSettings, AddConsumer, Negotiate, Play, EndSession, HandleAnswer, HandleRefusal,
     OfferCreated, RemoteDescriptionSet, ConnectStream, Connected, ShutDown, Break,
     HandleBreak, vars, clientVars, heard
<1>2. Sessions /\ ~panicked /\ habit # "returning"
  BY <1>1 DEF Orderly
<1>3. CASE Clients
  <2>1. panicked' = panicked
    BY <1>3 DEF Clients, Join, Answer, Leave, elementVars, heard
  <2>. QED
    BY <1>2, <1>3, <2>1, JoinKeepsSessions, AnswerKeepsSessions, LeaveKeepsSessions DEF Clients
<1>4. CASE ReceiveTask
  <2>1. panicked' = panicked
    BY <1>4 DEF ReceiveTask, TakeSettings, AddConsumer, Negotiate, Play, EndSession,
       HandleAnswer, HandleRefusal
  <2>. QED
    BY <1>2, <1>4, <2>1, TakeSettingsKeepsSessions, AddConsumerKeepsSessions,
       NegotiateKeepsSessions, PlayKeepsSessions, HandleAnswerKeepsSessions,
       ReadRemovalKeepsSessions DEF ReceiveTask
<1>5. CASE Connection
  <2>1. panicked' = panicked
    BY <1>5 DEF Connection, ConnectStream, Connected
  <2>. QED
    BY <1>2, <1>5, <2>1, ConnectStreamKeepsSessions, ConnectedKeepsSessions DEF Connection
<1>6. CASE \E m \in outbox : Deliver(m)
  <2>1. panicked' = panicked
    BY <1>6 DEF Deliver, elementVars, heard
  <2>. QED
    BY <1>2, <1>6, <2>1, DeliverKeepsSessions
<1>7. CASE \E n \in DOMAIN made : Callback(n) \/ ShutDown(n) \/ Break(n) \/ HandleBreak(n)
  <2>1. PICK n \in DOMAIN made : Callback(n) \/ ShutDown(n) \/ Break(n) \/ HandleBreak(n)
    BY <1>7
  <2>2. CASE OfferCreated(n)
    <3>1. panicked' = panicked
      BY <2>2 DEF OfferCreated
    <3>. QED
      BY <1>2, <2>2, <3>1, OfferCreatedKeepsSessions
  <2>3. CASE RemoteDescriptionSet(n)
    BY <1>2, <2>3, RemoteDescriptionSetKeepsSessions
  <2>4. CASE ShutDown(n) \/ Break(n) \/ HandleBreak(n)
    <3>1. panicked' = panicked
      BY <2>4 DEF ShutDown, Break, HandleBreak
    <3>. QED
      BY <1>2, <2>4, <3>1, EndingKeepsSessions
  <2>. QED
    BY <2>1, <2>2, <2>3, <2>4 DEF Callback
<1>8. CASE UNCHANGED vars
  <2>1. UNCHANGED <<consumers, made, step, adding, connecting, panicked, client, inbox, outbox>>
    BY <1>8 DEF vars, elementVars, heard, clientVars, heard
  <2>. QED
    BY <1>2, <2>1, InboxAlone, SessionsKept DEF Present
<1>. QED
  BY <1>3, <1>4, <1>5, <1>6, <1>7, <1>8 DEF Next

LEMMA OrderlyHolds == Spec => []Orderly
BY IInvHolds, InitOrderly, NextKeepsOrderly, PTL DEF Spec

\* on_remote_description_set never unwraps a payload that is not set, nor connects a
\* consumer twice, as long as a client comes back only when nothing is left of its
\* earlier session: its callback finds the consumer that it was set on, or none.
THEOREM PatientNeverPanics == Spec => []PatientNeverPanic
<1>1. Orderly => PatientNeverPanic
  BY DEF Orderly, PatientNeverPanic
<1>. QED
  BY <1>1, OrderlyHolds, PTL

-----------------------------------------------------------------------------
(* The element and the server, about one peer.                             *)

Asked(p) == Coming("start", p)
Adding(p) == step = "settings" /\ p \in adding
Ending(p) == Coming("end", p)
EndTold(p) == \E n \in DOMAIN made : About(n) = p /\ <<"end", n>> \in outbox

Agree(p) ==
    \* While a session starts, there is nothing yet of what comes later.
    /\ Asked(p) \/ Adding(p) => ~Present(p) /\ p \notin refused /\ ~EndTold(p)
    \* An end that is told, or a refusal, is of a consumer that is not there.
    /\ EndTold(p) \/ p \in refused => ~Present(p)
    \* Who is out has said so, and this comes still or came before its start.
    /\ Ending(p) => client[p] = "out"
    /\ client[p] = "out" /\ (Present(p) \/ Asked(p) \/ Adding(p)) =>
          Ending(p) \/ p \in overtaken
    \* Who is in session has a consumer, or it is being made, or its end is told.
    /\ client[p] # "out" /\ p \notin refused =>
          Present(p) \/ Asked(p) \/ Adding(p) \/ EndTold(p)

\* A step that at most removes a peer's consumer and tells its end, or finds the
\* client out, changes nothing in that.
LEMMA AgreeKept ==
    ASSUME NEW q, Agree(q),
           Asked(q)' <=> Asked(q), Ending(q)' <=> Ending(q), q \in overtaken => q \in overtaken',
           Adding(q)' <=> Adding(q),
           client'[q] = "out" <=> client[q] = "out",
           q \in refused' <=> q \in refused,
           Present(q)' => Present(q),
           Present(q) /\ ~Present(q)' => EndTold(q)' \/ client[q] = "out",
           EndTold(q) => EndTold(q)',
           EndTold(q)' => EndTold(q) \/ (Present(q) /\ ~Present(q)')
    PROVE  Agree(q)'
BY DEF Agree

\* What is said, and read, changes what is known of who says it only, and only if
\* it is that a session starts or ends.
LEMMA SaysAbout ==
    ASSUME Messages, NEW what \in Word, NEW p \in Peer, Say(what, p), NEW q \in Peer
    PROVE  /\ Asked(q)' <=> Asked(q) \/ (q = p /\ what = "start")
           /\ Ending(q)' <=> Ending(q) \/ (q = p /\ what = "end")
<1>1. /\ inbox \in [Word \X Peer -> Nat]
      /\ inbox'[<<what, p>>] = inbox[<<what, p>>] + 1
      /\ \A other \in Word, r \in Peer :
            <<other, r>> # <<what, p>> => inbox'[<<other, r>>] = inbox[<<other, r>>]
  BY SaidOne DEF Messages
<1>2. ASSUME NEW other \in {"start", "end"}
      PROVE  Coming(other, q)' <=> Coming(other, q) \/ (q = p /\ what = other)
  <2>1. other \in Word
    BY DEF Word
  <2>. QED
    BY <1>1, <2>1 DEF Coming
<1>. QED
  BY <1>2 DEF Asked, Ending

\* (Reading may leave nothing of it.)
LEMMA ReadsAbout ==
    ASSUME Messages, NEW what \in Word, NEW p \in Peer, Reads(what, p), NEW q \in Peer
    PROVE  /\ Asked(q)' => Asked(q)
           /\ Asked(q) => Asked(q)' \/ (q = p /\ what = "start")
           /\ Ending(q)' => Ending(q)
           /\ Ending(q) => Ending(q)' \/ (q = p /\ what = "end")
           /\ q = p /\ what = "start" => Asked(q)
           /\ q = p /\ what = "end" => Ending(q)
<1>1. /\ inbox \in [Word \X Peer -> Nat]
      /\ inbox[<<what, p>>] > 0 /\ inbox'[<<what, p>>] = inbox[<<what, p>>] - 1
      /\ \A other \in Word, r \in Peer :
            <<other, r>> # <<what, p>> => inbox'[<<other, r>>] = inbox[<<other, r>>]
  BY ReadOne DEF Messages
<1>2. ASSUME NEW other \in {"start", "end"}
      PROVE  /\ Coming(other, q)' => Coming(other, q)
             /\ Coming(other, q) => Coming(other, q)' \/ (q = p /\ what = other)
             /\ q = p /\ what = other => Coming(other, q)
  <2>1. other \in Word
    BY DEF Word
  <2>. QED
    BY <1>1, <2>1 DEF Coming
<1>. QED
  BY <1>2 DEF Asked, Ending

\* A step that leaves the inbox alone changes none of it.
LEMMA NothingRead ==
    ASSUME inbox' = inbox, NEW q
    PROVE  /\ Asked(q)' <=> Asked(q)
           /\ Ending(q)' <=> Ending(q)
BY DEF Asked, Ending, Coming

\* The ends that are told are those of consumers that are removed, if that is to
\* be told.
LEMMA EndsTold ==
    ASSUME Map, NEW base, base \in Seq(Consumer), DOMAIN base = DOMAIN made,
           \A n \in DOMAIN made : base[n].peer = made[n].peer,
           NEW p, NEW signal, RemoveConsumer(base, p, signal), NEW q
    PROVE  /\ Present(q)' <=> Present(q) /\ q # p
           /\ Present(q) /\ q = p /\ signal => EndTold(q)'
           /\ EndTold(q) => EndTold(q)'
           /\ EndTold(q)' => EndTold(q) \/ (Present(q) /\ ~Present(q)')
<1>1. DOMAIN made' = DOMAIN made /\ \A n \in DOMAIN made : made'[n].peer = made[n].peer
  BY RemovalTakesOne
<1>2. Present(q)' <=> Present(q) /\ q # p
  BY RemovalTakesOne
<1>3. \A m : m \in outbox' <=>
          m \in outbox \/ (signal /\ Present(p) /\ m = <<"end", consumers[p]>>)
  BY RemovalTakesOne
<1>4. Present(p) => consumers[p] \in DOMAIN made /\ made[consumers[p]].peer = p
  BY DEF Map, Present
<1>5. Present(q) /\ q = p /\ signal => EndTold(q)'
  BY <1>1, <1>3, <1>4 DEF EndTold, About
<1>6. EndTold(q) => EndTold(q)'
  BY <1>1, <1>3 DEF EndTold, About
<1>7. EndTold(q)' => EndTold(q) \/ (Present(q) /\ q = p)
  <2>1. SUFFICES ASSUME NEW n \in DOMAIN made, made[n].peer = q, <<"end", n>> \in outbox'
                 PROVE  EndTold(q) \/ (Present(q) /\ q = p)
    BY <1>1 DEF EndTold, About
  <2>2. CASE <<"end", n>> \in outbox
    BY <2>1, <2>2 DEF EndTold, About
  <2>3. CASE Present(p) /\ n = consumers[p]
    BY <1>4, <2>1, <2>3
  <2>. QED
    BY <1>3, <2>1, <2>2, <2>3
<1>. QED
  BY <1>2, <1>5, <1>6, <1>7

\* No end is told by a step that leaves the map and the ends alone.
LEMMA NoneTold ==
    ASSUME DOMAIN made' = DOMAIN made, consumers' = consumers,
           \A n \in DOMAIN made :
               /\ made'[n].peer = made[n].peer
               /\ <<"end", n>> \in outbox' <=> <<"end", n>> \in outbox,
           NEW q
    PROVE  /\ Present(q)' <=> Present(q)
           /\ EndTold(q)' <=> EndTold(q)
BY DEF Present, EndTold, About

\* A step that removes a consumer and tells its end, reading nothing of a start or
\* an end, keeps what is known of its peer, and of any other.
LEMMA TellingKeepsAgree ==
    ASSUME IInv, NEW base, base \in Seq(Consumer), DOMAIN base = DOMAIN made,
           \A n \in DOMAIN made : base[n].peer = made[n].peer,
           NEW p, RemoveConsumer(base, p, TRUE),
           UNCHANGED <<step, adding, client, refused, overtaken>>,
           NEW q \in Peer, Agree(q),
           Asked(q)' <=> Asked(q), Ending(q)' <=> Ending(q)
    PROVE  Agree(q)'
<1>1. Map
  BY DEF IInv
<1>2. /\ Present(q)' <=> Present(q) /\ q # p
      /\ Present(q) /\ q = p => EndTold(q)'
  BY <1>1, EndsTold
<1>3. EndTold(q) => EndTold(q)'
  BY <1>1, EndsTold
<1>4. EndTold(q)' => EndTold(q) \/ (Present(q) /\ ~Present(q)')
  BY <1>1, EndsTold
<1>5. /\ Adding(q)' <=> Adding(q)
      /\ client'[q] = "out" <=> client[q] = "out"
      /\ q \in refused' <=> q \in refused
      /\ q \in overtaken => q \in overtaken'
  BY DEF Adding
<1>. QED
  BY <1>2, <1>3, <1>4, <1>5, AgreeKept

\* A client that joins has its start to be read, and nothing else is left of it.
LEMMA JoinKeepsAgree ==
    ASSUME IInv, NEW p \in Peer, Join(p), habit # "returning", NEW q \in Peer, Agree(q)
    PROVE  Agree(q)'
<1>1. /\ Settled(p) /\ client' = [client EXCEPT ![p] = "waiting"] /\ Say("start", p)
      /\ refused' = refused \ {p} /\ overtaken' = overtaken \ {p}
      /\ UNCHANGED <<consumers, made, step, adding, outbox>>
  BY DEF Join
<1>2. client \in [Peer -> {"out", "waiting", "offered", "answered"}]
  BY DEF IInv, Messages
<1>3. /\ Asked(q)' <=> Asked(q) \/ q = p
      /\ Ending(q)' <=> Ending(q)
  BY <1>1, SaysAbout DEF IInv, Word
<1>4. /\ Present(q)' <=> Present(q)
      /\ EndTold(q)' <=> EndTold(q)
      /\ Adding(q)' <=> Adding(q)
  BY <1>1, NoneTold DEF Adding
<1>5. CASE q # p
  <2>1. /\ client'[q] = client[q] /\ (q \in refused' <=> q \in refused)
        /\ q \in overtaken => q \in overtaken'
    BY <1>1, <1>2, <1>5
  <2>. QED
    BY <1>3, <1>4, <1>5, <2>1, AgreeKept
<1>6. CASE q = p
  <2>1. client'[p] # "out" /\ p \notin refused'
    BY <1>1, <1>2
  <2>2. ~Present(p) /\ ~Adding(p)
    BY <1>1 DEF Settled, Adding
  <2>3. ~Ending(p)
    BY <1>1 DEF Settled, Ending, Word
  <2>4. ~EndTold(p)
    BY <1>1 DEF Settled, EndTold
  <2>. QED
    BY <1>3, <1>4, <1>6, <2>1, <2>2, <2>3, <2>4 DEF Agree
<1>. QED
  BY <1>5, <1>6

\* An answer says nothing of this,
LEMMA AnswerKeepsAgree ==
    ASSUME IInv, NEW p \in Peer, Answer(p), NEW q \in Peer, Agree(q)
    PROVE  Agree(q)'
<1>1. /\ client[p] = "offered" /\ client' = [client EXCEPT ![p] = "answered"]
      /\ UNCHANGED <<consumers, made, step, adding, refused, overtaken, outbox>>
  BY DEF Answer, elementVars, heard
<1>2. client'[q] = "out" <=> client[q] = "out"
  BY <1>1 DEF IInv, Messages
<1>3. PICK what \in {"answer", "refusal"} : Say(what, p)
  BY DEF Answer
<1>4. /\ Asked(q)' <=> Asked(q)
      /\ Ending(q)' <=> Ending(q)
  BY <1>3, SaysAbout DEF IInv, Word
<1>5. /\ Present(q)' <=> Present(q)
      /\ EndTold(q)' <=> EndTold(q)
      /\ Adding(q)' <=> Adding(q)
  BY <1>1, NoneTold DEF Adding
<1>. QED
  BY <1>1, <1>2, <1>4, <1>5, AgreeKept

\* and who leaves says so last.
LEMMA LeaveKeepsAgree ==
    ASSUME IInv, NEW p \in Peer, Leave(p), NEW q \in Peer, Agree(q)
    PROVE  Agree(q)'
<1>1. /\ client' = [client EXCEPT ![p] = "out"] /\ Say("end", p)
      /\ UNCHANGED <<consumers, made, step, adding, refused, overtaken, outbox>>
  BY DEF Leave, elementVars, heard
<1>2. client'[q] = IF q = p THEN "out" ELSE client[q]
  BY <1>1 DEF IInv, Messages
<1>3. /\ Asked(q)' <=> Asked(q)
      /\ Ending(q)' <=> Ending(q) \/ q = p
  BY <1>1, SaysAbout DEF IInv, Word
<1>4. /\ Present(q)' <=> Present(q)
      /\ EndTold(q)' <=> EndTold(q)
      /\ Adding(q)' <=> Adding(q)
  BY <1>1, NoneTold DEF Adding
<1>5. CASE q # p
  BY <1>1, <1>2, <1>3, <1>4, <1>5, AgreeKept
<1>6. CASE q = p
  BY <1>1, <1>2, <1>3, <1>4, <1>6 DEF Agree
<1>. QED
  BY <1>5, <1>6

\* An end that gets to the server finds its consumer gone.
LEMMA DeliverKeepsAgree ==
    ASSUME IInv, NEW m \in outbox, Deliver(m), NEW q \in Peer, Agree(q)
    PROVE  Agree(q)'
<1>1. PICK what \in {"end", "offer"}, n \in DOMAIN made : m = <<what, n>>
  BY DEF IInv, Messages
<1>2. PICK p \in Peer : p = About(n)
  <2>1. made[n] \in Consumer
    BY LenProperties DEF IInv, Map
  <2>. QED
    BY <2>1 DEF About, Consumer
<1>3. /\ outbox' = outbox \ {m}
      /\ client' = IF client[p] = "out" THEN client
                   ELSE [client EXCEPT ![p] = IF what = "end" THEN "out" ELSE "offered"]
      /\ UNCHANGED <<consumers, made, step, adding, refused, overtaken, inbox>>
  BY <1>1, <1>2 DEF Deliver, elementVars, heard
<1>4. client \in [Peer -> {"out", "waiting", "offered", "answered"}]
  BY DEF IInv, Messages
<1>5. /\ Present(q)' <=> Present(q)
      /\ Adding(q)' <=> Adding(q)
      /\ Asked(q)' <=> Asked(q)
      /\ Ending(q)' <=> Ending(q)
  BY <1>3, NothingRead DEF Present, Adding
<1>6. EndTold(q)' => EndTold(q)
  BY <1>3 DEF EndTold, About
<1>7. CASE q # p \/ what = "offer"
  <2>1. EndTold(q) => EndTold(q)'
    BY <1>1, <1>2, <1>3, <1>7 DEF EndTold, About
  <2>2. client'[q] = "out" <=> client[q] = "out"
    BY <1>3, <1>4, <1>7
  <2>. QED
    BY <1>3, <1>5, <1>6, <2>1, <2>2, AgreeKept
<1>8. CASE q = p /\ what = "end"
  <2>1. EndTold(q)
    BY <1>1, <1>2, <1>8 DEF EndTold
  <2>2. client'[q] = "out"
    BY <1>3, <1>4, <1>8
  <2>3. ~Present(q) /\ ~Asked(q) /\ ~Adding(q)
    BY <2>1 DEF Agree
  <2>. QED
    BY <1>3, <1>5, <1>6, <2>2, <2>3 DEF Agree
<1>. QED
  BY <1>7, <1>8

\* A start that is read becomes the consumer that is being made,
LEMMA TakeSettingsKeepsAgree ==
    ASSUME IInv, Sessions, NEW p \in Peer, TakeSettings(p), NEW q \in Peer, Agree(q)
    PROVE  Agree(q)'
<1>1. /\ Reads("start", p) /\ adding' = {p} /\ step' = "settings" /\ adding = {}
      /\ UNCHANGED <<consumers, made, client, refused, overtaken, outbox>>
  BY DEF TakeSettings, Reads, clientVars, heard, IInv, Receiver
<1>2. /\ Asked(q)' => Asked(q)
      /\ Asked(q) => Asked(q)' \/ q = p
      /\ q = p => Asked(q)
      /\ Ending(q)' <=> Ending(q)
  BY <1>1, ReadsAbout DEF IInv, Word
<1>3. /\ Present(q)' <=> Present(q)
      /\ EndTold(q)' <=> EndTold(q)
      /\ Adding(q)' <=> q = p
      /\ ~Adding(q)
  BY <1>1, NoneTold DEF Adding
<1>4. CASE q # p
  BY <1>1, <1>2, <1>3, <1>4, AgreeKept
<1>5. CASE q = p
  BY <1>1, <1>2, <1>3, <1>5 DEF Agree
<1>. QED
  BY <1>4, <1>5

\* which is one that there is, or is refused.
LEMMA AddConsumerKeepsAgree ==
    ASSUME IInv, Sessions, NEW p \in Peer, AddConsumer(p), NEW q \in Peer, Agree(q)
    PROVE  Agree(q)'
<1>1. /\ step = "settings" /\ adding = {p}
      /\ UNCHANGED <<client, overtaken, inbox, outbox>>
  BY DEF AddConsumer, clientVars, heard
<1>2. /\ Asked(q)' <=> Asked(q)
      /\ Ending(q)' <=> Ending(q)
      /\ Adding(q) <=> q = p
  BY <1>1, NothingRead DEF Adding
<1>3. ~Asked(p)
  <2>1. Holds(p, "adding", 0)
    BY <1>1 DEF Holds
  <2>2. ~Holds(p, "inbox", 0)
    BY <2>1 DEF Sessions, InOnePlace
  <2>. QED
    BY <2>2 DEF Asked, Asks, Going, Holds
<1>4. CASE /\ ~Present(p)
           /\ made' = Append(made, NewConsumer(p))
           /\ consumers' = [r \in DOMAIN consumers \cup {p} |->
                               IF r = p THEN Len(made') ELSE consumers[r]]
           /\ step' = "negotiate"
           /\ UNCHANGED <<adding, refused>>
  <2>1. NewConsumer(p) \in Consumer /\ made \in Seq(Consumer)
    BY DEF NewConsumer, Consumer, IInv, Map
  <2>2. PICK new : new = Len(made')
    OBVIOUS
  <2>3. /\ DOMAIN made' = DOMAIN made \cup {new} /\ new \notin DOMAIN made
        /\ \A n \in DOMAIN made : made'[n] = made[n]
    BY <1>4, <2>1, <2>2, Appended
  <2>4. <<"end", new>> \notin outbox
    BY <2>3 DEF IInv, Messages
  <2>5. EndTold(q)' <=> EndTold(q)
    BY <1>1, <2>3, <2>4 DEF EndTold, About
  <2>6. (Present(q)' <=> Present(q) \/ q = p) /\ ~Adding(q)'
    BY <1>4 DEF Present, Adding
  <2>7. CASE q # p
    BY <1>1, <1>2, <1>4, <2>5, <2>6, <2>7, AgreeKept
  <2>8. CASE q = p
    BY <1>1, <1>2, <1>3, <1>4, <2>5, <2>6, <2>8 DEF Agree
  <2>. QED
    BY <2>7, <2>8
<1>5. CASE /\ step' = "idle" /\ adding' = {}
           /\ refused' = refused \cup {p}
           /\ UNCHANGED <<consumers, made>>
  <2>1. /\ Present(q)' <=> Present(q)
        /\ EndTold(q)' <=> EndTold(q)
        /\ ~Adding(q)'
        /\ q \in refused' <=> q \in refused \/ q = p
    BY <1>1, <1>5, NoneTold DEF Adding
  <2>2. CASE q # p
    BY <1>1, <1>2, <2>1, <2>2, AgreeKept
  <2>3. CASE q = p
    BY <1>1, <1>2, <1>3, <2>1, <2>3 DEF Agree
  <2>. QED
    BY <2>2, <2>3
<1>. QED
  BY <1>4, <1>5 DEF AddConsumer

\* A step that leaves the map, the ends and who the consumers are alone, reading
\* nothing of a start or an end, keeps it.
LEMMA SilenceKeepsAgree ==
    ASSUME DOMAIN made' = DOMAIN made, consumers' = consumers,
           \A n \in DOMAIN made :
               /\ made'[n].peer = made[n].peer
               /\ <<"end", n>> \in outbox' <=> <<"end", n>> \in outbox,
           UNCHANGED <<client, refused, overtaken>>,
           NEW q \in Peer, Agree(q), Adding(q)' <=> Adding(q),
           Asked(q)' <=> Asked(q), Ending(q)' <=> Ending(q)
    PROVE  Agree(q)'
<1>1. /\ Present(q)' <=> Present(q)
      /\ EndTold(q)' <=> EndTold(q)
  BY NoneTold
<1>2. /\ client'[q] = "out" <=> client[q] = "out"
      /\ q \in refused' <=> q \in refused
      /\ q \in overtaken => q \in overtaken'
  OBVIOUS
<1>. QED
  BY <1>1, <1>2, AgreeKept

\* So do the negotiation of an offer and the start of a pipeline,
LEMMA NegotiateKeepsAgree ==
    ASSUME IInv, NEW p \in Peer, Negotiate(p) \/ Play, NEW q \in Peer, Agree(q)
    PROVE  Agree(q)'
<1>1. /\ step \in {"negotiate", "play"} /\ step' \in {"play", "idle"}
      /\ made' = AskedForOffer(p) \/ made' = made
      /\ UNCHANGED <<consumers, client, refused, overtaken, inbox, outbox>>
  BY DEF Negotiate, Play, clientVars, heard
<1>2. Alike(made')
  <2>1. CASE Present(p) /\ made' = Queue(consumers[p], "offer")
    <3>1. PICK n \in DOMAIN made : n = consumers[p]
      BY <2>1 DEF IInv, Map, Present
    <3>. QED
      BY <2>1, <3>1, QueueAlike DEF IInv
  <2>2. CASE made' = made
    BY <2>2, SameAlike DEF IInv
  <2>. QED
    BY <1>1, <2>1, <2>2 DEF AskedForOffer
<1>3. ~Adding(q) /\ ~Adding(q)'
  BY <1>1 DEF Adding
<1>. QED
  BY <1>1, <1>2, <1>3, NothingRead, SilenceKeepsAgree DEF Alike

\* and an answer that is set or refused.
LEMMA HandleAnswerKeepsAgree ==
    ASSUME IInv, NEW p \in Peer, HandleAnswer(p) \/ HandleRefusal(p), NEW q \in Peer, Agree(q)
    PROVE  Agree(q)'
<1>1. UNCHANGED <<step, adding, client, refused, overtaken>>
  BY DEF HandleAnswer, HandleRefusal, clientVars, heard
<1>2. PICK what \in {"answer", "refusal"} : Reads(what, p)
  BY DEF HandleAnswer, HandleRefusal
<1>3. /\ Asked(q)' <=> Asked(q)
      /\ Ending(q)' <=> Ending(q)
  BY <1>2, ReadsAbout DEF IInv, Word
<1>4. CASE HandleAnswer(p)
  <2>1. made \in Seq(Consumer) /\ \A n \in DOMAIN made : made[n] \in Consumer
    BY LenProperties DEF IInv, Map
  <2>2. /\ made' = IF Present(p)
                      THEN [made EXCEPT ![consumers[p]] = SetAnswer(made[consumers[p]])]
                      ELSE made
        /\ UNCHANGED <<consumers, outbox>>
    BY <1>4 DEF HandleAnswer
  <2>3. \A n \in DOMAIN made : SetAnswer(made[n]).peer = made[n].peer
    BY <2>1 DEF SetAnswer, Consumer
  <2>4. DOMAIN made' = DOMAIN made /\ \A n \in DOMAIN made : made'[n].peer = made[n].peer
    BY <2>2, <2>3 DEF IInv, Map
  <2>5. Adding(q)' <=> Adding(q)
    BY <1>1 DEF Adding
  <2>. QED
    BY <1>1, <1>3, <2>2, <2>4, <2>5, SilenceKeepsAgree
<1>5. CASE HandleRefusal(p)
  <2>1. RemoveConsumer(made, p, TRUE) /\ made \in Seq(Consumer)
    BY <1>5 DEF HandleRefusal, IInv, Map
  <2>. QED
    BY <1>1, <1>3, <2>1, TellingKeepsAgree
<1>. QED
  BY <1>4, <1>5

\* Whose end is read has left, and its consumer goes without a word; one that is
\* still to be made has been overtaken.
LEMMA EndSessionKeepsAgree ==
    ASSUME IInv, NEW p \in Peer, EndSession(p), NEW q \in Peer, Agree(q)
    PROVE  Agree(q)'
<1>1. /\ Reads("end", p) /\ step = "idle" /\ RemoveConsumer(made, p, FALSE)
      /\ overtaken' = IF Asked(p) THEN overtaken \cup {p} ELSE overtaken
      /\ UNCHANGED <<step, adding, client, refused>>
  BY DEF EndSession, Reads, clientVars, Asked
<1>2. /\ Asked(q)' <=> Asked(q)
      /\ Ending(q)' => Ending(q)
      /\ Ending(q) => Ending(q)' \/ q = p
      /\ q = p => Ending(q)
  BY <1>1, ReadsAbout DEF IInv, Word
<1>3. made \in Seq(Consumer) /\ Map
  BY DEF IInv, Map
<1>4. Present(q)' <=> Present(q) /\ q # p
  BY <1>1, <1>3, EndsTold
<1>5. EndTold(q) => EndTold(q)'
  BY <1>1, <1>3, EndsTold
<1>6. EndTold(q)' => EndTold(q) \/ (Present(q) /\ ~Present(q)')
  BY <1>1, <1>3, EndsTold
<1>7. ~Adding(q) /\ ~Adding(q)'
  BY <1>1 DEF Adding
<1>8. CASE q # p
  BY <1>1, <1>2, <1>4, <1>5, <1>6, <1>7, <1>8, AgreeKept
<1>9. CASE q = p
  <2>1. client[q] = "out" /\ ~Present(q)' /\ (Asked(q) => q \in overtaken')
    BY <1>1, <1>2, <1>4, <1>9 DEF Agree
  <2>2. Asked(q) => ~EndTold(q)'
    BY <1>6 DEF Agree
  <2>. QED
    BY <1>1, <1>2, <1>7, <2>1, <2>2 DEF Agree
<1>. QED
  BY <1>8, <1>9

\* The consumers' threads tell the end of those that they remove,
LEMMA CallbackKeepsAgree ==
    ASSUME IInv, NEW n \in DOMAIN made, Callback(n), NEW q \in Peer, Agree(q)
    PROVE  Agree(q)'
<1>1. /\ made[n].ops # <<>>
      /\ UNCHANGED <<step, adding, client, refused, overtaken, inbox>>
  BY DEF Callback, OfferCreated, RemoteDescriptionSet, CallsBack, clientVars, heard
<1>2. Alike(CalledBack(n))
  BY <1>1, CalledBackAlike DEF IInv
<1>3. /\ Asked(q)' <=> Asked(q)
      /\ Ending(q)' <=> Ending(q)
      /\ Adding(q)' <=> Adding(q)
  BY <1>1, NothingRead DEF Adding
<1>4. \/ RemoveConsumer(CalledBack(n), About(n), TRUE)
      \/ /\ made' = CalledBack(n) /\ consumers' = consumers
         /\ outbox' \in {outbox, outbox \cup {<<"offer", n>>}}
  BY DEF Callback, OfferCreated, RemoteDescriptionSet
<1>5. CASE RemoveConsumer(CalledBack(n), About(n), TRUE)
  BY <1>1, <1>2, <1>3, <1>5, TellingKeepsAgree DEF Alike
<1>6. CASE /\ made' = CalledBack(n) /\ consumers' = consumers
           /\ outbox' \in {outbox, outbox \cup {<<"offer", n>>}}
  <2>1. \A k : <<"end", k>> \in outbox' <=> <<"end", k>> \in outbox
    BY <1>6
  <2>. QED
    BY <1>1, <1>2, <1>3, <1>6, <2>1, SilenceKeepsAgree DEF Alike
<1>. QED
  BY <1>4, <1>5, <1>6

\* as does the one that connects streams
LEMMA ConnectionKeepsAgree ==
    ASSUME IInv, Connection, NEW q \in Peer, Agree(q)
    PROVE  Agree(q)'
<1>1. UNCHANGED <<step, adding, client, refused, overtaken, inbox>>
  BY DEF Connection, ConnectStream, Connected, clientVars, heard
<1>2. /\ Asked(q)' <=> Asked(q)
      /\ Ending(q)' <=> Ending(q)
      /\ Adding(q)' <=> Adding(q)
  BY <1>1, NothingRead DEF Adding
<1>3. made \in Seq(Consumer) /\ \A n \in DOMAIN made : made[n] \in Consumer
  BY LenProperties DEF IInv, Map
<1>4. CASE ConnectStream
  <2>1. PICK c \in connecting, s \in Stream :
          \/ /\ made' = [made EXCEPT ![c.target].links = @ \cup {s}]
             /\ UNCHANGED <<consumers, outbox>>
          \/ RemoveConsumer(made, About(c.target), TRUE)
    BY <1>4 DEF ConnectStream
  <2>2. CASE /\ made' = [made EXCEPT ![c.target].links = @ \cup {s}]
             /\ UNCHANGED <<consumers, outbox>>
    <3>1. DOMAIN made' = DOMAIN made /\ \A n \in DOMAIN made : made'[n].peer = made[n].peer
      BY <1>3, <2>2 DEF Consumer
    <3>. QED
      BY <1>1, <1>2, <2>2, <3>1, SilenceKeepsAgree
  <2>3. CASE RemoveConsumer(made, About(c.target), TRUE)
    BY <1>1, <1>2, <1>3, <2>3, TellingKeepsAgree
  <2>. QED
    BY <2>1, <2>2, <2>3
<1>5. CASE Connected
  <2>1. UNCHANGED <<consumers, made, outbox>>
    BY <1>5 DEF Connected
  <2>. QED
    BY <1>1, <1>2, <2>1, SilenceKeepsAgree
<1>. QED
  BY <1>4, <1>5 DEF Connection

\* and those that see a consumer break.
LEMMA BreakKeepsAgree ==
    ASSUME IInv, NEW n \in DOMAIN made, ShutDown(n) \/ Break(n) \/ HandleBreak(n),
           NEW q \in Peer, Agree(q)
    PROVE  Agree(q)'
<1>1. UNCHANGED <<step, adding, client, refused, overtaken, inbox>>
  BY DEF ShutDown, Break, HandleBreak, clientVars, heard
<1>2. /\ Asked(q)' <=> Asked(q)
      /\ Ending(q)' <=> Ending(q)
      /\ Adding(q)' <=> Adding(q)
  BY <1>1, NothingRead DEF Adding
<1>3. made \in Seq(Consumer) /\ \A k \in DOMAIN made : made[k] \in Consumer
  BY LenProperties DEF IInv, Map
<1>4. CASE ShutDown(n) \/ Break(n)
  <2>1. DOMAIN made' = DOMAIN made /\ \A k \in DOMAIN made : made'[k].peer = made[k].peer
    <3>1. \/ \E left : made' = [made EXCEPT ![n].down = TRUE, ![n].ops = left]
          \/ made' = [made EXCEPT ![n].broke = "seen"]
      BY <1>4 DEF ShutDown, Break
    <3>2. CASE \E left : made' = [made EXCEPT ![n].down = TRUE, ![n].ops = left]
      BY <1>3, <3>2 DEF Consumer
    <3>3. CASE made' = [made EXCEPT ![n].broke = "seen"]
      BY <1>3, <3>3 DEF Consumer
    <3>. QED
      BY <3>1, <3>2, <3>3
  <2>2. UNCHANGED <<consumers, outbox>>
    BY <1>4 DEF ShutDown, Break
  <2>. QED
    BY <1>1, <1>2, <2>1, <2>2, SilenceKeepsAgree
<1>5. CASE HandleBreak(n)
  <2>1. PICK base : base = [made EXCEPT ![n].broke = "handled"]
    OBVIOUS
  <2>2. RemoveConsumer(base, About(n), TRUE)
    BY <1>5, <2>1 DEF HandleBreak
  <2>3. Alike(base)
    BY <2>1, BrokeAlike DEF IInv
  <2>. QED
    BY <1>1, <1>2, <2>2, <2>3, TellingKeepsAgree DEF Alike
<1>. QED
  BY <1>4, <1>5

Agreed == habit # "returning" => \A p \in Peer : Agree(p)

\* Nobody is in session at first,
LEMMA InitAgreed == Init => Agreed
BY DEF Init, Agreed, Agree, Asked, Adding, Ending, EndTold, Coming, Word, Present

\* and each step keeps the element and the server in agreement.
LEMMA NextKeepsAgreed == IInv /\ Orderly /\ Agreed /\ [Next]_vars => Agreed'
<1>. SUFFICES ASSUME IInv, Orderly, Agreed, [Next]_vars, habit' # "returning",
                     NEW q \in Peer
              PROVE  Agree(q)'
  BY DEF Agreed
<1>1. habit' = habit
  BY DEF Next, Clients, ReceiveTask, Connection, Callback, Join, Answer, Leave, Deliver,
     TakeSettings, AddConsumer, Negotiate, Play, EndSession, HandleAnswer, HandleRefusal,
     OfferCreated, RemoteDescriptionSet, ConnectStream, Connected, ShutDown, Break,
     HandleBreak, vars, clientVars, heard
<1>2. Sessions /\ Agree(q) /\ habit # "returning"
  BY <1>1 DEF Orderly, Agreed
<1>3. CASE Clients
  BY <1>2, <1>3, JoinKeepsAgree, AnswerKeepsAgree, LeaveKeepsAgree DEF Clients
<1>4. CASE ReceiveTask
  BY <1>2, <1>4, TakeSettingsKeepsAgree, AddConsumerKeepsAgree, NegotiateKeepsAgree,
     EndSessionKeepsAgree, HandleAnswerKeepsAgree DEF ReceiveTask
<1>5. CASE Connection
  BY <1>2, <1>5, ConnectionKeepsAgree
<1>6. CASE \E m \in outbox : Deliver(m)
  BY <1>2, <1>6, DeliverKeepsAgree
<1>7. CASE \E n \in DOMAIN made : Callback(n) \/ ShutDown(n) \/ Break(n) \/ HandleBreak(n)
  BY <1>2, <1>7, CallbackKeepsAgree, BreakKeepsAgree
<1>8. CASE UNCHANGED vars
  BY <1>2, <1>8 DEF vars, elementVars, heard, clientVars, heard, Agree, Asked, Adding, Ending, EndTold,
     Coming, Present, About
<1>. QED
  BY <1>3, <1>4, <1>5, <1>6, <1>7, <1>8 DEF Next

\* Once nothing is under way, the element has a consumer for those that the server
\* has in session, but for those it could make none for, and for nobody else, but
\* for those whose end overtook their start (server/mod.rs): whoever starts, removes
\* or loses a consumer, and in whatever order it is told.  The clients are those
\* that wait for what is left of their own.
THEOREM SessionsDoMatch == Spec => []SessionsMatch
<1>1. IInv /\ Agreed => SessionsMatch
  <2>. SUFFICES ASSUME IInv, habit # "returning", Quiet, NEW p \in Peer, Agree(p)
                PROVE  /\ client[p] # "out" => Present(p) \/ p \in refused
                       /\ Present(p) => \/ client[p] # "out" /\ p \notin refused
                                        \/ p \in overtaken
    BY DEF Agreed, SessionsMatch
  <2>1. ~Asked(p) /\ ~Ending(p) /\ ~EndTold(p) /\ ~Adding(p)
    BY DEF Quiet, Asked, Ending, EndTold, Adding, Word
  <2>. QED
    BY <2>1 DEF Agree
<1>. QED
  BY <1>1, IInvHolds, OrderlyHolds, InitAgreed, NextKeepsAgreed, PTL DEF Spec

=============================================================================
