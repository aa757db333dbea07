-------------------------- MODULE ConsumerSessions --------------------------
(***************************************************************************)
(* The consumers of a webrtcsink element, from StartSession to the end of  *)
(* the session (plugins/src/webrtcsink/imp.rs), as three kinds of threads  *)
(* see them: the signaller's receive task, which adds and removes them and *)
(* hands over their answers; the thread of each consumer's webrtcbin,      *)
(* which calls back when an offer is made and when an answer is set; and   *)
(* whoever reports that a consumer's pipeline or connection broke.         *)
(*                                                                         *)
(* All of them name a consumer by its peer's identifier, and a peer may be *)
(* back with the same one.  Two locks are held across steps: the settings  *)
(* lock by add_consumer, from its first line to its last, and the state    *)
(* lock by on_remote_description_set while it connects stream by stream,   *)
(* where the default encoder-setup handler wants the settings lock.  Any   *)
(* other section under a lock is one action.                               *)
(*                                                                         *)
(* Messages travel in a task each, in any order: those of the element to   *)
(* the server, and those of the server to the element.                     *)
(***************************************************************************)
EXTENDS Integers, Sequences, FiniteSets

CONSTANTS
    Peer,           \* the consumers' identifiers
    Stream,         \* the element's input streams
    MaxSessions,    \* bound: sessions asked for
    Habits          \* the clients considered, out of Habit

(* Patient clients come one at a time, when nothing of an earlier session is *)
(* left; crowding ones do not mind the others, returning ones not even what *)
(* is left of their own.                                                    *)
Habit == {"patient", "crowding", "returning"}

ASSUME HabitsAreKnown == Habits \subseteq Habit /\ MaxSessions \in Nat
ASSUME SomeStreams == IsFiniteSet(Stream) /\ Stream # {}

VARIABLES
    consumers,      \* State.consumers: peer |-> consumer
    made,           \* every consumer made so far, in order
    step,           \* where the receive task is
    adding,         \* the peer it is adding a consumer for, if any
    connecting,     \* what on_remote_description_set is at, if anything
    panicked,       \* has a thread panicked with the state lock?
    habit,          \* the clients' habit, which does not change
    client,         \* where each peer's session is, for the server and the peer
    joins,          \* how many sessions have been asked for
    refused,        \* peers in a session the element made no consumer for
    overtaken,      \* peers whose end was read before their start
    inbox,          \* how many of each message the server is still sending
    outbox          \* what the signaller's tasks have still to send

heard == <<refused, overtaken>>
elementVars == <<consumers, made, step, adding, connecting, panicked, heard>>
clientVars == <<habit, client, joins>>
vars == <<elementVars, clientVars, inbox, outbox>>

(* A consumer: whether its pads' payloads are known, the streams linked to it, *)
(* what its webrtcbin has still to call back about, whether it broke, whether *)
(* it was finalized and whether its pipeline has stopped since.            *)
Consumer == [peer : Peer, answered : BOOLEAN, links : SUBSET Stream,
             ops : Seq({"offer", "remote"}), broke : {"no", "seen", "handled"},
             gone : BOOLEAN, down : BOOLEAN]

\* What the server passes on of a peer: that it starts and ends a session, its
\* answer or one that refuses a stream.
Word == {"start", "answer", "refusal", "end"}

NewConsumer(p) == [peer |-> p, answered |-> FALSE, links |-> {}, ops |-> <<>>,
                   broke |-> "no", gone |-> FALSE, down |-> FALSE]

Present(p) == p \in DOMAIN consumers
Coming(what, p) == inbox[<<what, p>>] > 0
Locked == connecting # {} \/ panicked

Init ==
    /\ consumers = << >> /\ made = <<>>
    /\ step = "idle" /\ adding = {} /\ connecting = {} /\ panicked = FALSE
    /\ habit \in Habits
    /\ client = [p \in Peer |-> "out"] /\ joins = 0
    /\ refused = {} /\ overtaken = {}
    /\ inbox = [m \in Word \X Peer |-> 0] /\ outbox = {}

-----------------------------------------------------------------------------
(* Helpers.  base is made as the caller's own bookkeeping leaves it.       *)
(* A definition just above another with the same parameters is a variant   *)
(* with a plausible bug: nothing uses it, and a property has to tell it    *)
(* from the one below.                                                     *)

Queue(n, op) == [made EXCEPT ![n].ops = Append(@, op)]
CalledBack(n) == [made EXCEPT ![n].ops = Tail(@)]

KeepLinks(consumer) == [consumer EXCEPT !.gone = TRUE]
Finalized(consumer) == [consumer EXCEPT !.gone = TRUE, !.links = {}]

TellNothing(hit) == {}
Tell(hit) == {<<"end", n>> : n \in hit}

Others(p) == [q \in DOMAIN consumers \ {p} |-> consumers[q]]

\* State::remove_consumer, with or without a word to the signaller.
RemoveConsumer(base, p, signal) ==
    LET hit == {n \in DOMAIN base : Present(p) /\ consumers[p] = n}
    IN  /\ made' = [n \in DOMAIN base |-> IF n \in hit THEN Finalized(base[n]) ELSE base[n]]
        /\ consumers' = Others(p)
        /\ outbox' = outbox \cup (IF signal THEN Tell(hit) ELSE {})

-----------------------------------------------------------------------------
(* The clients, behind the server.                                         *)

About(n) == made[n].peer

\* Nothing of p's sessions is left anywhere.
Settled(p) ==
    /\ client[p] = "out" /\ ~Present(p) /\ p \notin adding
    /\ \A what \in Word : ~Coming(what, p)
    /\ \A m \in outbox : About(m[2]) # p
    /\ \A n \in DOMAIN made : About(n) = p =>
          made[n].down /\ made[n].ops = <<>> /\ made[n].broke # "seen"

Streaming(p) == Present(p) /\ made[consumers[p]].links = Stream

Say(what, p) == inbox' = [inbox EXCEPT ![<<what, p>>] = @ + 1]

Join(p) ==
    /\ client[p] = "out"
    /\ joins < MaxSessions
    /\ habit # "returning" => Settled(p)
    /\ habit # "crowding" => \A q \in Peer \ {p} : Settled(q) \/ Streaming(q)
    /\ client' = [client EXCEPT ![p] = "waiting"]
    /\ joins' = joins + 1
    /\ refused' = refused \ {p} /\ overtaken' = overtaken \ {p}
    /\ Say("start", p)
    /\ UNCHANGED <<consumers, made, step, adding, connecting, panicked, habit, outbox>>

\* An answer to an offer, which may refuse a stream.
Answer(p) ==
    /\ client[p] = "offered"
    /\ client' = [client EXCEPT ![p] = "answered"]
    /\ Say("answer", p) \/ Say("refusal", p)
    /\ UNCHANGED <<elementVars, habit, joins, outbox>>

Leave(p) ==
    /\ client[p] # "out"
    /\ client' = [client EXCEPT ![p] = "out"]
    /\ Say("end", p)
    /\ UNCHANGED <<elementVars, habit, joins, outbox>>

\* One of the signaller's tasks gets its message to the server, which passes on
\* what is about a session.
Deliver(m) ==
    /\ m \in outbox
    /\ outbox' = outbox \ {m}
    /\ LET p == About(m[2])
           now == IF m[1] = "end" THEN "out" ELSE "offered"
       IN  client' = IF client[p] = "out" THEN client ELSE [client EXCEPT ![p] = now]
    /\ UNCHANGED <<elementVars, habit, joins, inbox>>

-----------------------------------------------------------------------------
(* The signaller's receive task.                                           *)

\* Any of those that are on their way may be the next to arrive.
Reads(what, p) ==
    /\ step = "idle"
    /\ Coming(what, p)
    /\ inbox' = [inbox EXCEPT ![<<what, p>>] = @ - 1]

\* add_consumer takes the settings lock ...
TakeSettings(p) ==
    /\ Reads("start", p)
    /\ step' = "settings" /\ adding' = {p}
    /\ UNCHANGED <<consumers, made, connecting, panicked, heard, clientVars, outbox>>

\* ... then the state lock; a consumer with this identifier or a pipeline that
\* cannot be set up end it, without a word to the server ...
AddConsumer(p) ==
    /\ step = "settings" /\ adding = {p} /\ ~Locked
    /\ \/ /\ ~Present(p)
          /\ made' = Append(made, NewConsumer(p))
          /\ consumers' = [q \in DOMAIN consumers \cup {p} |->
                              IF q = p THEN Len(made') ELSE consumers[q]]
          /\ step' = "negotiate"
          /\ UNCHANGED <<adding, refused>>
       \/ /\ step' = "idle" /\ adding' = {}
          /\ refused' = refused \cup {p}
          /\ UNCHANGED <<consumers, made>>
    /\ UNCHANGED <<connecting, panicked, overtaken, clientVars, inbox, outbox>>

\* ... asks for an offer, the state lock taken anew, if the consumer is still there ...
AskedNobody(p) == made
AskedForOffer(p) == IF Present(p) THEN Queue(consumers[p], "offer") ELSE made

Negotiate(p) ==
    /\ step = "negotiate" /\ adding = {p} /\ ~Locked
    /\ made' = AskedForOffer(p)
    /\ step' = "play"
    /\ UNCHANGED <<consumers, adding, connecting, panicked, heard, clientVars, inbox, outbox>>

\* ... and sets its pipeline to Playing, which may fail and changes nothing here.
Play ==
    /\ step = "play"
    /\ step' = "idle" /\ adding' = {}
    /\ UNCHANGED <<consumers, made, connecting, panicked, heard, clientVars, inbox, outbox>>

EndSession(p) ==
    /\ ~Locked
    /\ Reads("end", p)
    /\ RemoveConsumer(made, p, FALSE)
    /\ overtaken' = IF Coming("start", p) THEN overtaken \cup {p} ELSE overtaken
    /\ UNCHANGED <<step, adding, connecting, panicked, refused, clientVars>>

ForgetPayloads(consumer) == [consumer EXCEPT !.ops = Append(@, "remote")]
SetAnswer(consumer) == [consumer EXCEPT !.answered = TRUE, !.ops = Append(@, "remote")]

\* handle_sdp, with an answer that is fit for every stream or is not.
HandleAnswer(p) ==
    /\ ~Locked
    /\ Reads("answer", p)
    /\ made' = IF Present(p)
                  THEN [made EXCEPT ![consumers[p]] = SetAnswer(@)] ELSE made
    /\ UNCHANGED <<consumers, step, adding, connecting, panicked, heard, clientVars, outbox>>

HandleRefusal(p) ==
    /\ ~Locked
    /\ Reads("refusal", p)
    /\ RemoveConsumer(made, p, TRUE)
    /\ UNCHANGED <<step, adding, connecting, panicked, heard, clientVars>>

-----------------------------------------------------------------------------
(* The thread of consumer n's webrtcbin.                                   *)

CallsBack(n, op) == ~Locked /\ made[n].ops # <<>> /\ Head(made[n].ops) = op

\* The promise of create-offer.  on_offer_created sets and sends the offer for
\* whoever has the identifier; without an offer that consumer is removed.
OfferCreated(n) ==
    /\ CallsBack(n, "offer")
    /\ \/ /\ made' = CalledBack(n)
          /\ outbox' = IF Present(About(n)) THEN outbox \cup {<<"offer", n>>} ELSE outbox
          /\ UNCHANGED consumers
       \/ RemoveConsumer(CalledBack(n), About(n), TRUE)
    /\ UNCHANGED <<step, adding, connecting, panicked, heard, clientVars, inbox>>

\* The promise of set-remote-description, whatever the reply: the consumer with
\* the identifier gets its streams.  A payload that is not set is unwrapped, and
\* so is the failure to add a second source of the same name.
RemoteDescriptionSet(n) ==
    /\ CallsBack(n, "remote")
    /\ LET p == About(n)
           fit == Present(p) => made[consumers[p]].answered /\ made[consumers[p]].links = {}
       IN  \/ /\ fit
              /\ made' = CalledBack(n)
              /\ connecting' = IF Present(p)
                                  THEN {[target |-> consumers[p], todo |-> Stream]} ELSE {}
              /\ UNCHANGED <<consumers, outbox, panicked>>
           \/ /\ fit
              /\ RemoveConsumer(CalledBack(n), p, TRUE)
              /\ UNCHANGED <<connecting, panicked>>
           \/ /\ ~fit
              /\ made' = CalledBack(n)
              /\ panicked' = TRUE
              /\ UNCHANGED <<consumers, outbox, connecting>>
    /\ UNCHANGED <<step, adding, heard, clientVars, inbox>>

\* connect_input_stream emits encoder-setup, whose default handler takes the
\* settings lock.  A stream that cannot be connected takes the consumer along.
ConnectStream ==
    /\ step = "idle"
    /\ \E c \in connecting, s \in Stream :
          /\ s \in c.todo
          /\ \/ /\ made' = [made EXCEPT ![c.target].links = @ \cup {s}]
                /\ connecting' = {[c EXCEPT !.todo = @ \ {s}]}
                /\ UNCHANGED <<consumers, outbox>>
             \/ /\ RemoveConsumer(made, About(c.target), TRUE)
                /\ connecting' = {}
    /\ UNCHANGED <<step, adding, panicked, heard, clientVars, inbox>>

Connected ==
    /\ \E c \in connecting : c.todo = {}
    /\ connecting' = {}
    /\ UNCHANGED <<consumers, made, step, adding, panicked, heard, clientVars, inbox, outbox>>

\* The pipeline of a finalized consumer reaches Null; its webrtcbin has dropped
\* what was left to do, or still calls back.
ShutDown(n) ==
    /\ made[n].gone /\ ~made[n].down
    /\ \E left \in {<<>>, made[n].ops} :
          made' = [made EXCEPT ![n].down = TRUE, ![n].ops = left]
    /\ UNCHANGED <<consumers, step, adding, connecting, panicked, heard, clientVars,
                   inbox, outbox>>

-----------------------------------------------------------------------------
(* A failed connection, an error or an end of stream, seen by a callback    *)
(* that wants the state lock to remove the consumer of that name.          *)

Break(n) ==
    /\ made[n].broke = "no" /\ ~made[n].down
    /\ made' = [made EXCEPT ![n].broke = "seen"]
    /\ UNCHANGED <<consumers, step, adding, connecting, panicked, heard, clientVars,
                   inbox, outbox>>

HandleBreak(n) ==
    /\ made[n].broke = "seen" /\ ~Locked
    /\ RemoveConsumer([made EXCEPT ![n].broke = "handled"], About(n), TRUE)
    /\ UNCHANGED <<step, adding, connecting, panicked, heard, clientVars, inbox>>

-----------------------------------------------------------------------------
Clients == \E p \in Peer : Join(p) \/ Answer(p) \/ Leave(p)
ReceiveTask ==
    \/ \E p \in Peer : \/ TakeSettings(p) \/ AddConsumer(p) \/ Negotiate(p)
                       \/ EndSession(p) \/ HandleAnswer(p) \/ HandleRefusal(p)
    \/ Play
Callback(n) == OfferCreated(n) \/ RemoteDescriptionSet(n)
Connection == ConnectStream \/ Connected

Next ==
    \/ Clients \/ ReceiveTask \/ Connection
    \/ \E m \in outbox : Deliver(m)
    \/ \E n \in DOMAIN made : Callback(n) \/ ShutDown(n) \/ Break(n) \/ HandleBreak(n)

\* What runs by itself, of the element, the signaller and the server.
Runs ==
    \/ ReceiveTask \/ Connection
    \/ \E m \in outbox : Deliver(m)
    \/ \E n \in DOMAIN made : Callback(n) \/ ShutDown(n) \/ HandleBreak(n)

\* Some thread or task runs as long as any can.  That is enough, since each of
\* these steps uses up something that is bounded.  Nothing makes a client come,
\* answer or leave, and nothing makes a consumer break.
Fairness == WF_vars(Runs)

Spec == Init /\ [][Next]_vars /\ Fairness

-----------------------------------------------------------------------------
(* Properties.                                                             *)

InMap(n) == Present(About(n)) /\ consumers[About(n)] = n

\* The variables have their types, and the consumers in the map are those not
\* finalized.
TypeOK ==
    /\ DOMAIN consumers \subseteq Peer
    /\ made \in Seq(Consumer)
    /\ \A p \in DOMAIN consumers :
          consumers[p] \in DOMAIN made /\ made[consumers[p]].peer = p
    /\ \A n \in DOMAIN made : made[n].gone <=> ~InMap(n)
    /\ step \in {"idle", "settings", "negotiate", "play"}
    /\ adding \subseteq Peer /\ (adding = {} <=> step = "idle")
    /\ Cardinality(connecting) <= 1
    /\ \A c \in connecting : c.target \in DOMAIN made /\ c.todo \subseteq Stream
    /\ panicked \in BOOLEAN /\ habit \in Habit /\ joins \in 0..MaxSessions
    /\ client \in [Peer -> {"out", "waiting", "offered", "answered"}]
    /\ refused \subseteq Peer /\ overtaken \subseteq Peer
    /\ inbox \in [Word \X Peer -> Nat]
    /\ outbox \subseteq {"end", "offer"} \X DOMAIN made

\* Whatever goes wrong half-way through connecting, a consumer that is gone takes
\* no stream along: producers feed nobody but the consumers in the map.
LinksOfPresent ==
    \A n \in DOMAIN made : made[n].links # {} => InMap(n)

\* The consumers in the map are those not finalized, and the only ones that any
\* stream feeds.
ConsumersInv == TypeOK /\ LinksOfPresent

Quiet ==
    /\ \A what \in Word, p \in Peer : ~Coming(what, p)
    /\ outbox = {} /\ step = "idle" /\ ~Locked
    /\ \A n \in DOMAIN made : made[n].ops = <<>> /\ made[n].broke # "seen"

\* With clients that wait for what is left of their own, once all that is under
\* way is over the element and the server agree on who is in session, but for
\* those whose consumer the element could not make, for nobody told them, and for
\* consumers made after their session's end was read: these are there until they
\* break.
SessionsMatch ==
    habit # "returning" /\ Quiet =>
        \A p \in Peer :
            /\ client[p] # "out" => Present(p) \/ p \in refused
            /\ Present(p) => (client[p] # "out" /\ p \notin refused) \/ p \in overtaken

\* Streams are connected to a consumer that has answered, when a client comes back
\* only when nothing is left of its earlier session.  (One that is back sooner can
\* meet the callback of its earlier answer, which unwraps a payload there is not.)
PatientNeverPanic == habit # "returning" => ~panicked

\* What the element owes a client: an offer, then its streams.
Owed(p) == client[p] \in {"waiting", "answered"} /\ ~Streaming(p) /\ p \notin refused

\* Clients that come one at a time get what they are owed, or their session ends.
ServedInTurn == \A p \in Peer : (habit = "patient" /\ Owed(p)) ~> ~Owed(p)

\* README: "serve a fixed set of streams to any number of consumers".
AllServed == \A p \in Peer : Owed(p) ~> ~Owed(p)

=============================================================================
