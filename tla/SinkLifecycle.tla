---------------------------- MODULE SinkLifecycle ----------------------------
(***************************************************************************)
(* The webrtcsink element as a whole: who starts and stops what, and who    *)
(* waits for whom (plugins/src/webrtcsink/imp.rs, plugins/src/signaller).   *)
(*                                                                         *)
(* The application's thread moves the element between Ready, Paused and     *)
(* Playing.  Caps arriving on the last pad spawn a codec discovery task,    *)
(* whose success, or else the move to Playing, starts the signaller: a task *)
(* connects to the server and leaves a send task and a receive task behind. *)
(* unprepare undoes it all, holding the state lock while it waits for the   *)
(* discovery task and then for the signaller's two tasks.                   *)
(*                                                                         *)
(* A section of code that takes the state lock and does not wait inside is  *)
(* one action; only unprepare holds the lock across steps (locked).  Of a   *)
(* consumer only its presence is kept.                                      *)
(***************************************************************************)
EXTENDS Integers, Sequences, FiniteSets

CONSTANTS
    Pad,            \* sink pads that can be requested
    Peer,           \* consumers, as the server names them
    MaxRuns,        \* bound: times the application leaves Ready
    MaxSaid,        \* bound: messages the server sends on a connection
    Habits,         \* the applications: does it stop during discovery or connection?
    Chatty          \* may the server speak while the application stops?

ASSUME BoundsAreNumbers == MaxRuns \in Nat /\ MaxSaid \in Nat /\ IsFiniteSet(Pad)
ASSUME HabitsAreBooleans == Habits \subseteq BOOLEAN /\ Chatty \in BOOLEAN

VARIABLES
    current,        \* the element's current state
    hurries,        \* the application's habit, which does not change
    app,            \* where the application's thread is
    runs,           \* how often it has left Ready
    locked,         \* does unprepare hold the state lock?
    streams,        \* State.streams: the pads requested
    caps,           \* the pads that hold a caps event
    inCaps,         \* streams whose in_caps is set
    outCaps,        \* streams whose out_caps is set
    prepared,       \* streams whose producer is set
    codecs,         \* has State.codecs been filled?
    done,           \* codec_discovery_done
    abortHandle,    \* the task of codecs_abort_handle, if any
    doneReceiver,   \* the task of codecs_done_receiver, if any
    joining,        \* the task unprepare awaits, if any
    tasks,          \* the discovery tasks in the order they were spawned
    signaller,      \* signaller_state
    links,          \* the connections in the order they were attempted
    stored,         \* the connection the signaller's State refers to, if any
    stopping,       \* the connection whose tasks Signaller::stop joins, if any
    consumers       \* State.consumers

appVars == <<current, hurries, app, runs>>
streamVars == <<streams, caps, inCaps, outCaps, prepared>>
discoveryVars == <<codecs, done, abortHandle, doneReceiver, joining, tasks>>
signallerVars == <<signaller, links, stored, stopping>>
vars == <<appVars, locked, streamVars, discoveryVars, signallerVars, consumers>>

\* A discovery task is spawned, has stored its handles, is being polled and
\* wants to see the streams, awaits the discovery pipelines, wants to store
\* what they found, wants to report success, has ended.
TaskPhase == {"spawned", "stored", "entering", "looking", "found", "reporting", "ended"}
Task == [phase : TaskPhase, aborted : BOOLEAN, saw : SUBSET Pad]
NewTask == [phase |-> "spawned", aborted |-> FALSE, saw |-> {}]
Ended == [NewTask EXCEPT !.phase = "ended"]

\* A connection with the tasks it is made of: the connect task, the send task
\* with its channel, the receive task with the message it has in hand.
Link == [connect : {"connecting", "opened", "over"},
         channel : {"open", "closed"},
         send    : {"off", "running", "ended"},
         receive : {"off", "idle", "add", "negotiate", "remove", "ended"},
         about   : SUBSET Peer,
         said    : 0..MaxSaid]

NewLink == [connect |-> "connecting", channel |-> "open", send |-> "off",
            receive |-> "off", about |-> {}, said |-> 0]

Init ==
    /\ hurries \in Habits
    /\ current = "Ready" /\ app = "idle" /\ runs = 0 /\ locked = FALSE
    /\ streams = {} /\ caps = {} /\ inCaps = {} /\ outCaps = {} /\ prepared = {}
    /\ codecs = FALSE /\ done = FALSE
    /\ abortHandle = {} /\ doneReceiver = {} /\ joining = {}
    /\ tasks = <<>>
    /\ signaller = "Stopped" /\ links = <<>> /\ stored = {} /\ stopping = {}
    /\ consumers = {}

-----------------------------------------------------------------------------
(* maybe_start_signaller, under the state lock.                            *)

MayStartPlaying(discovered) ==
    signaller = "Stopped" /\ current = "Playing" /\ discovered

MayStart(discovered) ==
    signaller = "Stopped" /\ current \in {"Paused", "Playing"} /\ discovered

MaybeStartSignaller(discovered) ==
    /\ IF MayStart(discovered)
          THEN signaller' = "Started" /\ links' = Append(links, NewLink)
          ELSE UNCHANGED <<signaller, links>>
    /\ UNCHANGED <<stored, stopping>>

-----------------------------------------------------------------------------
(* The application's thread.  A state is committed after change_state.     *)

Commit(from, state) ==
    /\ app = from
    /\ app' = "idle"
    /\ current' = state
    /\ UNCHANGED <<hurries, runs, locked, streamVars, discoveryVars, signallerVars, consumers>>

RequestPad(pad) ==
    /\ app = "idle" /\ current = "Ready" /\ ~locked
    /\ pad \notin streams
    /\ streams' = streams \cup {pad}
    /\ UNCHANGED <<appVars, locked, caps, inCaps, outCaps, prepared,
                   discoveryVars, signallerVars, consumers>>

\* ReadyToPaused.
Prepare ==
    /\ app = "idle" /\ current = "Ready" /\ ~locked
    /\ runs < MaxRuns
    /\ runs' = runs + 1
    /\ app' = "raising"
    /\ prepared' = streams
    /\ UNCHANGED <<current, hurries, locked, streams, caps, inCaps, outCaps,
                   discoveryVars, signallerVars, consumers>>

\* PausedToPlaying.
Play ==
    /\ app = "idle" /\ current = "Paused" /\ ~locked
    /\ app' = "playing"
    /\ MaybeStartSignaller(done)
    /\ UNCHANGED <<current, hurries, runs, locked, streamVars, discoveryVars, consumers>>

\* PlayingToPaused.
Pause ==
    /\ app = "idle" /\ current = "Playing"
    /\ current' = "Paused"
    /\ UNCHANGED <<hurries, app, runs, locked, streamVars, discoveryVars, signallerVars, consumers>>

Running(t) == tasks[t].phase # "ended"
Underway(l) == links[l].connect # "over"
Silent(l) == links[l].receive \in {"off", "idle", "ended"}

\* PausedToReady first deactivates the pads, which clears their events.
Lower ==
    /\ app = "idle" /\ current = "Paused"
    /\ hurries \/ /\ \A t \in DOMAIN tasks : ~Running(t)
                  /\ \A l \in DOMAIN links : ~Underway(l)
    /\ Chatty \/ \A l \in DOMAIN links : Silent(l)
    /\ app' = "unpreparing"
    /\ caps' = {}
    /\ UNCHANGED <<current, hurries, runs, locked, streams, inCaps, outCaps, prepared,
                   discoveryVars, signallerVars, consumers>>

-----------------------------------------------------------------------------
(* unprepare, which holds the state lock from here to FinishUnprepare.     *)

RemoveAll ==
    /\ app = "unpreparing" /\ ~locked
    /\ app' = "joiningDiscovery"
    /\ locked' = TRUE
    /\ consumers' = {}
    /\ prepared' = {}
    /\ tasks' = [t \in DOMAIN tasks |->
                    IF t \in abortHandle /\ Running(t)
                       THEN [tasks[t] EXCEPT !.aborted = TRUE] ELSE tasks[t]]
    /\ abortHandle' = {}
    /\ joining' = doneReceiver
    /\ doneReceiver' = {}
    /\ UNCHANGED <<current, hurries, runs, streams, caps, inCaps, outCaps, codecs, done,
                   signallerVars>>

Close(which) ==
    links' = [l \in DOMAIN links |->
                 IF l \in which THEN [links[l] EXCEPT !.channel = "closed"] ELSE links[l]]

\* Signaller::stop takes what is stored and closes its channel.
ForgetStored == stored' = {} /\ UNCHANGED <<stopping, links>>
JoinStored == stored' = {} /\ stopping' = stored /\ UNCHANGED links
CloseStored == stored' = {} /\ stopping' = stored /\ Close(stored)

StopSignaller ==
    /\ app = "joiningDiscovery"
    /\ \A t \in joining : ~Running(t)
    /\ app' = "joiningSignaller"
    /\ joining' = {}
    /\ IF signaller = "Started" THEN CloseStored ELSE UNCHANGED <<stored, stopping, links>>
    /\ UNCHANGED <<current, hurries, runs, locked, streamVars, codecs, done, abortHandle,
                   doneReceiver, tasks, signaller, consumers>>

ForgetCodecs == codecs' = FALSE /\ UNCHANGED done
ForgetDiscovery == codecs' = FALSE /\ done' = FALSE

FinishUnprepare ==
    /\ app = "joiningSignaller"
    /\ \A l \in stopping : links[l].send = "ended" /\ links[l].receive = "ended"
    /\ app' = "lowered"
    /\ stopping' = {}
    /\ signaller' = "Stopped"
    /\ ForgetDiscovery
    /\ locked' = FALSE
    /\ UNCHANGED <<current, hurries, runs, streamVars, abortHandle, doneReceiver, joining,
                   tasks, links, stored, consumers>>

-----------------------------------------------------------------------------
(* sink_event.  Upstream is started after the sink, so that caps reach a    *)
(* pad that has none while the element is Paused or Playing.  Once in_caps  *)
(* is set it stays, whatever the pad holds.                                 *)

CapsEvent(pad) ==
    /\ current \in {"Paused", "Playing"} /\ app \in {"idle", "playing"} /\ ~locked
    /\ pad \in streams \ caps
    /\ caps' = caps \cup {pad}
    /\ inCaps' = inCaps \cup {pad}
    /\ tasks' = IF streams \subseteq inCaps'
                   THEN Append(tasks, NewTask) ELSE tasks
    /\ UNCHANGED <<appVars, locked, streams, outCaps, prepared, codecs, done, abortHandle,
                   doneReceiver, joining, signallerVars, consumers>>

-----------------------------------------------------------------------------
(* A discovery task.  Its future can be aborted where it is about to be     *)
(* polled, not in the middle of a poll.                                     *)

StoreHandles(t) ==
    /\ tasks[t].phase = "spawned" /\ ~locked
    /\ tasks' = [tasks EXCEPT ![t].phase = "stored"]
    /\ abortHandle' = {t}
    /\ doneReceiver' = {t}
    /\ UNCHANGED <<appVars, locked, streamVars, codecs, done, joining,
                   signallerVars, consumers>>

\* From one poll to the next: an aborted future does not go on.
Polled(task) ==
    IF task.aborted THEN Ended
    ELSE [task EXCEPT !.phase = IF @ = "stored" THEN "entering" ELSE "found"]

Poll(t) ==
    /\ tasks[t].phase \in {"stored", "looking"}
    /\ tasks' = [tasks EXCEPT ![t] = Polled(@)]
    /\ UNCHANGED <<appVars, locked, streamVars, codecs, done, abortHandle, doneReceiver,
                   joining, signallerVars, consumers>>

\* lookup_streams_caps reads the caps of all streams ...
ReadStreams(t) ==
    /\ tasks[t].phase = "entering" /\ ~locked
    /\ streams \subseteq inCaps
    /\ tasks' = [tasks EXCEPT ![t].phase = "looking", ![t].saw = streams]
    /\ UNCHANGED <<appVars, locked, streamVars, codecs, done, abortHandle, doneReceiver,
                   joining, signallerVars, consumers>>

\* ... and stores what it found for them, up to the first it found nothing for.
StoreCaps(t) ==
    /\ tasks[t].phase = "found" /\ ~locked
    /\ \/ /\ outCaps' = outCaps \cup tasks[t].saw
          /\ codecs' = TRUE
          /\ tasks' = [tasks EXCEPT ![t].phase = "reporting"]
       \/ /\ \E s \in SUBSET tasks[t].saw \ {tasks[t].saw} : outCaps' = outCaps \cup s
          /\ tasks' = [tasks EXCEPT ![t] = Ended]
          /\ UNCHANGED codecs
    /\ UNCHANGED <<appVars, locked, streams, caps, inCaps, prepared, done, abortHandle,
                   doneReceiver, joining, signallerVars, consumers>>

Report(t) ==
    /\ tasks[t].phase = "reporting" /\ ~locked
    /\ done' = TRUE
    /\ MaybeStartSignaller(TRUE)
    /\ tasks' = [tasks EXCEPT ![t] = Ended]
    /\ UNCHANGED <<appVars, locked, streamVars, codecs, abortHandle, doneReceiver,
                   joining, consumers>>

-----------------------------------------------------------------------------
(* Signaller::connect.                                                     *)

\* The steps of a connection change nothing of the element but consumers.
OfLink(l, link) ==
    /\ links' = [links EXCEPT ![l] = link]
    /\ UNCHANGED <<appVars, locked, streamVars, discoveryVars, signaller, stopping>>

Connect(l) ==
    /\ links[l].connect = "connecting"
    /\ \/ OfLink(l, [links[l] EXCEPT !.connect = "opened", !.send = "running", !.receive = "idle"])
       \/ OfLink(l, [links[l] EXCEPT !.connect = "over"])
    /\ UNCHANGED <<stored, consumers>>

\* Storing the handles drops those of another connection: its channel closes,
\* its tasks go on by themselves.  stop holds the signaller's lock.
DropStored(l) ==
    [k \in DOMAIN links |->
        IF k = l THEN [links[k] EXCEPT !.connect = "over"]
        ELSE IF k \in stored THEN [links[k] EXCEPT !.channel = "closed"]
        ELSE links[k]]

StoreLink(l) ==
    /\ links[l].connect = "opened"
    /\ stopping = {}
    /\ links' = DropStored(l)
    /\ stored' = {l}
    /\ UNCHANGED <<appVars, locked, streamVars, discoveryVars, signaller, stopping, consumers>>

\* The send task sends what is left in a closed channel, then a Close.
EndSend(l) ==
    /\ links[l].send = "running"
    /\ links[l].channel = "closed"
    /\ OfLink(l, [links[l] EXCEPT !.send = "ended"])
    /\ UNCHANGED <<stored, consumers>>

\* It also ends when the WebSocket refuses a message, which nobody is told of.
FailSend(l) ==
    /\ links[l].send = "running"
    /\ OfLink(l, [links[l] EXCEPT !.send = "ended"])
    /\ UNCHANGED <<stored, consumers>>

-----------------------------------------------------------------------------
(* The receive task, which calls the element.                              *)

\* StartSession or EndSession for a peer.
Receive(l, what, peer) ==
    /\ links[l].receive = "idle"
    /\ links[l].said < MaxSaid
    /\ Chatty \/ app \in {"idle", "raising", "playing"}
    /\ OfLink(l, [links[l] EXCEPT !.receive = what, !.about = {peer}, !.said = @ + 1])
    /\ UNCHANGED <<stored, consumers>>

\* The server answers the Close, or the connection is lost.
ReceiveEnd(l) ==
    /\ links[l].receive = "idle"
    /\ OfLink(l, [links[l] EXCEPT !.receive = "ended", !.said = 0])
    /\ UNCHANGED <<stored, consumers>>

\* add_consumer asks each stream for its out_caps.  It fails for a peer it has.
AddConsumer(l) ==
    /\ links[l].receive = "add" /\ ~locked
    /\ \/ /\ links[l].about \cap consumers = {}
          /\ streams \subseteq outCaps
          /\ consumers' = consumers \cup links[l].about
          /\ OfLink(l, [links[l] EXCEPT !.receive = "negotiate"])
       \/ /\ OfLink(l, [links[l] EXCEPT !.receive = "idle", !.about = {}])
          /\ UNCHANGED consumers
    /\ UNCHANGED stored

\* negotiate takes the lock again.
Negotiate(l) ==
    /\ links[l].receive = "negotiate" /\ ~locked
    /\ OfLink(l, [links[l] EXCEPT !.receive = "idle", !.about = {}])
    /\ UNCHANGED <<stored, consumers>>

RemoveConsumer(l) ==
    /\ links[l].receive = "remove" /\ ~locked
    /\ consumers' = consumers \ links[l].about
    /\ OfLink(l, [links[l] EXCEPT !.receive = "idle", !.about = {}])
    /\ UNCHANGED stored

-----------------------------------------------------------------------------
AppSteps ==
    \/ Prepare \/ Play \/ Pause \/ Lower
    \/ \E pad \in Pad : RequestPad(pad)
AppReturns ==
    \/ Commit("raising", "Paused") \/ Commit("playing", "Playing") \/ Commit("lowered", "Ready")
    \/ RemoveAll \/ StopSignaller \/ FinishUnprepare
Discover(t) == StoreHandles(t) \/ Poll(t) \/ ReadStreams(t) \/ StoreCaps(t) \/ Report(t)
Handle(l) == AddConsumer(l) \/ Negotiate(l) \/ RemoveConsumer(l)

Next ==
    \/ AppSteps \/ AppReturns
    \/ \E pad \in Pad : CapsEvent(pad)
    \/ \E t \in DOMAIN tasks : Discover(t)
    \/ \E l \in DOMAIN links :
          \/ Connect(l) \/ StoreLink(l) \/ EndSend(l) \/ FailSend(l) \/ ReceiveEnd(l)
          \/ Handle(l)
          \/ \E what \in {"add", "remove"}, peer \in Peer : Receive(l, what, peer)

\* A state change that has begun goes on, every task that can run runs, and a
\* connection whose sending has ended ends: a server answers a Close, and one that
\* refuses a message is lost.  Nothing makes the application, the streams or the
\* server begin anything.  Tasks wait for the lock in turn (strong fairness).
Fairness ==
    /\ SF_vars(AppReturns)
    /\ \A t \in 1..(Cardinality(Pad) * MaxRuns) : SF_vars(t \in DOMAIN tasks /\ Discover(t))
    /\ \A l \in 1..(MaxRuns + 1) :
          /\ SF_vars(l \in DOMAIN links /\ Handle(l))
          /\ WF_vars(l \in DOMAIN links /\ (Connect(l) \/ EndSend(l)))
          /\ SF_vars(l \in DOMAIN links /\ StoreLink(l))
          /\ SF_vars(l \in DOMAIN links /\ links[l].send = "ended" /\ ReceiveEnd(l))

Spec == Init /\ [][Next]_vars /\ Fairness

-----------------------------------------------------------------------------
(* Properties.                                                             *)

TypeOK ==
    /\ current \in {"Ready", "Paused", "Playing"}
    /\ app \in {"idle", "raising", "playing", "unpreparing", "joiningDiscovery",
                "joiningSignaller", "lowered"}
    /\ runs \in 0..MaxRuns
    /\ locked \in BOOLEAN /\ codecs \in BOOLEAN /\ done \in BOOLEAN
    /\ streams \subseteq Pad
    /\ caps \subseteq streams /\ inCaps \subseteq streams
    /\ outCaps \subseteq streams /\ prepared \subseteq streams
    /\ tasks \in Seq(Task)
    /\ links \in Seq(Link)
    /\ abortHandle \cup doneReceiver \cup joining \subseteq DOMAIN tasks
    /\ signaller \in {"Started", "Stopped"}
    /\ stored \cup stopping \subseteq DOMAIN links
    /\ \A l \in stored : links[l].channel = "open"
    /\ consumers \subseteq Peer

\* The signaller is started only while discovery counts as done, though both
\* are reset while tasks that would set them may still run.
StartedMeansDiscovered == signaller = "Started" => done

\* Whether discovery ends before the element plays or after, one of the two
\* starts the signaller: the two tests cannot both come too early.
DiscoveredPlays == current = "Playing" /\ done => signaller = "Started"

\* However stops and starts overtake the discovery's tasks, discovery is done
\* whenever the signaller runs, and the signaller runs whenever the element
\* plays with discovery done.
SinkInv == TypeOK /\ StartedMeansDiscovered /\ DiscoveredPlays

\* With an application that waits for what it started no unwrap of an unset
\* caps panics: when a task is about to read the caps of the streams, or a
\* connection may ask for a consumer, they are set.
CapsAreThere ==
    ~hurries =>
        /\ \A t \in DOMAIN tasks :
              tasks[t].phase = "entering" => streams \subseteq inCaps
        /\ \A l \in DOMAIN links :
              links[l].receive = "add" => streams \subseteq outCaps

Open(l) == links[l].receive \notin {"off", "ended"} /\ links[l].channel = "open"

\* An open connection is still being made, or the signaller's State has it.
InReach == \A l \in DOMAIN links : Open(l) => Underway(l) \/ l \in stored

\* unprepare stops the signaller, if that is started.
StopsStarted ==
    app = "joiningDiscovery" /\ app' = "joiningSignaller" /\ signaller = "Started"

\* However starts and stops overtake one another, no open connection gets out of
\* the signaller's reach, and a stop of a started signaller leaves none open but
\* those still being made.  (One that is stored after such a stop stays open,
\* through stops that find the signaller stopped, until it is started again.)
NoOrphan ==
    [][/\ InReach'
       /\ StopsStarted => \A l \in DOMAIN links : Open(l)' => Underway(l)']_vars

\* webrtcsink/imp.rs, unprepare: "Unprepare by stopping consumers, then the
\* signaller object": an element back in Ready has no consumer and no
\* connection that may bring one.
ReadyIsQuiet ==
    current = "Ready" /\ app = "idle" =>
        /\ consumers = {}
        /\ \A l \in DOMAIN links : ~Underway(l) /\ ~Open(l)

\* It is so for an application that waits for what it started: whatever the
\* server says meanwhile, stopping leaves nothing behind.  One that does not wait
\* may leave a connection that was still being made.
PatientIsQuiet == ~hurries => ReadyIsQuiet

\* A state change to Ready that has begun ends.
StopEnds == app = "unpreparing" ~> current = "Ready"

=============================================================================
