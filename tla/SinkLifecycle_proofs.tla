------------------------ MODULE SinkLifecycle_proofs ------------------------
(***************************************************************************)
(* Proofs about the element's life cycle, for any pads, consumers, number  *)
(* of runs and habits of the application.                                  *)
(***************************************************************************)
EXTENDS SinkLifecycle, SequenceTheorems, TLAPS

-----------------------------------------------------------------------------
(* Sequences of tasks and of connections, entry by entry.                  *)

\* One that is appended leaves the others alone,
LEMMA Appended ==
    ASSUME NEW S, NEW seq \in Seq(S), NEW e \in S, NEW new, new = Append(seq, e)
    PROVE  /\ new \in Seq(S)
           /\ DOMAIN seq \subseteq DOMAIN new
           /\ \A i \in DOMAIN new : i \notin DOMAIN seq => new[i] = e
           /\ \A i \in DOMAIN seq : new[i] = seq[i]
  <1>1. /\ Len(seq) \in Nat /\ DOMAIN seq = 1..Len(seq)
        /\ new \in Seq(S) /\ Len(new) = Len(seq) + 1
    BY LenProperties
  <1>2. DOMAIN new = 1..(Len(seq) + 1)
    BY <1>1, LenProperties
  <1>3. \A i \in 1..Len(seq) : new[i] = seq[i]
    BY <1>1
  <1>4. new[Len(seq) + 1] = e
    BY <1>1
  <1> QED BY <1>1, <1>2, <1>3, <1>4

\* one that changes too,
LEMMA Changed ==
    ASSUME NEW S, NEW seq \in Seq(S), NEW i \in DOMAIN seq, NEW e \in S,
           NEW new, new = [seq EXCEPT ![i] = e]
    PROVE  /\ new \in Seq(S)
           /\ DOMAIN new = DOMAIN seq
           /\ new[i] = e
           /\ \A k \in DOMAIN seq : k # i => new[k] = seq[k]
  <1>1. i \in 1..Len(seq)
    BY LenProperties
  <1>2. new \in Seq(S)
    BY <1>1, ExceptSeq
  <1> QED BY <1>2

\* and all may change at once.
LEMMA AllChanged ==
    ASSUME NEW S, NEW seq \in Seq(S), NEW new,
           DOMAIN new = DOMAIN seq, new = [i \in DOMAIN seq |-> new[i]],
           \A i \in DOMAIN seq : new[i] \in S
    PROVE  new \in Seq(S)
  <1>1. Len(seq) \in Nat /\ DOMAIN seq = 1..Len(seq)
    BY LenProperties
  <1>2. new \in [1..Len(seq) -> S]
    BY <1>1
  <1> QED BY <1>1, <1>2

-----------------------------------------------------------------------------
(* The inductive invariant.                                                *)

Alive(l) == links[l].receive \notin {"off", "ended"}

\* The state an element is in while the application's thread is on its way to
\* another, who holds the lock, and who joins the signaller's tasks.
Place ==
    /\ app = "raising" => current = "Ready"
    /\ app \in {"playing", "unpreparing", "joiningDiscovery", "joiningSignaller",
                "lowered"} => current = "Paused"
    /\ locked <=> app \in {"joiningDiscovery", "joiningSignaller"}
    /\ stopping # {} => app = "joiningSignaller"

\* A task has seen streams that there are.
Seen == \A t \in DOMAIN tasks : tasks[t].saw \subseteq streams

\* The signaller is started if discovery is done, also between the test for it in
\* PausedToPlaying and the commit of Playing.
Discovered ==
    /\ StartedMeansDiscovered
    /\ done /\ (current = "Playing" \/ app = "playing") => signaller = "Started"

\* A connection that is being made has an open channel, and no receive task
\* before there is a WebSocket; one that is stored is made.
Linked ==
    /\ \A l \in DOMAIN links :
          /\ links[l].connect = "connecting" => ~Alive(l)
          /\ Underway(l) => links[l].channel = "open"
    /\ \A l \in stored : ~Underway(l)

\* With an application that waits, a discovery runs only outside of Ready, where
\* the streams stay as they are, and what it found is about all of them.
Searching ==
    ~hurries => \A t \in DOMAIN tasks : Running(t) =>
        /\ app \in {"idle", "playing"} /\ current # "Ready"
        /\ streams \subseteq inCaps
        /\ tasks[t].phase \in {"looking", "found"} => tasks[t].saw = streams
        /\ tasks[t].phase = "reporting" => streams \subseteq outCaps

\* Done is then said of the streams there are, and not once unprepare is over.
Found ==
    ~hurries /\ done =>
        streams \subseteq outCaps /\ current # "Ready" /\ app # "lowered"

\* There is then one connection at most, from the start of the signaller on: in the
\* making, stored, or being stopped.
OneLink ==
    ~hurries =>
        /\ signaller = "Stopped" =>
              stored = {} /\ \A l \in DOMAIN links : ~Underway(l) /\ ~Alive(l)
        /\ \A l \in DOMAIN links : Underway(l) =>
              /\ app \in {"idle", "playing"} /\ stored = {}
              /\ \A k \in DOMAIN links : k # l => ~Underway(k) /\ ~Alive(k)
        /\ \A l \in DOMAIN links :
              Alive(l) => Underway(l) \/ l \in stored \cup stopping
        /\ app = "joiningSignaller" => stored = {}

\* The consumers it brought are then gone with unprepare.
Emptied ==
    ~hurries /\ (current = "Ready"
                 \/ app \in {"joiningDiscovery", "joiningSignaller", "lowered"}) =>
        consumers = {}

IInv ==
    /\ TypeOK /\ Place /\ Discovered
    /\ Seen /\ Searching /\ Found
    /\ Linked /\ InReach /\ OneLink
    /\ Emptied

-----------------------------------------------------------------------------
(* The start of the signaller.                                             *)

\* maybe_start_signaller starts one that is needed, with a connection that is
\* then the only one.
LEMMA MaybeStart ==
    ASSUME IInv, NEW discovered, MaybeStartSignaller(discovered),
           hurries' = hurries,
           ~hurries => app \in {"idle", "playing"} /\ app' \in {"idle", "playing"}
    PROVE  /\ links' \in Seq(Link)
           /\ stored' \cup stopping' \subseteq DOMAIN links'
           /\ \A l \in stored' : links'[l].channel = "open"
           /\ stored' = stored /\ stopping' = stopping
           /\ signaller' \in {"Started", "Stopped"}
           /\ signaller = "Started" => signaller' = "Started"
           /\ signaller' = "Started" => signaller = "Started" \/ discovered
           /\ discovered /\ current # "Ready" => signaller' = "Started"
           /\ Linked' /\ InReach' /\ OneLink'
  <1> USE DEF IInv
  <1>1. CASE MayStart(discovered)
    <2>1. /\ signaller = "Stopped" /\ signaller' = "Started" /\ discovered
          /\ links' = Append(links, NewLink) /\ stored' = stored /\ stopping' = stopping
      BY <1>1 DEF MaybeStartSignaller, MayStart
    <2>2. NewLink \in Link /\ links \in Seq(Link)
      BY BoundsAreNumbers DEF BoundsAreNumbers, Link, NewLink, TypeOK
    <2>3. /\ links' \in Seq(Link) /\ DOMAIN links \subseteq DOMAIN links'
          /\ \A l \in DOMAIN links' : l \notin DOMAIN links => links'[l] = NewLink
          /\ \A l \in DOMAIN links : links'[l] = links[l]
      BY <2>1, <2>2, Appended
    <2>4. /\ stored' \cup stopping' \subseteq DOMAIN links'
          /\ \A l \in stored' : links'[l].channel = "open"
      BY <2>1, <2>3 DEF TypeOK
    <2>5. Linked' /\ InReach'
      BY <2>1, <2>3 DEF Linked, InReach, Open, Underway, Alive, NewLink, TypeOK
    <2>6. OneLink'
      BY <2>1, <2>2, <2>3 DEF OneLink, Underway, Alive, NewLink, TypeOK
    <2> QED BY <2>1, <2>3, <2>4, <2>5, <2>6
  <1>2. CASE ~MayStart(discovered)
    <2>1. UNCHANGED <<signaller, links, stored, stopping>>
      BY <1>2 DEF MaybeStartSignaller
    <2>2. discovered /\ current # "Ready" => signaller = "Started"
      BY <1>2 DEF MayStart, TypeOK
    <2>3. Linked' /\ InReach' /\ OneLink'
      BY <2>1 DEF Linked, InReach, OneLink, Open, Underway, Alive
    <2> QED BY <2>1, <2>2, <2>3 DEF TypeOK
  <1> QED BY <1>1, <1>2

-----------------------------------------------------------------------------
(* The application's thread.                                               *)

\* A pad is requested in Ready.
LEMMA RequestPadKeeps ==
    ASSUME IInv, NEW pad \in Pad, RequestPad(pad)
    PROVE  IInv'
  <1> USE DEF IInv, RequestPad, appVars, streamVars, discoveryVars, signallerVars
  <1>1. TypeOK'
    BY DEF TypeOK
  <1>2. Place' /\ Discovered'
    BY DEF Place, Discovered, StartedMeansDiscovered
  <1>3. Found' /\ Emptied'
    BY DEF Found, Emptied, Place
  <1>4. Seen' /\ Searching'
    BY DEF Seen, Searching, Running, Place
  <1>5. Linked' /\ InReach'
    BY DEF Linked, InReach, Open, Underway, Alive
  <1>6. OneLink'
    BY DEF OneLink, Place, Underway, Alive
  <1> QED BY <1>1, <1>2, <1>3, <1>4, <1>5, <1>6

\* Preparing starts from Ready,
LEMMA PrepareKeeps ==
    ASSUME IInv, Prepare
    PROVE  IInv'
  <1> USE DEF IInv, Prepare, appVars, streamVars, discoveryVars, signallerVars
  <1>1. TypeOK'
    BY BoundsAreNumbers DEF TypeOK, BoundsAreNumbers
  <1>2. Place' /\ Discovered'
    BY DEF Place, Discovered, StartedMeansDiscovered
  <1>3. Found' /\ Emptied'
    BY DEF Found, Emptied, Place
  <1>4. Seen' /\ Searching'
    BY DEF Seen, Searching, Running
  <1>5. Linked' /\ InReach'
    BY DEF Linked, InReach, Open, Underway, Alive
  <1>6. OneLink'
    BY DEF OneLink, Place, Underway, Alive, Found, Discovered, StartedMeansDiscovered, TypeOK
  <1> QED BY <1>1, <1>2, <1>3, <1>4, <1>5, <1>6

\* and ends in Paused.
LEMMA CommitPausedKeeps ==
    ASSUME IInv, Commit("raising", "Paused")
    PROVE  IInv'
  <1> USE DEF IInv, Commit, appVars, streamVars, discoveryVars, signallerVars
  <1>1. TypeOK'
    BY DEF TypeOK
  <1>2. Place' /\ Discovered'
    BY DEF Place, Discovered, StartedMeansDiscovered
  <1>3. Found' /\ Emptied'
    BY DEF Found, Emptied, Place
  <1>4. Seen' /\ Searching'
    BY DEF Seen, Searching, Running
  <1>5. Linked' /\ InReach'
    BY DEF Linked, InReach, Open, Underway, Alive
  <1>6. OneLink'
    BY DEF OneLink, Place, Underway, Alive
  <1> QED BY <1>1, <1>2, <1>3, <1>4, <1>5, <1>6

\* The move to Playing starts the signaller if one is needed.
LEMMA PlayKeeps ==
    ASSUME IInv, Play
    PROVE  IInv'
  <1>1. /\ app = "idle" /\ current = "Paused" /\ app' = "playing"
        /\ MaybeStartSignaller(done)
        /\ UNCHANGED <<current, hurries, runs, locked, streams, caps, inCaps, outCaps, prepared,
                       codecs, done, abortHandle, doneReceiver, joining, tasks, consumers>>
    BY DEF Play, streamVars, discoveryVars
  <1>2. /\ links' \in Seq(Link)
        /\ stored' \cup stopping' \subseteq DOMAIN links'
        /\ \A l \in stored' : links'[l].channel = "open"
        /\ stopping' = stopping
        /\ signaller' \in {"Started", "Stopped"}
        /\ signaller = "Started" => signaller' = "Started"
        /\ signaller' = "Started" => signaller = "Started" \/ done
        /\ done => signaller' = "Started"
        /\ Linked' /\ InReach' /\ OneLink'
    BY <1>1, MaybeStart
  <1> USE <1>1 DEF IInv
  <1>3. TypeOK'
    BY <1>2 DEF TypeOK
  <1>4. Place' /\ Discovered'
    BY <1>2 DEF Place, Discovered, StartedMeansDiscovered
  <1>5. Found' /\ Emptied'
    BY DEF Found, Emptied
  <1>6. Seen' /\ Searching'
    BY DEF Seen, Searching, Running
  <1> QED BY <1>2, <1>3, <1>4, <1>5, <1>6

\* Playing follows the start of the signaller where discovery is done.
LEMMA CommitPlayingKeeps ==
    ASSUME IInv, Commit("playing", "Playing")
    PROVE  IInv'
  <1> USE DEF IInv, Commit, appVars, streamVars, discoveryVars, signallerVars
  <1>1. TypeOK'
    BY DEF TypeOK
  <1>2. Place' /\ Discovered'
    BY DEF Place, Discovered, StartedMeansDiscovered
  <1>3. Found' /\ Emptied'
    BY DEF Found, Emptied, Place
  <1>4. Seen' /\ Searching'
    BY DEF Seen, Searching, Running
  <1>5. Linked' /\ InReach'
    BY DEF Linked, InReach, Open, Underway, Alive
  <1>6. OneLink'
    BY DEF OneLink, Place, Underway, Alive
  <1> QED BY <1>1, <1>2, <1>3, <1>4, <1>5, <1>6

\* Pausing leaves the rest alone.
LEMMA PauseKeeps ==
    ASSUME IInv, Pause
    PROVE  IInv'
  <1> USE DEF IInv, Pause, appVars, streamVars, discoveryVars, signallerVars
  <1>1. TypeOK'
    BY DEF TypeOK
  <1>2. Place' /\ Discovered'
    BY DEF Place, Discovered, StartedMeansDiscovered
  <1>3. Found' /\ Emptied'
    BY DEF Found, Emptied, Place
  <1>4. Seen' /\ Searching'
    BY DEF Seen, Searching, Running
  <1>5. Linked' /\ InReach'
    BY DEF Linked, InReach, Open, Underway, Alive
  <1>6. OneLink'
    BY DEF OneLink, Place, Underway, Alive
  <1> QED BY <1>1, <1>2, <1>3, <1>4, <1>5, <1>6

\* An application that waits lowers the element when no task runs.
LEMMA LowerKeeps ==
    ASSUME IInv, Lower
    PROVE  IInv'
  <1> USE DEF IInv, Lower, appVars, streamVars, discoveryVars, signallerVars
  <1>1. TypeOK'
    BY DEF TypeOK
  <1>2. Place' /\ Discovered'
    BY DEF Place, Discovered, StartedMeansDiscovered
  <1>3. Found' /\ Emptied'
    BY DEF Found, Emptied, Place
  <1>4. Seen' /\ Searching'
    BY DEF Seen, Searching, Running
  <1>5. Linked' /\ InReach'
    BY DEF Linked, InReach, Open, Underway, Alive
  <1>6. OneLink'
    BY DEF OneLink, Place, Underway, Alive
  <1> QED BY <1>1, <1>2, <1>3, <1>4, <1>5, <1>6

\* unprepare removes the consumers and aborts the discovery,
LEMMA RemoveAllKeeps ==
    ASSUME IInv, RemoveAll
    PROVE  IInv'
  <1>1. tasks \in Seq(Task) /\ \A t \in DOMAIN tasks : tasks[t] \in Task
    BY LenProperties DEF IInv, TypeOK
  <1>2. /\ DOMAIN tasks' = DOMAIN tasks
        /\ tasks' = [t \in DOMAIN tasks |-> tasks'[t]]
        /\ \A t \in DOMAIN tasks : /\ tasks'[t] \in Task
                                  /\ tasks'[t].phase = tasks[t].phase
                                  /\ tasks'[t].saw = tasks[t].saw
    BY <1>1 DEF RemoveAll, Task
  <1>3. tasks' \in Seq(Task)
    BY <1>1, <1>2, AllChanged
  <1>4. /\ app = "unpreparing" /\ app' = "joiningDiscovery" /\ locked' = TRUE
        /\ consumers' = {} /\ prepared' = {}
        /\ abortHandle' = {} /\ joining' = doneReceiver /\ doneReceiver' = {}
        /\ UNCHANGED <<current, hurries, runs, streams, caps, inCaps, outCaps, codecs, done,
                       signaller, links, stored, stopping>>
    BY DEF RemoveAll, signallerVars
  <1> USE <1>2, <1>4 DEF IInv
  <1>5. TypeOK'
    BY <1>3 DEF TypeOK
  <1>6. Place' /\ Discovered' /\ Found' /\ Emptied'
    BY DEF Place, Discovered, StartedMeansDiscovered, Found, Emptied
  <1>7. Seen' /\ Searching'
    BY DEF Seen, Searching, Running
  <1>8. Linked' /\ InReach'
    BY DEF Linked, InReach, Open, Underway, Alive
  <1>9. OneLink'
    BY DEF OneLink, Underway, Alive
  <1> QED BY <1>5, <1>6, <1>7, <1>8, <1>9

\* takes the stored connection, whose tasks it will wait for,
LEMMA StopSignallerKeeps ==
    ASSUME IInv, StopSignaller
    PROVE  IInv'
  <1>1. /\ app = "joiningDiscovery" /\ app' = "joiningSignaller" /\ joining' = {}
        /\ UNCHANGED <<current, hurries, runs, locked, streams, caps, inCaps, outCaps, prepared,
                       codecs, done, abortHandle, doneReceiver, tasks, signaller, consumers>>
    BY DEF StopSignaller, streamVars
  <1>2. stopping = {}
    BY <1>1 DEF IInv, Place
  <1> DEFINE Closed(l) == l \in stored /\ signaller = "Started"
  <1>3. /\ links \in Seq(Link) /\ links' \in Seq(Link) /\ DOMAIN links' = DOMAIN links
        /\ \A l \in DOMAIN links :
              /\ links'[l].connect = links[l].connect
              /\ links'[l].receive = links[l].receive
              /\ links'[l].channel = IF Closed(l) THEN "closed" ELSE links[l].channel
        /\ signaller = "Started" => stored' = {} /\ stopping' = stored
        /\ signaller = "Stopped" => stored' = stored /\ stopping' = {}
    <2>1. links \in Seq(Link) /\ \A l \in DOMAIN links : links[l] \in Link
      BY LenProperties DEF IInv, TypeOK
    <2>2. CASE signaller = "Started"
      <3>1. /\ links' = [l \in DOMAIN links |->
                           IF l \in stored THEN [links[l] EXCEPT !.channel = "closed"]
                                           ELSE links[l]]
            /\ stored' = {} /\ stopping' = stored
        BY <2>2 DEF StopSignaller, CloseStored, Close
      <3>2. /\ DOMAIN links' = DOMAIN links
            /\ links' = [l \in DOMAIN links |-> links'[l]]
            /\ \A l \in DOMAIN links :
                  /\ links'[l] \in Link
                  /\ links'[l].connect = links[l].connect
                  /\ links'[l].receive = links[l].receive
                  /\ links'[l].channel = IF Closed(l) THEN "closed" ELSE links[l].channel
        BY <2>1, <2>2, <3>1 DEF Link
      <3>3. links' \in Seq(Link)
        BY <2>1, <3>2, AllChanged
      <3> QED BY <2>1, <2>2, <3>1, <3>2, <3>3
    <2>3. CASE signaller = "Stopped"
      <3>1. stored' = stored /\ stopping' = {} /\ links' = links
        BY <1>2, <2>3 DEF StopSignaller
      <3> QED BY <2>1, <2>3, <3>1
    <2> QED BY <2>2, <2>3 DEF IInv, TypeOK
  <1> USE <1>1, <1>2, <1>3 DEF IInv
  <1>4. TypeOK'
    BY DEF TypeOK
  <1>5. Place' /\ Discovered' /\ Found' /\ Emptied'
    BY DEF Place, Discovered, StartedMeansDiscovered, Found, Emptied
  <1>6. Seen' /\ Searching'
    BY DEF Seen, Searching, Running
  <1>7. Linked'
    BY DEF Linked, Underway, Alive, TypeOK
  <1>8. InReach'
    BY DEF InReach, Open, Underway, Alive, TypeOK
  <1>9. OneLink'
    BY DEF OneLink, Underway, Alive, TypeOK
  <1> QED BY <1>4, <1>5, <1>6, <1>7, <1>8, <1>9

\* and has waited for them at its end.
LEMMA FinishUnprepareKeeps ==
    ASSUME IInv, FinishUnprepare
    PROVE  IInv'
  <1> USE DEF IInv, FinishUnprepare, ForgetDiscovery, appVars, streamVars, discoveryVars, signallerVars
  <1>1. TypeOK'
    BY DEF TypeOK
  <1>2. Place' /\ Discovered'
    BY DEF Place, Discovered, StartedMeansDiscovered
  <1>3. Found' /\ Emptied'
    BY DEF Found, Emptied, Place
  <1>4. Seen' /\ Searching'
    BY DEF Seen, Searching, Running
  <1>5. Linked' /\ InReach'
    BY DEF Linked, InReach, Open, Underway, Alive
  <1>6. OneLink'
    BY DEF OneLink, Place, Underway, Alive
  <1> QED BY <1>1, <1>2, <1>3, <1>4, <1>5, <1>6

\* The state is then Ready, discovery not done and no connection left.
LEMMA CommitReadyKeeps ==
    ASSUME IInv, Commit("lowered", "Ready")
    PROVE  IInv'
  <1> USE DEF IInv, Commit, appVars, streamVars, discoveryVars, signallerVars
  <1>1. TypeOK'
    BY DEF TypeOK
  <1>2. Place' /\ Discovered'
    BY DEF Place, Discovered, StartedMeansDiscovered
  <1>3. Found' /\ Emptied'
    BY DEF Found, Emptied, Place
  <1>4. Seen' /\ Searching'
    BY DEF Seen, Searching, Running
  <1>5. Linked' /\ InReach'
    BY DEF Linked, InReach, Open, Underway, Alive
  <1>6. OneLink'
    BY DEF OneLink, Place, Underway, Alive
  <1> QED BY <1>1, <1>2, <1>3, <1>4, <1>5, <1>6

-----------------------------------------------------------------------------
(* Caps, and the connection that is stored.                                *)

\* Caps spawn a task where all streams have them.
LEMMA CapsEventKeeps ==
    ASSUME IInv, NEW pad \in Pad, CapsEvent(pad)
    PROVE  IInv'
  <1>1. /\ current \in {"Paused", "Playing"} /\ app \in {"idle", "playing"}
        /\ pad \in streams /\ caps' = caps \cup {pad} /\ inCaps' = inCaps \cup {pad}
        /\ UNCHANGED <<current, hurries, app, runs, locked, streams, outCaps, prepared, codecs,
                       done, abortHandle, doneReceiver, joining, signaller, links, stored,
                       stopping, consumers>>
    BY DEF CapsEvent, appVars, signallerVars
  <1>2. tasks \in Seq(Task) /\ NewTask \in Task
    BY DEF IInv, TypeOK, Task, NewTask, TaskPhase
  <1>3. /\ tasks' \in Seq(Task) /\ DOMAIN tasks \subseteq DOMAIN tasks'
        /\ \A t \in DOMAIN tasks : tasks'[t] = tasks[t]
        /\ \A t \in DOMAIN tasks' : t \notin DOMAIN tasks =>
              tasks'[t] = NewTask /\ streams \subseteq inCaps'
    <2>1. CASE streams \subseteq inCaps'
      <3>1. tasks' = Append(tasks, NewTask)
        BY <2>1 DEF CapsEvent
      <3> QED BY <1>2, <2>1, <3>1, Appended
    <2>2. CASE ~(streams \subseteq inCaps')
      <3>1. tasks' = tasks
        BY <2>2 DEF CapsEvent
      <3> QED BY <1>2, <3>1
    <2> QED BY <2>1, <2>2
  <1> USE <1>1, <1>3 DEF IInv
  <1>4. TypeOK'
    BY DEF TypeOK
  <1>5. Place' /\ Discovered' /\ Found' /\ Emptied'
    BY DEF Place, Discovered, StartedMeansDiscovered, Found, Emptied
  <1>6. Seen'
    BY DEF Seen, NewTask
  <1>7. Searching'
    BY DEF Searching, Running, NewTask
  <1>8. Linked' /\ InReach' /\ OneLink'
    BY DEF Linked, InReach, OneLink, Open, Underway, Alive
  <1> QED BY <1>4, <1>5, <1>6, <1>7, <1>8

\* A connection that is stored closes the one it takes the place of.
LEMMA StoreLinkKeeps ==
    ASSUME IInv, NEW l \in DOMAIN links, StoreLink(l)
    PROVE  IInv'
  <1>1. /\ links[l].connect = "opened" /\ stopping = {} /\ stored' = {l}
        /\ UNCHANGED <<current, hurries, app, runs, locked, streams, caps, inCaps, outCaps,
                       prepared, codecs, done, abortHandle, doneReceiver, joining, tasks,
                       signaller, stopping, consumers>>
    BY DEF StoreLink, appVars, streamVars, discoveryVars
  <1>2. links \in Seq(Link) /\ \A k \in DOMAIN links : links[k] \in Link
    BY LenProperties DEF IInv, TypeOK
  <1>3. /\ DOMAIN links' = DOMAIN links
        /\ links' = [k \in DOMAIN links |-> links'[k]]
        /\ \A k \in DOMAIN links : /\ links'[k] \in Link
                                  /\ links'[k].receive = links[k].receive
        /\ links'[l].connect = "over" /\ links'[l].channel = links[l].channel
        /\ \A k \in DOMAIN links : k # l =>
              /\ links'[k].connect = links[k].connect
              /\ links'[k].channel = IF k \in stored THEN "closed" ELSE links[k].channel
    BY <1>2 DEF StoreLink, DropStored, Link
  <1>4. links' \in Seq(Link)
    BY <1>2, <1>3, AllChanged
  <1>5. links[l].channel = "open" /\ l \notin stored
    BY <1>1 DEF IInv, Linked, Underway, TypeOK
  <1> USE <1>1, <1>3, <1>5 DEF IInv
  <1>6. TypeOK'
    BY <1>4 DEF TypeOK
  <1>7. Place' /\ Discovered' /\ Found' /\ Emptied'
    BY DEF Place, Discovered, StartedMeansDiscovered, Found, Emptied
  <1>8. Seen' /\ Searching'
    BY DEF Seen, Searching, Running
  <1>9. Linked' /\ InReach'
    BY DEF Linked, InReach, Open, Underway, Alive, TypeOK
  <1>10. OneLink'
    BY DEF OneLink, Underway, Alive, TypeOK
  <1> QED BY <1>6, <1>7, <1>8, <1>9, <1>10

-----------------------------------------------------------------------------
(* A discovery task's own steps.                                           *)

\* With an application that waits a task goes on from one that runs, having seen
\* the streams and, before it reports, stored caps for all of them.
Advances(t, e) ==
    ~hurries /\ e.phase # "ended" =>
        /\ Running(t)
        /\ e.phase \in {"looking", "found"} => e.saw = streams
        /\ e.phase = "reporting" => streams \subseteq outCaps'

\* What a task stores of what it found: caps of streams, and more of them.
StoresMore ==
    /\ outCaps' \subseteq streams /\ outCaps \subseteq outCaps'
    /\ codecs' \in BOOLEAN
    /\ abortHandle' \cup doneReceiver' \subseteq DOMAIN tasks

\* Such a step keeps the invariant.
LEMMA TaskKeeps ==
    ASSUME IInv, NEW t \in DOMAIN tasks, NEW e \in Task,
           tasks' = [tasks EXCEPT ![t] = e],
           e.saw \subseteq streams, Advances(t, e), StoresMore,
           UNCHANGED <<appVars, locked, streams, caps, inCaps, prepared, done, joining,
                       signallerVars, consumers>>
    PROVE  IInv'
  <1>1. tasks \in Seq(Task)
    BY DEF IInv, TypeOK
  <1>2. /\ tasks' \in Seq(Task) /\ DOMAIN tasks' = DOMAIN tasks
        /\ tasks'[t] = e
        /\ \A k \in DOMAIN tasks : k # t => tasks'[k] = tasks[k]
    BY <1>1, Changed
  <1>3. UNCHANGED <<current, hurries, app, runs, locked, streams, caps, inCaps, prepared, done,
                    joining, signaller, links, stored, stopping, consumers>>
    BY DEF appVars, signallerVars
  <1> USE <1>2, <1>3 DEF IInv, StoresMore
  <1>4. TypeOK'
    BY DEF TypeOK
  <1>5. Place' /\ Discovered' /\ Found' /\ Emptied'
    BY DEF Place, Discovered, StartedMeansDiscovered, Found, Emptied
  <1>6. Seen'
    BY DEF Seen
  <1>7. Searching'
    BY DEF Searching, Running, Advances
  <1>8. Linked' /\ InReach' /\ OneLink'
    BY DEF Linked, InReach, OneLink, Open, Underway, Alive
  <1> QED BY <1>4, <1>5, <1>6, <1>7, <1>8

\* A task that stores its handles,
LEMMA StoreHandlesKeeps ==
    ASSUME IInv, NEW t \in DOMAIN tasks, StoreHandles(t)
    PROVE  IInv'
  <1>1. /\ tasks[t] \in Task /\ tasks[t].saw \subseteq streams
        /\ outCaps \subseteq streams /\ codecs \in BOOLEAN
        /\ abortHandle \cup doneReceiver \subseteq DOMAIN tasks
    BY LenProperties DEF IInv, TypeOK, Seen
  <1>2. PICK e \in Task : /\ tasks' = [tasks EXCEPT ![t] = e]
                         /\ e.phase = "stored" /\ e.saw = tasks[t].saw
    <2> DEFINE f == [tasks[t] EXCEPT !.phase = "stored"]
    <2>1. f \in Task /\ f.phase = "stored" /\ f.saw = tasks[t].saw
      BY <1>1 DEF Task, TaskPhase
    <2>2. tasks' = [tasks EXCEPT ![t] = f]
      BY DEF StoreHandles
    <2> HIDE DEF f
    <2> QED BY <2>1, <2>2
  <1>3. UNCHANGED <<appVars, locked, streams, caps, inCaps, prepared, done, joining,
                    signallerVars, consumers>>
    BY DEF StoreHandles, streamVars
  <1>4. StoresMore
    BY <1>1 DEF StoreHandles, streamVars, StoresMore
  <1>5. Advances(t, e)
    BY <1>2 DEF StoreHandles, Advances, Running
  <1> QED BY <1>1, <1>2, <1>3, <1>4, <1>5, TaskKeeps

\* one that reads the streams, which all have caps,
LEMMA ReadStreamsKeeps ==
    ASSUME IInv, NEW t \in DOMAIN tasks, ReadStreams(t)
    PROVE  IInv'
  <1>1. /\ tasks[t] \in Task /\ tasks[t].saw \subseteq streams
        /\ outCaps \subseteq streams /\ codecs \in BOOLEAN
        /\ abortHandle \cup doneReceiver \subseteq DOMAIN tasks
    BY LenProperties DEF IInv, TypeOK, Seen
  <1>2. PICK e \in Task : /\ tasks' = [tasks EXCEPT ![t] = e]
                         /\ e.phase = "looking" /\ e.saw = streams
    <2> DEFINE f == [tasks[t] EXCEPT !.phase = "looking", !.saw = streams]
    <2>1. f \in Task /\ f.phase = "looking" /\ f.saw = streams
      BY <1>1 DEF Task, TaskPhase, IInv, TypeOK
    <2>2. tasks' = [tasks EXCEPT ![t] = f]
      BY DEF ReadStreams
    <2> HIDE DEF f
    <2> QED BY <2>1, <2>2
  <1>3. UNCHANGED <<appVars, locked, streams, caps, inCaps, prepared, done, joining,
                    signallerVars, consumers>>
    BY DEF ReadStreams, streamVars
  <1>4. StoresMore
    BY <1>1 DEF ReadStreams, streamVars, StoresMore
  <1>5. Advances(t, e)
    BY <1>2 DEF ReadStreams, Advances, Running
  <1> QED BY <1>2, <1>3, <1>4, <1>5, TaskKeeps

\* one that is polled, unless it was aborted,
LEMMA PollKeeps ==
    ASSUME IInv, NEW t \in DOMAIN tasks, Poll(t)
    PROVE  IInv'
  <1>1. /\ tasks[t] \in Task /\ tasks[t].saw \subseteq streams
        /\ outCaps \subseteq streams /\ codecs \in BOOLEAN
        /\ abortHandle \cup doneReceiver \subseteq DOMAIN tasks
    BY LenProperties DEF IInv, TypeOK, Seen
  <1>2. UNCHANGED <<appVars, locked, streams, caps, inCaps, prepared, done, joining,
                    signallerVars, consumers>>
    BY DEF Poll, streamVars
  <1>3. StoresMore
    BY <1>1 DEF Poll, streamVars, StoresMore
  <1>4. tasks' = [tasks EXCEPT ![t] = Polled(tasks[t])]
    BY DEF Poll
  <1>5. CASE tasks[t].aborted
    <2>1. Ended \in Task /\ Ended.phase = "ended" /\ Ended.saw = {}
      BY DEF Ended, NewTask, Task, TaskPhase
    <2>2. tasks' = [tasks EXCEPT ![t] = Ended]
      BY <1>4, <1>5 DEF Polled
    <2>3. Advances(t, Ended)
      BY <2>1 DEF Advances
    <2> QED BY <1>2, <1>3, <2>1, <2>2, <2>3, TaskKeeps
  <1>6. CASE ~tasks[t].aborted
    <2>1. PICK e \in Task :
             /\ tasks' = [tasks EXCEPT ![t] = e]
             /\ e.phase \in {"entering", "found"} /\ e.saw = tasks[t].saw
             /\ e.phase = "found" => tasks[t].phase = "looking"
      <3> DEFINE f == [tasks[t] EXCEPT !.phase = IF @ = "stored" THEN "entering"
                                                 ELSE "found"]
      <3>1. /\ f \in Task /\ f.saw = tasks[t].saw
            /\ f.phase = IF tasks[t].phase = "stored" THEN "entering" ELSE "found"
        BY <1>1 DEF Task, TaskPhase
      <3>2. Polled(tasks[t]) = f
        BY <1>6 DEF Polled
      <3>3. tasks' = [tasks EXCEPT ![t] = f]
        BY <1>4, <3>2
      <3>4. tasks[t].phase \in {"stored", "looking"}
        BY DEF Poll
      <3> HIDE DEF f
      <3> QED BY <3>1, <3>3, <3>4
    <2>2. Running(t)
      BY DEF Poll, Running
    <2>3. Advances(t, e)
      BY <2>1, <2>2 DEF Advances, IInv, Searching
    <2> QED BY <1>1, <1>2, <1>3, <2>1, <2>3, TaskKeeps
  <1> QED BY <1>5, <1>6

\* and one that stores caps, for all the streams it saw before it reports.
LEMMA StoreCapsKeeps ==
    ASSUME IInv, NEW t \in DOMAIN tasks, StoreCaps(t)
    PROVE  IInv'
  <1>1. /\ tasks[t] \in Task /\ tasks[t].saw \subseteq streams
        /\ outCaps \subseteq streams /\ codecs \in BOOLEAN
        /\ abortHandle \cup doneReceiver \subseteq DOMAIN tasks
    BY LenProperties DEF IInv, TypeOK, Seen
  <1>2. UNCHANGED <<appVars, locked, streams, caps, inCaps, prepared, done, joining,
                    signallerVars, consumers>>
    BY DEF StoreCaps
  <1>3. tasks[t].phase = "found" /\ UNCHANGED <<abortHandle, doneReceiver>>
    BY DEF StoreCaps
  <1>4. CASE /\ outCaps' = outCaps \cup tasks[t].saw
             /\ codecs' = TRUE
             /\ tasks' = [tasks EXCEPT ![t].phase = "reporting"]
    <2>1. PICK e \in Task : /\ tasks' = [tasks EXCEPT ![t] = e]
                           /\ e.phase = "reporting" /\ e.saw = tasks[t].saw
      <3> DEFINE f == [tasks[t] EXCEPT !.phase = "reporting"]
      <3>1. f \in Task /\ f.phase = "reporting" /\ f.saw = tasks[t].saw
        BY <1>1 DEF Task, TaskPhase
      <3>2. tasks' = [tasks EXCEPT ![t] = f]
        BY <1>4
      <3> HIDE DEF f
      <3> QED BY <3>1, <3>2
    <2>2. StoresMore
      BY <1>1, <1>3, <1>4 DEF StoresMore
    <2>3. Running(t) /\ (~hurries => tasks[t].saw = streams)
      BY <1>3 DEF Running, IInv, Searching
    <2>4. Advances(t, e)
      BY <1>4, <2>1, <2>3 DEF Advances
    <2> QED BY <1>1, <1>2, <2>1, <2>2, <2>4, TaskKeeps
  <1>5. CASE /\ \E s \in SUBSET tasks[t].saw \ {tasks[t].saw} : outCaps' = outCaps \cup s
             /\ tasks' = [tasks EXCEPT ![t] = Ended]
             /\ UNCHANGED codecs
    <2>1. Ended \in Task /\ Ended.phase = "ended" /\ Ended.saw = {}
      BY DEF Ended, NewTask, Task, TaskPhase
    <2>2. StoresMore
      BY <1>1, <1>3, <1>5 DEF StoresMore
    <2>3. Advances(t, Ended)
      BY <2>1 DEF Advances
    <2> QED BY <1>2, <1>5, <2>1, <2>2, <2>3, TaskKeeps
  <1> QED BY <1>4, <1>5 DEF StoreCaps

\* A task that reports success starts the signaller if one is needed.
LEMMA ReportKeeps ==
    ASSUME IInv, NEW t \in DOMAIN tasks, Report(t)
    PROVE  IInv'
  <1>1. /\ Ended \in Task /\ Ended.phase = "ended" /\ Ended.saw = {}
        /\ tasks \in Seq(Task) /\ tasks' = [tasks EXCEPT ![t] = Ended]
    BY DEF IInv, TypeOK, Report, Task, NewTask, Ended, TaskPhase
  <1>2. /\ tasks' \in Seq(Task) /\ DOMAIN tasks' = DOMAIN tasks
        /\ tasks'[t] = Ended
        /\ \A k \in DOMAIN tasks : k # t => tasks'[k] = tasks[k]
    BY <1>1, Changed
  <1>3. /\ done' = TRUE /\ MaybeStartSignaller(TRUE)
        /\ UNCHANGED <<current, hurries, app, runs, locked, streams, caps, inCaps, outCaps,
                       prepared, codecs, abortHandle, doneReceiver, joining, consumers>>
    BY DEF Report, appVars, streamVars
  <1>4. ~hurries => /\ streams \subseteq outCaps /\ current # "Ready"
                    /\ app \in {"idle", "playing"}
    BY DEF Report, Running, IInv, Searching
  <1>5. /\ links' \in Seq(Link)
        /\ stored' \cup stopping' \subseteq DOMAIN links'
        /\ \A l \in stored' : links'[l].channel = "open"
        /\ stopping' = stopping
        /\ signaller' \in {"Started", "Stopped"}
        /\ current # "Ready" => signaller' = "Started"
        /\ Linked' /\ InReach' /\ OneLink'
    BY <1>3, <1>4, MaybeStart
  <1> USE <1>2, <1>3 DEF IInv
  <1>6. TypeOK'
    BY <1>5 DEF TypeOK
  <1>7. Place' /\ Emptied'
    BY <1>5 DEF Place, Emptied
  <1>8. Discovered'
    BY <1>5 DEF Discovered, StartedMeansDiscovered, Place
  <1>9. Found'
    BY <1>4 DEF Found
  <1>10. Seen'
    BY <1>1 DEF Seen
  <1>11. Searching'
    BY <1>1 DEF Searching, Running
  <1> QED BY <1>5, <1>6, <1>7, <1>8, <1>9, <1>10, <1>11

-----------------------------------------------------------------------------
(* A connection's own steps.                                               *)

\* The channel stays, and a connection is underway or its receive task runs only
\* if that was so or it has just opened.
Continues(l, e) ==
    /\ e.channel = links[l].channel
    /\ e.connect # "over" => links[l].connect # "over"
    /\ e.connect = "connecting" => e.receive \in {"off", "ended"}
    /\ \/ e.receive \in {"off", "ended"}
       \/ Alive(l) /\ e.connect = links[l].connect
       \/ links[l].connect = "connecting" /\ e.connect = "opened"

\* Consumers are added by a receive task that runs while there is no unprepare.
AddsWhileUp(l) ==
    \/ consumers' \subseteq consumers
    \/ Alive(l) /\ app \notin {"joiningDiscovery", "joiningSignaller"}

\* Such a step of a connection keeps the invariant.
LEMMA OfLinkKeeps ==
    ASSUME IInv, NEW l \in DOMAIN links, NEW e \in Link, OfLink(l, e),
           stored' = stored, consumers' \subseteq Peer,
           AddsWhileUp(l),
           Continues(l, e)
    PROVE  IInv'
  <1>1. links \in Seq(Link) /\ links' = [links EXCEPT ![l] = e]
    BY DEF IInv, TypeOK, OfLink
  <1>2. /\ links' \in Seq(Link) /\ DOMAIN links' = DOMAIN links
        /\ links'[l] = e
        /\ \A k \in DOMAIN links : k # l => links'[k] = links[k]
    BY <1>1, Changed
  <1>3. UNCHANGED <<appVars, locked, streamVars, discoveryVars, signaller, stopping>>
    BY DEF OfLink
  <1> USE <1>2, <1>3 DEF IInv, Continues, AddsWhileUp, appVars, streamVars, discoveryVars, signallerVars
  <1>4. TypeOK'
    BY DEF TypeOK
  <1>5. Place' /\ Discovered' /\ Found'
    BY DEF Place, Discovered, StartedMeansDiscovered, Found
  <1>6. Seen' /\ Searching'
    BY DEF Seen, Searching, Running
  <1>7. Linked'
    BY DEF Linked, Underway, Alive, TypeOK
  <1>8. InReach'
    BY DEF InReach, Linked, Open, Underway, Alive
  <1>9. OneLink'
    BY DEF OneLink, Linked, Underway, Alive, TypeOK
  <1>10. Emptied'
    <2>1. ~hurries /\ Alive(l) => current # "Ready" /\ app # "lowered"
      BY DEF OneLink, Discovered, StartedMeansDiscovered, Found, TypeOK
    <2> QED BY <2>1 DEF Emptied
  <1> QED BY <1>4, <1>5, <1>6, <1>7, <1>8, <1>9, <1>10

\* Connecting opens a connection, or is over without one.
LEMMA ConnectKeeps ==
    ASSUME IInv, NEW l \in DOMAIN links, Connect(l)
    PROVE  IInv'
  <1>1. /\ links[l] \in Link /\ (links[l].connect = "connecting" => ~Alive(l))
        /\ consumers \subseteq Peer
    BY LenProperties DEF IInv, TypeOK, Linked
  <1>2. links[l].connect = "connecting" /\ links[l].receive \in {"off", "ended"}
    BY <1>1 DEF Connect, Alive
  <1>3. /\ stored' = stored
        /\ AddsWhileUp(l) /\ consumers' \subseteq Peer
    BY <1>1 DEF AddsWhileUp, Connect
  <1>4. CASE OfLink(l, [links[l] EXCEPT !.connect = "opened", !.send = "running",
                                        !.receive = "idle"])
    <2>1. PICK e \in Link :
            /\ OfLink(l, e) /\ e.channel = links[l].channel
            /\ e.connect = "opened" /\ e.receive = "idle"
      <3> DEFINE f == [links[l] EXCEPT !.connect = "opened", !.send = "running",
                                       !.receive = "idle"]
      <3>1. f \in Link
        BY <1>1 DEF Link
      <3>2. /\ f.channel = links[l].channel
            /\ f.connect = "opened" /\ f.receive = "idle"
        BY <1>1 DEF Link
      <3>3. OfLink(l, f)
        BY <1>4
      <3> HIDE DEF f
      <3> QED BY <3>1, <3>2, <3>3
    <2>2. Continues(l, e)
      BY <1>1, <1>2, <2>1 DEF Continues
    <2> QED BY <1>3, <2>1, <2>2, OfLinkKeeps
  <1>5. CASE OfLink(l, [links[l] EXCEPT !.connect = "over"])
    <2>1. PICK e \in Link :
            /\ OfLink(l, e) /\ e.channel = links[l].channel
            /\ e.connect = "over" /\ e.receive = links[l].receive
      <3> DEFINE f == [links[l] EXCEPT !.connect = "over"]
      <3>1. f \in Link
        BY <1>1 DEF Link
      <3>2. /\ f.channel = links[l].channel
            /\ f.connect = "over" /\ f.receive = links[l].receive
        BY <1>1 DEF Link
      <3>3. OfLink(l, f)
        BY <1>5
      <3> HIDE DEF f
      <3> QED BY <3>1, <3>2, <3>3
    <2>2. Continues(l, e)
      BY <1>1, <1>2, <2>1 DEF Continues
    <2> QED BY <1>3, <2>1, <2>2, OfLinkKeeps
  <1> QED BY <1>4, <1>5 DEF Connect

\* A send task that ends says nothing of the connection.
LEMMA EndSendKeeps ==
    ASSUME IInv, NEW l \in DOMAIN links, EndSend(l)
    PROVE  IInv'
  <1>1. /\ links[l] \in Link /\ (links[l].connect = "connecting" => ~Alive(l))
        /\ consumers \subseteq Peer
    BY LenProperties DEF IInv, TypeOK, Linked
  <1>2. PICK e \in Link :
            /\ OfLink(l, e) /\ e.channel = links[l].channel
            /\ e.connect = links[l].connect /\ e.receive = links[l].receive
    <2> DEFINE f == [links[l] EXCEPT !.send = "ended"]
    <2>1. f \in Link
      BY <1>1 DEF Link
    <2>2. /\ f.channel = links[l].channel
          /\ f.connect = links[l].connect /\ f.receive = links[l].receive
      BY <1>1 DEF Link
    <2>3. OfLink(l, f)
      BY DEF EndSend
    <2> HIDE DEF f
    <2> QED BY <2>1, <2>2, <2>3
  <1>3. /\ stored' = stored
        /\ AddsWhileUp(l) /\ consumers' \subseteq Peer
    BY <1>1 DEF AddsWhileUp, EndSend
  <1>4. Continues(l, e)
    BY <1>1, <1>2, <1>3 DEF Continues, Alive
  <1> QED BY <1>2, <1>3, <1>4, OfLinkKeeps

\* Nor does one that the WebSocket refused.
LEMMA FailSendKeeps ==
    ASSUME IInv, NEW l \in DOMAIN links, FailSend(l)
    PROVE  IInv'
  <1>1. /\ links[l] \in Link /\ (links[l].connect = "connecting" => ~Alive(l))
        /\ consumers \subseteq Peer
    BY LenProperties DEF IInv, TypeOK, Linked
  <1>2. PICK e \in Link :
            /\ OfLink(l, e) /\ e.channel = links[l].channel
            /\ e.connect = links[l].connect /\ e.receive = links[l].receive
    <2> DEFINE f == [links[l] EXCEPT !.send = "ended"]
    <2>1. f \in Link
      BY <1>1 DEF Link
    <2>2. /\ f.channel = links[l].channel
          /\ f.connect = links[l].connect /\ f.receive = links[l].receive
      BY <1>1 DEF Link
    <2>3. OfLink(l, f)
      BY DEF FailSend
    <2> HIDE DEF f
    <2> QED BY <2>1, <2>2, <2>3
  <1>3. /\ stored' = stored
        /\ AddsWhileUp(l) /\ consumers' \subseteq Peer
    BY <1>1 DEF AddsWhileUp, FailSend
  <1>4. Continues(l, e)
    BY <1>1, <1>2, <1>3 DEF Continues, Alive
  <1> QED BY <1>2, <1>3, <1>4, OfLinkKeeps

\* A message taken in hand,
LEMMA ReceiveKeeps ==
    ASSUME IInv, NEW l \in DOMAIN links, NEW what \in {"add", "remove"}, NEW peer \in Peer,
           Receive(l, what, peer)
    PROVE  IInv'
  <1>1. /\ links[l] \in Link /\ (links[l].connect = "connecting" => ~Alive(l))
        /\ consumers \subseteq Peer
    BY LenProperties DEF IInv, TypeOK, Linked
  <1>2. PICK e \in Link :
            /\ OfLink(l, e) /\ e.channel = links[l].channel
            /\ e.connect = links[l].connect /\ e.receive = what
    <2> DEFINE f == [links[l] EXCEPT !.receive = what, !.about = {peer}, !.said = @ + 1]
    <2>1. links[l].said + 1 \in 0..MaxSaid
      BY <1>1, BoundsAreNumbers DEF Link, BoundsAreNumbers, Receive
    <2>2. f \in Link
      BY <1>1, <2>1 DEF Link
    <2>3. /\ f.channel = links[l].channel
          /\ f.connect = links[l].connect /\ f.receive = what
      BY <1>1 DEF Link
    <2>4. OfLink(l, f)
      BY DEF Receive
    <2> HIDE DEF f
    <2> QED BY <2>2, <2>3, <2>4
  <1>3. /\ stored' = stored
        /\ AddsWhileUp(l) /\ consumers' \subseteq Peer /\ Alive(l)
    BY <1>1 DEF AddsWhileUp, Receive, Alive
  <1>4. Continues(l, e)
    BY <1>1, <1>2, <1>3 DEF Continues, Alive
  <1> QED BY <1>2, <1>3, <1>4, OfLinkKeeps

\* the end of the receive task,
LEMMA ReceiveEndKeeps ==
    ASSUME IInv, NEW l \in DOMAIN links, ReceiveEnd(l)
    PROVE  IInv'
  <1>1. /\ links[l] \in Link /\ (links[l].connect = "connecting" => ~Alive(l))
        /\ consumers \subseteq Peer
    BY LenProperties DEF IInv, TypeOK, Linked
  <1>2. PICK e \in Link :
            /\ OfLink(l, e) /\ e.channel = links[l].channel
            /\ e.connect = links[l].connect /\ e.receive = "ended"
    <2> DEFINE f == [links[l] EXCEPT !.receive = "ended", !.said = 0]
    <2>1. 0 \in 0..MaxSaid
      BY <1>1, BoundsAreNumbers DEF Link, BoundsAreNumbers
    <2>2. f \in Link
      BY <1>1, <2>1 DEF Link
    <2>3. /\ f.channel = links[l].channel
          /\ f.connect = links[l].connect /\ f.receive = "ended"
      BY <1>1 DEF Link
    <2>4. OfLink(l, f)
      BY DEF ReceiveEnd
    <2> HIDE DEF f
    <2> QED BY <2>2, <2>3, <2>4
  <1>3. /\ stored' = stored
        /\ AddsWhileUp(l) /\ consumers' \subseteq Peer
    BY <1>1 DEF AddsWhileUp, ReceiveEnd
  <1>4. Continues(l, e)
    BY <1>1, <1>2, <1>3 DEF Continues, Alive
  <1> QED BY <1>2, <1>3, <1>4, OfLinkKeeps

\* a consumer that was negotiated with,
LEMMA NegotiateKeeps ==
    ASSUME IInv, NEW l \in DOMAIN links, Negotiate(l)
    PROVE  IInv'
  <1>1. /\ links[l] \in Link /\ (links[l].connect = "connecting" => ~Alive(l))
        /\ consumers \subseteq Peer
    BY LenProperties DEF IInv, TypeOK, Linked
  <1>2. PICK e \in Link :
            /\ OfLink(l, e) /\ e.channel = links[l].channel
            /\ e.connect = links[l].connect /\ e.receive = "idle"
    <2> DEFINE f == [links[l] EXCEPT !.receive = "idle", !.about = {}]
    <2>1. f \in Link
      BY <1>1 DEF Link
    <2>2. /\ f.channel = links[l].channel
          /\ f.connect = links[l].connect /\ f.receive = "idle"
      BY <1>1 DEF Link
    <2>3. OfLink(l, f)
      BY DEF Negotiate
    <2> HIDE DEF f
    <2> QED BY <2>1, <2>2, <2>3
  <1>3. /\ stored' = stored
        /\ AddsWhileUp(l) /\ consumers' \subseteq Peer /\ Alive(l)
    BY <1>1 DEF AddsWhileUp, Negotiate, Alive
  <1>4. Continues(l, e)
    BY <1>1, <1>2, <1>3 DEF Continues, Alive
  <1> QED BY <1>2, <1>3, <1>4, OfLinkKeeps

\* one removed,
LEMMA RemoveConsumerKeeps ==
    ASSUME IInv, NEW l \in DOMAIN links, RemoveConsumer(l)
    PROVE  IInv'
  <1>1. /\ links[l] \in Link /\ (links[l].connect = "connecting" => ~Alive(l))
        /\ consumers \subseteq Peer
    BY LenProperties DEF IInv, TypeOK, Linked
  <1>2. PICK e \in Link :
            /\ OfLink(l, e) /\ e.channel = links[l].channel
            /\ e.connect = links[l].connect /\ e.receive = "idle"
    <2> DEFINE f == [links[l] EXCEPT !.receive = "idle", !.about = {}]
    <2>1. f \in Link
      BY <1>1 DEF Link
    <2>2. /\ f.channel = links[l].channel
          /\ f.connect = links[l].connect /\ f.receive = "idle"
      BY <1>1 DEF Link
    <2>3. OfLink(l, f)
      BY DEF RemoveConsumer
    <2> HIDE DEF f
    <2> QED BY <2>1, <2>2, <2>3
  <1>3. /\ stored' = stored
        /\ AddsWhileUp(l) /\ consumers' \subseteq Peer /\ Alive(l)
    BY <1>1 DEF AddsWhileUp, RemoveConsumer, Alive
  <1>4. Continues(l, e)
    BY <1>1, <1>2, <1>3 DEF Continues, Alive
  <1> QED BY <1>2, <1>3, <1>4, OfLinkKeeps

\* one added or refused: none is the start or the end of a connection.
LEMMA AddConsumerKeeps ==
    ASSUME IInv, NEW l \in DOMAIN links, AddConsumer(l)
    PROVE  IInv'
  <1>1. /\ links[l] \in Link /\ (links[l].connect = "connecting" => ~Alive(l))
        /\ consumers \subseteq Peer
    BY LenProperties DEF IInv, TypeOK, Linked
  <1>2. /\ Alive(l) /\ stored' = stored
        /\ app \notin {"joiningDiscovery", "joiningSignaller"}
    BY DEF AddConsumer, Alive, IInv, Place
  <1>3. CASE /\ consumers' = consumers \cup links[l].about
             /\ OfLink(l, [links[l] EXCEPT !.receive = "negotiate"])
    <2>1. PICK e \in Link :
            /\ OfLink(l, e) /\ e.channel = links[l].channel
            /\ e.connect = links[l].connect /\ e.receive = "negotiate"
      <3> DEFINE f == [links[l] EXCEPT !.receive = "negotiate"]
      <3>1. f \in Link
        BY <1>1 DEF Link
      <3>2. /\ f.channel = links[l].channel
            /\ f.connect = links[l].connect /\ f.receive = "negotiate"
        BY <1>1 DEF Link
      <3>3. OfLink(l, f)
        BY <1>3
      <3> HIDE DEF f
      <3> QED BY <3>1, <3>2, <3>3
    <2>2. AddsWhileUp(l) /\ consumers' \subseteq Peer
      BY <1>1, <1>2, <1>3 DEF Link, AddsWhileUp
    <2>3. Continues(l, e)
      BY <1>1, <1>2, <2>1 DEF Continues, Alive
    <2> QED BY <1>2, <2>1, <2>2, <2>3, OfLinkKeeps
  <1>4. CASE /\ consumers' = consumers
             /\ OfLink(l, [links[l] EXCEPT !.receive = "idle", !.about = {}])
    <2>1. PICK e \in Link :
            /\ OfLink(l, e) /\ e.channel = links[l].channel
            /\ e.connect = links[l].connect /\ e.receive = "idle"
      <3> DEFINE f == [links[l] EXCEPT !.receive = "idle", !.about = {}]
      <3>1. f \in Link
        BY <1>1 DEF Link
      <3>2. /\ f.channel = links[l].channel
            /\ f.connect = links[l].connect /\ f.receive = "idle"
        BY <1>1 DEF Link
      <3>3. OfLink(l, f)
        BY <1>4
      <3> HIDE DEF f
      <3> QED BY <3>1, <3>2, <3>3
    <2>2. AddsWhileUp(l) /\ consumers' \subseteq Peer
      BY <1>1, <1>4 DEF AddsWhileUp
    <2>3. Continues(l, e)
      BY <1>1, <1>2, <2>1 DEF Continues, Alive
    <2> QED BY <1>2, <2>1, <2>2, <2>3, OfLinkKeeps
  <1> QED BY <1>3, <1>4 DEF AddConsumer

-----------------------------------------------------------------------------
(* Theorems.                                                               *)

\* An element starts in Ready, with nothing to wait for.
LEMMA InitIInv == Init => IInv
  <1> SUFFICES ASSUME Init PROVE IInv
    OBVIOUS
  <1> USE DEF Init
  <1>1. TypeOK
    <2>1. tasks \in Seq(Task) /\ links \in Seq(Link)
      OBVIOUS
    <2>2. runs \in 0..MaxRuns
      BY BoundsAreNumbers DEF BoundsAreNumbers
    <2> QED BY <2>1, <2>2 DEF TypeOK
  <1>2. Place /\ Discovered /\ Found /\ Emptied
    BY DEF Place, Discovered, StartedMeansDiscovered, Found, Emptied
  <1>3. Seen /\ Searching
    BY DEF Seen, Searching
  <1>4. Linked /\ InReach /\ OneLink
    BY DEF Linked, InReach, OneLink
  <1> QED BY <1>1, <1>2, <1>3, <1>4 DEF IInv

\* Every step keeps the invariant.
LEMMA NextKeepsIInv == IInv /\ [Next]_vars => IInv'
  <1> SUFFICES ASSUME IInv, [Next]_vars PROVE IInv'
    OBVIOUS
  <1>1. CASE AppSteps
    BY <1>1, PrepareKeeps, PlayKeeps, PauseKeeps, LowerKeeps, RequestPadKeeps DEF AppSteps
  <1>2. CASE AppReturns
    BY <1>2, CommitPausedKeeps, CommitPlayingKeeps, CommitReadyKeeps, RemoveAllKeeps,
       StopSignallerKeeps, FinishUnprepareKeeps DEF AppReturns
  <1>3. CASE \E pad \in Pad : CapsEvent(pad)
    BY <1>3, CapsEventKeeps
  <1>4. CASE \E t \in DOMAIN tasks : Discover(t)
    BY <1>4, StoreHandlesKeeps, PollKeeps, ReadStreamsKeeps, StoreCapsKeeps, ReportKeeps
       DEF Discover
  <1>5. ASSUME NEW l \in DOMAIN links,
               \/ Connect(l) \/ StoreLink(l) \/ EndSend(l) \/ FailSend(l) \/ ReceiveEnd(l)
               \/ Handle(l)
               \/ \E what \in {"add", "remove"}, peer \in Peer : Receive(l, what, peer)
        PROVE  IInv'
    BY <1>5, ConnectKeeps, StoreLinkKeeps, EndSendKeeps, FailSendKeeps, ReceiveEndKeeps,
       AddConsumerKeeps, NegotiateKeeps, RemoveConsumerKeeps, ReceiveKeeps DEF Handle
  <1>6. CASE UNCHANGED vars
    <2> USE <1>6 DEF IInv, vars, appVars, streamVars, discoveryVars, signallerVars
    <2>1. TypeOK'
      BY DEF TypeOK
    <2>2. Place' /\ Discovered' /\ Found' /\ Emptied'
      BY DEF Place, Discovered, StartedMeansDiscovered, Found, Emptied
    <2>3. Seen' /\ Searching'
      BY DEF Seen, Searching, Running
    <2>4. Linked' /\ InReach' /\ OneLink'
      BY DEF Linked, InReach, OneLink, Open, Underway, Alive
    <2> QED BY <2>1, <2>2, <2>3, <2>4
  <1> QED BY <1>1, <1>2, <1>3, <1>4, <1>5, <1>6 DEF Next

LEMMA IInvHolds == Spec => []IInv
  BY InitIInv, NextKeepsIInv, PTL DEF Spec

\* However stops and starts overtake the discovery's tasks, discovery is done
\* whenever the signaller runs, and the signaller runs whenever the element plays
\* with discovery done (maybe_start_signaller and its two callers, unprepare).
THEOREM SinkInvHolds == Spec => []SinkInv
  <1>1. IInv => SinkInv
    BY DEF IInv, SinkInv, Discovered, DiscoveredPlays
  <1> QED BY <1>1, IInvHolds, PTL

\* No unwrap of an unset caps panics, in lookup_streams_caps or in add_consumer,
\* with an application that waits for what it started.
THEOREM CapsAreThereHolds == Spec => []CapsAreThere
  <1>1. IInv => CapsAreThere
    <2> SUFFICES ASSUME IInv, ~hurries
                 PROVE  /\ \A t \in DOMAIN tasks :
                              tasks[t].phase = "entering" => streams \subseteq inCaps
                        /\ \A l \in DOMAIN links :
                              links[l].receive = "add" => streams \subseteq outCaps
      BY DEF CapsAreThere
    <2>1. \A t \in DOMAIN tasks : tasks[t].phase = "entering" => streams \subseteq inCaps
      BY DEF IInv, Searching, Running
    <2>2. ASSUME NEW l \in DOMAIN links, links[l].receive = "add"
          PROVE  streams \subseteq outCaps
      BY <2>2 DEF IInv, TypeOK, OneLink, Alive, Discovered, StartedMeansDiscovered, Found
    <2> QED BY <2>1, <2>2
  <1> QED BY <1>1, IInvHolds, PTL

\* The signaller's State has every connection that is open and not still being
\* made, and a stop of a started signaller leaves none of those open, whatever
\* starts and stops overtake one another (Signaller::stop, unprepare).
THEOREM NoOrphanHolds == Spec => NoOrphan
  <1>1. IInv => InReach
    BY DEF IInv
  <1>2. IInv' => InReach'
    BY DEF IInv
  <1>3. IInv /\ [Next]_vars =>
           [StopsStarted => \A l \in DOMAIN links : Open(l)' => Underway(l)']_vars
    <2> SUFFICES ASSUME IInv, [Next]_vars, StopsStarted,
                        NEW l \in DOMAIN links, Open(l)'
                 PROVE  Underway(l)'
      OBVIOUS
    <2>1. StopSignaller
      BY DEF StopsStarted, Next, AppSteps, AppReturns, Discover, Handle, OfLink, Prepare, Play,
         Pause, Lower, RequestPad, Commit, RemoveAll, FinishUnprepare, CapsEvent, StoreHandles,
         Poll, ReadStreams, StoreCaps, Report, Connect, StoreLink, EndSend, FailSend, ReceiveEnd,
         AddConsumer, Negotiate, RemoveConsumer, Receive, vars, appVars
    <2>2. links' = [k \in DOMAIN links |->
                       IF k \in stored THEN [links[k] EXCEPT !.channel = "closed"] ELSE links[k]]
      BY <2>1 DEF StopSignaller, StopsStarted, CloseStored, Close
    <2>3. links[l] \in Link
      BY LenProperties DEF IInv, TypeOK
    <2>4. l \notin stored
      BY <2>2, <2>3 DEF Open, Link
    <2>5. links'[l] = links[l]
      BY <2>2, <2>4
    <2> QED BY <1>1, <2>4, <2>5 DEF InReach, Open, Underway
  <1>4. IInv /\ IInv' /\ [Next]_vars =>
           [/\ InReach'
            /\ StopsStarted => \A l \in DOMAIN links : Open(l)' => Underway(l)']_vars
    BY <1>2, <1>3
  <1> QED BY <1>4, IInvHolds, PTL DEF NoOrphan, Spec

\* unprepare leaves nothing behind in Ready, whatever the server says meanwhile,
\* for an application that waits for what it started.
THEOREM PatientIsQuietHolds == Spec => []PatientIsQuiet
  <1>1. IInv => PatientIsQuiet
    <2> SUFFICES ASSUME IInv, ~hurries, current = "Ready"
                 PROVE  /\ consumers = {}
                        /\ \A l \in DOMAIN links : ~Underway(l) /\ ~Open(l)
      BY DEF PatientIsQuiet, ReadyIsQuiet
    <2>1. consumers = {}
      BY DEF IInv, Emptied
    <2>2. signaller = "Stopped"
      BY DEF IInv, TypeOK, Discovered, StartedMeansDiscovered, Found
    <2>3. \A l \in DOMAIN links : ~Underway(l) /\ ~Open(l)
      BY <2>2 DEF IInv, OneLink, Open, Alive
    <2> QED BY <2>1, <2>3
  <1> QED BY <1>1, IInvHolds, PTL

=============================================================================
