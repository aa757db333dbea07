----------------------- MODULE SignallingServer_proofs -----------------------
(***************************************************************************)
(* Proofs about SignallingServer.                                          *)
(*                                                                         *)
(* TaskInv says where the tasks of a peer can be and that its departure    *)
(* waits in the channel behind its texts.  With it each step of the server *)
(* is a step of the handler or leaves it alone, so that the handler's own  *)
(* invariant holds here.  Delivered balances the sessions a client counts, *)
(* the messages on their way to it and the handler's own sessions, which   *)
(* no order of delivery can disturb; RolesOfLivePeers and                  *)
(* WaitingAreCounted are inductive with TaskInv.                           *)
(***************************************************************************)
EXTENDS SignallingServer, SignallingHandler_proofs

-----------------------------------------------------------------------------
(* The tasks, whatever the handler does.                                   *)

\* The channels and the tasks have their types.
TaskTypes ==
    /\ input \in Seq(PeerId \X {"text", "gone"})
    /\ parked \in Seq(PeerId)
    /\ recv \in [PeerId -> RecvState]
    /\ send \in [PeerId -> SendState]
    /\ inserted \subseteq PeerId
    /\ map \subseteq inserted
    /\ closed \subseteq inserted

\* A removal task runs only for a peer that was let in; what begins to end
\* does so for a client that has left.
LeavingHaveLeft ==
    \A p \in PeerId :
        /\ recv[p] = "removed" => p \in inserted
        /\ recv[p] \in {"leaving", "removing", "removed"} => p \in gone
        /\ p \in closed => p \in gone
        /\ send[p] = "ended" => p \in gone
        /\ \A i \in DOMAIN input : input[i] = <<p, "gone">> => p \in gone

\* Behind each text of a peer that its receive task has left, the departure of
\* the peer is waiting in the channel.
TextsBeforeGone ==
    \A i \in DOMAIN input : input[i][2] = "text" =>
        \/ Alive(input[i][1])
        \/ \E j \in DOMAIN input : j > i /\ input[j] = <<input[i][1], "gone">>

TaskInv == TaskTypes /\ LeavingHaveLeft /\ TextsBeforeGone

(* An appended entry comes last and the others stay where they are. *)
LEMMA Appended ==
    ASSUME NEW S, NEW s \in Seq(S), NEW e \in S
    PROVE  /\ Append(s, e) \in Seq(S)
           /\ Len(Append(s, e)) = Len(s) + 1
           /\ Len(s) + 1 \in DOMAIN Append(s, e)
           /\ Append(s, e)[Len(s) + 1] = e
           /\ \A i \in DOMAIN s : /\ i \in DOMAIN Append(s, e)
                                  /\ Append(s, e)[i] = s[i]
                                  /\ Len(s) + 1 > i
           /\ \A i \in DOMAIN Append(s, e) : i \in DOMAIN s \/ i = Len(s) + 1
OBVIOUS

(* Taking the head moves the other entries one place up. *)
LEMMA MovedUp ==
    ASSUME NEW S, NEW s \in Seq(S), s # <<>>
    PROVE  /\ Tail(s) \in Seq(S)
           /\ Len(Tail(s)) = Len(s) - 1
           /\ \A i \in DOMAIN Tail(s) : /\ i + 1 \in DOMAIN s
                                        /\ Tail(s)[i] = s[i + 1]
                                        /\ i \in Nat
           /\ \A i \in DOMAIN s : \/ i = 1 /\ s[i] = Head(s)
                                  \/ /\ i > 1
                                     /\ i - 1 \in DOMAIN Tail(s)
                                     /\ Tail(s)[i - 1] = s[i]
           /\ 1 \in DOMAIN s /\ s[1] = Head(s) /\ Head(s) \in S
           /\ DOMAIN s \subseteq Nat
OBVIOUS

(* At the start no task runs and nothing is queued. *)
LEMMA InitTaskInv == ServerInit => TaskInv
<1>. SUFFICES ASSUME ServerInit PROVE TaskInv
  OBVIOUS
<1>1. <<>> \in Seq(PeerId \X {"text", "gone"}) /\ Len(<<>>) = 0
  OBVIOUS
<1>. QED
  BY <1>1, SizesAreNumbers DEF ServerInit, TaskInv, TaskTypes, LeavingHaveLeft, TextsBeforeGone,
       RecvState, SendState

(* A step of a task that queues nothing, and ends only for a client that left. *)
LEMMA TaskStepKeepsInv ==
    ASSUME TaskInv, parked' \in Seq(PeerId), UNCHANGED input, inserted \subseteq inserted', gone \subseteq gone',
           recv' \in [PeerId -> RecvState],
           send' \in [PeerId -> SendState],
           inserted' \subseteq PeerId,
           map' \subseteq inserted',
           \A p \in PeerId :
               /\ Alive(p) => Alive(p)'
               /\ recv'[p] = "removed" => recv[p] = "removed" \/ p \in map
               /\ recv'[p] \in {"leaving", "removing", "removed"} =>
                     recv[p] \in {"leaving", "removing", "removed"} \/ p \in gone
               /\ send'[p] = "ended" => send[p] = "ended" \/ p \in gone
               /\ p \in closed' => p \in closed \/ recv[p] = "removed",
           closed' \subseteq PeerId
    PROVE  TaskInv'
<1>1. TaskTypes /\ LeavingHaveLeft /\ TextsBeforeGone
  BY DEF TaskInv
<1>2. closed' \subseteq inserted'
  BY <1>1 DEF TaskTypes, LeavingHaveLeft
<1>3. TaskTypes'
  BY <1>1, <1>2 DEF TaskTypes
<1>4. LeavingHaveLeft'
  BY <1>1, <1>3 DEF TaskTypes, LeavingHaveLeft
<1>5. TextsBeforeGone'
  <2>1. \A i \in DOMAIN input : input[i][1] \in PeerId
    BY <1>1 DEF TaskTypes
  <2>. QED
    BY <1>1, <2>1 DEF TextsBeforeGone
<1>. QED
  BY <1>3, <1>4, <1>5 DEF TaskInv

(* A receive task queues a text while it reads, a departure when it leaves. *)
LEMMA InputStepKeepsInv ==
    ASSUME TaskInv, parked' \in Seq(PeerId), NEW p \in PeerId, NEW what \in {"text", "gone"},
           input' = Append(input, <<p, what>>),
           UNCHANGED <<map, inserted, closed, send, gone>>,
           \/ what = "text" /\ Alive(p) /\ recv' = recv
           \/ what = "gone" /\ p \in gone /\ recv' = [recv EXCEPT ![p] = "removing"]
    PROVE  TaskInv'
<1>1. TaskTypes /\ LeavingHaveLeft /\ TextsBeforeGone
  BY DEF TaskInv
<1>. DEFINE S == PeerId \X {"text", "gone"}
<1>2. input \in Seq(S) /\ <<p, what>> \in S /\ <<p, what>>[1] = p /\ <<p, what>>[2] = what
  BY <1>1 DEF TaskTypes
<1>3. /\ input' \in Seq(S)
      /\ Len(input') = Len(input) + 1
      /\ Len(input) + 1 \in DOMAIN input'
      /\ input'[Len(input) + 1] = <<p, what>>
      /\ \A i \in DOMAIN input : /\ i \in DOMAIN input'
                                 /\ input'[i] = input[i]
                                 /\ Len(input) + 1 > i
      /\ \A i \in DOMAIN input' : i \in DOMAIN input \/ i = Len(input) + 1
  <2>. HIDE DEF S
  <2>. QED
    BY <1>2, Appended
<1>4. recv' \in [PeerId -> RecvState]
  BY <1>1 DEF TaskTypes, RecvState
<1>5. TaskTypes'
  BY <1>1, <1>3, <1>4 DEF TaskTypes
<1>6. LeavingHaveLeft'
  BY <1>1, <1>3, <1>4 DEF LeavingHaveLeft, TaskTypes
<1>7. TextsBeforeGone'
  <2>. SUFFICES ASSUME NEW i \in DOMAIN input', input'[i][2] = "text"
                PROVE  \/ recv'[input'[i][1]] \in {"reading", "leaving"}
                       \/ \E j \in DOMAIN input' : j > i /\ input'[j] = <<input'[i][1], "gone">>
    BY DEF TextsBeforeGone, Alive
  <2>1. CASE i = Len(input) + 1
    BY <1>2, <1>3, <2>1 DEF Alive
  <2>2. CASE i \in DOMAIN input
    <3>1. input'[i] = input[i] /\ Len(input) + 1 > i /\ input[i][1] \in PeerId
      BY <1>2, <1>3, <2>2
    <3>2. CASE recv[input[i][1]] \in {"reading", "leaving"}
      <4>1. CASE input[i][1] = p /\ what = "gone"
        BY <1>3, <3>1, <4>1
      <4>2. CASE ~(input[i][1] = p /\ what = "gone")
        <5>1. recv'[input[i][1]] = recv[input[i][1]]
          BY <1>1, <3>1, <4>2 DEF TaskTypes
        <5>. QED
          BY <3>1, <3>2, <5>1
      <4>. QED
        BY <4>1, <4>2
    <3>3. CASE \E j \in DOMAIN input : j > i /\ input[j] = <<input[i][1], "gone">>
      BY <1>3, <3>1, <3>3
    <3>. QED
      BY <1>1, <2>2, <3>1, <3>2, <3>3 DEF TextsBeforeGone, Alive
  <2>. QED
    BY <1>3, <2>1, <2>2
<1>. QED
  BY <1>5, <1>6, <1>7 DEF TaskInv

(* What waits behind an entry still waits behind it when the first is taken. *)
LEMMA OutputStepKeepsInv ==
    ASSUME TaskInv, parked' \in Seq(PeerId), input # <<>>, input' = Tail(input),
           UNCHANGED <<recv, send, map, inserted, closed, gone>>
    PROVE  TaskInv'
<1>1. TaskTypes /\ LeavingHaveLeft /\ TextsBeforeGone
  BY DEF TaskInv
<1>2. /\ input' \in Seq(PeerId \X {"text", "gone"})
      /\ Len(input') = Len(input) - 1
      /\ \A i \in DOMAIN input' : i + 1 \in DOMAIN input /\ input'[i] = input[i + 1] /\ i \in Nat
      /\ \A i \in DOMAIN input : i > 1 => i - 1 \in DOMAIN input' /\ input'[i - 1] = input[i]
      /\ DOMAIN input \subseteq Nat
  <2>. DEFINE S == PeerId \X {"text", "gone"}
  <2>1. input \in Seq(S)
    BY <1>1 DEF TaskTypes
  <2>. HIDE DEF S
  <2>2. /\ Tail(input) \in Seq(S)
        /\ Len(Tail(input)) = Len(input) - 1
        /\ \A i \in DOMAIN Tail(input) : /\ i + 1 \in DOMAIN input
                                         /\ Tail(input)[i] = input[i + 1]
                                         /\ i \in Nat
        /\ \A i \in DOMAIN input : \/ i = 1
                                   \/ /\ i - 1 \in DOMAIN Tail(input)
                                      /\ Tail(input)[i - 1] = input[i]
        /\ DOMAIN input \subseteq Nat
    BY <2>1, MovedUp
  <2>. QED
    BY <2>2 DEF S
<1>3. TaskTypes'
  BY <1>1, <1>2 DEF TaskTypes
<1>4. LeavingHaveLeft'
  BY <1>1, <1>2 DEF LeavingHaveLeft
<1>5. TextsBeforeGone'
  <2>. SUFFICES ASSUME NEW i \in DOMAIN input', input'[i][2] = "text"
                PROVE  \/ recv'[input'[i][1]] \in {"reading", "leaving"}
                       \/ \E j \in DOMAIN input' : j > i /\ input'[j] = <<input'[i][1], "gone">>
    BY DEF TextsBeforeGone, Alive
  <2>1. i + 1 \in DOMAIN input /\ input'[i] = input[i + 1] /\ i \in Nat
    BY <1>2
  <2>2. CASE recv[input[i + 1][1]] \in {"reading", "leaving"}
    BY <2>1, <2>2
  <2>3. ASSUME NEW j \in DOMAIN input, j > i + 1, input[j] = <<input[i + 1][1], "gone">>
        PROVE  \E k \in DOMAIN input' : k > i /\ input'[k] = <<input'[i][1], "gone">>
    <3>1. j \in Nat /\ j > 1 /\ j - 1 > i
      BY <1>2, <2>1, <2>3
    <3>2. j - 1 \in DOMAIN input' /\ input'[j - 1] = input[j]
      BY <1>2, <3>1
    <3>. QED
      BY <2>1, <2>3, <3>1, <3>2
  <2>. QED
    BY <1>1, <2>1, <2>2, <2>3 DEF TextsBeforeGone, Alive
<1>. QED
  BY <1>3, <1>4, <1>5 DEF TaskInv

(* The receive tasks that wait are those of peers. *)
LEMMA WaitingArePeers ==
    ASSUME parked \in Seq(PeerId), [ServerNext]_serverVars
    PROVE  parked' \in Seq(PeerId)
<1>1. CASE UNCHANGED channel
  BY <1>1 DEF channel
<1>2. ASSUME NEW p \in PeerId, NEW what, Enqueue(p, what) PROVE parked' \in Seq(PeerId)
  <2>1. Append(parked, p) \in Seq(PeerId)
    BY Appended
  <2>. QED
    BY <1>2, <2>1 DEF Enqueue
<1>3. CASE HandleInput
  <2>1. parked # <<>> => Tail(parked) \in Seq(PeerId)
    BY MovedUp
  <2>. QED
    BY <1>3, <2>1 DEF HandleInput, Unpark
<1>4. ASSUME NEW p \in PeerId,
             \/ Accept(p) \/ Insert(p) \/ Leave(p) \/ ReceiveEnd(p) \/ TakeOut(p)
             \/ CloseChannel(p) \/ FinishFlight(p) \/ SendTask(p)
      PROVE  UNCHANGED channel
  BY <1>4 DEF Accept, Insert, Leave, ReceiveEnd, TakeOut, CloseChannel, FinishFlight, SendTask,
              SendText, SendFails, SendClose, tasks
<1>5. CASE DispatchItem \/ UNCHANGED serverVars
  BY <1>1, <1>5 DEF DispatchItem, serverVars, tasks
<1>. QED
  BY <1>1, <1>2, <1>3, <1>4, <1>5 DEF ServerNext, HandlerLoop, LeaveSteps, ReceiveText, SayGone

(* Every step keeps the tasks where they can be. *)
LEMMA NextKeepsTaskInv ==
    ASSUME TaskInv, [ServerNext]_serverVars
    PROVE  TaskInv'
<1>0. parked' \in Seq(PeerId)
  BY WaitingArePeers DEF TaskInv, TaskTypes
<1>1. /\ TaskTypes /\ LeavingHaveLeft
      /\ recv \in [PeerId -> RecvState] /\ send \in [PeerId -> SendState]
      /\ map \subseteq PeerId /\ closed \subseteq PeerId /\ inserted \subseteq PeerId
      /\ map \subseteq inserted
  BY DEF TaskInv, TaskTypes
<1>2. CASE HandleInput
  BY <1>2, <1>0, OutputStepKeepsInv DEF HandleInput
<1>3. CASE DispatchItem \/ UNCHANGED serverVars
  <2>1. UNCHANGED <<input, recv, map, inserted, closed, send, gone>>
    BY <1>3 DEF channel, DispatchItem, serverVars, tasks, clients
  <2>. QED
    BY <1>1, <2>1, <1>0, TaskStepKeepsInv DEF Alive
<1>4. ASSUME NEW p \in PeerId, Accept(p) PROVE TaskInv'
  <2>1. /\ recv[p] = "off"
        /\ recv' = [recv EXCEPT ![p] = "reading"] /\ send' = [send EXCEPT ![p] = "running"]
        /\ UNCHANGED <<input, map, inserted, closed, gone>>
    BY <1>4 DEF channel, Accept, clients
  <2>2. recv' \in [PeerId -> RecvState] /\ send' \in [PeerId -> SendState]
    BY <1>1, <2>1 DEF RecvState, SendState
  <2>3. \A q \in PeerId : /\ recv'[q] = IF q = p THEN "reading" ELSE recv[q]
                          /\ send'[q] = IF q = p THEN "running" ELSE send[q]
    BY <1>1, <2>1
  <2>. QED
    BY <1>1, <2>1, <2>2, <2>3, <1>0, TaskStepKeepsInv DEF Alive
<1>5. ASSUME NEW p \in PeerId, Insert(p) \/ Leave(p) PROVE TaskInv'
  <2>1. /\ UNCHANGED <<input, recv, closed, send>>
        /\ \/ inserted' = inserted \cup {p} /\ map' = map \cup {p} /\ gone' = gone
           \/ UNCHANGED <<inserted, map>> /\ gone' = gone \cup {p}
    BY <1>5 DEF channel, Insert, Leave, clients, tasks
  <2>. QED
    BY <1>1, <2>1, <1>0, TaskStepKeepsInv DEF Alive
<1>6. ASSUME NEW p \in PeerId, ReceiveText(p) PROVE TaskInv'
  BY <1>6, <1>0, InputStepKeepsInv DEF Enqueue, ReceiveText, Alive
<1>7. ASSUME NEW p \in PeerId, ReceiveEnd(p) PROVE TaskInv'
  <2>1. /\ recv[p] = "reading" /\ p \in gone
        /\ recv' = [recv EXCEPT ![p] = "leaving"]
        /\ UNCHANGED <<input, map, inserted, closed, send, gone>>
    BY <1>7 DEF channel, ReceiveEnd, clients
  <2>2. recv' \in [PeerId -> RecvState]
    BY <1>1, <2>1 DEF RecvState
  <2>3. \A q \in PeerId : recv'[q] = IF q = p THEN "leaving" ELSE recv[q]
    BY <1>1, <2>1
  <2>. QED
    BY <1>1, <2>1, <2>2, <2>3, <1>0, TaskStepKeepsInv DEF Alive
<1>8. ASSUME NEW p \in PeerId, SayGone(p) PROVE TaskInv'
  <2>1. p \in gone
    BY <1>1, <1>8 DEF SayGone, LeavingHaveLeft
  <2>. QED
    BY <1>8, <2>1, <1>0, InputStepKeepsInv DEF Enqueue, SayGone, clients
<1>9. ASSUME NEW p \in PeerId, TakeOut(p) PROVE TaskInv'
  <2>1. /\ recv[p] = "removing"
        /\ recv' = [recv EXCEPT ![p] = IF p \in map THEN "removed" ELSE "ended"]
        /\ map' = map \ {p}
        /\ UNCHANGED <<input, inserted, closed, send, gone>>
    BY <1>9 DEF channel, TakeOut, clients
  <2>2. recv' \in [PeerId -> RecvState]
    BY <1>1, <2>1 DEF RecvState
  <2>3. \A q \in PeerId : recv'[q] = IF q = p THEN IF p \in map THEN "removed" ELSE "ended"
                                              ELSE recv[q]
    BY <1>1, <2>1
  <2>. QED
    BY <1>1, <2>1, <2>2, <2>3, <1>0, TaskStepKeepsInv DEF Alive
<1>10. ASSUME NEW p \in PeerId, CloseChannel(p) PROVE TaskInv'
  <2>1. /\ recv[p] = "removed"
        /\ recv' = [recv EXCEPT ![p] = "ended"]
        /\ closed' = closed \cup {p}
        /\ UNCHANGED <<input, map, inserted, send, gone>>
    BY <1>10 DEF channel, CloseChannel, clients
  <2>2. recv' \in [PeerId -> RecvState]
    BY <1>1, <2>1 DEF RecvState
  <2>3. \A q \in PeerId : recv'[q] = IF q = p THEN "ended" ELSE recv[q]
    BY <1>1, <2>1
  <2>. QED
    BY <1>1, <2>1, <2>2, <2>3, <1>0, TaskStepKeepsInv DEF Alive
<1>11. ASSUME NEW p \in PeerId, FinishFlight(p) \/ SendText(p) PROVE TaskInv'
  <2>1. UNCHANGED <<input, recv, map, inserted, closed, send, gone>>
    BY <1>11 DEF channel, FinishFlight, SendText, clients
  <2>. QED
    BY <1>1, <2>1, <1>0, TaskStepKeepsInv DEF Alive
<1>12. ASSUME NEW p \in PeerId, SendFails(p) \/ SendClose(p) PROVE TaskInv'
  <2>1. /\ p \in gone
        /\ send' = [send EXCEPT ![p] = "ended"]
        /\ UNCHANGED <<input, recv, map, inserted, closed, gone>>
    BY <1>1, <1>12 DEF channel, SendFails, SendClose, clients, LeavingHaveLeft
  <2>2. send' \in [PeerId -> SendState]
    BY <1>1, <2>1 DEF SendState
  <2>3. \A q \in PeerId : send'[q] = IF q = p THEN "ended" ELSE send[q]
    BY <1>1, <2>1
  <2>. QED
    BY <1>1, <2>1, <2>2, <2>3, <1>0, TaskStepKeepsInv DEF Alive
<1>. QED
  BY <1>2, <1>3, <1>4, <1>5, <1>6, <1>7, <1>8, <1>9, <1>10, <1>11, <1>12
     DEF ServerNext, HandlerLoop, LeaveSteps, SendTask

-----------------------------------------------------------------------------
(* The handler inside the server.                                          *)

(* Every step of the server is a step of the handler or leaves it alone.   *)
LEMMA ServerStepIsHandlerStep ==
    ASSUME TaskInv, [ServerNext]_serverVars
    PROVE  [Next]_vars
<1>1. CASE HandleInput
  <2>1. Head(input)[1] \in PeerId
    BY <1>1 DEF HandleInput, TaskInv, TaskTypes
  <2>2. ASSUME NEW p \in PeerId, items = <<>>, HandleText(p)
        PROVE  UNCHANGED vars \/ HandleMessage(p)
    BY <2>2 DEF HandleText, HandleMessage
  <2>3. ASSUME NEW p \in PeerId, items = <<>>, RemovePeer(p)
        PROVE  HandleGone(p)
    BY <2>3 DEF HandleGone
  <2>. QED
    BY <1>1, <2>1, <2>2, <2>3 DEF HandleInput, Next
<1>2. CASE DispatchItem
  BY <1>2 DEF DispatchItem, Next
<1>3. ASSUME NEW p \in PeerId,
             \/ Accept(p) \/ Insert(p) \/ Leave(p)
             \/ ReceiveText(p) \/ ReceiveEnd(p) \/ LeaveSteps(p)
             \/ FinishFlight(p) \/ SendTask(p)
      PROVE  UNCHANGED vars
  BY <1>3 DEF Accept, Insert, Leave, ReceiveText, ReceiveEnd, LeaveSteps, SayGone, TakeOut,
              CloseChannel, FinishFlight, SendTask, SendText, SendFails, SendClose
<1>4. CASE UNCHANGED serverVars
  BY <1>4 DEF serverVars
<1>. QED
  BY <1>1, <1>2, <1>3, <1>4 DEF ServerNext, HandlerLoop

(* The tasks are where they can be in every state of the server. *)
LEMMA TaskInvHolds == ServerSpec => []TaskInv
BY InitTaskInv, NextKeepsTaskInv, PTL DEF ServerSpec

(* A behaviour of the server is one of the handler, whatever the tasks     *)
(* around it do, so that what the handler relies on holds here as well.    *)
THEOREM ServerFollowsHandler == ServerSpec => Spec
<1>1. ServerInit => Init
  BY DEF ServerInit
<1>2. TaskInv /\ [ServerNext]_serverVars => [Next]_vars
  BY ServerStepIsHandlerStep
<1>. QED
  BY <1>1, <1>2, TaskInvHolds, PTL DEF ServerSpec, Spec

-----------------------------------------------------------------------------
(* Bags.                                                                   *)

BagsOf(S) == UNION {[T -> Nat \ {0}] : T \in SUBSET S}
Copies(bag, x) == IF x \in DOMAIN bag THEN bag[x] ELSE 0

(* How many copies of a message a bag holds, one more or one less.         *)
LEMMA CopiesType ==
    ASSUME NEW S, NEW bag \in BagsOf(S), NEW x
    PROVE  Copies(bag, x) \in Nat
BY DEF BagsOf, Copies

(* A message put in a bag is held once more, and no other. *)
LEMMA OneMore ==
    ASSUME NEW S, NEW bag \in BagsOf(S), NEW m \in S
    PROVE  /\ bag (+) SetToBag({m}) \in BagsOf(S)
           /\ \A x : Copies(bag (+) SetToBag({m}), x) =
                        Copies(bag, x) + (IF x = m THEN 1 ELSE 0)
<1>. DEFINE new == bag (+) SetToBag({m})
<1>1. PICK T \in SUBSET S : bag \in [T -> Nat \ {0}]
  BY DEF BagsOf
<1>2. new = [e \in T \cup {m} |-> Copies(bag, e) + (IF e = m THEN 1 ELSE 0)]
  BY <1>1 DEF (+), SetToBag, Copies
<1>3. \A e \in T \cup {m} : Copies(bag, e) + (IF e = m THEN 1 ELSE 0) \in Nat \ {0}
  BY <1>1 DEF Copies
<1>. HIDE DEF new
<1>4. new \in [T \cup {m} -> Nat \ {0}] /\ T \cup {m} \in SUBSET S
  BY <1>2, <1>3
<1>5. new \in BagsOf(S)
  BY <1>4 DEF BagsOf
<1>6. \A x : Copies(new, x) = Copies(bag, x) + (IF x = m THEN 1 ELSE 0)
  BY <1>1, <1>2 DEF Copies
<1>. QED
  BY <1>5, <1>6 DEF new

(* A message taken from a bag is held once less, and no other. *)
LEMMA OneLess ==
    ASSUME NEW S, NEW bag \in BagsOf(S), NEW m \in BagToSet(bag)
    PROVE  /\ bag (-) SetToBag({m}) \in BagsOf(S)
           /\ \A x : Copies(bag (-) SetToBag({m}), x) =
                        Copies(bag, x) - (IF x = m THEN 1 ELSE 0)
<1>. DEFINE new == bag (-) SetToBag({m})
            left == [e \in DOMAIN bag |-> IF e = m THEN bag[e] - 1 ELSE bag[e]]
            L == {e \in DOMAIN bag : left[e] > 0}
<1>1. PICK T \in SUBSET S : bag \in [T -> Nat \ {0}]
  BY DEF BagsOf
<1>2. m \in T
  BY <1>1 DEF BagToSet
<1>3. new = [e \in L |-> left[e]]
  BY <1>1 DEF (-), SetToBag
<1>4. \A e \in T : left[e] \in Nat /\ left[e] = bag[e] - (IF e = m THEN 1 ELSE 0)
  BY <1>1
<1>. HIDE DEF new, left
<1>5. L \in SUBSET S /\ \A e \in L : left[e] \in Nat \ {0}
  BY <1>1, <1>4
<1>6. new \in [L -> Nat \ {0}]
  BY <1>3, <1>5
<1>7. new \in BagsOf(S)
  BY <1>5, <1>6 DEF BagsOf
<1>8. \A x : Copies(new, x) = Copies(bag, x) - (IF x = m THEN 1 ELSE 0)
  <2>1. TAKE x
  <2>2. CASE x \in T /\ left[x] > 0
    BY <1>1, <1>3, <1>4, <2>2 DEF Copies
  <2>3. CASE x \in T /\ ~(left[x] > 0)
    <3>1. left[x] = 0 /\ x \notin L
      BY <1>4, <2>3
    <3>. QED
      BY <1>1, <1>3, <1>4, <2>3, <3>1 DEF Copies
  <2>4. CASE x \notin T
    BY <1>1, <1>2, <1>3, <2>4 DEF Copies
  <2>. QED
    BY <2>2, <2>3, <2>4
<1>. QED
  BY <1>7, <1>8 DEF new

-----------------------------------------------------------------------------
(* What is on its way to a peer.                                           *)

\* The messages on their way, and the client's own counts, have their types.
DeliveryTypes ==
    /\ flying \in [PeerId -> BagsOf(Message)]
    /\ out \in [PeerId -> Seq(Message)]
    /\ links \in [PeerId -> [PeerId -> Int]]

\* A message to p, in a task of its own or in the channel of p's send task.
Underway(p, msg) == Copies(flying[p], msg) + Times(out[p], msg)

\* A client that stays, and to whom no item was dropped, counts the sessions
\* the handler keeps, but for the starts that have not reached it and the ends
\* it has not heard of.
Settling(p, q) ==
    links[p][q] + StartsFor(p, q) + Underway(p, StartSessionMsg(q))
        = SessionCount(p, q) + EndsFor(p, q) + Underway(p, EndSessionMsg(q))
ServerBalance ==
    \A p, q \in PeerId : p \notin gone \cup missed => Settling(p, q)

Delivered == DeliveryTypes /\ ServerBalance

(* A number of messages is on its way. *)
LEMMA UnderwayType ==
    ASSUME DeliveryTypes, NEW p \in PeerId, NEW msg
    PROVE  Underway(p, msg) \in Nat
<1>1. flying[p] \in BagsOf(Message) /\ out[p] \in Seq(Message)
  BY DEF DeliveryTypes
<1>2. Copies(flying[p], msg) \in Nat
  BY <1>1, CopiesType
<1>3. Times(out[p], msg) \in Nat
  BY <1>1, TimesType
<1>. QED
  BY <1>2, <1>3 DEF Underway

\* A step that changes the sessions of a and b, a's count of them or what is
\* queued about them, and changes all by as much.
Accounted(a, b) ==
    links'[a][b] + StartsFor(a, b)' + SessionCount(a, b)
        = links[a][b] + EndsFor(a, b)' + SessionCount(a, b)'

(* What is accounted for keeps the balance of a client owed nothing. *)
LEMMA AccountedSettles ==
    ASSUME NEW a, NEW b, Accounted(a, b),
           links[a][b] \in Int, links'[a][b] \in Int,
           StartsFor(a, b)' \in Nat, EndsFor(a, b)' \in Nat,
           SessionCount(a, b) \in Nat, SessionCount(a, b)' \in Nat,
           NEW starting \in Nat, NEW ending \in Nat,
           links[a][b] + 0 + starting = SessionCount(a, b) + 0 + ending
    PROVE  links'[a][b] + StartsFor(a, b)' + starting
               = SessionCount(a, b)' + EndsFor(a, b)' + ending
BY DEF Accounted

(* A client counts one session more with one peer. *)
LEMMA CountOneUp ==
    ASSUME links \in [PeerId -> [PeerId -> Int]], NEW p \in PeerId, NEW q \in PeerId,
           links' = [links EXCEPT ![p][q] = @ + 1]
    PROVE  /\ links' \in [PeerId -> [PeerId -> Int]]
           /\ \A a, b \in PeerId :
                 links'[a][b] = links[a][b] + (IF a = p /\ b = q THEN 1 ELSE 0)
OBVIOUS

(* A client counts one session less with one peer. *)
LEMMA CountOneDown ==
    ASSUME links \in [PeerId -> [PeerId -> Int]], NEW p \in PeerId, NEW q \in PeerId,
           links' = [links EXCEPT ![p][q] = @ - 1]
    PROVE  /\ links' \in [PeerId -> [PeerId -> Int]]
           /\ \A a, b \in PeerId :
                 links'[a][b] = links[a][b] - (IF a = p /\ b = q THEN 1 ELSE 0)
OBVIOUS

(* What changes in the sessions is queued for the client or counted by it. *)
LEMMA AccountedWithOwn ==
    ASSUME NEW a, NEW b, links[a][b] \in Int, NEW own \in Nat,
           StartsFor(a, b)' \in Nat, EndsFor(a, b)' \in Nat,
           SessionCount(a, b) \in Nat, SessionCount(a, b)' \in Nat,
           \/ /\ EndsFor(a, b)' = 0
              /\ links'[a][b] = links[a][b] + own
              /\ SessionCount(a, b)' = SessionCount(a, b) + StartsFor(a, b)' + own
           \/ /\ StartsFor(a, b)' = 0
              /\ links'[a][b] = links[a][b] - own
              /\ SessionCount(a, b) = SessionCount(a, b)' + EndsFor(a, b)' + own
    PROVE  Accounted(a, b)
BY DEF Accounted

(* A request is accounted for at once: what it adds to or takes from the    *)
(* sessions of two peers, the requester has counted and the other one is   *)
(* being told.                                                             *)
LEMMA TextKeepsDelivered ==
    ASSUME TypeOK, TypeOK', SessionsAgree, Delivered, items = <<>>,
           NEW p \in PeerId, HandleText(p), UNCHANGED <<flying, out, gone, missed>>
    PROVE  Delivered'
<1>1. DeliveryTypes /\ ServerBalance
  BY DEF Delivered
<1>2. ASSUME links' \in [PeerId -> [PeerId -> Int]],
             \A a, b \in PeerId : Accounted(a, b)
      PROVE  Delivered'
  <2>1. ASSUME NEW a \in PeerId, NEW b \in PeerId, a \notin gone \cup missed
        PROVE  Settling(a, b)'
    <3>1. /\ StartsFor(a, b) = 0 /\ EndsFor(a, b) = 0
          /\ StartsFor(a, b)' \in Nat /\ EndsFor(a, b)' \in Nat
          /\ SessionCount(a, b) \in Nat /\ SessionCount(a, b)' \in Nat
      <4>1. StartsFor(a, b)' \in Nat /\ EndsFor(a, b)' \in Nat
        BY TimesType DEF TypeOK, StartsFor, EndsFor
      <4>. QED
        BY <4>1, NothingQueued DEF SessionCount
    <3>2. \A msg : Underway(a, msg) \in Nat /\ Underway(a, msg)' = Underway(a, msg)
      BY <1>1, UnderwayType DEF Underway
    <3>3. links[a][b] \in Int /\ links'[a][b] \in Int
      BY <1>1, <1>2 DEF DeliveryTypes
    <3>4. links[a][b] + StartsFor(a, b) + Underway(a, StartSessionMsg(b))
              = SessionCount(a, b) + EndsFor(a, b) + Underway(a, EndSessionMsg(b))
      BY <1>1, <2>1 DEF ServerBalance, Settling
    <3>5. Accounted(a, b)
      BY <1>2
    <3>6. /\ Underway(a, StartSessionMsg(b)) \in Nat
          /\ Underway(a, EndSessionMsg(b)) \in Nat
      BY <3>2
    <3>7. links'[a][b] + StartsFor(a, b)' + Underway(a, StartSessionMsg(b))
              = SessionCount(a, b)' + EndsFor(a, b)' + Underway(a, EndSessionMsg(b))
      <4>1. links[a][b] + 0 + Underway(a, StartSessionMsg(b))
                = SessionCount(a, b) + 0 + Underway(a, EndSessionMsg(b))
        BY <3>1, <3>4
      <4>2. \A s, e \in Nat :
                links[a][b] + 0 + s = SessionCount(a, b) + 0 + e
                => links'[a][b] + StartsFor(a, b)' + s
                       = SessionCount(a, b)' + EndsFor(a, b)' + e
        <5>1. StartsFor(a, b)' \in Nat /\ EndsFor(a, b)' \in Nat
              /\ SessionCount(a, b) \in Nat /\ SessionCount(a, b)' \in Nat
          BY <3>1
        <5>. QED
          BY <3>3, <3>5, <5>1, AccountedSettles
      <4>. QED
        BY <3>6, <4>1, <4>2
    <3>. QED
      BY <3>2, <3>7 DEF Settling
  <2>2. DeliveryTypes'
    BY <1>1, <1>2 DEF DeliveryTypes
  <2>. QED
    BY <2>1, <2>2 DEF Delivered, ServerBalance
<1>3. \A a, b \in PeerId : links[a][b] \in Int
  BY <1>1 DEF DeliveryTypes
<1>4. CASE UNCHANGED <<vars, links>>
  <2>1. ASSUME NEW a \in PeerId, NEW b \in PeerId PROVE Accounted(a, b)
    <3>1. /\ StartsFor(a, b)' = 0 /\ EndsFor(a, b)' = 0
          /\ SessionCount(a, b)' = SessionCount(a, b) /\ SessionCount(a, b) \in Nat
      BY <1>4, TimesEmpty, SessionCountType
         DEF vars, StartsFor, EndsFor, SessionCount, InSession, IsProducer
    <3>. QED
      BY <1>3, <1>4, <3>1 DEF Accounted
  <2>. QED
    BY <1>1, <1>2, <1>4, <2>1 DEF DeliveryTypes
<1>5. ASSUME links' = links,
             \/ \E m \in Meta : \/ RegisterProducer(p, m)
                                \/ RegisterConsumer(p, m)
                                \/ RegisterListener(p, m)
             \/ List(p)
             \/ \E q \in PeerId, inner \in Inner : PeerMessage(p, q, inner)
      PROVE  Delivered'
  <2>1. /\ \A a, b : InSession(a, b)' <=> InSession(a, b)
        /\ \A a, b : StartsFor(a, b)' = 0 /\ EndsFor(a, b)' = 0
    BY <1>5, RegisterTellsNothing, ForwardTellsNothing
  <2>2. ASSUME NEW a \in PeerId, NEW b \in PeerId PROVE Accounted(a, b)
    <3>1. SessionCount(a, b)' = SessionCount(a, b) /\ SessionCount(a, b) \in Nat
      BY <2>1 DEF SessionCount
    <3>. QED
      BY <1>3, <1>5, <2>1, <3>1 DEF Accounted
  <2>. QED
    BY <1>1, <1>2, <1>5, <2>2 DEF DeliveryTypes
<1>6. ASSUME NEW q \in PeerId, StartSession(p, q),
             links' = IF CanStart(p, q) THEN [links EXCEPT ![p][q] = @ + 1] ELSE links
      PROVE  Delivered'
  <2>. DEFINE Own(a, b) == IF CanStart(p, q) /\ a = p /\ b = q THEN 1 ELSE 0
  <2>1. links' \in [PeerId -> [PeerId -> Int]]
    BY <1>1, <1>6 DEF DeliveryTypes
  <2>2. \A a, b \in PeerId : Own(a, b) \in Nat /\ links'[a][b] = links[a][b] + Own(a, b)
    <3>1. CASE CanStart(p, q)
      <4>1. links' = [links EXCEPT ![p][q] = @ + 1]
        BY <1>6, <3>1
      <4>2. \A a, b \in PeerId :
                links'[a][b] = links[a][b] + (IF a = p /\ b = q THEN 1 ELSE 0)
        BY <1>1, <4>1, CountOneUp DEF DeliveryTypes
      <4>. QED
        BY <3>1, <4>2
    <3>2. CASE ~CanStart(p, q)
      BY <1>1, <1>3, <1>6, <3>2 DEF DeliveryTypes
    <3>. QED
      BY <3>1, <3>2
  <2>3. ASSUME NEW a \in PeerId, NEW b \in PeerId PROVE Accounted(a, b)
    <3>1. /\ EndsFor(a, b)' = 0
          /\ StartsFor(a, b)' \in {0, 1}
          /\ SessionCount(a, b)' = SessionCount(a, b) + StartsFor(a, b)' + Own(a, b)
      BY <1>6, StartSessionTells
    <3>2. SessionCount(a, b) \in Nat /\ SessionCount(a, b)' \in Nat
      BY DEF SessionCount
    <3>3. Own(a, b) \in Nat /\ links'[a][b] = links[a][b] + Own(a, b)
      BY <2>2
    <3>. HIDE DEF Own
    <3>4. StartsFor(a, b)' \in Nat /\ EndsFor(a, b)' \in Nat /\ links[a][b] \in Int
      BY <1>3, <3>1
    <3>. QED
      BY <3>1, <3>2, <3>3, <3>4, AccountedWithOwn
  <2>. QED
    BY <1>2, <2>1, <2>3
<1>7. ASSUME NEW q \in PeerId, EndSession(p, q),
             links' = IF AsProducer(p, q) \/ AsConsumer(p, q)
                         THEN [links EXCEPT ![p][q] = @ - 1] ELSE links
      PROVE  Delivered'
  <2>. DEFINE Ends == AsProducer(p, q) \/ AsConsumer(p, q)
              Own(a, b) == IF Ends /\ a = p /\ b = q THEN 1 ELSE 0
  <2>1. links' \in [PeerId -> [PeerId -> Int]]
    BY <1>1, <1>7 DEF DeliveryTypes
  <2>2. \A a, b \in PeerId : Own(a, b) \in Nat /\ links'[a][b] = links[a][b] - Own(a, b)
    <3>1. CASE Ends
      <4>1. links' = [links EXCEPT ![p][q] = @ - 1]
        BY <1>7, <3>1
      <4>2. \A a, b \in PeerId :
                links'[a][b] = links[a][b] - (IF a = p /\ b = q THEN 1 ELSE 0)
        BY <1>1, <4>1, CountOneDown DEF DeliveryTypes
      <4>. QED
        BY <3>1, <4>2
    <3>2. CASE ~Ends
      BY <1>1, <1>3, <1>7, <3>2 DEF DeliveryTypes
    <3>. QED
      BY <3>1, <3>2
  <2>3. ASSUME NEW a \in PeerId, NEW b \in PeerId PROVE Accounted(a, b)
    <3>1. /\ StartsFor(a, b)' = 0
          /\ EndsFor(a, b)' \in {0, 1}
          /\ SessionCount(a, b) = SessionCount(a, b)' + EndsFor(a, b)' + Own(a, b)
      BY <1>7, EndSessionTells
    <3>2. SessionCount(a, b) \in Nat /\ SessionCount(a, b)' \in Nat
      BY DEF SessionCount
    <3>3. Own(a, b) \in Nat /\ links'[a][b] = links[a][b] - Own(a, b)
      BY <2>2
    <3>. HIDE DEF Own
    <3>4. StartsFor(a, b)' \in Nat /\ EndsFor(a, b)' \in Nat /\ links[a][b] \in Int
      BY <1>3, <3>1
    <3>. QED
      BY <3>1, <3>2, <3>3, <3>4, AccountedWithOwn
  <2>. QED
    BY <1>2, <2>1, <2>3
<1>. QED
  BY <1>4, <1>5, <1>6, <1>7 DEF HandleText

(* A departure is accounted for to every client but the departed one. *)
LEMMA GoneKeepsDelivered ==
    ASSUME TypeOK, SessionsAgree, Delivered, items = <<>>,
           NEW p \in PeerId, p \in gone, RemovePeer(p),
           UNCHANGED <<flying, out, links, gone, missed>>
    PROVE  Delivered'
<1>1. DeliveryTypes /\ ServerBalance
  BY DEF Delivered
<1>2. ASSUME NEW a \in PeerId, NEW b \in PeerId, a \notin gone \cup missed
      PROVE  Settling(a, b)'
  <2>1. StartsFor(a, b) = 0 /\ EndsFor(a, b) = 0
    BY NothingQueued
  <2>2. /\ StartsFor(a, b)' = 0
        /\ EndsFor(a, b)' \in Nat
        /\ SessionCount(a, b) = SessionCount(a, b)' + EndsFor(a, b)'
    BY <1>2, RemovePeerTells
  <2>3. SessionCount(a, b)' \in Nat /\ links[a][b] \in Int
    BY <1>1 DEF SessionCount, DeliveryTypes
  <2>4. \A msg : Underway(a, msg) \in Nat /\ Underway(a, msg)' = Underway(a, msg)
    BY <1>1, UnderwayType DEF Underway
  <2>5. links[a][b] + StartsFor(a, b) + Underway(a, StartSessionMsg(b))
            = SessionCount(a, b) + EndsFor(a, b) + Underway(a, EndSessionMsg(b))
    BY <1>1, <1>2 DEF ServerBalance, Settling
  <2>6. links[a][b] + StartsFor(a, b)' + Underway(a, StartSessionMsg(b))
            = SessionCount(a, b)' + EndsFor(a, b)' + Underway(a, EndSessionMsg(b))
    BY <2>1, <2>2, <2>3, <2>4, <2>5
  <2>. QED
    BY <2>4, <2>6 DEF Settling
<1>. QED
  BY <1>1, <1>2 DEF Delivered, ServerBalance, DeliveryTypes

(* An item for a peer in the map goes on its way; a dropped one is missed. *)
LEMMA DispatchKeepsDelivered ==
    ASSUME TypeOK, TypeOK', Delivered, DispatchItem
    PROVE  Delivered'
<1>1. DeliveryTypes /\ ServerBalance
  BY DEF Delivered
<1>. DEFINE to == Head(items)[1]
            msg == Head(items)[2]
<1>2. /\ PopItem /\ UNCHANGED <<out, links, gone>>
      /\ \/ /\ flying' = [flying EXCEPT ![to] = @ (+) SetToBag({msg})]
            /\ missed' = missed
         \/ /\ missed' = missed \cup {to}
            /\ flying' = flying
  BY DEF DispatchItem
<1>3. Head(items) \in Item /\ Head(items) = <<to, msg>> /\ to \in PeerId /\ msg \in Message
  BY <1>2 DEF PopItem, TypeOK, Item
<1>. HIDE DEF to, msg
<1>4. flying[to] \in BagsOf(Message)
  BY <1>1, <1>3 DEF DeliveryTypes
<1>5. flying[to] (+) SetToBag({msg}) \in BagsOf(Message)
  BY <1>3, <1>4, OneMore
<1>6. DeliveryTypes'
  BY <1>1, <1>2, <1>5 DEF DeliveryTypes
<1>7. ASSUME NEW a \in PeerId, NEW b \in PeerId, a \notin (gone \cup missed)'
      PROVE  Settling(a, b)'
  <2>1. a \notin gone \cup missed
    BY <1>2, <1>7
  <2>2. ASSUME NEW x
        PROVE  Underway(a, x)' = Underway(a, x) + (IF a = to /\ x = msg THEN 1 ELSE 0)
    <3>1. CASE a = to
      <4>1. flying' = [flying EXCEPT ![to] = flying[to] (+) SetToBag({msg})]
        BY <1>2, <1>7, <3>1
      <4>2. flying'[to] = flying[to] (+) SetToBag({msg})
        BY <1>1, <1>3, <4>1 DEF DeliveryTypes
      <4>3. Copies(flying'[to], x) = Copies(flying[to], x) + (IF x = msg THEN 1 ELSE 0)
        BY <1>3, <1>4, <4>2, OneMore
      <4>4. Copies(flying[to], x) \in Nat /\ Times(out[a], x) \in Nat
        BY <1>1, <1>4, CopiesType, TimesType DEF DeliveryTypes
      <4>5. out'[a] = out[a]
        BY <1>2
      <4>. QED
        BY <3>1, <4>3, <4>4, <4>5 DEF Underway
    <3>2. CASE a # to
      <4>1. flying'[a] = flying[a] /\ out'[a] = out[a]
        BY <1>1, <1>2, <3>2 DEF DeliveryTypes
      <4>2. Underway(a, x) \in Nat
        BY <1>1, UnderwayType
      <4>. QED
        BY <3>2, <4>1, <4>2 DEF Underway
    <3>. QED
      BY <3>1, <3>2
  <2>3. /\ StartsFor(a, b) = StartsFor(a, b)'
             + (IF a = to /\ StartSessionMsg(b) = msg THEN 1 ELSE 0)
        /\ EndsFor(a, b) = EndsFor(a, b)'
             + (IF a = to /\ EndSessionMsg(b) = msg THEN 1 ELSE 0)
        /\ StartsFor(a, b)' \in Nat /\ EndsFor(a, b)' \in Nat
        /\ SessionCount(a, b)' = SessionCount(a, b) /\ SessionCount(a, b) \in Nat
    <3>1. StartsFor(a, b)' \in Nat /\ EndsFor(a, b)' \in Nat
      BY TimesType DEF TypeOK, StartsFor, EndsFor
    <3>2. \A x : Times(items, x) = Times(items', x) + (IF x = Head(items) THEN 1 ELSE 0)
      BY <1>2, TimesTail DEF PopItem, TypeOK
    <3>3. SessionCount(a, b)' = SessionCount(a, b)
      BY <1>2 DEF PopItem, peers, SessionCount, InSession, IsProducer
    <3>. QED
      BY <1>3, <3>1, <3>2, <3>3, SessionCountType DEF StartsFor, EndsFor
  <2>4. \A x : Underway(a, x) \in Nat
    BY <1>1, UnderwayType
  <2>5. links'[a][b] = links[a][b] /\ links[a][b] \in Int
    BY <1>1, <1>2 DEF DeliveryTypes
  <2>6. links[a][b] + StartsFor(a, b) + Underway(a, StartSessionMsg(b))
            = SessionCount(a, b) + EndsFor(a, b) + Underway(a, EndSessionMsg(b))
    BY <1>1, <2>1 DEF ServerBalance, Settling
  <2>7. /\ Underway(a, StartSessionMsg(b))' = Underway(a, StartSessionMsg(b))
             + (IF a = to /\ StartSessionMsg(b) = msg THEN 1 ELSE 0)
        /\ Underway(a, EndSessionMsg(b))' = Underway(a, EndSessionMsg(b))
             + (IF a = to /\ EndSessionMsg(b) = msg THEN 1 ELSE 0)
    BY <2>2
  <2>8. links'[a][b] + StartsFor(a, b)' + Underway(a, StartSessionMsg(b))'
            = SessionCount(a, b)' + EndsFor(a, b)' + Underway(a, EndSessionMsg(b))'
    BY <2>3, <2>4, <2>5, <2>6, <2>7
  <2>. QED
    BY <2>8 DEF Settling
<1>. QED
  BY <1>6, <1>7 DEF Delivered, ServerBalance

-----------------------------------------------------------------------------
(* The spawned tasks, the send tasks and the clients.                      *)

(* A step of theirs keeps the balance when, for the clients that stay, it  *)
(* moves the count by the messages it takes off their way.                 *)
LEMMA ClientStepKeepsDelivered ==
    ASSUME TypeOK, Delivered, UNCHANGED <<items, producers, missed>>,
           gone \subseteq gone', DeliveryTypes',
           \A a, b \in PeerId : a \notin gone' =>
               links'[a][b] + Underway(a, StartSessionMsg(b))' + Underway(a, EndSessionMsg(b))
               = links[a][b] + Underway(a, StartSessionMsg(b)) + Underway(a, EndSessionMsg(b))'
    PROVE  Delivered'
<1>1. DeliveryTypes /\ ServerBalance
  BY DEF Delivered
<1>2. ASSUME NEW a \in PeerId, NEW b \in PeerId, a \notin (gone \cup missed)'
      PROVE  Settling(a, b)'
  <2>1. /\ StartsFor(a, b)' = StartsFor(a, b) /\ EndsFor(a, b)' = EndsFor(a, b)
        /\ SessionCount(a, b)' = SessionCount(a, b)
    BY DEF StartsFor, EndsFor, SessionCount, InSession, IsProducer
  <2>2. /\ StartsFor(a, b) \in Nat /\ EndsFor(a, b) \in Nat
        /\ SessionCount(a, b) \in Nat
    <3>1. SessionCount(a, b) \in Nat
      BY DEF SessionCount
    <3>. QED
      BY <3>1, OwedType
  <2>3. \A x : Underway(a, x) \in Nat
    BY <1>1, UnderwayType
  <2>4. ASSUME NEW x PROVE Underway(a, x)' \in Nat
    <3>1. flying'[a] \in BagsOf(Message) /\ out'[a] \in Seq(Message)
      BY DEF DeliveryTypes
    <3>2. Copies(flying'[a], x) \in Nat
      BY <3>1, CopiesType
    <3>3. Times(out'[a], x) \in Nat
      BY <3>1, TimesType
    <3>. QED
      BY <3>2, <3>3 DEF Underway
  <2>5. links[a][b] \in Int /\ links'[a][b] \in Int
    BY <1>1 DEF DeliveryTypes
  <2>6. links[a][b] + StartsFor(a, b) + Underway(a, StartSessionMsg(b))
            = SessionCount(a, b) + EndsFor(a, b) + Underway(a, EndSessionMsg(b))
    BY <1>1, <1>2 DEF ServerBalance, Settling
  <2>7. links'[a][b] + Underway(a, StartSessionMsg(b))' + Underway(a, EndSessionMsg(b))
            = links[a][b] + Underway(a, StartSessionMsg(b)) + Underway(a, EndSessionMsg(b))'
    BY <1>2
  <2>8. links'[a][b] + StartsFor(a, b) + Underway(a, StartSessionMsg(b))'
            = SessionCount(a, b) + EndsFor(a, b) + Underway(a, EndSessionMsg(b))'
    BY <2>2, <2>3, <2>4, <2>5, <2>6, <2>7
  <2>. QED
    BY <2>1, <2>8 DEF Settling
<1>. QED
  BY <1>2 DEF Delivered, ServerBalance

(* A task hands its message over: the client that stays still has it to    *)
(* come, and what a closed channel refuses was for one that left.          *)
LEMMA FlightKeepsDelivered ==
    ASSUME TypeOK, TaskInv, Delivered, NEW p \in PeerId, FinishFlight(p)
    PROVE  Delivered'
<1>1. DeliveryTypes /\ LeavingHaveLeft
  BY DEF Delivered, TaskInv
<1>2. PICK msg \in BagToSet(flying[p]) :
          /\ flying' = [flying EXCEPT ![p] = @ (-) SetToBag({msg})]
          /\ out' = Buffer(p, msg)
          /\ UNCHANGED <<vars, closed, send, gone, links, missed>>
  BY DEF FinishFlight, clients
<1>. DEFINE less == flying[p] (-) SetToBag({msg})
<1>3. flying[p] \in BagsOf(Message) /\ out[p] \in Seq(Message)
  BY <1>1 DEF DeliveryTypes
<1>4. msg \in Message
  BY <1>2, <1>3 DEF BagsOf, BagToSet
<1>5. /\ less \in BagsOf(Message)
      /\ \A x : Copies(less, x) = Copies(flying[p], x) - (IF x = msg THEN 1 ELSE 0)
  BY <1>2, <1>3, OneLess
<1>6. flying' = [flying EXCEPT ![p] = less]
  BY <1>2
<1>. HIDE DEF less
<1>7. \/ out' = [out EXCEPT ![p] = Append(out[p], msg)]
      \/ out' = out /\ p \in gone
  BY <1>1, <1>2 DEF Buffer, LeavingHaveLeft
<1>8. Append(out[p], msg) \in Seq(Message)
  BY <1>3, <1>4
<1>9. DeliveryTypes'
  <2>1. flying' \in [PeerId -> BagsOf(Message)]
    BY <1>1, <1>5, <1>6 DEF DeliveryTypes
  <2>2. out' \in [PeerId -> Seq(Message)]
    BY <1>1, <1>7, <1>8 DEF DeliveryTypes
  <2>. QED
    BY <1>1, <1>2, <2>1, <2>2 DEF DeliveryTypes
<1>10. ASSUME NEW a \in PeerId, a \notin gone', NEW x
       PROVE  Underway(a, x)' = Underway(a, x)
  <2>1. CASE a = p
    <3>1. out' = [out EXCEPT ![p] = Append(out[p], msg)]
      BY <1>2, <1>7, <1>10, <2>1
    <3>2. flying'[p] = less /\ out'[p] = Append(out[p], msg)
      BY <1>1, <1>6, <3>1 DEF DeliveryTypes
    <3>3. Times(out'[p], x) = Times(out[p], x) + (IF x = msg THEN 1 ELSE 0)
      BY <1>3, <1>4, <3>2, TimesAppend
    <3>4. Copies(flying'[p], x) = Copies(flying[p], x) - (IF x = msg THEN 1 ELSE 0)
      BY <1>5, <3>2
    <3>5. Times(out[p], x) \in Nat /\ Copies(flying[p], x) \in Nat
      BY <1>3, TimesType, CopiesType
    <3>. QED
      BY <2>1, <3>3, <3>4, <3>5 DEF Underway
  <2>2. CASE a # p
    <3>1. flying'[a] = flying[a] /\ out'[a] = out[a]
      BY <1>1, <1>6, <1>7, <2>2 DEF DeliveryTypes
    <3>. QED
      BY <3>1 DEF Underway
  <2>. QED
    BY <2>1, <2>2
<1>11. ASSUME NEW a \in PeerId, NEW b \in PeerId, a \notin gone'
       PROVE  links'[a][b] + Underway(a, StartSessionMsg(b))' + Underway(a, EndSessionMsg(b))
              = links[a][b] + Underway(a, StartSessionMsg(b)) + Underway(a, EndSessionMsg(b))'
  BY <1>2, <1>10, <1>11
<1>12. UNCHANGED <<items, producers, missed>> /\ gone \subseteq gone'
  BY <1>2 DEF vars
<1>. QED
  BY <1>9, <1>11, <1>12, ClientStepKeepsDelivered

(* The client reads a message: it counts what was on its way to it.        *)
LEMMA SendKeepsDelivered ==
    ASSUME TypeOK, Delivered, NEW p \in PeerId, SendText(p)
    PROVE  Delivered'
<1>1. DeliveryTypes
  BY DEF Delivered
<1>. DEFINE msg == Head(out[p])
<1>2. /\ out[p] # <<>>
      /\ out' = [out EXCEPT ![p] = Tail(out[p])]
      /\ UNCHANGED <<items, producers, missed, gone, flying>>
      /\ links' = CASE msg.type = "startSession" -> [links EXCEPT ![p][msg.peer] = @ + 1]
                    [] msg.type = "endSession"   -> [links EXCEPT ![p][msg.peer] = @ - 1]
                    [] OTHER -> links
  BY DEF SendText, vars
<1>3. out[p] \in Seq(Message)
  BY <1>1 DEF DeliveryTypes
<1>4. msg \in Message /\ Tail(out[p]) \in Seq(Message)
  BY <1>2, <1>3
<1>5. \A x : Times(out[p], x) = Times(Tail(out[p]), x) + (IF x = msg THEN 1 ELSE 0)
  BY <1>2, <1>3, TimesTail
<1>. HIDE DEF msg
<1>6. ASSUME NEW a \in PeerId, NEW x
      PROVE  /\ Underway(a, x) = Underway(a, x)' + (IF a = p /\ x = msg THEN 1 ELSE 0)
             /\ Underway(a, x)' \in Nat
  <2>1. Copies(flying[a], x) \in Nat
    BY <1>1, CopiesType DEF DeliveryTypes
  <2>2. CASE a = p
    <3>1. out'[p] = Tail(out[p]) /\ flying'[p] = flying[p]
      BY <1>1, <1>2 DEF DeliveryTypes
    <3>2. Times(out'[p], x) \in Nat
      BY <1>4, <3>1, TimesType
    <3>. QED
      BY <1>5, <2>1, <2>2, <3>1, <3>2 DEF Underway
  <2>3. CASE a # p
    <3>1. out'[a] = out[a] /\ flying'[a] = flying[a]
      BY <1>1, <1>2, <2>3 DEF DeliveryTypes
    <3>2. Underway(a, x) \in Nat
      BY <1>1, UnderwayType
    <3>. QED
      BY <2>3, <3>1, <3>2 DEF Underway
  <2>. QED
    BY <2>2, <2>3
<1>7. ASSUME links' \in [PeerId -> [PeerId -> Int]],
             \A a, b \in PeerId :
                 links'[a][b] = links[a][b]
                              + (IF a = p /\ msg = StartSessionMsg(b) THEN 1 ELSE 0)
                              - (IF a = p /\ msg = EndSessionMsg(b) THEN 1 ELSE 0)
      PROVE  Delivered'
  <2>1. out' \in [PeerId -> Seq(Message)]
    BY <1>1, <1>2, <1>4 DEF DeliveryTypes
  <2>2. DeliveryTypes'
    BY <1>1, <1>2, <1>7, <2>1 DEF DeliveryTypes
  <2>3. ASSUME NEW a \in PeerId, NEW b \in PeerId
        PROVE  links'[a][b] + Underway(a, StartSessionMsg(b))' + Underway(a, EndSessionMsg(b))
               = links[a][b] + Underway(a, StartSessionMsg(b)) + Underway(a, EndSessionMsg(b))'
    <3>1. links[a][b] \in Int
      BY <1>1 DEF DeliveryTypes
    <3>2. links'[a][b] = links[a][b]
                       + (IF a = p /\ msg = StartSessionMsg(b) THEN 1 ELSE 0)
                       - (IF a = p /\ msg = EndSessionMsg(b) THEN 1 ELSE 0)
      BY <1>7
    <3>3. /\ Underway(a, StartSessionMsg(b)) = Underway(a, StartSessionMsg(b))'
               + (IF a = p /\ msg = StartSessionMsg(b) THEN 1 ELSE 0)
          /\ Underway(a, StartSessionMsg(b))' \in Nat
      BY <1>6
    <3>4. /\ Underway(a, EndSessionMsg(b)) = Underway(a, EndSessionMsg(b))'
               + (IF a = p /\ msg = EndSessionMsg(b) THEN 1 ELSE 0)
          /\ Underway(a, EndSessionMsg(b))' \in Nat
      BY <1>6
    <3>. QED
      BY <3>1, <3>2, <3>3, <3>4
  <2>. QED
    BY <1>2, <2>2, <2>3, ClientStepKeepsDelivered
<1>8. links \in [PeerId -> [PeerId -> Int]]
  BY <1>1 DEF DeliveryTypes
<1>9. CASE msg.type = "startSession"
  <2>1. PICK s \in PeerId : s = msg.peer /\ msg = StartSessionMsg(s)
    BY <1>4, <1>9, FieldsOfMessages
  <2>2. links' = [links EXCEPT ![p][s] = @ + 1]
    BY <1>2, <1>9, <2>1
  <2>3. /\ links' \in [PeerId -> [PeerId -> Int]]
        /\ \A a, b \in PeerId : links'[a][b] = links[a][b] + (IF a = p /\ b = s THEN 1 ELSE 0)
    BY <1>8, <2>2, CountOneUp
  <2>4. \A b \in PeerId : (msg = StartSessionMsg(b) <=> b = s) /\ msg # EndSessionMsg(b)
    BY <2>1, SessionMessages
  <2>5. ASSUME NEW a \in PeerId, NEW b \in PeerId
        PROVE  links'[a][b] = links[a][b]
                            + (IF a = p /\ msg = StartSessionMsg(b) THEN 1 ELSE 0)
                            - (IF a = p /\ msg = EndSessionMsg(b) THEN 1 ELSE 0)
    <3>1. /\ links[a][b] \in Int
          /\ links'[a][b] = links[a][b] + (IF a = p /\ b = s THEN 1 ELSE 0)
          /\ (msg = StartSessionMsg(b) <=> b = s) /\ msg # EndSessionMsg(b)
      BY <1>8, <2>3, <2>4
    <3>. QED
      BY <3>1
  <2>. QED
    BY <1>7, <2>3, <2>5
<1>10. CASE msg.type = "endSession"
  <2>1. PICK s \in PeerId : s = msg.peer /\ msg = EndSessionMsg(s)
    BY <1>4, <1>10, FieldsOfMessages
  <2>2. links' = [links EXCEPT ![p][s] = @ - 1]
    BY <1>2, <1>10, <2>1
  <2>3. /\ links' \in [PeerId -> [PeerId -> Int]]
        /\ \A a, b \in PeerId : links'[a][b] = links[a][b] - (IF a = p /\ b = s THEN 1 ELSE 0)
    BY <1>8, <2>2, CountOneDown
  <2>4. \A b \in PeerId : (msg = EndSessionMsg(b) <=> b = s) /\ msg # StartSessionMsg(b)
    BY <2>1, SessionMessages
  <2>5. ASSUME NEW a \in PeerId, NEW b \in PeerId
        PROVE  links'[a][b] = links[a][b]
                            + (IF a = p /\ msg = StartSessionMsg(b) THEN 1 ELSE 0)
                            - (IF a = p /\ msg = EndSessionMsg(b) THEN 1 ELSE 0)
    <3>1. /\ links[a][b] \in Int
          /\ links'[a][b] = links[a][b] - (IF a = p /\ b = s THEN 1 ELSE 0)
          /\ (msg = EndSessionMsg(b) <=> b = s) /\ msg # StartSessionMsg(b)
      BY <1>8, <2>3, <2>4
    <3>. QED
      BY <3>1
  <2>. QED
    BY <1>7, <2>3, <2>5
<1>11. CASE msg.type \notin {"startSession", "endSession"}
  <2>1. links' = links
    BY <1>2, <1>11
  <2>2. \A b \in PeerId : msg # StartSessionMsg(b) /\ msg # EndSessionMsg(b)
    BY <1>11, SessionMessages
  <2>3. \A a, b \in PeerId : links[a][b] \in Int
    BY <1>8
  <2>. QED
    BY <1>7, <1>8, <2>1, <2>2, <2>3
<1>. QED
  BY <1>9, <1>10, <1>11

(* A send task fails only for a client that left.                          *)
LEMMA FailureKeepsDelivered ==
    ASSUME TypeOK, Delivered, NEW p \in PeerId, SendFails(p)
    PROVE  Delivered'
<1>1. DeliveryTypes
  BY DEF Delivered
<1>2. /\ p \in gone /\ out' = [out EXCEPT ![p] = <<>>]
      /\ UNCHANGED <<items, producers, missed, gone, flying, links>>
  BY DEF SendFails, vars, clients
<1>3. <<>> \in Seq(Message)
  OBVIOUS
<1>4. DeliveryTypes'
  BY <1>1, <1>2, <1>3 DEF DeliveryTypes
<1>5. \A a \in PeerId : a \notin gone' => out'[a] = out[a]
  BY <1>1, <1>2 DEF DeliveryTypes
<1>6. ASSUME NEW a \in PeerId, NEW b \in PeerId, a \notin gone'
      PROVE  links'[a][b] + Underway(a, StartSessionMsg(b))' + Underway(a, EndSessionMsg(b))
             = links[a][b] + Underway(a, StartSessionMsg(b)) + Underway(a, EndSessionMsg(b))'
  BY <1>2, <1>5, <1>6 DEF Underway
<1>. QED
  BY <1>2, <1>4, <1>6, ClientStepKeepsDelivered

(* A step that leaves the messages and the counts alone, even a departure. *)
LEMMA OtherKeepsDelivered ==
    ASSUME TypeOK, Delivered, gone \subseteq gone',
           UNCHANGED <<items, producers, missed, flying, out, links>>
    PROVE  Delivered'
<1>1. DeliveryTypes'
  BY DEF Delivered, DeliveryTypes
<1>2. ASSUME NEW a \in PeerId, NEW b \in PeerId
      PROVE  links'[a][b] + Underway(a, StartSessionMsg(b))' + Underway(a, EndSessionMsg(b))
             = links[a][b] + Underway(a, StartSessionMsg(b)) + Underway(a, EndSessionMsg(b))'
  BY DEF Underway
<1>. QED
  BY <1>1, <1>2, ClientStepKeepsDelivered

(* Every step leaves what each client that stays is owed on its way to it. *)
LEMMA NextKeepsDelivered ==
    ASSUME TypeOK, TypeOK', SessionsAgree, TaskInv, Delivered, [ServerNext]_serverVars
    PROVE  Delivered'
<1>1. CASE HandleInput
  <2>. DEFINE p == Head(input)[1]
  <2>1. /\ items = <<>> /\ input # <<>>
        /\ UNCHANGED <<flying, out, gone, missed>>
        /\ \/ HandleText(p)
           \/ Head(input)[2] = "gone" /\ RemovePeer(p) /\ UNCHANGED links
    BY <1>1 DEF HandleInput
  <2>2. input \in Seq(PeerId \X {"text", "gone"})
    BY DEF TaskInv, TaskTypes
  <2>3. 1 \in DOMAIN input /\ input[1] = Head(input) /\ Head(input) \in PeerId \X {"text", "gone"}
    BY <2>1, <2>2, MovedUp
  <2>4. p \in PeerId /\ Head(input) = <<p, Head(input)[2]>>
    BY <2>3
  <2>5. CASE HandleText(p)
    BY <2>1, <2>4, <2>5, TextKeepsDelivered
  <2>6. CASE Head(input)[2] = "gone" /\ RemovePeer(p) /\ UNCHANGED links
    <3>1. p \in gone
      BY <2>3, <2>4, <2>6 DEF TaskInv, LeavingHaveLeft
    <3>. QED
      BY <2>1, <2>4, <2>6, <3>1, GoneKeepsDelivered
  <2>. QED
    BY <2>1, <2>5, <2>6
<1>2. CASE DispatchItem
  BY <1>2, DispatchKeepsDelivered
<1>3. ASSUME NEW p \in PeerId, FinishFlight(p) PROVE Delivered'
  BY <1>3, FlightKeepsDelivered
<1>4. ASSUME NEW p \in PeerId, SendText(p) PROVE Delivered'
  BY <1>4, SendKeepsDelivered
<1>5. ASSUME NEW p \in PeerId, SendFails(p) PROVE Delivered'
  BY <1>5, FailureKeepsDelivered
<1>6. ASSUME NEW p \in PeerId,
             \/ Accept(p) \/ Insert(p) \/ Leave(p)
             \/ ReceiveText(p) \/ ReceiveEnd(p) \/ LeaveSteps(p) \/ SendClose(p)
      PROVE  Delivered'
  <2>1. gone \subseteq gone' /\ UNCHANGED <<items, producers, missed, flying, out, links>>
    BY <1>6 DEF Accept, Insert, Leave, ReceiveText, ReceiveEnd, LeaveSteps, SayGone, TakeOut,
                CloseChannel, SendClose, vars, tasks, clients
  <2>. QED
    BY <2>1, OtherKeepsDelivered
<1>7. CASE UNCHANGED serverVars
  <2>1. gone \subseteq gone' /\ UNCHANGED <<items, producers, missed, flying, out, links>>
    BY <1>7 DEF serverVars, vars, tasks, clients
  <2>. QED
    BY <2>1, OtherKeepsDelivered
<1>. QED
  BY <1>1, <1>2, <1>3, <1>4, <1>5, <1>6, <1>7 DEF ServerNext, HandlerLoop, SendTask

(* At the start every client counts nothing and is owed nothing. *)
LEMMA InitDelivered == ServerInit => Delivered
<1>. SUFFICES ASSUME ServerInit PROVE Delivered
  OBVIOUS
<1>1. /\ items = <<>> /\ DOMAIN producers = {}
      /\ flying = [p \in PeerId |-> EmptyBag]
      /\ out = [p \in PeerId |-> <<>>]
      /\ links = [p \in PeerId |-> [q \in PeerId |-> 0]]
  BY DEF ServerInit, Init
<1>2. EmptyBag \in BagsOf(Message) /\ \A x : Copies(EmptyBag, x) = 0
  <2>1. DOMAIN EmptyBag = {} /\ EmptyBag \in [{} -> Nat \ {0}]
    BY DEF EmptyBag, SetToBag
  <2>. QED
    BY <2>1 DEF BagsOf, Copies
<1>3. <<>> \in Seq(Message)
  OBVIOUS
<1>4. DeliveryTypes
  BY <1>1, <1>2, <1>3 DEF DeliveryTypes
<1>5. ASSUME NEW p \in PeerId, NEW q \in PeerId
      PROVE  Settling(p, q)
  <2>1. \A x : Underway(p, x) = 0
    BY <1>1, <1>2, TimesEmpty DEF Underway
  <2>2. StartsFor(p, q) = 0 /\ EndsFor(p, q) = 0
    BY <1>1, NothingQueued
  <2>3. SessionCount(p, q) = 0 /\ links[p][q] = 0
    BY <1>1 DEF SessionCount, InSession, IsProducer
  <2>. QED
    BY <2>1, <2>2, <2>3 DEF Settling
<1>. QED
  BY <1>4, <1>5 DEF Delivered, ServerBalance

-----------------------------------------------------------------------------
(* Whom the handler knows.                                                 *)

(* To have a role is to be known. *)
LEMMA RolesAreKnown == \A p : HasRole(p) <=> p \in Known
BY DEF HasRole, Known

\* The departure of p waits in the channel.
Departing(p) == <<p, "gone">> \in ToSet(input)

(* No step leaves the handler with a peer that has left unannounced. *)
LEMMA NextKeepsRoles ==
    ASSUME SessionsAgree, TaskInv, RolesOfLivePeers, [ServerNext]_serverVars
    PROVE  RolesOfLivePeers'
<1>. SUFFICES ASSUME NEW p \in PeerId, p \in Known'
              PROVE  Alive(p)' \/ Departing(p)'
  BY RolesAreKnown DEF RolesOfLivePeers, Departing, Known, HasRole
<1>1. p \in Known => Alive(p) \/ Departing(p)
  BY RolesAreKnown DEF RolesOfLivePeers, Departing
<1>2. input \in Seq(PeerId \X {"text", "gone"}) /\ recv \in [PeerId -> RecvState]
  BY DEF TaskInv, TaskTypes
<1>3. CASE HandleInput
  <2>. DEFINE q == Head(input)[1]
              what == Head(input)[2]
  <2>1. /\ items = <<>> /\ input # <<>> /\ input' = Tail(input) /\ recv' = recv
        /\ \/ what = "text" /\ HandleText(q)
           \/ what = "gone" /\ RemovePeer(q)
    BY <1>3 DEF HandleInput
  <2>2. q \in PeerId /\ Head(input) = <<q, what>> /\ 1 \in DOMAIN input /\ input[1] = Head(input)
    BY <1>2, <2>1, MovedUp
  <2>. HIDE DEF q, what
  <2>3. ASSUME NEW i \in DOMAIN input, i # 1, input[i] = <<p, "gone">>
        PROVE  Departing(p)'
    <3>1. i - 1 \in DOMAIN input' /\ input'[i - 1] = <<p, "gone">>
      BY <1>2, <2>1, <2>3, MovedUp
    <3>. QED
      BY <3>1 DEF Departing, ToSet
  <2>4. CASE what = "text" /\ HandleText(q)
    <3>1. Known' \subseteq Known \cup {q}
      <4>1. CASE UNCHANGED vars
        BY <4>1 DEF Known, vars
      <4>2. CASE HandleMessage(q)
        BY <2>2, <4>2, OnlySenderBecomesKnown
      <4>. QED
        BY <2>1, <2>4, <4>1, <4>2 DEF HandleText, HandleMessage
    <3>2. CASE p = q
      <4>1. \/ Alive(p)
            \/ \E j \in DOMAIN input : j > 1 /\ input[j] = <<p, "gone">>
        BY <2>2, <2>4, <3>2 DEF TaskInv, TextsBeforeGone
      <4>2. ASSUME NEW j \in DOMAIN input, j > 1, input[j] = <<p, "gone">>
            PROVE  Departing(p)'
        BY <2>3, <4>2
      <4>. QED
        BY <2>1, <4>1, <4>2 DEF Alive
    <3>3. CASE p # q
      <4>1. p \in Known
        BY <3>1, <3>3
      <4>2. ASSUME Departing(p) PROVE Departing(p)'
        <5>1. PICK i \in DOMAIN input : input[i] = <<p, "gone">>
          BY <4>2 DEF Departing, ToSet
        <5>2. i # 1
          BY <2>2, <3>3, <5>1
        <5>. QED
          BY <2>3, <5>1, <5>2
      <4>. QED
        BY <1>1, <2>1, <4>1, <4>2 DEF Alive
    <3>. QED
      BY <3>2, <3>3
  <2>5. CASE what = "gone" /\ RemovePeer(q)
    <3>1. Known' = Known \ {q}
      BY <2>5, OnlyGoneForgotten
    <3>2. p \in Known /\ p # q
      BY <3>1
    <3>3. ASSUME Departing(p) PROVE Departing(p)'
      <4>1. PICK i \in DOMAIN input : input[i] = <<p, "gone">>
        BY <3>3 DEF Departing, ToSet
      <4>2. i # 1
        BY <2>2, <3>2, <4>1
      <4>. QED
        BY <2>3, <4>1, <4>2
    <3>. QED
      BY <1>1, <2>1, <3>2, <3>3 DEF Alive
  <2>. QED
    BY <2>1, <2>4, <2>5
<1>4. ASSUME Known' = Known, Alive(p) => Alive(p)' \/ Departing(p)',
             Departing(p) => Departing(p)'
      PROVE  Alive(p)' \/ Departing(p)'
  BY <1>1, <1>4
<1>5. ASSUME UNCHANGED <<producers, consumers, listeners>>
      PROVE  Known' = Known
  BY <1>5 DEF Known
<1>6. ASSUME NEW q \in PeerId, NEW what \in {"text", "gone"}, input' = Append(input, <<q, what>>)
      PROVE  /\ Departing(p) => Departing(p)'
             /\ what = "gone" => Departing(q)'
  <2>1. /\ Len(input) + 1 \in DOMAIN input' /\ input'[Len(input) + 1] = <<q, what>>
        /\ \A i \in DOMAIN input : i \in DOMAIN input' /\ input'[i] = input[i]
    BY <1>2, <1>6, Appended
  <2>. QED
    BY <2>1 DEF Departing, ToSet
<1>7. CASE DispatchItem
  <2>1. UNCHANGED <<producers, consumers, listeners, input, recv>>
    BY <1>7 DEF channel, DispatchItem, PopItem, peers
  <2>. QED
    BY <1>4, <1>5, <2>1 DEF Alive, Departing
<1>8. ASSUME NEW q \in PeerId,
             \/ Accept(q) \/ Insert(q) \/ Leave(q) \/ ReceiveEnd(q) \/ TakeOut(q)
             \/ CloseChannel(q) \/ FinishFlight(q) \/ SendTask(q)
      PROVE  Alive(p)' \/ Departing(p)'
  <2>1. /\ UNCHANGED <<producers, consumers, listeners, input>>
        /\ \/ recv' = recv
           \/ recv[q] = "off" /\ recv' = [recv EXCEPT ![q] = "reading"]
           \/ recv[q] = "reading" /\ recv' = [recv EXCEPT ![q] = "leaving"]
           \/ ~Alive(q) /\ \E s \in RecvState : recv' = [recv EXCEPT ![q] = s]
    BY <1>8 DEF channel, Accept, Insert, Leave, ReceiveEnd, TakeOut, CloseChannel, FinishFlight, SendTask,
                SendText, SendFails, SendClose, vars, tasks, clients, Alive, RecvState
  <2>2. Alive(p) => Alive(p)'
    BY <1>2, <2>1 DEF Alive
  <2>. QED
    BY <1>4, <1>5, <2>1, <2>2 DEF Departing
<1>9. ASSUME NEW q \in PeerId, ReceiveText(q)
      PROVE  Alive(p)' \/ Departing(p)'
  <2>1. UNCHANGED <<producers, consumers, listeners, recv>> /\ input' = Append(input, <<q, "text">>)
    BY <1>9 DEF Enqueue, ReceiveText, vars
  <2>2. Departing(p) => Departing(p)'
    BY <1>6, <2>1
  <2>. QED
    BY <1>4, <1>5, <2>1, <2>2 DEF Alive
<1>10. ASSUME NEW q \in PeerId, SayGone(q)
       PROVE  Alive(p)' \/ Departing(p)'
  <2>1. /\ UNCHANGED <<producers, consumers, listeners>>
        /\ recv' = [recv EXCEPT ![q] = "removing"]
        /\ input' = Append(input, <<q, "gone">>)
    BY <1>10 DEF Enqueue, SayGone, vars
  <2>2. (Departing(p) => Departing(p)') /\ Departing(q)'
    BY <1>6, <2>1
  <2>3. p # q => recv'[p] = recv[p]
    BY <1>2, <2>1
  <2>. QED
    BY <1>4, <1>5, <2>1, <2>2, <2>3 DEF Alive
<1>11. CASE UNCHANGED serverVars
  <2>1. UNCHANGED <<producers, consumers, listeners, input, recv>>
    BY <1>11 DEF channel, serverVars, vars, tasks
  <2>. QED
    BY <1>4, <1>5, <2>1 DEF Alive, Departing
<1>. QED
  BY <1>3, <1>7, <1>8, <1>9, <1>10, <1>11 DEF ServerNext, HandlerLoop, LeaveSteps

-----------------------------------------------------------------------------
(* The receive tasks that wait for the channel.                            *)

(* A step that leaves the channel and whoever waits for it alone.          *)
LEMMA OthersKeepWaiting ==
    ASSUME WaitingAreCounted, UNCHANGED channel,
           \A p \in PeerId : Waits(p) => recv'[p] = recv[p]
    PROVE  WaitingAreCounted'
BY DEF WaitingAreCounted, channel, Waits

(* A send beyond the buffer makes its sender wait, which did not before.   *)
LEMMA EnqueueKeepsWaiting ==
    ASSUME TaskTypes, WaitingAreCounted,
           NEW p \in PeerId, NEW what \in {"text", "gone"}, Enqueue(p, what),
           recv'[p] \in {"reading", "removing"},
           \A q \in PeerId : q # p => recv'[q] = recv[q]
    PROVE  WaitingAreCounted'
<1>1. /\ input \in Seq(PeerId \X {"text", "gone"}) /\ <<p, what>> \in PeerId \X {"text", "gone"}
      /\ parked \in Seq(PeerId)
      /\ ChannelSize \in Nat
  BY SizesAreNumbers DEF TaskTypes
<1>2. Len(input') = Len(input) + 1 /\ Len(input) \in Nat
  BY <1>1 DEF Enqueue
<1>3. /\ Len(parked) = IF Len(input) > ChannelSize THEN Len(input) - ChannelSize ELSE 0
      /\ \A i, j \in DOMAIN parked : parked[i] = parked[j] => i = j
      /\ \A q \in PeerId : (\E i \in DOMAIN parked : parked[i] = q) =>
            recv[q] \in {"reading", "removing"}
      /\ ~ \E i \in DOMAIN parked : parked[i] = p
  BY DEF WaitingAreCounted, Waits, ToSet, IsInjective, Enqueue
<1>4. CASE Len(input) < ChannelSize
  <2>1. parked' = parked
    BY <1>4 DEF Enqueue
  <2>. QED
    BY <1>1, <1>2, <1>3, <1>4, <2>1 DEF WaitingAreCounted, Waits, ToSet, IsInjective
<1>5. CASE ~(Len(input) < ChannelSize)
  <2>1. parked' = Append(parked, p)
    BY <1>5 DEF Enqueue
  <2>2. /\ Len(parked') = Len(parked) + 1
        /\ \A i \in DOMAIN parked : i \in DOMAIN parked' /\ parked'[i] = parked[i]
        /\ \A i \in DOMAIN parked' : i \in DOMAIN parked \/ i = Len(parked) + 1
        /\ parked'[Len(parked) + 1] = p
    BY <1>1, <2>1, Appended
  <2>3. Len(parked') = IF Len(input') > ChannelSize THEN Len(input') - ChannelSize ELSE 0
    BY <1>1, <1>2, <1>3, <1>5, <2>2
  <2>4. IsInjective(parked')
    BY <1>3, <2>2 DEF IsInjective
  <2>5. ASSUME NEW q \in PeerId, NEW i \in DOMAIN parked', parked'[i] = q
        PROVE  recv'[q] \in {"reading", "removing"}
    BY <1>3, <2>2, <2>5
  <2>. QED
    BY <2>3, <2>4, <2>5 DEF WaitingAreCounted, Waits, ToSet
<1>. QED
  BY <1>4, <1>5

(* What is above the buffer goes down with the items.                      *)
LEMMA OneLessAbove ==
    ASSUME NEW i \in Nat \ {0}, NEW k \in Nat, NEW w \in Nat,
           w = IF i > k THEN i - k ELSE 0
    PROVE  /\ w = 0 => ~(i - 1 > k)
           /\ w # 0 => w - 1 = IF i - 1 > k THEN (i - 1) - k ELSE 0
OBVIOUS

(* An item taken out frees one of those that wait, if there are any.       *)
LEMMA TakenOutKeepsWaiting ==
    ASSUME TaskTypes, WaitingAreCounted, input # <<>>, input' = Tail(input), Unpark, recv' = recv
    PROVE  WaitingAreCounted'
<1>1. /\ input \in Seq(PeerId \X {"text", "gone"}) /\ parked \in Seq(PeerId)
      /\ ChannelSize \in Nat
  BY SizesAreNumbers DEF TaskTypes
<1>2. Len(input') = Len(input) - 1 /\ Len(input) \in Nat \ {0}
  BY <1>1
<1>3. /\ Len(parked) = IF Len(input) > ChannelSize THEN Len(input) - ChannelSize ELSE 0
      /\ \A i, j \in DOMAIN parked : parked[i] = parked[j] => i = j
      /\ \A q \in PeerId : (\E i \in DOMAIN parked : parked[i] = q) =>
            recv[q] \in {"reading", "removing"}
  BY DEF WaitingAreCounted, Waits, ToSet, IsInjective
<1>6. /\ Len(parked) = 0 => ~(Len(input) - 1 > ChannelSize)
      /\ Len(parked) # 0 =>
            Len(parked) - 1 = IF Len(input) - 1 > ChannelSize
                                 THEN (Len(input) - 1) - ChannelSize ELSE 0
  <2>1. Len(parked) \in Nat
    BY <1>1
  <2>. QED
    BY <1>1, <1>2, <1>3, <2>1, OneLessAbove
<1>4. CASE parked = <<>>
  <2>1. parked' = <<>> /\ Len(parked) = 0
    BY <1>4 DEF Unpark
  <2>2. ~(Len(input') > ChannelSize)
    BY <1>2, <1>6, <2>1
  <2>. QED
    BY <1>4, <2>1, <2>2 DEF WaitingAreCounted, Waits, ToSet, IsInjective
<1>5. CASE parked # <<>>
  <2>1. parked' = Tail(parked)
    BY <1>5 DEF Unpark
  <2>2. /\ Len(parked') = Len(parked) - 1
        /\ \A i \in DOMAIN parked' : i + 1 \in DOMAIN parked /\ parked'[i] = parked[i + 1] /\ i \in Nat
    BY <1>1, <1>5, <2>1, MovedUp
  <2>3. Len(parked) \in Nat \ {0}
    BY <1>1, <1>5
  <2>4. Len(parked') = IF Len(input') > ChannelSize THEN Len(input') - ChannelSize ELSE 0
    BY <1>2, <1>6, <2>2, <2>3
  <2>5. ASSUME NEW i \in DOMAIN parked', NEW j \in DOMAIN parked', parked'[i] = parked'[j]
        PROVE  i = j
    <3>1. i + 1 = j + 1 /\ i \in Nat /\ j \in Nat
      BY <1>3, <2>2, <2>5
    <3>. QED
      BY <3>1
  <2>6. ASSUME NEW q \in PeerId, NEW i \in DOMAIN parked', parked'[i] = q
        PROVE  recv'[q] \in {"reading", "removing"}
    BY <1>3, <2>2, <2>6
  <2>. QED
    BY <2>4, <2>5, <2>6 DEF WaitingAreCounted, Waits, ToSet, IsInjective
<1>. QED
  BY <1>4, <1>5

(* Every step keeps the count of those that wait.                          *)
LEMMA NextKeepsWaiting ==
    ASSUME TaskInv, WaitingAreCounted, [ServerNext]_serverVars
    PROVE  WaitingAreCounted'
<1>1. TaskTypes /\ recv \in [PeerId -> RecvState]
  BY DEF TaskInv, TaskTypes
<1>2. CASE HandleInput
  BY <1>1, <1>2, TakenOutKeepsWaiting DEF HandleInput
<1>3. ASSUME NEW p \in PeerId, ReceiveText(p) PROVE WaitingAreCounted'
  BY <1>1, <1>3, EnqueueKeepsWaiting DEF ReceiveText
<1>4. ASSUME NEW p \in PeerId, SayGone(p) PROVE WaitingAreCounted'
  <2>1. Enqueue(p, "gone") /\ recv' = [recv EXCEPT ![p] = "removing"]
    BY <1>4 DEF SayGone
  <2>2. recv'[p] = "removing" /\ \A q \in PeerId : q # p => recv'[q] = recv[q]
    BY <1>1, <2>1
  <2>. QED
    BY <1>1, <2>1, <2>2, EnqueueKeepsWaiting
<1>5. CASE DispatchItem \/ UNCHANGED serverVars
  BY <1>5, OthersKeepWaiting DEF DispatchItem, serverVars, tasks, channel
<1>6. ASSUME NEW p \in PeerId,
             \/ Accept(p) \/ Insert(p) \/ Leave(p) \/ ReceiveEnd(p) \/ TakeOut(p)
             \/ CloseChannel(p) \/ FinishFlight(p) \/ SendTask(p)
      PROVE  WaitingAreCounted'
  <2>1. /\ UNCHANGED channel
        /\ \/ recv' = recv
           \/ recv[p] \in {"off", "removed"} /\ \E s \in RecvState : recv' = [recv EXCEPT ![p] = s]
           \/ ~Waits(p) /\ \E s \in RecvState : recv' = [recv EXCEPT ![p] = s]
    BY <1>6 DEF Accept, Insert, Leave, ReceiveEnd, TakeOut, CloseChannel, FinishFlight, SendTask,
                SendText, SendFails, SendClose, tasks, channel, RecvState
  <2>2. ~Waits(p) \/ recv' = recv
    BY <2>1 DEF WaitingAreCounted
  <2>3. \A q \in PeerId : Waits(q) => recv'[q] = recv[q]
    BY <1>1, <2>1, <2>2
  <2>. QED
    BY <2>1, <2>3, OthersKeepWaiting
<1>. QED
  BY <1>2, <1>3, <1>4, <1>5, <1>6 DEF ServerNext, HandlerLoop, LeaveSteps

-----------------------------------------------------------------------------
(* The results.                                                            *)

\* The inductive invariant of the server around the handler's.
Served == Delivered /\ WaitingAreCounted /\ RolesOfLivePeers

(* The inductive invariant holds. *)
LEMMA ServedHolds == ServerSpec => []Served
<1>1. ServerInit => Served
  <2>. SUFFICES ASSUME ServerInit PROVE Served
    OBVIOUS
  <2>1. input = <<>> /\ parked = <<>> /\ ChannelSize \in Nat \ {0}
    BY SizesAreNumbers DEF ServerInit
  <2>2. Len(input) = 0 /\ Len(parked) = 0 /\ DOMAIN parked = {}
    BY <2>1
  <2>3. WaitingAreCounted
    BY <2>1, <2>2 DEF WaitingAreCounted, Waits, ToSet, IsInjective
  <2>. QED
    BY <2>3, InitDelivered DEF Served, RolesOfLivePeers, ServerInit, Init, HasRole
<1>2. /\ TypeOK /\ TypeOK' /\ SessionsAgree /\ TaskInv /\ Served
      /\ [ServerNext]_serverVars
      => Served'
  BY NextKeepsDelivered, NextKeepsRoles, NextKeepsWaiting DEF Served
<1>3. HandlerInv => TypeOK /\ SessionsAgree
  BY DEF HandlerInv
<1>. QED
  BY <1>1, <1>2, <1>3, ServerFollowsHandler, HandlerInvHolds, TaskInvHolds, PTL DEF ServerSpec

(* The server, with its tasks, its channels and clients that vanish at any *)
(* moment, keeps what the broker promises: sessions that start and end as  *)
(* SessionBroker says, whose partners are told of their end, and in which  *)
(* alone messages are relayed.                                             *)
THEOREM ServerKeepsPromises ==
    ServerSpec => ImplementsBroker /\ EndIsNotified /\ RelayedInSession
BY ServerFollowsHandler, HandlerImplementsBroker, EndIsAlwaysNotified, AlwaysRelayedInSession, PTL

(* For any number of clients, any sizes of the channels and any requests,  *)
(* a receive task waits for the handler's channel only while that holds    *)
(* more than its buffer, one task for each item more, and the handler      *)
(* answers only for peers whose departure it has yet to hear of.           *)
THEOREM ServerInvHolds == ServerSpec => []ServerInv
<1>1. HandlerInv /\ TaskInv /\ Served => ServerInv
  <2>. SUFFICES ASSUME HandlerInv, TaskInv, Served PROVE ServerInv
    OBVIOUS
  <2>1. \A p \in PeerId : out[p] \in Seq(Message) /\ BagToSet(flying[p]) \subseteq Message
    BY DEF Served, Delivered, DeliveryTypes, BagsOf, BagToSet
  <2>. QED
    BY <2>1 DEF ServerInv, ServerTypeOK, HandlerInv, TaskInv, TaskTypes, Served
<1>. QED
  BY <1>1, ServerFollowsHandler, HandlerInvHolds, TaskInvHolds, ServedHolds, PTL

(* Whatever order the tasks deliver in, a connected client that lost no    *)
(* item and has none to come counts exactly the sessions that the handler  *)
(* keeps for it.                                                           *)
THEOREM LinksAlwaysSettle == ServerSpec => []LinksSettle
<1>1. Served => LinksSettle
  <2>. SUFFICES ASSUME Served, items = <<>>,
                       NEW p \in PeerId, p \notin gone \cup missed,
                       flying[p] = EmptyBag, out[p] = <<>>, NEW q \in PeerId
                PROVE  links[p][q] = LinksBetween(p, q)
    BY DEF LinksSettle
  <2>1. Settling(p, q) /\ links[p][q] \in Int
    BY DEF Served, Delivered, DeliveryTypes, ServerBalance
  <2>2. \A x : Copies(EmptyBag, x) = 0
    BY DEF EmptyBag, SetToBag, Copies
  <2>3. \A x : Underway(p, x) = 0
    BY <2>2, TimesEmpty DEF Underway
  <2>4. StartsFor(p, q) = 0 /\ EndsFor(p, q) = 0
    BY NothingQueued
  <2>5. SessionCount(p, q) \in Nat /\ LinksBetween(p, q) = SessionCount(p, q)
    BY DEF SessionCount, LinksBetween
  <2>. QED
    BY <2>1, <2>3, <2>4, <2>5 DEF Settling
<1>. QED
  BY <1>1, ServedHolds, PTL

=============================================================================
