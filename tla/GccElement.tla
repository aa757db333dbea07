----------------------------- MODULE GccElement -----------------------------
(***************************************************************************)
(* rtpgccbwe as an element (plugins/src/gcc/imp.rs): the upstream thread   *)
(* puts buffers in the bucket, the src pad's task pushes them at the       *)
(* estimated bitrate, events bring the detector its reports, and the       *)
(* application activates and deactivates the pad.  One lock guards it all. *)
(*                                                                         *)
(* Only deactivation keeps the lock while it waits, so that the lock is    *)
(* held exactly in the states "locked" and "stopping"; whoever else takes  *)
(* it does so and gives it back in one step.  A task of GStreamer calls    *)
(* its function over and over until it is paused or stopped, and who stops *)
(* it waits for the end of the call: a call that still wants the lock then *)
(* waits for who waits for it.  Each buffer has the same number of bits.   *)
(***************************************************************************)
EXTENDS GccDetector, Sequences, SequencesExt

CONSTANTS
    BufferBits,     \* the size of a buffer
    Earnings,       \* what the time between two rounds allows to send
    MaxHeld,        \* the bits of 30 ms: what the bucket may hold
    MaxBuffers,     \* bound: the buffers from upstream
    MaxCredit,      \* bound: the unused budget of idle rounds
    MaxRuns         \* bound: the activations

ASSUME Sizes ==
    /\ BufferBits \in Nat \ {0} /\ Earnings \subseteq Nat \ {0}
    /\ {MaxHeld, MaxBuffers, MaxCredit, MaxRuns} \subseteq Nat

VARIABLES
    pad,        \* the src pad (see PadState)
    runs,       \* how often it was activated
    flow,       \* flow_return
    clockEntry, \* is clock_entry set?
    task,       \* where the src pad's task is
    bucket,     \* buffers, the newest first; they are numbered
    chained,    \* the number of the last buffer from upstream
    list,       \* the buffers the task took to push
    passed,     \* the number of the last buffer pushed
    budget      \* budget_offset

elementVars ==
    <<pad, runs, flow, clockEntry, task, bucket, chained, list, passed, budget>>
vars == <<detectorVars, elementVars>>

\* "failed" is an inactive pad whose task could not be started; one that is being
\* deactivated has its element "locked", and then its task "stopping".
PadState == {"inactive", "failed", "active", "locked", "stopping"}

TaskState == {"none", "between", "called", "waiting", "pushing", "pushed",
              "refused", "paused"}

Init ==
    /\ DetectorInit
    /\ pad = "inactive" /\ runs = 0
    /\ flow = "flushing"
    /\ clockEntry = FALSE
    /\ task = "none"
    /\ bucket = <<>> /\ chained = 0
    /\ list = <<>> /\ passed = 0
    /\ budget = 0

-----------------------------------------------------------------------------
(* A definition just above another with the same parameters is a variant   *)
(* with a plausible bug: nothing uses it.                                  *)

UnlockedToStop == TRUE
Unlocked == pad \notin {"locked", "stopping"}

\* The chain function, whose answer is flow_return.
Queued(buffers, buffer) == <<buffer>> \o buffers

Chain ==
    /\ Unlocked
    /\ chained < MaxBuffers
    /\ chained' = chained + 1
    /\ bucket' = Queued(bucket, chained + 1)
    /\ UNCHANGED <<detectorVars, pad, runs, flow, clockEntry, task, list, passed, budget>>

\* The src pad's event (GccRate has what becomes of the bitrates).
Event ==
    /\ Unlocked
    /\ Report
    /\ UNCHANGED elementVars

\* src_activatemode and start_task, which fails where there is no thread for the
\* task: flow_return and the clock entry are then as if it ran.
Activate ==
    /\ pad \in {"inactive", "failed"} /\ runs < MaxRuns
    /\ runs' = runs + 1
    /\ flow' = "ok"
    /\ clockEntry' = TRUE
    /\ \/ pad' = "active" /\ task' = "between"
       \/ pad' = "failed" /\ task' = "none"
    /\ UNCHANGED <<detectorVars, bucket, chained, list, passed, budget>>

\* src_activatemode takes the lock,
Deactivate ==
    /\ pad = "active"
    /\ pad' = "locked"
    /\ flow' = "flushing"
    /\ UNCHANGED <<detectorVars, runs, clockEntry, task, bucket, chained, list,
                   passed, budget>>

\* and then stops the task, which may have begun another call.
StopTask ==
    /\ pad = "locked"
    /\ pad' = "stopping"
    /\ UNCHANGED <<detectorVars, runs, flow, clockEntry, task, bucket, chained,
                   list, passed, budget>>

\* A stopped task ends between two calls; one that is paused is woken for that.
TaskEnds ==
    /\ pad = "stopping"
    /\ task \in {"between", "paused"}
    /\ task' = "none"
    /\ UNCHANGED <<detectorVars, pad, runs, flow, clockEntry, bucket, chained,
                   list, passed, budget>>

Deactivated ==
    /\ pad = "stopping" /\ task = "none"
    /\ pad' = "inactive"
    /\ UNCHANGED <<detectorVars, runs, flow, clockEntry, task, bucket, chained,
                   list, passed, budget>>

-----------------------------------------------------------------------------
(* The task.                                                               *)

Call ==
    /\ task = "between" /\ pad # "stopping"
    /\ task' = "called"
    /\ UNCHANGED <<detectorVars, pad, runs, flow, clockEntry, bucket, chained,
                   list, passed, budget>>

TakeClockEntry ==
    /\ task = "called" /\ Unlocked
    /\ clockEntry' = FALSE
    /\ task' = IF clockEntry THEN "waiting" ELSE "paused"
    /\ UNCHANGED <<detectorVars, pad, runs, flow, bucket, chained, list, passed,
                   budget>>

\* create_buffer_list: as many buffers go as the budget, and the limit on what
\* stays, ask for.
Remaining(count) == (Len(bucket) - count) * BufferBits
Asks(earned, count) ==
    earned + budget > count * BufferBits \/ Remaining(count) > MaxHeld
Suffices(earned, count) ==
    /\ count = Len(bucket) \/ ~Asks(earned, count)
    /\ \A fewer \in 0..(count - 1) : Asks(earned, fewer)

\* The last buffer that went did so only because of the limit.
Leaked(earned, count) ==
    count > 0 /\ earned + budget <= (count - 1) * BufferBits

BudgetAfter(earned, count) ==
    IF Leaked(earned, count) THEN 0 ELSE earned + budget - count * BufferBits

\* The clock entry is there again for the next round.
EntryForgotten == FALSE
EntryAgain == TRUE

CreateList ==
    /\ task = "waiting" /\ Unlocked
    /\ clockEntry' = EntryAgain
    /\ \E earned \in Earnings, count \in 0..Len(bucket) :
          /\ bucket # <<>> \/ budget + earned <= MaxCredit
          /\ Suffices(earned, count)
          /\ list' = [i \in 1..count |-> bucket[Len(bucket) + 1 - i]]
          /\ bucket' = SubSeq(bucket, 1, Len(bucket) - count)
          /\ budget' = BudgetAfter(earned, count)
          /\ task' = IF count = 0 THEN "between" ELSE "pushing"
    /\ UNCHANGED <<detectorVars, pad, runs, flow, chained, passed>>

\* The clock may fail: the task is then paused.
ClockFails ==
    /\ task = "waiting" /\ Unlocked
    /\ flow' = "flushing"
    /\ task' = "paused"
    /\ UNCHANGED <<detectorVars, pad, runs, clockEntry, bucket, chained, list,
                   passed, budget>>

\* The push, outside the lock.  Downstream takes the list or refuses it.
Push ==
    /\ task = "pushing"
    /\ task' \in {"pushed", "refused"}
    /\ passed' = passed + Len(list)
    /\ list' = <<>>
    /\ UNCHANGED <<detectorVars, pad, runs, flow, clockEntry, bucket, chained, budget>>

\* flow_return is what the push returned, and the task goes on or is paused.
StoreFlow ==
    /\ task \in {"pushed", "refused"} /\ Unlocked
    /\ flow' = IF task = "pushed" THEN "ok" ELSE "error"
    /\ task' = IF task = "pushed" THEN "between" ELSE "paused"
    /\ UNCHANGED <<detectorVars, pad, runs, clockEntry, bucket, chained, list,
                   passed, budget>>

TaskStep == Call \/ TakeClockEntry \/ CreateList \/ Push \/ StoreFlow

Next ==
    \/ Chain \/ Event
    \/ Activate \/ Deactivate \/ StopTask \/ TaskEnds \/ Deactivated
    \/ TaskStep \/ ClockFails

\* The system runs the task's thread; the clock's time comes.
Fairness == WF_vars(TaskStep)

Spec == Init /\ [][Next]_vars /\ Fairness

-----------------------------------------------------------------------------
(* Properties.                                                             *)

\* Every variable has its type.
TypeOK ==
    /\ DetectorTypeOK
    /\ pad \in PadState
    /\ runs \in 0..MaxRuns
    /\ flow \in {"ok", "flushing", "error"}
    /\ clockEntry \in BOOLEAN
    /\ task \in TaskState
    /\ bucket \in Seq(1..MaxBuffers) /\ list \in Seq(1..MaxBuffers)
    /\ chained \in 0..MaxBuffers /\ passed \in 0..MaxBuffers
    /\ budget \in Int

\* No buffer is lost, doubled or overtaken on its way through the bucket and the
\* list, whatever stops and failures come between.
InOrder ==
    list \o Reverse(bucket) = [i \in 1..(chained - passed) |-> passed + i]

\* A task that has given up has told upstream: flow_return is an error as long as
\* nobody pushes, and after a stop (but not after a start that failed, which
\* leaves it as if all were well).
NoSilentPause ==
    task = "paused" \/ pad = "inactive" => flow # "ok"

\* The debt that is carried to the next round is less than a buffer: what went
\* only because the bucket was too full is forgiven, and never stops the pacing.
DebtIsSmall == budget > -BufferBits

\* Through stops, starts, refusals and a failing clock no buffer is lost, no task
\* is silent and no debt adds up, and the received packets stay in their window.
ElementInv == TypeOK /\ WindowSpans /\ InOrder /\ NoSilentPause /\ DebtIsSmall

\* As long as upstream is told that all is well, what is in the bucket is pushed
\* in the end.
BuffersFlow ==
    \A n \in 1..MaxBuffers :
        chained = n ~> passed >= n \/ pad # "active" \/ flow # "ok"

=============================================================================
