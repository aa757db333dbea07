--------------------------- MODULE BitrateControl ---------------------------
(***************************************************************************)
(* The bitrate of one consumer's video: from the properties an application *)
(* sets, through the copy its consumer takes of them, to what each encoder *)
(* is told (plugins/src/webrtcsink/imp.rs), by the homegrown controller    *)
(* (plugins/src/webrtcsink/homegrown_cc.rs), by the estimate of rtpgccbwe, *)
(* or not at all.                                                          *)
(*                                                                         *)
(* Bitrates are whole numbers of a unit the instance chooses, and the      *)
(* amounts the code names are constants in that unit.  A product with a    *)
(* factor is exact and then truncated, as the casts of the code do.  The   *)
(* homegrown controller keeps a moving average and variance of the target, *)
(* to tell whether it is below, in or above the window of its last         *)
(* congestion: here only whether there is a window, and any of the three.  *)
(***************************************************************************)
EXTENDS Integers, Sequences

CONSTANTS
    Word,           \* 2^32: a u32 is less, an i32 less than half of it
    Checked,        \* does the build check i32 arithmetic for overflow?
    DefaultMin, DefaultMax,
    FecFrom,        \* 2000000: no FEC up to here
    Additions,      \* what an additive increase adds: 1000 and more
    AskedMin, AskedMax,     \* what applications set the limits to
    Starts, Units,  \* the encoders': first bitrates, and what one counts in
    MaxVideos,      \* bound: a consumer's video streams
    Excesses,       \* what feedback says was sent and not received
    Estimates       \* what rtpgccbwe may come to

Heuristic == {"disabled", "homegrown", "google"}
U32 == 0..(Word - 1)
I32 == -(Word \div 2)..(Word \div 2 - 1)

ASSUME WordIsEven == Word \in Nat \ {0} /\ Word % 2 = 0 /\ Checked \in BOOLEAN
ASSUME RatesFit ==
    /\ {DefaultMin, FecFrom} \cup AskedMin \cup AskedMax \cup Estimates
         \subseteq U32
    /\ (DefaultMax * 3) \div 2 \in U32
    /\ Additions \cup Starts \cup Excesses \subseteq I32 \cap Nat
    /\ Units \subseteq Nat \ {0}
    /\ MaxVideos \in Nat

VARIABLES
    settings,       \* Settings.cc_info and do_fec
    stage,          \* of the consumer: "none", "added" or "connected"
    cc,             \* Consumer.cc_info
    encoders,       \* Consumer.encoders
    onDelay,        \* target_bitrate_on_delay
    onLoss,         \* target_bitrate_on_loss
    window,         \* is bitrate_ema known?
    op,             \* what the controller did last
    estimate,       \* rtpgccbwe's estimated-bitrate
    network,        \* "rough", or "calm" from some time on
    panicked        \* has a callback panicked with the state lock?

targetVars == <<onDelay, onLoss, window>>
vars == <<settings, stage, cc, encoders, targetVars, op, estimate, network,
          panicked>>

CCInfo == [heuristic : Heuristic, min : U32, max : U32]
Encoder == [unit : Units, bitrate : I32, fec : 0..50]
Op == [by : {"none", "delay", "loss"}, kind : {"hold", "decrease", "increase"}]

NoOp == [by |-> "none", kind |-> "hold"]

Init ==
    /\ settings \in
         [heuristic : Heuristic, min : {DefaultMin},
          max : {(DefaultMax * 3) \div 2}, fec : {TRUE}]
    /\ stage = "none"
    /\ cc = [heuristic |-> settings.heuristic, min |-> settings.min,
             max |-> settings.max]
    /\ encoders = <<>>
    /\ onDelay = 0 /\ onLoss = 0 /\ window = FALSE
    /\ op = NoOp
    /\ estimate = 0
    /\ network = "rough"
    /\ panicked = FALSE

-----------------------------------------------------------------------------
(* Numbers.  A definition just above another with the same parameters is a *)
(* variant with a plausible bug: nothing uses it, and a property has to    *)
(* tell it from the one below.                                             *)

Smaller(a, b) == IF a < b THEN a ELSE b
Larger(a, b) == IF a > b THEN a ELSE b

\* `as i32` of a u32, and what an unchecked i32 operation leaves of a result.
Signed(n) == ((n + Word \div 2) % Word) - Word \div 2

\* A quotient of integers, and a float cast to one, loses what is behind the point.
Quotient(n, d) == IF n < 0 THEN -((-n) \div d) ELSE n \div d

\* `as i32` and `as u32` of a float.
ToI32(n) == Larger(-(Word \div 2), Smaller(n, Word \div 2 - 1))
ToU32(n) == Larger(0, Smaller(n, Word - 1))

\* The consumer's limits for all its encoders together.
Limit(limit) == Signed(limit) * Len(encoders)

Least == Signed(Limit(cc.min))
MostUnscaled == Signed(cc.max)
Most == Signed(Limit(cc.max))
Clamped(n) == Larger(Least, Smaller(n, Most))

\* A result that does not fit panics or wraps, by the build.
Fits(n) == Checked => n \in I32

\* clamp() panics on limits in the wrong order, and so does a division by no
\* encoders.
MayControl(target) ==
    /\ Len(encoders) > 0
    /\ Least <= Most
    /\ Fits(Limit(cc.min)) /\ Fits(Limit(cc.max)) /\ Fits(target)

-----------------------------------------------------------------------------
(* Properties of the element, which are mutable in Ready: with no consumer. *)

SetMin(value) ==
    settings' = [settings EXCEPT !.min = value]

\* With do-fec, the value is scaled by the old maximum too.
SetMax(value) ==
    settings' = [settings EXCEPT !.max =
        ToU32(IF settings.fec THEN (value * @ * 3) \div 2 ELSE value)]

SetDoFec(value) ==
    settings' = [settings EXCEPT !.fec = value]

SetProperty ==
    /\ stage = "none"
    /\ \/ \E value \in AskedMin : SetMin(value)
       \/ \E value \in AskedMax : SetMax(value)
       \/ \E value \in BOOLEAN : SetDoFec(value)
    /\ UNCHANGED <<stage, cc, encoders, targetVars, op, estimate, network,
                   panicked>>

-----------------------------------------------------------------------------
(* The consumer.                                                           *)

AddConsumer ==
    /\ stage = "none" /\ ~panicked
    /\ stage' = "added"
    /\ cc' = [heuristic |-> settings.heuristic, min |-> settings.min,
              max |-> settings.max]
    /\ UNCHANGED <<settings, encoders, targetVars, op, estimate, network,
                   panicked>>

\* The encoder is told a bitrate, some in thousands of bits.
SetBitrate(encoder, bitrate, fec) ==
    [encoder EXCEPT !.bitrate = Quotient(bitrate, encoder.unit) * encoder.unit,
                    !.fec = fec]

NewEncoder(unit, start) ==
    LET fresh == SetBitrate([unit |-> unit, bitrate |-> 0, fec |-> 0], start, 0)
    IN  IF cc.heuristic = "disabled"
           THEN SetBitrate(fresh, ToI32((cc.max * 2) \div 3), 50)
           ELSE fresh

\* An answer connects the streams one by one, under the state lock: each that
\* is video gets an encoder, set up by the default handler or an application's.
Answer ==
    /\ stage = "added" /\ ~panicked
    /\ stage' = "connecting"
    /\ UNCHANGED <<settings, cc, encoders, targetVars, op, estimate, network,
                   panicked>>

ConnectVideo ==
    /\ stage = "connecting" /\ ~panicked /\ Len(encoders) < MaxVideos
    /\ \E unit \in Units, start \in Starts :
          LET new == NewEncoder(unit, start)
              sum == onDelay + new.bitrate
          IN  \/ /\ cc.heuristic # "homegrown"
                 /\ encoders' = Append(encoders, new)
                 /\ UNCHANGED <<onDelay, onLoss, panicked>>
              \/ /\ cc.heuristic = "homegrown" /\ Fits(sum)
                 /\ encoders' = Append(encoders, new)
                 /\ onDelay' = Signed(sum) /\ onLoss' = onDelay'
                 /\ UNCHANGED panicked
              \/ /\ cc.heuristic = "homegrown" /\ ~Fits(sum)
                 /\ panicked' = TRUE
                 /\ UNCHANGED <<encoders, onDelay, onLoss>>
    /\ UNCHANGED <<settings, stage, cc, window, op, estimate, network>>

Connected ==
    /\ stage = "connecting" /\ ~panicked
    /\ stage' = "connected"
    /\ UNCHANGED <<settings, cc, encoders, targetVars, op, estimate, network,
                   panicked>>

RemoveConsumer ==
    /\ stage \in {"added", "connected"} /\ ~panicked
    /\ stage' = "none"
    /\ encoders' = <<>>
    /\ onDelay' = 0 /\ onLoss' = 0 /\ window' = FALSE
    /\ op' = NoOp /\ estimate' = 0
    /\ UNCHANGED <<settings, cc, network, panicked>>

-----------------------------------------------------------------------------
(* The homegrown controller.                                               *)

Times(n, part, whole) == ToI32(Quotient(n * part, whole))

\* Nothing up to FecFrom, then in proportion up to half at the maximum.
FecPercentage(bitrate, most) ==
    IF bitrate <= FecFrom \/ most <= FecFrom
       THEN 0 ELSE ToU32(((bitrate - FecFrom) * 50) \div (most - FecFrom))

\* What the targets make of each encoder's bitrate.
OnDelayOnly(delay, loss) == delay
Lower(delay, loss) == Smaller(delay, loss)

Share(delay, loss) == Quotient(Clamped(Lower(delay, loss)), Len(encoders))

\* apply_control_op, with the target that the operation asks for; an operation
\* that holds leaves its controller's target as it is.
Apply(by, kind, asks) ==
    /\ op' = [by |-> by, kind |-> kind]
    /\ \E target \in {asks} :
          \/ /\ MayControl(target)
             /\ \E new \in {IF kind = "hold" THEN target ELSE Clamped(Signed(target))} :
                   /\ onDelay' = IF by = "delay" THEN new ELSE onDelay
                   /\ onLoss' = IF by = "loss" THEN new ELSE onLoss
             /\ \E share \in {Share(onDelay', onLoss')} :
                   encoders' = [i \in DOMAIN encoders |->
                      SetBitrate(encoders[i], share, FecPercentage(share, cc.max))]
             /\ UNCHANGED panicked
          \/ /\ ~MayControl(target)
             /\ panicked' = TRUE
             /\ UNCHANGED <<onDelay, onLoss, encoders>>
    /\ UNCHANGED <<settings, stage, cc, estimate, network>>

Controlled ==
    stage = "connected" /\ cc.heuristic = "homegrown" /\ ~panicked

\* What a percentage lost makes of the target on loss: at most 30 less in 100.
LossDecrease(lost) == Times(onDelay, 200 - Smaller(lost, 60), 200)

\* Feedback says how much of what was sent was lost.
HoldsWithoutLoss(lost) == lost <= 10
Holds(lost) == lost > 2 /\ lost <= 10

LossControl ==
    /\ Controlled
    /\ \E lost \in {0, 5, 12, 60} :
          /\ network = "calm" => lost <= 2
          /\ IF Holds(lost) THEN Apply("loss", "hold", onLoss)
             ELSE IF lost > 10 THEN Apply("loss", "decrease", LossDecrease(lost))
             ELSE Apply("loss", "increase", Times(onDelay, 105, 100))
    /\ UNCHANGED window

\* The factors, in percent, by which more than a tenth not received, or a
\* growing delay, makes the target on delay smaller.
DelayFactors(excess, target) ==
    IF excess * 100 < target * 64 THEN {96} ELSE {89, 92, 96}

\* What a delay operation starts from.
BaseOfLoss(by) == IF by = "delay" THEN onLoss ELSE onDelay
Base(by) == onDelay

DelayDecrease(excess, growing) ==
    LET target == Lower(onDelay, onLoss)
        congested == target >= 0 /\ excess * 10 > target
    IN  /\ congested \/ growing
        /\ \E factor \in IF congested THEN DelayFactors(excess, target) ELSE {97} :
              Apply("delay", "decrease", Times(Base("delay"), factor, 100))
        /\ window' = IF panicked' THEN window ELSE TRUE

DelayIncrease(excess, growing) ==
    LET target == Lower(onDelay, onLoss)
    IN  /\ ~growing /\ ~(target >= 0 /\ excess * 10 > target)
        /\ \/ /\ Apply("delay", "increase", Times(Base("delay"), 103, 100))
              /\ window' \in {FALSE, window}
           \/ /\ window
              /\ \E more \in Additions :
                    Apply("delay", "increase", Base("delay") + more)
              /\ UNCHANGED window

\* A poll of webrtcbin's statistics, where they tell of feedback.
DelayControl ==
    /\ Controlled
    /\ \E excess \in Excesses, growing \in BOOLEAN :
          /\ network = "calm" => excess = 0 /\ ~growing
          /\ DelayDecrease(excess, growing) \/ DelayIncrease(excess, growing)

-----------------------------------------------------------------------------
(* rtpgccbwe's estimate, which is external here: anything in its limits.   *)

\* What is left for an encoder of a bitrate that its FEC shares.
WithoutFecAll(bitrate, most) == bitrate
WithoutFec(bitrate, most) ==
    IF bitrate <= FecFrom \/ most <= FecFrom THEN ToI32(bitrate)
    ELSE ToI32((bitrate * 2 * (most - FecFrom))
                 \div (2 * (most - FecFrom) + bitrate - FecFrom))

Estimate ==
    /\ stage \in {"added", "connected"} /\ cc.heuristic = "google" /\ ~panicked
    /\ \E bitrate \in Estimates \cap (cc.min..cc.max) :
          /\ estimate' = bitrate
          /\ encoders' = [i \in DOMAIN encoders |->
                SetBitrate(encoders[i], WithoutFec(bitrate, cc.max),
                           FecPercentage(bitrate, cc.max))]
    /\ UNCHANGED <<settings, stage, cc, targetVars, op, network, panicked>>

\* The network's congestion ends.
CalmDown ==
    /\ network = "rough"
    /\ network' = "calm"
    /\ UNCHANGED <<settings, stage, cc, encoders, targetVars, op, estimate,
                   panicked>>

Next ==
    \/ SetProperty
    \/ AddConsumer \/ Answer \/ ConnectVideo \/ Connected \/ RemoveConsumer
    \/ LossControl \/ DelayControl
    \/ Estimate
    \/ CalmDown

\* Statistics are polled every 100 ms, and a receiver that stays sends feedback.
Fairness == WF_vars(LossControl) /\ WF_vars(DelayControl)

Spec == Init /\ [][Next]_vars /\ Fairness

-----------------------------------------------------------------------------
(* Properties.                                                             *)

\* The types of the variables: a percentage of FEC is at most 50, and a target
\* fits in an i32.
TypeOK ==
    /\ settings \in [heuristic : Heuristic, min : U32, max : U32, fec : BOOLEAN]
    /\ stage \in {"none", "added", "connecting", "connected"}
    /\ cc \in CCInfo
    /\ encoders \in Seq(Encoder) /\ Len(encoders) <= MaxVideos
    /\ onDelay \in I32 /\ onLoss \in I32
    /\ window \in BOOLEAN
    /\ op \in Op
    /\ estimate \in U32
    /\ network \in {"rough", "calm"} /\ panicked \in BOOLEAN

\* Limits in the right order, whose multiples an i32 can hold, with room for what
\* is added.
Sensible ==
    /\ cc.min <= cc.max
    /\ \A more \in Additions \cup {0} : cc.max * MaxVideos + more < Word \div 2

\* With such limits and a video stream, no feedback makes the element panic,
\* whatever its order.  (Without video, apply_control_op divides by zero; the sum
\* of the encoders' first bitrates may not fit, before there is any feedback.)
SensibleNeverPanics ==
    Sensible /\ panicked /\ stage = "connected" => encoders = <<>>

\* However the targets moved, an encoder the controller has spoken to is
\* between the limits, less what its unit cannot say.
WithinLimits ==
    op.by # "none" /\ ~panicked /\ Sensible =>
        \A i \in DOMAIN encoders :
            /\ encoders[i].bitrate > cc.min - encoders[i].unit
            /\ encoders[i].bitrate <= cc.max

\* The encoders together stay under both targets, when the lower limit lets
\* them: what one controller took away the other does not give back.
LowerTargetHolds ==
    op.by # "none" /\ ~panicked /\ Sensible =>
        \A i \in DOMAIN encoders :
            encoders[i].bitrate * Len(encoders)
                <= Larger(Least, Smaller(onDelay, onLoss))

\* Whatever two controllers do in turn, targets fit their integers and encoders
\* stay in the limits and under both targets.
BitratesInv == TypeOK /\ WithinLimits /\ LowerTargetHolds

\* Under the delay controller the encoders follow the sign of the operation, and
\* under the loss controller they do not lose bitrate by an increase, nor change
\* it while it holds: also where the two targets disagree, and where an
\* encoder's first bitrate was out of the limits.
OpsKeepTheirSign ==
    [][op.by # "none" /\ op'.by # "none" /\ Sensible =>
         \A i \in DOMAIN encoders :
            /\ op'.kind = "increase" => encoders'[i].bitrate >= encoders[i].bitrate
            /\ op'.kind = "hold" => encoders'[i].bitrate = encoders[i].bitrate
            /\ op' = [by |-> "delay", kind |-> "decrease"] =>
                 encoders'[i].bitrate <= encoders[i].bitrate]_vars

\* An encoder with its FEC sends no more than rtpgccbwe's estimate (without FEC
\* it is told the estimate itself, once there is one after the answer).
EstimateHolds ==
    estimate # 0 /\ stage = "connected" =>
        \A i \in DOMAIN encoders :
            encoders[i].fec > 0 =>
              encoders[i].bitrate * (100 + encoders[i].fec) <= estimate * 100

\* Once congestion ended, a consumer's encoders come back to the maximum, as the
\* README has one observe (unless it leaves or has no video).
Recovers ==
    network = "calm" /\ Controlled /\ Sensible ~>
        \/ stage # "connected" \/ panicked
        \/ \A i \in DOMAIN encoders :
              encoders[i].bitrate > cc.max - encoders[i].unit

=============================================================================
