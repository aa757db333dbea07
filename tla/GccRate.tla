------------------------------ MODULE GccRate ------------------------------
(***************************************************************************)
(* The rate control of rtpgccbwe (plugins/src/gcc/imp.rs): what a report   *)
(* on the packets that arrived does to the targets of the two controllers, *)
(* on delay and on loss, to the estimate, and to what listeners of the     *)
(* property are told.                                                      *)
(*                                                                         *)
(* A report is handled under the state lock, and so in one step, but for   *)
(* the notification after it.  Bitrates are whole numbers of a unit that   *)
(* the instance chooses; a product with a factor is truncated, as the      *)
(* casts of the code do.  What the delay detector makes of a report, and   *)
(* the bitrate that it finds was received, are anything: a division by no  *)
(* time makes it the largest, and packets that overtook one another 0.     *)
(* The moving average of that bitrate at decreases is here only whether    *)
(* there is one, as any bitrate may be close to it.                        *)
(***************************************************************************)
EXTENDS Integers

CONSTANTS
    Word,           \* 2^32: a u32 is less
    MinBitrate,     \* min-bitrate and max-bitrate
    MaxBitrate,
    Starts,         \* what estimated-bitrate may be set to before the start
    Growths,        \* factors of multiplicative increases, in percent
    Additions,      \* amounts of additive increases
    Received,       \* received bitrates
    Losses          \* averages of the share of packets lost, in percent

U32 == 0..(Word - 1)

ASSUME LimitsInOrder == MinBitrate \in U32 /\ MaxBitrate \in U32 /\ MinBitrate <= MaxBitrate
ASSUME RatesFit ==
    /\ Word \in Nat
    /\ Starts \cup Received \subseteq U32
    /\ Growths \cup Additions \subseteq Nat
    /\ Losses \subseteq 0..100 /\ 0 \in Losses

VARIABLES
    rate,       \* the targets, the estimate and what the controllers remember
    loss,       \* loss_average
    lossIsNaN,  \* is it not a number?
    notifying,  \* is a notification of the estimate due?
    told,       \* the estimate last notified
    network     \* "rough", or "calm" or "lossy" from some time on

rateVars == <<rate, loss, lossIsNaN, notifying, told, network>>

Timer == {"increaseOnDelay", "decreaseOnDelay", "increaseOnLoss", "decreaseOnLoss"}
Usage == {"normal", "over", "under"}
Rate == [onDelay : U32, onLoss : U32, estimate : U32,
         op : {"hold", "decrease", "increase"}, ema : BOOLEAN,
         last : [Timer -> {"never", "recent", "past"}]]

RateInit ==
    /\ \E start \in Starts :
          /\ rate = [onDelay |-> start, onLoss |-> start, estimate |-> start,
                     op |-> "increase", ema |-> FALSE,
                     last |-> [t \in Timer |->
                        IF t = "increaseOnDelay" THEN "never" ELSE "recent"]]
          /\ told = start
    /\ loss = 0 /\ lossIsNaN = FALSE
    /\ notifying = FALSE
    /\ network = "rough"

-----------------------------------------------------------------------------
(* A definition just above another with the same parameters is a variant   *)
(* with a plausible bug: nothing uses it.                                  *)

Smaller(a, b) == IF a < b THEN a ELSE b
Larger(a, b) == IF a > b THEN a ELSE b
ToU32(n) == Larger(0, Smaller(n, Word - 1))

Clamped(bitrate) == Larger(MinBitrate, Smaller(bitrate, MaxBitrate))

Lower(r) == Smaller(r.onDelay, r.onLoss)

\* The controllers' operations and when each was last done.
Marked(r, timer, op) == [r EXCEPT !.last[timer] = "recent", !.op = op]

\* set_bitrate: the new state, and whether the estimate was changed.
Unchanged(r) == [rate |-> r, changed |-> FALSE]

NewEstimateOnDelay(r) == Clamped(r.onDelay)
NewEstimate(r) == Clamped(Lower(r))

SetBitrate(r, by, bitrate) ==
    LET set == IF by = "delay" THEN [r EXCEPT !.onDelay = Clamped(bitrate)]
                               ELSE [r EXCEPT !.onLoss = Clamped(bitrate)]
    IN  IF NewEstimate(set) = Lower(r) THEN Unchanged(set)
        ELSE [rate |-> [set EXCEPT !.estimate = NewEstimate(set)], changed |-> TRUE]

\* compute_increased_rate, additive near the average of earlier decreases.
Additive(r) ==
    {SetBitrate(Marked(r, "increaseOnDelay", "increase"), "delay",
                ToU32(r.onDelay + more)) : more \in IF r.ema THEN Additions ELSE {}}

\* The first increase is by no time at all; no increase is beyond half as much
\* again as was received, unless that is no increase.
Grown(r, received, growth) ==
    LET grown == (r.onDelay * growth) \div 100
        most == (received * 3) \div 2
    IN  IF grown > most /\ most > r.onDelay THEN most ELSE grown

Multiplicative(r, received) ==
    {SetBitrate([Marked(r, "increaseOnDelay", "increase") EXCEPT !.ema = FALSE],
                "delay", ToU32(Grown(r, received, growth))) :
        growth \in IF r.last["increaseOnDelay"] = "never" THEN {100} ELSE Growths}

\* delay_control.
MayIncrease(r, usage) ==
    /\ \/ usage = "normal" /\ r.op # "decrease"
       \/ usage = "under" /\ r.op = "increase"
    /\ r.last["increaseOnDelay"] # "recent"

DecreasedOfTarget(r, received) ==
    Smaller((r.onDelay * 95) \div 100, (received * 85) \div 100)
Decreased(r, received) ==
    Smaller((r.estimate * 95) \div 100, (received * 85) \div 100)

DelayControl(r, usage, received) ==
    IF MayIncrease(r, usage) THEN Additive(r) \cup Multiplicative(r, received)
    ELSE IF usage = "over" /\ r.last["decreaseOnDelay"] = "past" THEN
        {SetBitrate([Marked(r, "decreaseOnDelay", "decrease") EXCEPT !.ema = TRUE],
                    "delay", Decreased(r, received))}
    ELSE {Unchanged([r EXCEPT !.op = "hold"])}

\* loss_control, with the average as it is after the report.
LossIncreaseTruncated(r) == ToU32(r.onLoss * (105 \div 100))
LossIncrease(r) == ToU32((r.onLoss * 105) \div 100)
LossDecreaseOfNothing(r, average) == r.onLoss
LossDecrease(r, average) == (r.onLoss * (200 - average)) \div 200

LossControl(r, average, isNaN) ==
    IF ~isNaN /\ average > 10 /\ r.last["decreaseOnLoss"] = "past" THEN
        SetBitrate(Marked(r, "decreaseOnLoss", "decrease"), "loss", LossDecrease(r, average))
    ELSE IF ~isNaN /\ average < 2 /\ r.last["increaseOnLoss"] = "past" THEN
        SetBitrate(Marked(r, "increaseOnLoss", "increase"), "loss", LossIncrease(r))
    ELSE Unchanged(r)

\* The second controller is asked only if the first changed nothing.
Both(outcome, average, isNaN) ==
    IF outcome.changed THEN outcome ELSE LossControl(outcome.rate, average, isNaN)

\* compute_loss_average: between what it was and the share lost, nearer to that
\* the more time has passed; the first report only starts the time.
Averages(lost) ==
    {l \in Losses : \/ loss <= l /\ l <= lost
                    \/ lost <= l /\ l <= loss}
CalmAverages(lost) == {l \in Averages(lost) : l # loss \/ l = lost}

\* A report without packets makes the share, and the average for ever, NaN.
AverageAfter(lost) ==
    /\ loss' \in IF network = "rough" THEN Averages(lost) ELSE CalmAverages(lost)
    /\ UNCHANGED lossIsNaN
Nothing ==
    /\ lossIsNaN' \in {TRUE, lossIsNaN}
    /\ UNCHANGED loss

Reported(usage, received) ==
    \E outcome \in DelayControl(rate, usage, received) :
        LET after == Both(outcome, loss', lossIsNaN')
        IN  rate' = after.rate /\ notifying' = after.changed

\* The src pad's event: detector, delay controller, loss controller.
Feedback ==
    /\ ~notifying
    /\ \/ \E lost \in Losses : 
             /\ network = "calm" => lost = 0
             /\ network = "lossy" => lost > 10
             /\ AverageAfter(lost)
       \/ network = "rough" /\ Nothing
    /\ \E usage \in Usage, received \in Received :
          /\ network = "calm" => usage # "over"
          /\ Reported(usage, received)
    /\ UNCHANGED <<told, network>>

\* After the lock: listeners read the property.
Notify ==
    /\ notifying
    /\ told' = rate.estimate
    /\ notifying' = FALSE
    /\ UNCHANGED <<rate, loss, lossIsNaN, network>>

\* Time passes since an operation: 100 ms or 200 ms are over.
Pass(timer) ==
    /\ rate.last[timer] = "recent"
    /\ rate' = [rate EXCEPT !.last[timer] = "past"]
    /\ UNCHANGED <<loss, lossIsNaN, notifying, told, network>>

\* From now on nothing is lost or late, or more than a tenth is always lost.
Settle ==
    /\ network = "rough"
    /\ network' \in {"calm", "lossy"}
    /\ UNCHANGED <<rate, loss, lossIsNaN, notifying, told>>

RateNext == Feedback \/ Notify \/ (\E timer \in Timer : Pass(timer)) \/ Settle

\* Reports keep coming, and time passes.
RateFairness ==
    /\ WF_rateVars(Feedback \/ Notify)
    /\ \A timer \in Timer : WF_rateVars(Pass(timer))

RateSpec == RateInit /\ [][RateNext]_rateVars /\ RateFairness

-----------------------------------------------------------------------------
(* Properties.                                                             *)

\* Every variable has its type.
RateTypeOK ==
    /\ rate \in Rate
    /\ loss \in Losses /\ lossIsNaN \in BOOLEAN
    /\ notifying \in BOOLEAN
    /\ told \in U32
    /\ network \in {"rough", "calm", "lossy"}

\* The estimate is the lower of the two targets, in the limits: set_bitrate finds
\* out whether to set it from the targets alone, one of which may still be what
\* the application set, out of the limits.
EstimateIsLower ==
    \/ rate.estimate = Clamped(Lower(rate))
    \/ rate.onDelay = rate.onLoss /\ rate.estimate = rate.onDelay

\* Whoever listens was told the estimate that holds, unless about to be: no
\* report changes it without a notification.
ToldHolds == notifying \/ told = rate.estimate

\* Whatever was told after the start is in the limits.
ToldInLimits == told \in MinBitrate..MaxBitrate \/ told \in Starts

\* Between any two reports the estimate follows from the targets and the limits,
\* and listeners have been told it, or are about to be.
RateInv == RateTypeOK /\ EstimateIsLower /\ ToldHolds /\ ToldInLimits

\* An overuse that is heeded takes a twentieth off the estimate, down to the
\* minimum, and no report heeds an overuse by raising it.
OveruseLowers ==
    [][rate.last["decreaseOnDelay"] = "past" /\ rate'.last["decreaseOnDelay"] = "recent" =>
         rate'.estimate <= Larger(MinBitrate, (rate.estimate * 95) \div 100)]_rateVars

\* When losses stay high the encoders are told the minimum in the end, whatever
\* the delay controller does meanwhile (unless the average is not a number).
HeedsLoss == network = "lossy" /\ ~lossIsNaN ~> told = MinBitrate

\* When nothing is lost or late any more they are told the maximum in the end
\* (unless the average is not a number, or the application's start is below the
\* minimum: each increase on delay is then taken for a change, and where each
\* report brings one the loss controller is never asked).
Recovers ==
    network = "calm" /\ ~lossIsNaN ~>
        told = MaxBitrate \/ rate.onLoss < MinBitrate

=============================================================================
