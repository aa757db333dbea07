----------------------------- MODULE Gcc_proofs -----------------------------
(***************************************************************************)
(* Proofs about rtpgccbwe: its rate control, for any limits, factors,      *)
(* losses and received bitrates that satisfy the assumptions of GccRate,   *)
(* and its detector and its pads, for any constants that satisfy those of  *)
(* GccDetector and GccElement.                                             *)
(***************************************************************************)
EXTENDS GccRate, GccElement, SequenceTheorems, TLAPS

-----------------------------------------------------------------------------
(* The rate control.                                                       *)

\* The limits are numbers of the word, in their order.
LEMMA Limits ==
    /\ Word \in Nat
    /\ MinBitrate \in Nat /\ MaxBitrate \in Nat
    /\ MinBitrate <= MaxBitrate /\ MaxBitrate < Word
  <1>1. Word \in Nat
    BY RatesFit DEF RatesFit
  <1>2. MinBitrate \in U32 /\ MaxBitrate \in U32 /\ MinBitrate <= MaxBitrate
    BY LimitsInOrder DEF LimitsInOrder
  <1> QED BY <1>1, <1>2 DEF U32

\* A bitrate that is clamped is in the limits, and no farther from them.
LEMMA ClampedInLimits ==
    ASSUME NEW bitrate \in Int
    PROVE  /\ Clamped(bitrate) \in U32
           /\ MinBitrate <= Clamped(bitrate) /\ Clamped(bitrate) <= MaxBitrate
           /\ Clamped(bitrate) <= bitrate \/ Clamped(bitrate) = MinBitrate
           /\ MinBitrate <= bitrate /\ bitrate <= MaxBitrate => Clamped(bitrate) = bitrate
  BY Limits DEF Clamped, Larger, Smaller, U32

\* A word is a number.
LEMMA WordIsInt == \A n \in U32 : n \in Int /\ n >= 0
  BY Limits DEF U32

-----------------------------------------------------------------------------
(* One operation.                                                          *)

\* The estimate of a state of the controllers: it is the lower target in the
\* limits, or all are still what the application set.
Coherent(r) ==
    \/ r.estimate = Clamped(Lower(r))
    \/ r.onDelay = r.onLoss /\ r.estimate = r.onDelay

\* The estimate is in the limits or was set by the application.
Known(r) ==
    \/ MinBitrate <= r.estimate /\ r.estimate <= MaxBitrate
    \/ r.estimate \in Starts

Sound(r) == r \in Rate /\ Coherent(r) /\ Known(r)

\* Remembering an operation changes no bitrate.
LEMMA MarkedIsSound ==
    ASSUME NEW r, Sound(r), NEW timer \in Timer, NEW op \in {"hold", "decrease", "increase"}
    PROVE  /\ Sound(Marked(r, timer, op))
           /\ Marked(r, timer, op).onDelay = r.onDelay
           /\ Marked(r, timer, op).onLoss = r.onLoss
           /\ Marked(r, timer, op).estimate = r.estimate
  BY DEF Sound, Coherent, Known, Marked, Rate, Lower, Smaller

\* What follows from setting a target.
LEMMA SetBitrateIsSound ==
    ASSUME NEW r, Sound(r), NEW by \in {"delay", "loss"}, NEW bitrate \in Int
    PROVE  LET outcome == SetBitrate(r, by, bitrate)
           IN  /\ Sound(outcome.rate)
               /\ outcome.changed \in BOOLEAN
               /\ ~outcome.changed => outcome.rate.estimate = r.estimate
               /\ outcome.rate.onDelay =
                    IF by = "delay" THEN Clamped(bitrate) ELSE r.onDelay
               /\ outcome.rate.last = r.last
  <1> DEFINE set == IF by = "delay" THEN [r EXCEPT !.onDelay = Clamped(bitrate)]
                                    ELSE [r EXCEPT !.onLoss = Clamped(bitrate)]
             new == [set EXCEPT !.estimate = NewEstimate(set)]
             outcome == SetBitrate(r, by, bitrate)
  <1> SUFFICES /\ Sound(outcome.rate)
               /\ outcome.changed \in BOOLEAN
               /\ ~outcome.changed => outcome.rate.estimate = r.estimate
               /\ outcome.rate.onDelay =
                    IF by = "delay" THEN Clamped(bitrate) ELSE r.onDelay
               /\ outcome.rate.last = r.last
    OBVIOUS
  <1>1. Clamped(bitrate) \in U32
    BY ClampedInLimits
  <1>2. /\ set \in Rate /\ set.estimate = r.estimate /\ set.last = r.last
        /\ set.onDelay = IF by = "delay" THEN Clamped(bitrate) ELSE r.onDelay
    BY <1>1 DEF Sound, Rate
  <1>3. outcome = IF NewEstimate(set) = Lower(r) THEN [rate |-> set, changed |-> FALSE]
                  ELSE [rate |-> new, changed |-> TRUE]
    BY DEF SetBitrate, Unchanged
  <1> HIDE DEF set, outcome
  <1>4. Lower(set) \in Int /\ Lower(r) \in Int
    BY <1>2, WordIsInt DEF Lower, Smaller, Sound, Rate
  <1>5. /\ NewEstimate(set) \in U32
        /\ MinBitrate <= NewEstimate(set) /\ NewEstimate(set) <= MaxBitrate
    BY <1>4, ClampedInLimits DEF NewEstimate
  <1>6. CASE NewEstimate(set) = Lower(r)
    <2>1. outcome.rate = set /\ outcome.changed = FALSE
      BY <1>3, <1>6
    <2>2. Clamped(Lower(r)) = Lower(r)
      BY <1>4, <1>5, <1>6, ClampedInLimits
    <2>3. r.estimate = Lower(r)
      BY <2>2 DEF Sound, Coherent, Lower, Smaller
    <2>4. set.estimate = Clamped(Lower(set))
      BY <1>2, <1>6, <2>3 DEF NewEstimate
    <2> QED BY <1>2, <2>1, <2>4 DEF Sound, Coherent, Known
  <1>7. CASE NewEstimate(set) # Lower(r)
    <2>1. outcome.rate = new /\ outcome.changed = TRUE
      BY <1>3, <1>7
    <2>2. /\ new \in Rate /\ new.estimate = NewEstimate(set)
          /\ new.onDelay = set.onDelay /\ new.onLoss = set.onLoss /\ new.last = set.last
      BY <1>2, <1>5 DEF Rate
    <2>3. Lower(new) = Lower(set)
      BY <2>2 DEF Lower
    <2> HIDE DEF new
    <2> QED BY <1>2, <1>5, <2>1, <2>2, <2>3 DEF Sound, Coherent, Known, NewEstimate
  <1> QED BY <1>6, <1>7

-----------------------------------------------------------------------------
(* A report.                                                               *)

\* What a controller leaves: a sound state, an answer that is true, and the
\* target on delay where it does not set it.
Outcome(r, outcome) ==
    /\ Sound(outcome.rate)
    /\ outcome.changed \in BOOLEAN
    /\ ~outcome.changed => outcome.rate.estimate = r.estimate

\* The loss controller leaves the target on delay and its times alone.
LEMMA LossControlIsSound ==
    ASSUME NEW r, Sound(r), NEW average \in Int, NEW isNaN \in BOOLEAN
    PROVE  LET outcome == LossControl(r, average, isNaN)
           IN  /\ Outcome(r, outcome)
               /\ outcome.rate.onDelay = r.onDelay
               /\ outcome.rate.last["decreaseOnDelay"] = r.last["decreaseOnDelay"]
  <1> DEFINE down == Marked(r, "decreaseOnLoss", "decrease")
             up == Marked(r, "increaseOnLoss", "increase")
             outcome == LossControl(r, average, isNaN)
  <1> SUFFICES /\ Outcome(r, outcome)
               /\ outcome.rate.onDelay = r.onDelay
               /\ outcome.rate.last["decreaseOnDelay"] = r.last["decreaseOnDelay"]
    OBVIOUS
  <1>1. r.onLoss \in Int
    BY WordIsInt DEF Sound, Rate
  <1>2. LossDecrease(r, average) \in Int
    BY <1>1 DEF LossDecrease
  <1>3. LossIncrease(r) \in Int
    BY <1>1, Limits DEF LossIncrease, ToU32, Larger, Smaller
  <1>4. /\ Sound(down) /\ down.onDelay = r.onDelay /\ down.estimate = r.estimate
        /\ Sound(up) /\ up.onDelay = r.onDelay /\ up.estimate = r.estimate
    BY MarkedIsSound DEF Timer
  <1>5. /\ down.last["decreaseOnDelay"] = r.last["decreaseOnDelay"]
        /\ up.last["decreaseOnDelay"] = r.last["decreaseOnDelay"]
    BY DEF Marked, Sound, Rate, Timer
  <1>6. \/ outcome = SetBitrate(down, "loss", LossDecrease(r, average))
        \/ outcome = SetBitrate(up, "loss", LossIncrease(r))
        \/ outcome = [rate |-> r, changed |-> FALSE]
    BY DEF LossControl, Unchanged
  <1> HIDE DEF down, up, outcome
  <1>7. CASE outcome = SetBitrate(down, "loss", LossDecrease(r, average))
    BY <1>2, <1>4, <1>5, <1>7, SetBitrateIsSound DEF Outcome
  <1>8. CASE outcome = SetBitrate(up, "loss", LossIncrease(r))
    BY <1>3, <1>4, <1>5, <1>8, SetBitrateIsSound DEF Outcome
  <1>9. CASE outcome = [rate |-> r, changed |-> FALSE]
    BY <1>9 DEF Outcome
  <1> QED BY <1>6, <1>7, <1>8, <1>9

\* A decrease on delay is in the limits or below what it is asked to be.
Heeded(r, outcome) ==
    r.last["decreaseOnDelay"] = "past"
      /\ outcome.rate.last["decreaseOnDelay"] = "recent" =>
        outcome.rate.onDelay <= Larger(MinBitrate, (r.estimate * 95) \div 100)

\* The delay controller, whichever of its operations it does.
LEMMA DelayControlIsSound ==
    ASSUME NEW r, Sound(r), NEW usage \in Usage, NEW measured \in Received,
           NEW outcome \in DelayControl(r, usage, measured)
    PROVE  Outcome(r, outcome) /\ Heeded(r, outcome)
  <1> DEFINE up == Marked(r, "increaseOnDelay", "increase")
             upAlone == [up EXCEPT !.ema = FALSE]
             down == [Marked(r, "decreaseOnDelay", "decrease") EXCEPT !.ema = TRUE]
             hold == [r EXCEPT !.op = "hold"]
  <1>1. measured \in Int /\ r.onDelay \in Int /\ r.estimate \in Int
    BY WordIsInt, RatesFit DEF RatesFit, Sound, Rate
  <1>2. /\ Sound(up) /\ up.estimate = r.estimate
        /\ up.last["decreaseOnDelay"] = r.last["decreaseOnDelay"]
    <2>1. Sound(up) /\ up.estimate = r.estimate
      BY MarkedIsSound DEF Timer
    <2>2. up.last["decreaseOnDelay"] = r.last["decreaseOnDelay"]
      BY DEF Marked, Sound, Rate, Timer
    <2> QED BY <2>1, <2>2
  <1>3. /\ Sound(upAlone) /\ upAlone.estimate = r.estimate
        /\ upAlone.last["decreaseOnDelay"] = r.last["decreaseOnDelay"]
    BY <1>2 DEF Sound, Coherent, Known, Rate, Lower
  <1>4. Sound(down) /\ down.estimate = r.estimate
    <2> DEFINE marked == Marked(r, "decreaseOnDelay", "decrease")
    <2>1. Sound(marked) /\ marked.estimate = r.estimate
      BY MarkedIsSound DEF Timer
    <2> HIDE DEF marked
    <2>2. LET m == [marked EXCEPT !.ema = TRUE] IN Sound(m) /\ m.estimate = r.estimate
      BY <2>1 DEF Sound, Coherent, Known, Rate, Lower
    <2> QED BY <2>2 DEF marked
  <1>5. Sound(hold) /\ hold.estimate = r.estimate /\ hold.last = r.last
    BY DEF Sound, Coherent, Known, Rate, Lower
  <1>6. \/ \E more \in Additions :
              outcome = SetBitrate(up, "delay", ToU32(r.onDelay + more))
        \/ \E growth \in Growths \cup {100} :
              outcome = SetBitrate(upAlone, "delay", ToU32(Grown(r, measured, growth)))
        \/ outcome = SetBitrate(down, "delay", Decreased(r, measured))
        \/ outcome = [rate |-> hold, changed |-> FALSE]
    BY DEF DelayControl, Additive, Multiplicative, Unchanged
  <1> HIDE DEF up, upAlone, down, hold
  <1>7. ASSUME NEW n \in Int PROVE ToU32(n) \in Int
    BY Limits DEF ToU32, Larger, Smaller
  <1>8. CASE \E more \in Additions :
              outcome = SetBitrate(up, "delay", ToU32(r.onDelay + more))
    <2>1. PICK more \in Additions :
            outcome = SetBitrate(up, "delay", ToU32(r.onDelay + more))
      BY <1>8
    <2>2. ToU32(r.onDelay + more) \in Int
      BY <1>1, <1>7, RatesFit DEF RatesFit
    <2> QED BY <1>2, <2>1, <2>2, SetBitrateIsSound DEF Outcome, Heeded
  <1>9. CASE \E growth \in Growths \cup {100} :
              outcome = SetBitrate(upAlone, "delay", ToU32(Grown(r, measured, growth)))
    <2>1. PICK growth \in Growths \cup {100} :
            outcome = SetBitrate(upAlone, "delay", ToU32(Grown(r, measured, growth)))
      BY <1>9
    <2>2. Grown(r, measured, growth) \in Int
      BY <1>1, RatesFit DEF RatesFit, Grown
    <2>3. ToU32(Grown(r, measured, growth)) \in Int
      BY <2>2, <1>7
    <2> QED BY <1>3, <2>1, <2>3, SetBitrateIsSound DEF Outcome, Heeded
  <1>10. CASE outcome = SetBitrate(down, "delay", Decreased(r, measured))
    <2> DEFINE most == (r.estimate * 95) \div 100
               low == Decreased(r, measured)
    <2>1. most \in Int /\ low \in Int /\ low <= most
      BY <1>1 DEF Decreased, Smaller
    <2>2. outcome = SetBitrate(down, "delay", low)
      BY <1>10
    <2> HIDE DEF most, low
    <2>3. Outcome(r, outcome) /\ outcome.rate.onDelay = Clamped(low)
      BY <1>4, <2>1, <2>2, SetBitrateIsSound DEF Outcome
    <2>4. Clamped(low) <= Larger(MinBitrate, most)
      BY <2>1, ClampedInLimits, Limits, WordIsInt DEF Larger
    <2> QED BY <2>3, <2>4 DEF Heeded, most
  <1>11. CASE outcome = [rate |-> hold, changed |-> FALSE]
    BY <1>5, <1>11 DEF Outcome, Heeded
  <1> QED BY <1>6, <1>8, <1>9, <1>10, <1>11

\* The two controllers one after the other.
LEMMA BothAreSound ==
    ASSUME NEW r, Sound(r), NEW usage \in Usage, NEW measured \in Received,
           NEW outcome \in DelayControl(r, usage, measured),
           NEW average \in Int, NEW isNaN \in BOOLEAN
    PROVE  LET after == Both(outcome, average, isNaN)
           IN  Outcome(r, after) /\ Heeded(r, after)
  <1> DEFINE after == Both(outcome, average, isNaN)
  <1> SUFFICES Outcome(r, after) /\ Heeded(r, after)
    OBVIOUS
  <1>1. Outcome(r, outcome) /\ Heeded(r, outcome)
    BY DelayControlIsSound
  <1>2. after = IF outcome.changed THEN outcome
                ELSE LossControl(outcome.rate, average, isNaN)
    BY DEF Both
  <1> HIDE DEF after
  <1>3. CASE outcome.changed = TRUE
    BY <1>1, <1>2, <1>3
  <1>4. CASE outcome.changed = FALSE
    <2>1. after = LossControl(outcome.rate, average, isNaN)
      BY <1>2, <1>4
    <2>2. Sound(outcome.rate) /\ outcome.rate.estimate = r.estimate
      BY <1>1, <1>4 DEF Outcome
    <2>3. /\ Outcome(outcome.rate, after)
          /\ after.rate.onDelay = outcome.rate.onDelay
          /\ after.rate.last["decreaseOnDelay"] = outcome.rate.last["decreaseOnDelay"]
      BY <2>1, <2>2, LossControlIsSound
    <2> QED BY <1>1, <2>2, <2>3 DEF Outcome, Heeded
  <1> QED BY <1>1, <1>3, <1>4 DEF Outcome

-----------------------------------------------------------------------------
(* The invariant.                                                          *)

\* The targets and the estimate are sound, and listeners know the estimate or are
\* about to, and knew no other than such a one.
RateIInv ==
    /\ Sound(rate)
    /\ loss \in Losses /\ lossIsNaN \in BOOLEAN
    /\ notifying \in BOOLEAN
    /\ notifying \/ told = rate.estimate
    /\ told \in U32
    /\ told \in MinBitrate..MaxBitrate \/ told \in Starts
    /\ network \in {"rough", "calm", "lossy"}

\* It holds at first,
LEMMA InitRateIInv == RateInit => RateIInv
  <1> SUFFICES ASSUME RateInit PROVE RateIInv
    OBVIOUS
  <1>1. PICK start \in Starts :
          /\ rate = [onDelay |-> start, onLoss |-> start, estimate |-> start,
                     op |-> "increase", ema |-> FALSE,
                     last |-> [t \in Timer |->
                        IF t = "increaseOnDelay" THEN "never" ELSE "recent"]]
          /\ told = start
    BY DEF RateInit
  <1>2. start \in U32
    BY RatesFit DEF RatesFit
  <1>3. /\ rate \in Rate
        /\ rate.onDelay = start /\ rate.onLoss = start /\ rate.estimate = start
    BY <1>1, <1>2 DEF Rate
  <1>4. Sound(rate)
    BY <1>3 DEF Sound, Coherent, Known
  <1>5. loss \in Losses
    BY RatesFit DEF RatesFit, RateInit
  <1>6. lossIsNaN \in BOOLEAN /\ notifying \in BOOLEAN
    BY DEF RateInit
  <1> QED BY <1>1, <1>2, <1>3, <1>4, <1>5, <1>6 DEF RateInit, RateIInv

\* What a report leaves.
LEMMA FeedbackIsSound ==
    ASSUME RateIInv, Feedback
    PROVE  /\ Sound(rate') /\ notifying' \in BOOLEAN
           /\ ~notifying' => rate'.estimate = rate.estimate
           /\ loss' \in Losses /\ lossIsNaN' \in BOOLEAN
           /\ Heeded(rate, [rate |-> rate', changed |-> notifying'])
  <1>1. loss' \in Losses /\ lossIsNaN' \in BOOLEAN
    BY DEF Feedback, AverageAfter, Averages, CalmAverages, Nothing, RateIInv
  <1>2. loss' \in Int
    BY <1>1, RatesFit DEF RatesFit
  <1>3. PICK usage \in Usage, measured \in Received : Reported(usage, measured)
    BY DEF Feedback
  <1>4. PICK outcome \in DelayControl(rate, usage, measured) :
          /\ rate' = Both(outcome, loss', lossIsNaN').rate
          /\ notifying' = Both(outcome, loss', lossIsNaN').changed
    BY <1>3 DEF Reported
  <1> DEFINE average == loss'
             isNaN == lossIsNaN'
             after == Both(outcome, average, isNaN)
  <1>5. average \in Int /\ isNaN \in BOOLEAN
    BY <1>1, <1>2
  <1>6. rate' = after.rate /\ notifying' = after.changed
    BY <1>4
  <1> HIDE DEF average, isNaN
  <1>7. Sound(rate)
    BY DEF RateIInv
  <1>8. Outcome(rate, after) /\ Heeded(rate, after)
    BY <1>5, <1>7, BothAreSound
  <1> HIDE DEF after
  <1> QED BY <1>1, <1>6, <1>8 DEF Outcome, Heeded

\* each step keeps it,
LEMMA NextKeepsRateIInv == RateIInv /\ [RateNext]_rateVars => RateIInv'
  <1> SUFFICES ASSUME RateIInv, [RateNext]_rateVars PROVE RateIInv'
    OBVIOUS
  <1>1. CASE Feedback
    <2>1. told' = told /\ network' = network /\ notifying = FALSE
      BY <1>1 DEF Feedback, RateIInv
    <2> QED BY <1>1, <2>1, FeedbackIsSound DEF RateIInv
  <1>2. CASE Notify
    <2>1. rate' = rate /\ told' = rate.estimate /\ notifying' = FALSE
          /\ UNCHANGED <<loss, lossIsNaN, network>>
      BY <1>2 DEF Notify
    <2>2. rate.estimate \in U32
      BY DEF RateIInv, Sound, Rate
    <2>3. rate.estimate \in MinBitrate..MaxBitrate \/ rate.estimate \in Starts
      BY <2>2, WordIsInt, Limits DEF RateIInv, Sound, Known
    <2> QED BY <2>1, <2>2, <2>3 DEF RateIInv
  <1>3. ASSUME NEW timer \in Timer, Pass(timer)
        PROVE  RateIInv'
    <2>1. /\ rate' = [rate EXCEPT !.last[timer] = "past"]
          /\ UNCHANGED <<loss, lossIsNaN, notifying, told, network>>
      BY <1>3 DEF Pass
    <2>2. Sound(rate') /\ rate'.estimate = rate.estimate
      BY <2>1 DEF RateIInv, Sound, Coherent, Known, Rate, Lower
    <2> QED BY <2>1, <2>2 DEF RateIInv
  <1>4. CASE Settle
    BY <1>4 DEF Settle, RateIInv
  <1>5. CASE UNCHANGED rateVars
    BY <1>5 DEF rateVars, RateIInv
  <1> QED BY <1>1, <1>2, <1>3, <1>4, <1>5 DEF RateNext

\* and so it always holds.
LEMMA RateIInvHolds == RateSpec => []RateIInv
  BY InitRateIInv, NextKeepsRateIInv, PTL DEF RateSpec

\* Every variable has its type: no product and no increase leaves the word.
THEOREM RateTypeCorrect == RateSpec => []RateTypeOK
  <1>1. RateIInv => RateTypeOK
    BY DEF RateIInv, Sound, RateTypeOK
  <1> QED BY <1>1, RateIInvHolds, PTL

\* The estimate is the lower target in the limits, or still the application's.
THEOREM EstimateIsAlwaysLower == RateSpec => []EstimateIsLower
  <1>1. RateIInv => EstimateIsLower
    BY DEF RateIInv, Sound, Coherent, EstimateIsLower
  <1> QED BY <1>1, RateIInvHolds, PTL

\* No report changes the estimate without telling the listeners.
THEOREM ToldAlwaysHolds == RateSpec => []ToldHolds
  <1>1. RateIInv => ToldHolds
    BY DEF RateIInv, ToldHolds
  <1> QED BY <1>1, RateIInvHolds, PTL

\* Listeners hear of no bitrate out of the limits, which is what the element's
\* own bitrate control builds on.
THEOREM ToldAlwaysInLimits == RateSpec => []ToldInLimits
  <1>1. RateIInv => ToldInLimits
    BY DEF RateIInv, ToldInLimits
  <1> QED BY <1>1, RateIInvHolds, PTL

\* Estimate, targets and what listeners were told agree in every reachable state,
\* for any limits, factors and reports.
THEOREM RateInvHolds == RateSpec => []RateInv
  <1>1. RateTypeOK /\ EstimateIsLower /\ ToldHolds /\ ToldInLimits => RateInv
    BY DEF RateInv
  <1> QED
    BY <1>1, RateTypeCorrect, EstimateIsAlwaysLower, ToldAlwaysHolds, ToldAlwaysInLimits, PTL

\* A report that heeds an overuse never leaves an estimate above nineteen
\* twentieths of what it was, or the minimum.
THEOREM OveruseAlwaysLowers == RateSpec => OveruseLowers
  <1>1. RateIInv /\ RateIInv' /\ [RateNext]_rateVars =>
          [rate.last["decreaseOnDelay"] = "past" /\ rate'.last["decreaseOnDelay"] = "recent" =>
             rate'.estimate <= Larger(MinBitrate, (rate.estimate * 95) \div 100)]_rateVars
    <2> SUFFICES ASSUME RateIInv, RateIInv', [RateNext]_rateVars,
                        rate.last["decreaseOnDelay"] = "past",
                        rate'.last["decreaseOnDelay"] = "recent"
                 PROVE  rate'.estimate <= Larger(MinBitrate, (rate.estimate * 95) \div 100)
      OBVIOUS
    <2>1. CASE Feedback
      <3> DEFINE limit == Larger(MinBitrate, (rate.estimate * 95) \div 100)
      <3>1. rate'.onDelay <= limit
        BY <2>1, FeedbackIsSound DEF Heeded
      <3>2. rate.estimate \in Int /\ rate'.onDelay \in Int /\ rate'.onLoss \in Int
        BY WordIsInt DEF RateIInv, Sound, Rate
      <3>3. limit \in Int /\ MinBitrate <= limit
        BY <3>2, Limits DEF Larger
      <3>4. Lower(rate') \in Int /\ Lower(rate') <= rate'.onDelay
        BY <3>2 DEF Lower, Smaller
      <3>5. \/ rate'.estimate = Clamped(Lower(rate'))
            \/ rate'.estimate = rate'.onDelay
        BY DEF RateIInv, Sound, Coherent
      <3>6. Clamped(Lower(rate')) <= Lower(rate') \/ Clamped(Lower(rate')) = MinBitrate
        BY <3>4, ClampedInLimits
      <3>7. rate'.estimate \in Int
        BY WordIsInt DEF RateIInv, Sound, Rate
      <3> HIDE DEF limit
      <3>8. rate'.estimate <= limit
        BY <3>1, <3>2, <3>3, <3>4, <3>5, <3>6, <3>7, Limits
      <3> QED BY <3>8 DEF limit
    <2>2. CASE ~Feedback
      <3>1. rate'.last = rate.last \/ \E timer \in Timer :
              rate'.last = [rate.last EXCEPT ![timer] = "past"]
        BY <2>2 DEF RateNext, Notify, Settle, Pass, rateVars, RateIInv, Sound, Rate
      <3>2. rate'.last["decreaseOnDelay"] # "recent"
        BY <3>1 DEF RateIInv, Sound, Rate, Timer
      <3> QED BY <3>2
    <2> QED BY <2>1, <2>2
  <1> QED BY <1>1, RateIInvHolds, PTL DEF RateSpec, OveruseLowers

-----------------------------------------------------------------------------
(* The 64 bit numbers.                                                     *)

\* A number is so many whole cycles and its 16 bits.
LEMMA BitsAndCycles ==
    ASSUME NEW n \in Nat
    PROVE  /\ n \div 65536 \in Nat
           /\ n % 65536 \in Nat /\ n % 65536 <= 65535
           /\ n = (65536 * (n \div 65536)) + (n % 65536)
  OBVIOUS

\* The numbers that packets begin with are 16 bits.
LEMMA FirstAre16Bits ==
    ASSUME NEW index \in First
    PROVE  index \in Nat /\ index <= 65535
  <1>1. index \in 0..(Cycle - 1)
    BY FirstInCycle DEF FirstInCycle
  <1>2. \A n \in 0..(Cycle - 1) : n \in Nat /\ n <= 65535
    BY DEF Cycle
  <1> QED BY <1>1, <1>2

\* Numbers less than half a cycle apart are in the same cycle or in neighbours.
LEMMA CyclesApart ==
    ASSUME NEW i \in Nat, NEW n \in Nat, -32767 <= i - n, i - n <= 32767,
           NEW p \in Nat, NEW r \in Nat, r <= 65535, i = (65536 * p) + r,
           NEW q \in Nat, NEW s \in Nat, s <= 65535, n = (65536 * q) + s
    PROVE  p - q = -1 \/ p - q = 0 \/ p - q = 1
  <1> DEFINE d == p - q
  <1>1. d \in Int
    OBVIOUS
  <1>2. 65536 * d = (i - n) - (r - s)
    OBVIOUS
  <1>3. -131072 < 65536 * d /\ 65536 * d < 131072
    BY <1>2
  <1> HIDE DEF d
  <1>4. d = -1 \/ d = 0 \/ d = 1
    BY <1>1, <1>3
  <1> QED BY <1>4 DEF d

\* Sixteen bits of a number that is less than half a cycle away from another
\* are enough to find it.
LEMMA UnwrapsNear ==
    ASSUME NEW index \in Nat, NEW near \in Nat,
           -32767 <= index - near, index - near <= 32767
    PROVE  Unwrapped(index % Cycle, near) = index
  <1> DEFINE p == index \div 65536
             r == index % 65536
             q == near \div 65536
             s == near % 65536
  <1>1. p \in Nat /\ r \in Nat /\ r <= 65535 /\ index = (65536 * p) + r
    BY BitsAndCycles
  <1>2. q \in Nat /\ s \in Nat /\ s <= 65535 /\ near = (65536 * q) + s
    BY BitsAndCycles
  <1> DEFINE number == r + (near - s)
  <1>3. Unwrapped(index % Cycle, near) =
          IF number < near
             THEN IF near - number > 32767 THEN number + 65536 ELSE number
             ELSE IF number - near > 32767 /\ number >= 65536 THEN number - 65536
                  ELSE number
    BY DEF Unwrapped, Cycle, Half
  <1> HIDE DEF p, q, r, s
  <1>4. p - q = -1 \/ p - q = 0 \/ p - q = 1
    BY <1>1, <1>2, CyclesApart
  <1>5. CASE p - q = 0
    <2>1. number = index
      BY <1>1, <1>2, <1>5
    <2> HIDE DEF number
    <2> QED BY <1>3, <2>1
  <1>6. CASE p - q = -1
    <2>1. number = index + 65536
      BY <1>1, <1>2, <1>6
    <2> HIDE DEF number
    <2> QED BY <1>3, <2>1
  <1>7. CASE p - q = 1
    <2>1. number = index - 65536
      BY <1>1, <1>2, <1>7
    <2> HIDE DEF number
    <2> QED BY <1>3, <2>1
  <1> QED BY <1>4, <1>5, <1>6, <1>7

\* Within a cycle a number is its 16 bits.
LEMMA OneCycle ==
    ASSUME NEW n \in Nat, n <= 65535,
           NEW p \in Nat, NEW r \in Nat, r <= 65535, n = (65536 * p) + r
    PROVE  r = n
  <1>1. p = 0
    OBVIOUS
  <1> QED BY <1>1

\* The first report finds the number that its 16 bits are.
LEMMA UnwrapsFirst ==
    ASSUME NEW index \in Nat, index <= 65535
    PROVE  Unwrapped(index % Cycle, 0) = index
  <1>1. index % 65536 = index
    <2> DEFINE p == index \div 65536
               r == index % 65536
    <2>1. p \in Nat /\ r \in Nat /\ r <= 65535 /\ index = (65536 * p) + r
      BY BitsAndCycles
    <2> HIDE DEF p, r
    <2>2. r = index
      BY <2>1, OneCycle
    <2> QED BY <2>2 DEF r
  <1>2. 0 % 65536 = 0
    OBVIOUS
  <1> QED BY <1>1, <1>2 DEF Unwrapped, Cycle, Half

\* What a report leaves true.
Numbers ==
    /\ reports \in Nat /\ newest \in Nat /\ extended = newest
    /\ reports = 0 => newest = 0

\* A report whose number is found keeps it.
LEMMA UpdateKeepsNumbers ==
    ASSUME Numbers, NEW index \in Nat, NEW arrival,
           Update(index, index % Cycle, arrival),
           Unwrapped(index % Cycle, extended) = index
    PROVE  Numbers'
  <1>1. reports' = reports + 1 /\ extended' = Later(index, extended)
    BY DEF Update
  <1>2. newest' = extended'
    BY <1>1 DEF Update, Later, Numbers
  <1> QED BY <1>1, <1>2 DEF Numbers, Later

\* Each report finds the number its bits are.
LEMMA ReportKeepsNumbers ==
    ASSUME Numbers, Report
    PROVE  Numbers'
  <1>1. CASE reports = 0
    <2>1. PICK index \in First, arrival \in Arrivals \cup {0} :
            Update(index, index % Cycle, arrival)
      BY <1>1 DEF Report, Reportable
    <2>2. index \in Nat /\ index <= 65535
      BY <2>1, FirstAre16Bits
    <2>3. Unwrapped(index % Cycle, extended) = index
      BY <1>1, <2>2, UnwrapsFirst DEF Numbers
    <2> QED BY <2>1, <2>2, <2>3, UpdateKeepsNumbers
  <1>2. CASE reports # 0
    <2>1. ASSUME NEW jump \in Jumps
          PROVE  jump \in Int /\ -32767 <= jump /\ jump <= 32767
      BY JumpsAreNear DEF JumpsAreNear, Half
    <2>2. PICK index \in Nat, jump \in Jumps, arrival \in Arrivals \cup {0} :
            index = newest + jump /\ Update(index, index % Cycle, arrival)
      BY <1>2 DEF Report, Reportable, Numbers
    <2>3. extended \in Nat /\ -32767 <= index - extended /\ index - extended <= 32767
      BY <2>1, <2>2 DEF Numbers
    <2>4. Unwrapped(index % Cycle, extended) = index
      BY <2>3, UnwrapsNear
    <2> QED BY <2>2, <2>4, UpdateKeepsNumbers
  <1> QED BY <1>1, <1>2

\* The actions of the pads leave the detector alone.
LEMMA OnlyEventReports ==
    ASSUME [Next]_vars
    PROVE  Event \/ UNCHANGED detectorVars
  BY DEF Next, Chain, Activate, Deactivate, StopTask, TaskEnds, Deactivated,
         TaskStep, Call, TakeClockEntry, CreateList, Push, StoreFlow, ClockFails, vars

-----------------------------------------------------------------------------
(* The window of received packets.                                         *)

\* Packets by number, with one that is the highest.
Packets(packets) ==
    /\ DOMAIN packets \subseteq Nat
    /\ \A n \in DOMAIN packets : packets[n] \in Nat
HasHighest(packets) ==
    \E h \in DOMAIN packets : \A n \in DOMAIN packets : n <= h

\* Highest is well defined where there is a highest number,
LEMMA HighestIsHighest ==
    ASSUME NEW packets, Packets(packets), HasHighest(packets)
    PROVE  /\ Highest(packets) \in DOMAIN packets
           /\ \A n \in DOMAIN packets : n <= Highest(packets)
  BY DEF HasHighest, Highest

\* and is the only one.
LEMMA OneHighest ==
    ASSUME NEW packets, Packets(packets), NEW h \in DOMAIN packets,
           \A n \in DOMAIN packets : n <= h
    PROVE  Highest(packets) = h /\ HasHighest(packets)
  <1>1. HasHighest(packets)
    BY DEF HasHighest
  <1>2. /\ Highest(packets) \in DOMAIN packets
        /\ \A n \in DOMAIN packets : n <= Highest(packets)
    BY <1>1, HighestIsHighest
  <1> DEFINE k == Highest(packets)
  <1>3. k \in Nat /\ h \in Nat /\ k <= h /\ h <= k
    BY <1>2 DEF Packets
  <1> HIDE DEF k
  <1>4. k = h
    BY <1>3
  <1> QED BY <1>1, <1>4 DEF k

\* A packet that is inserted leaves a highest number.
LEMMA InsertedHasHighest ==
    ASSUME NEW packets, Packets(packets), DOMAIN packets = {} \/ HasHighest(packets),
           NEW number \in Nat, NEW arrival \in Nat
    PROVE  LET with == Inserted(packets, number, arrival)
           IN  Packets(with) /\ HasHighest(with)
  <1> DEFINE with == Inserted(packets, number, arrival)
  <1>1. /\ DOMAIN with = DOMAIN packets \cup {number}
        /\ \A n \in DOMAIN with : with[n] = IF n = number THEN arrival ELSE packets[n]
    BY DEF Inserted
  <1>2. Packets(with)
    BY <1>1 DEF Packets
  <1> HIDE DEF with
  <1>3. HasHighest(with)
    <2>1. CASE DOMAIN packets = {}
      BY <1>1, <2>1 DEF HasHighest
    <2>2. CASE HasHighest(packets)
      <3>1. PICK h \in DOMAIN packets : \A n \in DOMAIN packets : n <= h
        BY <2>2 DEF HasHighest
      <3>2. CASE number <= h
        BY <1>1, <3>1, <3>2 DEF HasHighest
      <3>3. CASE ~(number <= h)
        <4>1. \A n \in DOMAIN with : n <= number
          BY <1>1, <3>1, <3>3 DEF Packets
        <4> QED BY <1>1, <4>1 DEF HasHighest
      <3> QED BY <3>2, <3>3
    <2> QED BY <2>1, <2>2
  <1> QED BY <1>2, <1>3 DEF with

\* Who is kept spans the window at most.
Spans(packets) ==
    \A n \in DOMAIN packets :
        (\A m \in DOMAIN packets : n <= m) => InWindow(packets, n)

\* What eviction keeps includes the highest number, which is in its own window, and
\* so starts at a number that is in it too.
LEMMA EvictedSpans ==
    ASSUME NEW packets, Packets(packets), HasHighest(packets)
    PROVE  LET kept == Evicted(packets)
           IN  /\ Packets(kept) /\ HasHighest(kept) /\ Spans(kept)
               /\ \A n \in DOMAIN kept : n \in DOMAIN packets /\ kept[n] = packets[n]
  <1> DEFINE kept == Evicted(packets)
             h == Highest(packets)
  <1>1. h \in DOMAIN packets /\ \A n \in DOMAIN packets : n <= h
    BY HighestIsHighest
  <1>2. /\ DOMAIN kept = {n \in DOMAIN packets :
                            \E m \in DOMAIN packets : m <= n /\ InWindow(packets, m)}
        /\ \A n \in DOMAIN kept : kept[n] = packets[n]
    BY DEF Evicted
  <1>3. Packets(kept)
    BY <1>2 DEF Packets
  <1>4. InWindow(packets, h)
    <2>1. packets[h] \in Nat /\ Window \in Nat
      BY <1>1, InstantsAreCounted DEF InstantsAreCounted, Packets
    <2> HIDE DEF h
    <2>2. packets[h] - packets[h] <= Window
      BY <2>1
    <2> QED BY <2>2 DEF InWindow, h
  <1>5. h \in DOMAIN kept
    <2>1. h <= h
      BY <1>1
    <2> QED BY <1>1, <1>2, <1>4, <2>1
  <1> HIDE DEF kept, h
  <1>6. Highest(kept) = h /\ HasHighest(kept)
    BY <1>1, <1>2, <1>3, <1>5, OneHighest
  <1>7. Spans(kept)
    <2> SUFFICES ASSUME NEW n \in DOMAIN kept, \A m \in DOMAIN kept : n <= m
                 PROVE  InWindow(kept, n)
      BY DEF Spans
    <2>1. PICK m \in DOMAIN packets : m <= n /\ InWindow(packets, m)
      BY <1>2
    <2>2. m <= m
      BY <2>1 DEF Packets
    <2>3. m \in DOMAIN kept
      BY <1>2, <2>1, <2>2
    <2>4. m = n
      BY <1>3, <2>1, <2>3 DEF Packets
    <2>5. kept[h] - kept[n] <= Window
      BY <1>2, <1>5, <2>1, <2>4 DEF InWindow, h
    <2> QED BY <1>6, <2>5 DEF InWindow
  <1> QED BY <1>2, <1>3, <1>6, <1>7 DEF kept

\* The detector's variables have their types, and there is a highest number.
Windowed ==
    /\ DetectorTypeOK
    /\ DOMAIN received = {} \/ HasHighest(received)
    /\ WindowSpans

\* A packet that arrived leaves a window.
LEMMA UpdateKeepsWindowed ==
    ASSUME Windowed, NEW number \in Nat, NEW arrival \in Arrivals,
           received' = Evicted(Inserted(received, number, arrival))
    PROVE  /\ DOMAIN received' \subseteq Nat
           /\ \A n \in DOMAIN received' : received'[n] \in Arrivals
           /\ HasHighest(received') /\ WindowSpans'
  <1> DEFINE with == Inserted(received, number, arrival)
  <1>1. Packets(received) /\ arrival \in Nat
    BY InstantsAreCounted DEF InstantsAreCounted, Windowed, DetectorTypeOK, Packets
  <1>2. Packets(with) /\ HasHighest(with)
    BY <1>1, InsertedHasHighest DEF Windowed
  <1>3. \A n \in DOMAIN with : with[n] \in Arrivals
    BY DEF Inserted, Windowed, DetectorTypeOK
  <1> HIDE DEF with
  <1>4. /\ Packets(received') /\ HasHighest(received') /\ Spans(received')
        /\ \A n \in DOMAIN received' : n \in DOMAIN with /\ received'[n] = with[n]
    BY <1>2, EvictedSpans DEF with
  <1>5. WindowSpans'
    BY <1>4 DEF WindowSpans, Spans
  <1> QED BY <1>3, <1>4, <1>5 DEF Packets

\* So does each report.
LEMMA ReportKeepsWindowed ==
    ASSUME Windowed, Numbers, Report
    PROVE  Windowed'
  <1>1. Numbers'
    BY ReportKeepsNumbers
  <1>2. PICK index \in Nat, arrival \in Arrivals \cup {0} :
          Update(index, index % Cycle, arrival)
    <2>1. \A index \in First : index \in Nat
      BY FirstAre16Bits
    <2> QED BY <2>1 DEF Report, Reportable
  <1> DEFINE number == Unwrapped(index % Cycle, extended)
  <1>3. number \in Nat
    <2>1. index % 65536 \in Nat
      BY BitsAndCycles
    <2>2. extended \in Nat
      BY DEF Numbers
    <2>3. extended % 65536 \in Nat /\ extended - (extended % 65536) \in Nat
      BY <2>2, BitsAndCycles
    <2> QED BY <2>1, <2>2, <2>3 DEF Unwrapped, Cycle, Half
  <1>4. received' = IF arrival # 0 THEN Evicted(Inserted(received, number, arrival))
                                   ELSE received
    BY <1>2 DEF Update, Arrived
  <1> HIDE DEF number
  <1>5. CASE arrival # 0
    <2>1. arrival \in Arrivals
      BY <1>2, <1>5
    <2>2. received' = Evicted(Inserted(received, number, arrival))
      BY <1>4, <1>5
    <2> QED BY <1>1, <1>3, <2>1, <2>2, UpdateKeepsWindowed
            DEF Windowed, DetectorTypeOK, Numbers
  <1>6. CASE arrival = 0
    <2>1. received' = received
      BY <1>4, <1>6
    <2> QED BY <1>1, <2>1 DEF Windowed, DetectorTypeOK, WindowSpans, Numbers
  <1> QED BY <1>5, <1>6

\* An empty window is one.
LEMMA InitWindowed ==
    ASSUME DetectorInit
    PROVE  Windowed
  <1>1. DOMAIN received = {}
    BY DEF DetectorInit
  <1> QED BY <1>1 DEF DetectorInit, Windowed, DetectorTypeOK, WindowSpans

-----------------------------------------------------------------------------
(* What the task has told upstream.                                        *)

\* An idle pad has no task; a task that paused, or a pad that is stopped or being
\* stopped, has an error in flow_return; it has a clock entry until it takes it.
Told ==
    /\ pad \in PadState
    /\ task \in TaskState
    /\ pad \in {"inactive", "failed"} => task = "none"
    /\ pad \notin {"active", "failed"} => flow # "ok"
    /\ task \in {"between", "called", "pushing", "pushed"} => clockEntry = TRUE
    /\ task = "paused" => flow # "ok"

\* No step of pad or task hides an error.
LEMMA NextKeepsTold ==
    ASSUME Told, [Next]_vars
    PROVE  Told'
  <1> USE DEF Told, TaskState, PadState
  <1>1. CASE Chain
    BY <1>1 DEF Chain
  <1>2. CASE Event
    BY <1>2 DEF Event, elementVars
  <1>3. CASE Activate
    BY <1>3 DEF Activate
  <1>4. CASE Deactivate
    BY <1>4 DEF Deactivate
  <1>5. CASE StopTask \/ TaskEnds
    BY <1>5 DEF StopTask, TaskEnds
  <1>6. CASE Deactivated
    BY <1>6 DEF Deactivated
  <1>7. CASE Call
    BY <1>7 DEF Call
  <1>8. CASE TakeClockEntry
    BY <1>8 DEF TakeClockEntry, Unlocked
  <1>9. CASE CreateList
    BY <1>9 DEF CreateList, Unlocked, EntryAgain
  <1>10. CASE Push
    BY <1>10 DEF Push
  <1>11. CASE StoreFlow
    BY <1>11 DEF StoreFlow, Unlocked
  <1>12. CASE ClockFails
    BY <1>12 DEF ClockFails
  <1>13. CASE UNCHANGED vars
    BY <1>13 DEF vars, elementVars
  <1> QED
    BY <1>1, <1>2, <1>3, <1>4, <1>5, <1>6, <1>7, <1>8, <1>9, <1>10, <1>11, <1>12,
       <1>13 DEF Next, TaskStep

-----------------------------------------------------------------------------
(* The buffers on their way, one by one, and the debt of the budget.       *)

\* Buffers are numbered without gaps from the oldest of the list to the newest of
\* the bucket; the task holds a list only while it pushes it.
Order ==
    /\ chained \in Nat /\ passed \in Nat
    /\ bucket \in Seq(Nat) /\ list \in Seq(Nat)
    /\ Len(list) + Len(bucket) = chained - passed
    /\ \A i \in 1..Len(list) : list[i] = passed + i
    /\ \A i \in 1..Len(bucket) : bucket[i] = (chained + 1) - i
    /\ task # "pushing" => Len(list) = 0

\* A new buffer goes behind the others,
LEMMA ChainKeepsOrder == ASSUME Order, Chain PROVE Order'
  <1> DEFINE new == chained + 1
  <1>1. new \in Nat /\ bucket' = <<new>> \o bucket /\ chained' = new
        /\ UNCHANGED <<list, passed, task>>
    BY DEF Chain, Queued, Order
  <1> HIDE DEF new
  <1>2. /\ bucket' \in Seq(Nat) /\ Len(bucket') = Len(bucket) + 1
        /\ bucket'[1] = new
        /\ \A i \in 1..Len(bucket) : bucket'[i + 1] = bucket[i]
    BY <1>1 DEF Order
  <1>3. \A i \in 1..Len(bucket') : bucket'[i] = (chained' + 1) - i
    <2> TAKE i \in 1..Len(bucket')
    <2>1. CASE i = 1
      BY <1>1, <1>2, <2>1
    <2>2. CASE i # 1
      <3>1. i - 1 \in 1..Len(bucket) /\ (i - 1) + 1 = i
        BY <1>2, <2>2 DEF Order
      <3>2. bucket'[i] = bucket[i - 1]
        BY <1>2, <3>1
      <3> QED BY <1>1, <3>1, <3>2 DEF Order, new
    <2> QED BY <2>1, <2>2
  <1>4. Len(list') + Len(bucket') = chained' - passed' /\ chained' \in Nat
    <2>1. /\ Len(list) \in Nat /\ Len(bucket) \in Nat
          /\ chained \in Nat /\ passed \in Nat
          /\ Len(list) + Len(bucket) = chained - passed
      BY DEF Order
    <2>2. /\ list' = list /\ passed' = passed /\ chained' = chained + 1
          /\ Len(bucket') = Len(bucket) + 1
      BY <1>1, <1>2 DEF new
    <2> QED BY <2>1, <2>2
  <1>5. \A i \in 1..Len(list') : list'[i] = passed' + i
    BY <1>1 DEF Order
  <1>6. task' # "pushing" => Len(list') = 0
    BY <1>1 DEF Order
  <1> QED BY <1>1, <1>2, <1>3, <1>4, <1>5, <1>6 DEF Order

\* the list takes the oldest ones in their order,
LEMMA ListKeepsOrder ==
    ASSUME Order, CreateList
    PROVE  Order'
  <1>1. PICK count \in 0..Len(bucket) :
          /\ list' = [i \in 1..count |-> bucket[Len(bucket) + 1 - i]]
          /\ bucket' = SubSeq(bucket, 1, Len(bucket) - count)
          /\ task' = IF count = 0 THEN "between" ELSE "pushing"
    BY DEF CreateList
  <1>2. Len(list) = 0 /\ UNCHANGED <<chained, passed>>
    BY DEF CreateList, Order
  <1> DEFINE n == Len(bucket)
  <1>3. n \in Nat /\ count \in Nat /\ count <= n /\ n = chained - passed
    BY <1>2 DEF Order
  <1>4. /\ bucket' \in Seq(Nat) /\ Len(bucket') = n - count
        /\ \A i \in 1..(n - count) : bucket'[i] = bucket[i]
    <2>1. \A i \in 1..(n - count) : bucket[i] \in Nat
      BY <1>3, ElementOfSeq DEF Order
    <2> QED BY <1>1, <1>3, <2>1, SubSeqProperties
  <1>5. \A i \in 1..count : bucket[(n + 1) - i] \in Nat /\ bucket[(n + 1) - i] = passed + i
    <2> TAKE i \in 1..count
    <2>1. (n + 1) - i \in 1..n
      BY <1>3
    <2>2. bucket[(n + 1) - i] = (chained + 1) - ((n + 1) - i)
      BY <2>1 DEF Order
    <2> QED BY <1>3, <2>1, <2>2 DEF Order
  <1>6. /\ list' \in Seq(Nat) /\ Len(list') = count
        /\ \A i \in 1..count : list'[i] = passed + i
    <2>1. \A i \in 1..count : (Len(bucket) + 1) - i = (n + 1) - i
      BY <1>3
    <2>2. list' \in [1..count -> Nat] /\ \A i \in 1..count : list'[i] = passed + i
      BY <1>1, <1>5
    <2>3. list' \in Seq(Nat)
      BY <1>3, <2>2, SeqDef
    <2> QED BY <1>3, <2>2, <2>3, LenProperties
  <1> HIDE DEF n
  <1>7. Len(list') + Len(bucket') = chained' - passed' /\ chained' \in Nat /\ passed' \in Nat
    BY <1>2, <1>3, <1>4, <1>6 DEF Order
  <1>8. \A i \in 1..Len(list') : list'[i] = passed' + i
    BY <1>2, <1>6
  <1>9. \A i \in 1..Len(bucket') : bucket'[i] = (chained' + 1) - i
    <2>1. \A i \in 1..(n - count) : i \in 1..n
      BY <1>3
    <2> QED BY <1>2, <1>4, <2>1 DEF Order, n
  <1>10. task' # "pushing" => Len(list') = 0
    BY <1>1, <1>6
  <1> QED BY <1>4, <1>6, <1>7, <1>8, <1>9, <1>10 DEF Order

\* and they are pushed before the next list is made.
LEMMA PushKeepsOrder == ASSUME Order, Push PROVE Order'
  BY DEF Order, Push

\* Numbered without gaps is one after the other.
LEMMA OrderedMeansInOrder == ASSUME Order PROVE InOrder
  <1> DEFINE n == Len(list)
             m == Len(bucket)
             r == Reverse(bucket)
  <1>1. n \in Nat /\ m \in Nat /\ chained \in Nat /\ passed \in Nat
        /\ n + m = chained - passed
    BY DEF Order
  <1>2. r \in Seq(Nat) /\ Len(r) = m /\ \A i \in 1..m : r[i] = bucket[(m - i) + 1]
    BY DEF Reverse, Order
  <1>3. \A i \in 1..m : r[i] = passed + (n + i)
    <2> TAKE i \in 1..m
    <2>1. (m - i) + 1 \in 1..m
      BY <1>1
    <2>2. bucket[(m - i) + 1] = (chained + 1) - ((m - i) + 1)
      BY <2>1 DEF Order
    <2>3. (chained + 1) - ((m - i) + 1) = passed + (n + i)
      <3> HIDE DEF n, m
      <3> QED BY <1>1
    <2> QED BY <1>2, <2>2, <2>3
  <1> HIDE DEF r
  <1> DEFINE whole == list \o r
  <1>4. whole \in Seq(Nat) /\ Len(whole) = n + m
        /\ \A i \in 1..(n + m) : whole[i] = IF i <= n THEN list[i] ELSE r[i - n]
    <2>1. list \in Seq(Nat) /\ r \in Seq(Nat) /\ Len(list) = n /\ Len(r) = m
      BY <1>2 DEF Order
    <2> HIDE DEF n, m
    <2> QED BY <2>1, ConcatProperties
  <1>5. \A i \in 1..(n + m) : whole[i] = passed + i
    <2> TAKE i \in 1..(n + m)
    <2>1. CASE i <= n
      <3>1. i \in 1..n
        BY <1>1, <2>1
      <3> QED BY <1>4, <2>1, <3>1 DEF Order
    <2>2. CASE i > n
      <3>1. i - n \in 1..m /\ n + (i - n) = i /\ ~(i <= n)
        BY <1>1, <2>2
      <3> QED BY <1>3, <1>4, <3>1
    <2>3. i <= n \/ i > n
      <3> HIDE DEF n, m
      <3> QED BY <1>1
    <2> QED BY <2>1, <2>2, <2>3
  <1> HIDE DEF whole
  <1>6. whole = [i \in 1..(n + m) |-> passed + i]
    <2>1. whole \in [1..(n + m) -> Nat]
      BY <1>4, LenProperties
    <2> QED BY <1>5, <2>1
  <1> QED BY <1>1, <1>6 DEF InOrder, r, whole

\* Nothing else moves a buffer.
LEMMA NextKeepsOrder ==
    ASSUME Told, Order, [Next]_vars
    PROVE  Order'
  <1>1. CASE Chain
    BY <1>1, ChainKeepsOrder
  <1>2. CASE CreateList
    BY <1>2, ListKeepsOrder
  <1>3. CASE Push
    BY <1>3, PushKeepsOrder
  <1>4. CASE \/ Event \/ Activate \/ Deactivate \/ StopTask \/ TaskEnds \/ Deactivated
             \/ Call \/ TakeClockEntry \/ StoreFlow \/ ClockFails \/ UNCHANGED vars
    <2>1. bucket' = bucket /\ chained' = chained /\ list' = list /\ passed' = passed
      BY <1>4 DEF Event, Activate, Deactivate, StopTask, TaskEnds, Deactivated, Call,
                  TakeClockEntry, StoreFlow, ClockFails, elementVars, vars
    <2>2. task = "pushing" => task' = "pushing"
      BY <1>4 DEF Told, Event, Activate, Deactivate, StopTask, TaskEnds, Deactivated, Call,
                  TakeClockEntry, StoreFlow, ClockFails, elementVars, vars
    <2> QED BY <2>1, <2>2 DEF Order
  <1> QED BY <1>1, <1>2, <1>3, <1>4 DEF Next, TaskStep

\* The budget is a number above a buffer's debt.
Debt == budget \in Int /\ DebtIsSmall

\* A round sends one buffer more than it has the budget for at most, or forgives
\* the debt.
LEMMA BudgetAfterIsSmall ==
    ASSUME Debt, NEW earned \in Nat, earned > 0, NEW count \in Nat
    PROVE  BudgetAfter(earned, count) \in Int /\ BudgetAfter(earned, count) > -BufferBits
  <1>1. BufferBits \in Nat /\ BufferBits > 0
    BY Sizes DEF Sizes
  <1> DEFINE spent == count * BufferBits
  <1>2. spent \in Int /\ (count - 1) * BufferBits = spent - BufferBits
    BY <1>1
  <1>3. count = 0 => spent = 0
    BY <1>1
  <1>4. BudgetAfter(earned, count) =
          IF count > 0 /\ earned + budget <= spent - BufferBits THEN 0
          ELSE earned + (budget - spent)
    <2> DEFINE less == (count - 1) * BufferBits
    <2>1. BudgetAfter(earned, count) =
            IF count > 0 /\ earned + budget <= less THEN 0 ELSE earned + (budget - spent)
      BY DEF BudgetAfter, Leaked
    <2> HIDE DEF spent
    <2> QED BY <1>2, <2>1
  <1> HIDE DEF spent
  <1>5. budget \in Int /\ budget > -BufferBits
    BY DEF Debt, DebtIsSmall
  <1> QED BY <1>1, <1>2, <1>3, <1>4, <1>5

\* Only a round changes the budget.
LEMMA NextKeepsDebt ==
    ASSUME Debt, Order, [Next]_vars
    PROVE  Debt'
  <1>1. CASE CreateList
    <2>1. PICK earned \in Earnings, count \in 0..Len(bucket) :
            budget' = BudgetAfter(earned, count)
      BY <1>1 DEF CreateList
    <2>2. earned \in Nat /\ earned > 0
      BY Sizes DEF Sizes
    <2>3. count \in Nat
      BY DEF Order
    <2> QED BY <2>1, <2>2, <2>3, BudgetAfterIsSmall DEF Debt, DebtIsSmall
  <1>2. CASE ~CreateList
    <2>1. UNCHANGED budget
      BY <1>2 DEF Next, TaskStep, Chain, Event, Activate, Deactivate, StopTask, TaskEnds,
                  Deactivated, Call, TakeClockEntry, Push, StoreFlow, ClockFails,
                  elementVars, vars
    <2> QED BY <2>1 DEF Debt, DebtIsSmall
  <1> QED BY <1>1, <1>2

\* The bounds of the pads' variables.
Typed ==
    /\ runs \in 0..MaxRuns
    /\ flow \in {"ok", "flushing", "error"}
    /\ clockEntry \in BOOLEAN
    /\ chained <= MaxBuffers

\* No step leaves the bounds.
LEMMA NextKeepsTyped ==
    ASSUME Typed, Order, [Next]_vars
    PROVE  Typed'
  <1>1. (runs \in 0..MaxRuns)'
    BY Sizes DEF Sizes, Typed, Next, TaskStep, Chain, Event, Activate, Deactivate, StopTask,
          TaskEnds, Deactivated, Call, TakeClockEntry, CreateList, Push, StoreFlow, ClockFails,
          elementVars, vars
  <1>2. (flow \in {"ok", "flushing", "error"} /\ clockEntry \in BOOLEAN)'
    BY DEF Typed, Next, TaskStep, Chain, Event, Activate, Deactivate, StopTask,
          TaskEnds, Deactivated, Call, TakeClockEntry, CreateList, Push, StoreFlow, ClockFails,
          EntryAgain, elementVars, vars
  <1>3. chained' <= MaxBuffers
    BY Sizes DEF Sizes, Typed, Order, Next, TaskStep, Chain, Event, Activate, Deactivate,
          StopTask, TaskEnds, Deactivated, Call, TakeClockEntry, CreateList, Push, StoreFlow, ClockFails,
          elementVars, vars
  <1> QED BY <1>1, <1>2, <1>3 DEF Typed

\* Buffers have numbers of buffers that came.
LEMMA BuffersAreNumbered ==
    ASSUME Order, Typed
    PROVE  /\ bucket \in Seq(1..MaxBuffers) /\ list \in Seq(1..MaxBuffers)
           /\ chained \in 0..MaxBuffers /\ passed \in 0..MaxBuffers
  <1> DEFINE n == Len(list)
             m == Len(bucket)
  <1>1. /\ n \in Nat /\ m \in Nat /\ chained \in Nat /\ passed \in Nat
        /\ n + m = chained - passed /\ chained <= MaxBuffers /\ MaxBuffers \in Nat
    BY Sizes DEF Sizes, Order, Typed
  <1>2. \A i \in 1..m : bucket[i] \in 1..MaxBuffers
    <2> TAKE i \in 1..m
    <2>1. bucket[i] = (chained + 1) - i
      BY DEF Order
    <2> HIDE DEF n, m
    <2> QED BY <1>1, <2>1
  <1>3. \A i \in 1..n : list[i] \in 1..MaxBuffers
    <2> TAKE i \in 1..n
    <2>1. list[i] = passed + i
      BY DEF Order
    <2> HIDE DEF n, m
    <2> QED BY <1>1, <2>1
  <1>4. bucket \in [1..m -> 1..MaxBuffers] /\ list \in [1..n -> 1..MaxBuffers]
    BY <1>2, <1>3, LenProperties DEF Order
  <1>5. bucket \in Seq(1..MaxBuffers) /\ list \in Seq(1..MaxBuffers)
    <2> HIDE DEF n, m
    <2> QED BY <1>1, <1>4, SeqDef
  <1>6. chained \in 0..MaxBuffers /\ passed \in 0..MaxBuffers
    <2> HIDE DEF n, m
    <2> QED BY <1>1
  <1> QED BY <1>5, <1>6

-----------------------------------------------------------------------------
(* All of it together, which no step disturbs.                             *)

ElementIInv == Numbers /\ Windowed /\ Told /\ Order /\ Debt /\ Typed

\* It holds at first,
LEMMA InitElementIInv == Init => ElementIInv
  <1> SUFFICES ASSUME Init PROVE ElementIInv
    OBVIOUS
  <1>1. Numbers /\ Windowed
    BY InitWindowed DEF Init, DetectorInit, Numbers
  <1>2. Told
    BY DEF Init, Told, TaskState, PadState
  <1>3. Order
    BY DEF Init, Order
  <1>4. Debt
    BY Sizes DEF Sizes, Init, Debt, DebtIsSmall
  <1>5. Typed
    <2>1. MaxRuns \in Nat /\ MaxBuffers \in Nat
      BY Sizes DEF Sizes
    <2>2. runs \in 0..MaxRuns /\ chained <= MaxBuffers
      BY <2>1 DEF Init
    <2>3. flow \in {"ok", "flushing", "error"}
      BY DEF Init
    <2>4. clockEntry \in BOOLEAN
      BY DEF Init
    <2> QED BY <2>2, <2>3, <2>4 DEF Typed
  <1> QED BY <1>1, <1>2, <1>3, <1>4, <1>5 DEF ElementIInv

\* each step keeps it,
LEMMA NextKeepsElementIInv == ElementIInv /\ [Next]_vars => ElementIInv'
  <1> SUFFICES ASSUME ElementIInv, [Next]_vars PROVE ElementIInv'
    OBVIOUS
  <1>1. (Numbers /\ Windowed)'
    <2>1. CASE Event
      BY <2>1, ReportKeepsNumbers, ReportKeepsWindowed DEF Event, ElementIInv
    <2>2. CASE UNCHANGED detectorVars
      BY <2>2 DEF ElementIInv, Numbers, Windowed, DetectorTypeOK, WindowSpans, detectorVars
    <2> QED BY <2>1, <2>2, OnlyEventReports
  <1> QED BY <1>1, NextKeepsTold, NextKeepsOrder, NextKeepsDebt, NextKeepsTyped DEF ElementIInv

\* and so it always holds.
LEMMA ElementIInvHolds == Spec => []ElementIInv
  BY InitElementIInv, NextKeepsElementIInv, PTL DEF Spec

\* Every variable of the detector and of the pads has its type.
THEOREM ElementTypeCorrect == Spec => []TypeOK
  <1>1. ElementIInv => TypeOK
    BY BuffersAreNumbered DEF ElementIInv, TypeOK, Windowed, Told, Typed, Debt
  <1> QED BY <1>1, ElementIInvHolds, PTL

\* The number of the newest report is the true one, for any first number, any
\* order of reports less than half a cycle apart, and any losses.
THEOREM NumbersAreAlwaysTrue == Spec => []NumbersAreTrue
  <1>1. ElementIInv => NumbersAreTrue
    BY DEF ElementIInv, Numbers, NumbersAreTrue
  <1> QED BY <1>1, ElementIInvHolds, PTL

\* The packets behind the received bitrate span the window at most, in whatever
\* order packets arrive and are reported.
THEOREM WindowAlwaysSpans == Spec => []WindowSpans
  <1>1. ElementIInv => WindowSpans
    BY DEF ElementIInv, Windowed
  <1> QED BY <1>1, ElementIInvHolds, PTL

\* No task gives up, and no pad is deactivated, with upstream told that all is
\* well.
THEOREM NeverSilentlyPaused == Spec => []NoSilentPause
  <1>1. ElementIInv => NoSilentPause
    BY DEF ElementIInv, Told, NoSilentPause
  <1> QED BY <1>1, ElementIInvHolds, PTL

\* Every buffer is pushed once and in its turn, through any number of stops,
\* restarts and refusals.
THEOREM AlwaysInOrder == Spec => []InOrder
  <1>1. ElementIInv => InOrder
    BY OrderedMeansInOrder DEF ElementIInv
  <1> QED BY <1>1, ElementIInvHolds, PTL

\* No round leaves a debt of a whole buffer, however full the bucket was.
THEOREM DebtIsAlwaysSmall == Spec => []DebtIsSmall
  <1>1. ElementIInv => DebtIsSmall
    BY DEF ElementIInv, Debt
  <1> QED BY <1>1, ElementIInvHolds, PTL

\* All that a stop, a start, a refusal or a failing clock could break holds in
\* every reachable state, for any sizes, windows and numbers of buffers.
THEOREM ElementInvHolds == Spec => []ElementInv
  <1>1. TypeOK /\ WindowSpans /\ InOrder /\ NoSilentPause /\ DebtIsSmall => ElementInv
    BY DEF ElementInv
  <1> QED
    BY <1>1, ElementTypeCorrect, WindowAlwaysSpans, AlwaysInOrder, NeverSilentlyPaused,
       DebtIsAlwaysSmall, PTL

=============================================================================
