----------------------- MODULE BitrateControl_proofs -----------------------
(***************************************************************************)
(* Proofs about BitrateControl, for any word, limits, factors of an        *)
(* instance, first bitrates and feedback, in a build that checks its       *)
(* arithmetic and in one that does not.                                    *)
(*                                                                         *)
(* IInv says what the last operation left: the encoders hold exactly their *)
(* share of the lower target as it was clamped, whichever controller moved *)
(* it.  The limits in which they stay, the targets they stay under and the *)
(* sign of the next operation are then facts about Quotient and Clamped.   *)
(***************************************************************************)
EXTENDS BitrateControl, SequenceTheorems, TLAPS

-----------------------------------------------------------------------------
(* Numbers.                                                                *)

\* What a division leaves is less than the divisor,
LEMMA DivBounds ==
    ASSUME NEW n \in Nat, NEW d \in Nat \ {0}
    PROVE  /\ n \div d \in Nat
           /\ (n \div d) * d <= n
           /\ n < (n \div d) * d + d
BY SMTT(30)

\* so that numbers compare as their products do but for less than the factor,
LEMMA AtMost ==
    ASSUME NEW a \in Int, NEW b \in Int, NEW d \in Nat \ {0}, a * d < b * d + d
    PROVE  a <= b
BY SMTT(30)

\* and products as their numbers do.
LEMMA TimesIncr ==
    ASSUME NEW a \in Int, NEW b \in Int, NEW d \in Nat, a <= b
    PROVE  a * d <= b * d
BY SMTT(30)
\* Whole numbers are divided towards zero.
LEMMA QuotientBounds ==
    ASSUME NEW n \in Int, NEW d \in Nat \ {0}
    PROVE  /\ Quotient(n, d) \in Int
           /\ n >= 0 => /\ Quotient(n, d) >= 0
                        /\ Quotient(n, d) * d <= n
                        /\ n < Quotient(n, d) * d + d
           /\ n < 0 => /\ Quotient(n, d) <= 0
                       /\ n <= Quotient(n, d) * d
                       /\ Quotient(n, d) * d < n + d
<1>1. CASE n >= 0
  BY <1>1, DivBounds DEF Quotient
<1>2. CASE n < 0
  <2> DEFINE q == (-n) \div d
  <2>1. -n \in Nat
    BY <1>2
  <2>2. q \in Nat /\ q * d <= -n /\ -n < q * d + d
    BY <2>1, DivBounds
  <2>3. Quotient(n, d) = -q
    BY <1>2 DEF Quotient
  <2>4. (-q) * d = -(q * d)
    BY <2>2
  <2> QED BY <1>2, <2>2, <2>3, <2>4
<1> QED BY <1>1, <1>2

\* A greater number is not less divided.
LEMMA QuotientRises ==
    ASSUME NEW a \in Int, NEW b \in Int, NEW d \in Nat \ {0}, a <= b
    PROVE  Quotient(a, d) <= Quotient(b, d)
<1> DEFINE p == Quotient(a, d)  q == Quotient(b, d)
<1>1. /\ p \in Int
      /\ a >= 0 => p >= 0 /\ p * d <= a
      /\ a < 0 => p <= 0 /\ p * d < a + d
  BY QuotientBounds
<1>2. /\ q \in Int
      /\ b >= 0 => q >= 0 /\ b < q * d + d
      /\ b < 0 => b <= q * d
  BY QuotientBounds
<1> HIDE DEF p, q
<1>3. p * d \in Int /\ q * d \in Int
  BY <1>1, <1>2
<1>4. a < 0 /\ b >= 0 => p * d <= q * d
  BY <1>1, <1>2, TimesIncr
<1>5. p * d < q * d + d
  BY <1>1, <1>2, <1>3, <1>4
<1>6. p <= q
  BY <1>1, <1>2, <1>5, AtMost
<1> QED BY <1>6 DEF p, q

\* Half of the word is a number, and twice it is the word.
LEMMA WordHalves == Word \in Nat /\ Word \div 2 \in Nat \ {0} /\ Word = 2 * (Word \div 2)
<1>1. Word \in Nat \ {0} /\ Word % 2 = 0
  BY WordIsEven
<1> QED BY <1>1

\* What the remainder is.
LEMMA Remainder ==
    ASSUME NEW n \in Int, NEW d \in Nat \ {0}
    PROVE  /\ n % d \in 0..(d - 1)
           /\ n = d * (n \div d) + (n % d)
           /\ n \div d \in Int
OBVIOUS

\* What is left of a result in an i32 fits; it is the result if that fits, and no
\* more than the result if that is not negative.
LEMMA SignedFits ==
    ASSUME NEW n \in Int
    PROVE  /\ Signed(n) \in I32
           /\ n \in I32 => Signed(n) = n
           /\ n >= 0 => Signed(n) <= n
<1> DEFINE h == Word \div 2  r == (n + h) % Word  q == (n + h) \div Word
<1>1. h \in Nat \ {0} /\ Word = 2 * h
  BY WordHalves
<1>2. Signed(n) = r - h /\ I32 = -h..(h - 1)
  BY DEF Signed, I32
<1>3. r \in 0..(Word - 1) /\ n + h = Word * q + r /\ q \in Int
  <2> HIDE DEF h
  <2>1. n + h \in Int /\ Word \in Nat \ {0}
    BY <1>1
  <2> QED BY <2>1, Remainder
<1> HIDE DEF h, r, q
<1>4. Signed(n) \in -h..(h - 1)
  BY <1>1, <1>2, <1>3
<1>5. ASSUME n \in -h..(h - 1) PROVE q = 0
  <2>1. q <= 0
    <3> SUFFICES ASSUME q >= 1 PROVE FALSE
      BY <1>3
    <3>1. Word * q >= Word
      BY <1>1, <1>3
    <3> QED BY <3>1, <1>1, <1>3, <1>5
  <2>2. q >= 0
    <3> SUFFICES ASSUME q <= -1 PROVE FALSE
      BY <1>3
    <3>1. Word * q <= -Word
      BY <1>1, <1>3
    <3> QED BY <3>1, <1>1, <1>3, <1>5
  <2> QED BY <2>1, <2>2, <1>3
<1>6. ASSUME n >= 0 PROVE Word * q >= 0
  <2>1. q >= 0
    <3> SUFFICES ASSUME q <= -1 PROVE FALSE
      BY <1>3
    <3>1. Word * q <= -Word
      BY <1>1, <1>3
    <3> QED BY <3>1, <1>1, <1>3, <1>6
  <2> QED BY <2>1, <1>1, <1>3
<1>7. n \in -h..(h - 1) => Signed(n) = n
  BY <1>1, <1>2, <1>3, <1>5
<1>8. n >= 0 => Signed(n) <= n
  BY <1>1, <1>2, <1>3, <1>6
<1> QED BY <1>2, <1>4, <1>7, <1>8

\* A float cast to an integer fits, and is the number it was if that fits.
LEMMA CastFits ==
    ASSUME NEW n \in Int
    PROVE  /\ ToI32(n) \in I32
           /\ n \in I32 => ToI32(n) = n
           /\ n >= 0 => ToI32(n) <= n /\ ToI32(n) >= 0
           /\ ToU32(n) \in U32
           /\ n <= 50 => ToU32(n) <= 50
           /\ n >= 0 => ToU32(n) <= n
BY WordHalves DEF ToI32, ToU32, I32, U32, Larger, Smaller

\* Casting keeps the order of floats.
LEMMA CastRises ==
    ASSUME NEW a \in Int, NEW b \in Int, a <= b
    PROVE  ToI32(a) <= ToI32(b)
BY WordHalves DEF ToI32, Larger, Smaller

\* What an encoder is told is a bitrate, if less than it was to be told.
LEMMA ToldFits ==
    ASSUME NEW n \in I32, NEW unit \in Nat \ {0}
    PROVE  Quotient(n, unit) * unit \in I32
<1> DEFINE q == Quotient(n, unit)
<1>1. n \in Int /\ -(Word \div 2) <= n /\ n < Word \div 2 /\ Word \div 2 \in Nat
  BY WordHalves DEF I32
<1>2. /\ q \in Int
      /\ n >= 0 => q >= 0 /\ q * unit <= n
      /\ n < 0 => q <= 0 /\ n <= q * unit
  BY <1>1, QuotientBounds
<1> HIDE DEF q
<1>3. q >= 0 => q * unit >= 0
  BY <1>2
<1>4. q <= 0 => q * unit <= 0
  BY <1>2
<1>5. q * unit \in Int
  BY <1>2
<1>6. q * unit \in -(Word \div 2)..(Word \div 2 - 1)
  BY <1>1, <1>2, <1>3, <1>4, <1>5
<1> QED BY <1>6 DEF I32, q

-----------------------------------------------------------------------------
(* The limits.                                                             *)

\* The limits of a consumer's copy are numbers of the word, its encoders a number.
Given == cc \in CCInfo /\ Len(encoders) \in 0..MaxVideos

\* What is clamped fits, and is in the limits if they are in the right order.
LEMMA LimitsFit ==
    ASSUME Given, NEW n \in Int
    PROVE  /\ Limit(cc.min) \in Int /\ Limit(cc.max) \in Int
           /\ Least \in I32 /\ Most \in I32
           /\ Clamped(n) \in Int
           /\ n \in I32 => Clamped(n) \in I32
           /\ Least <= Most => Least <= Clamped(n) /\ Clamped(n) <= Most
<1>1. cc.min \in Int /\ cc.max \in Int /\ Len(encoders) \in Int
  BY RatesFit, WordHalves DEF Given, CCInfo, U32
<1>2. Signed(cc.min) \in Int /\ Signed(cc.max) \in Int
  BY <1>1, SignedFits DEF I32
<1>3. Limit(cc.min) \in Int /\ Limit(cc.max) \in Int
  BY <1>1, <1>2 DEF Limit
<1>4. Least \in I32 /\ Most \in I32
  BY <1>3, SignedFits DEF Least, Most
<1>5. Least \in Int /\ Most \in Int
  BY <1>4 DEF I32
<1> QED BY <1>3, <1>4, <1>5 DEF Clamped, Larger, Smaller

\* and a greater number is not less clamped.
LEMMA ClampRises ==
    ASSUME Given, NEW a \in Int, NEW b \in Int, a <= b
    PROVE  Clamped(a) <= Clamped(b)
<1>1. Least \in Int /\ Most \in Int
  BY LimitsFit DEF I32
<1> QED BY <1>1 DEF Clamped, Larger, Smaller

\* However large the maximum, no encoder is told more.
LEMMA MostIsLimited ==
    ASSUME Given, Len(encoders) > 0
    PROVE  Most <= cc.max * Len(encoders)
<1> DEFINE m == cc.max  k == Len(encoders)  h == Word \div 2
<1>1. m \in 0..(Word - 1) /\ k \in Nat \ {0} /\ Word = 2 * h /\ h \in Nat \ {0}
  BY RatesFit, WordHalves DEF Given, CCInfo, U32
<1>2. CASE m < h
  <2>1. Signed(m) = m
    <3>1. m \in Int /\ m \in I32
      BY <1>1, <1>2 DEF I32
    <3> QED BY <3>1, SignedFits
  <2>2. m * k \in Nat
    BY <1>1
  <2>3. Signed(m * k) <= m * k
    BY <2>2, SignedFits
  <2> QED BY <2>1, <2>3 DEF Most, Limit
<1>3. CASE m >= h
  <2>1. Most <= h - 1
    BY LimitsFit DEF I32
  <2>2. Most \in Int
    BY LimitsFit DEF I32
  <2> HIDE DEF m, k, h
  <2>3. m * 1 <= m * k
    BY <1>1
  <2>4. m * k \in Int
    BY <1>1
  <2>5. Most <= m * k
    BY <2>1, <2>2, <2>3, <2>4, <1>1, <1>3
  <2> QED BY <2>5 DEF m, k
<1> QED BY <1>1, <1>2, <1>3

\* nor is its share of the lower target more than the maximum.
LEMMA ShareFits ==
    ASSUME Given, Len(encoders) > 0, Least <= Most, NEW delay \in I32, NEW loss \in I32
    PROVE  Share(delay, loss) \in I32 /\ Share(delay, loss) <= cc.max
<1> DEFINE c == Clamped(Lower(delay, loss))  k == Len(encoders)
           q == Quotient(c, k)  m == cc.max  l == Lower(delay, loss)
<1>0. l \in I32 /\ l \in Int
  BY DEF Lower, Smaller, I32
<1>1. k \in Nat \ {0} /\ m \in Nat
  BY RatesFit, WordHalves DEF Given, CCInfo, U32
<1>2. c \in I32 /\ c \in Int /\ c <= m * k
  <2>1. Clamped(l) \in I32 /\ Clamped(l) <= Most /\ Most \in I32
    BY <1>0, LimitsFit
  <2>2. Most <= m * k
    BY MostIsLimited
  <2>3. m * k \in Int
    BY <1>1
  <2> QED BY <2>1, <2>2, <2>3 DEF I32
<1>3. /\ q \in Int
      /\ c >= 0 => q >= 0 /\ q * k <= c
      /\ c < 0 => q <= 0 /\ c <= q * k
  BY <1>1, <1>2, QuotientBounds
<1>4. Share(delay, loss) = q
  BY DEF Share
<1> HIDE DEF c, k, q, m, l
<1>5. q * k \in Int /\ m * k \in Int
  BY <1>1, <1>3
<1>6. q <= m
  <2>1. CASE c >= 0
    <3>1. q * k < m * k + k
      BY <2>1, <1>1, <1>2, <1>3, <1>5
    <3> QED BY <3>1, <1>1, <1>3, AtMost
  <2> QED BY <2>1, <1>1, <1>2, <1>3
<1>7. q >= 0 => q <= q * k
  BY <1>1, <1>3
<1>8. q <= 0 => q * k <= q
  BY <1>1, <1>3
<1>9. q \in I32
  <2>1. Word \div 2 \in Nat \ {0} /\ -(Word \div 2) <= c /\ c < Word \div 2
    BY <1>2, WordHalves DEF I32
  <2>2. CASE c >= 0
    BY <2>1, <2>2, <1>2, <1>3, <1>5, <1>7 DEF I32
  <2>3. CASE c < 0
    BY <2>1, <2>3, <1>2, <1>3, <1>5, <1>8 DEF I32
  <2> QED BY <2>2, <2>3, <1>2
<1> QED BY <1>4, <1>6, <1>9 DEF m

\* Half of an encoder's bitrate at most is for its FEC.
LEMMA FecFits ==
    ASSUME NEW bitrate \in Int, NEW most \in U32, bitrate <= most
    PROVE  /\ FecPercentage(bitrate, most) \in 0..50
           /\ FecPercentage(bitrate, most) > 0 =>
                /\ bitrate > FecFrom /\ most > FecFrom
                /\ FecPercentage(bitrate, most) * (most - FecFrom)
                     <= (bitrate - FecFrom) * 50
<1>0. FecFrom \in Nat /\ most \in Int
  BY RatesFit DEF U32
<1>1. CASE bitrate <= FecFrom \/ most <= FecFrom
  BY <1>1 DEF FecPercentage
<1>2. CASE bitrate > FecFrom /\ most > FecFrom
  <2> DEFINE d == most - FecFrom  x == bitrate - FecFrom
             q == (x * 50) \div d  f == FecPercentage(bitrate, most)
  <2>1. d \in Nat \ {0} /\ x \in Nat /\ x <= d /\ x * 50 \in Nat
    BY <1>0, <1>2
  <2>2. q \in Nat /\ q * d <= x * 50
    BY <2>1, DivBounds
  <2>3. f = ToU32(q)
    BY <1>0, <1>2 DEF FecPercentage
  <2> HIDE DEF d, x, q, f
  <2>4. x * 50 < 50 * d + d
    BY <2>1
  <2>5. q * d < 50 * d + d
    BY <2>1, <2>2, <2>4
  <2>6. q <= 50
    BY <2>1, <2>2, <2>5, AtMost
  <2>7. f \in 0..50 /\ f <= q
    <3>1. ToU32(q) \in U32 /\ ToU32(q) <= 50 /\ ToU32(q) <= q
      BY <2>2, <2>6, CastFits
    <3> QED BY <3>1, <2>3, WordHalves DEF U32
  <2>8. f * d <= q * d
    BY <2>1, <2>2, <2>7, TimesIncr
  <2>9. f * d <= x * 50
    BY <2>1, <2>2, <2>7, <2>8
  <2> QED BY <1>2, <2>7, <2>9 DEF f, d, x
<1> QED BY <1>0, <1>1, <1>2

-----------------------------------------------------------------------------
(* The inductive invariant.                                                *)

\* Only what a consumer's stage allows has happened: encoders and targets once it
\* answered, operations of the homegrown controller once it is connected.
Staged ==
    /\ stage \in {"none", "added"} => encoders = <<>>
    /\ op.by # "none" \/ window => stage = "connected"
    /\ op.by # "none" \/ window \/ panicked => cc.heuristic = "homegrown"
    /\ panicked => stage \in {"connecting", "connected"}
    /\ estimate # 0 => stage # "none" /\ cc.heuristic = "google"

\* The encoders hold what the last operation told them: their share of the lower
\* target, less what their units cannot say.
Told ==
    op.by # "none" /\ ~panicked =>
        /\ Len(encoders) > 0 /\ Least <= Most
        /\ \A i \in DOMAIN encoders :
              encoders[i].bitrate =
                  Quotient(Share(onDelay, onLoss), encoders[i].unit) * encoders[i].unit

\* A congestion window is one of a target in the limits.
Windowed == window => Least <= onDelay /\ onDelay <= Most

\* Under rtpgccbwe, an encoder with FEC keeps to the estimate with it.
Budgeted ==
    cc.heuristic = "google" =>
        \A i \in DOMAIN encoders :
            encoders[i].fec > 0 =>
              encoders[i].bitrate * (100 + encoders[i].fec) <= estimate * 100

IInv == TypeOK /\ Staged /\ Told /\ Windowed /\ SensibleNeverPanics /\ Budgeted

-----------------------------------------------------------------------------
(* One operation of the homegrown controller.                              *)

\* While a consumer and the number of its encoders stay, so do the limits.
LEMMA SameLimits ==
    ASSUME cc' = cc, Len(encoders') = Len(encoders)
    PROVE  /\ Least' = Least /\ Most' = Most /\ Sensible' = Sensible
           /\ Share(onDelay, onLoss)' = Share(onDelay', onLoss')
BY DEF Least, Most, Limit, Sensible, Share, Clamped, Lower, Smaller, Larger, Quotient

\* What the types say of the limits, the targets and the encoders.
LEMMA TypesGiven ==
    ASSUME TypeOK
    PROVE  /\ Given /\ encoders \in Seq(Encoder)
           /\ onDelay \in I32 /\ onLoss \in I32 /\ onDelay \in Int /\ onLoss \in Int
           /\ cc.max \in U32 /\ cc.min \in U32
           /\ \A i \in DOMAIN encoders :
                 encoders[i] \in Encoder /\ encoders[i].unit \in Nat \ {0}
<1>1. encoders \in Seq(Encoder) /\ Len(encoders) <= MaxVideos /\ MaxVideos \in Nat
  BY RatesFit DEF TypeOK
<1>2. Len(encoders) \in 0..MaxVideos
  BY <1>1
<1>3. \A i \in DOMAIN encoders : encoders[i] \in Encoder
  BY <1>1
<1>4. \A e \in Encoder : e.unit \in Nat \ {0}
  BY RatesFit DEF Encoder
<1>5. cc \in CCInfo /\ cc.max \in U32 /\ cc.min \in U32
  BY DEF TypeOK, CCInfo
<1>6. onDelay \in I32 /\ onLoss \in I32 /\ onDelay \in Int /\ onLoss \in Int
  BY DEF TypeOK, I32
<1> QED BY <1>1, <1>2, <1>3, <1>4, <1>5, <1>6 DEF Given

\* An encoder stays one when it is told what fits.
LEMMA ToldIsEncoder ==
    ASSUME NEW e \in Encoder, NEW bitrate \in I32, NEW fec \in 0..50
    PROVE  /\ SetBitrate(e, bitrate, fec) \in Encoder
           /\ SetBitrate(e, bitrate, fec).bitrate = Quotient(bitrate, e.unit) * e.unit
           /\ SetBitrate(e, bitrate, fec).unit = e.unit
           /\ SetBitrate(e, bitrate, fec).fec = fec
<1>1. e.unit \in Nat \ {0}
  BY RatesFit DEF Encoder
<1>2. Quotient(bitrate, e.unit) * e.unit \in I32
  BY <1>1, ToldFits
<1> HIDE DEF Quotient
<1> QED BY <1>2 DEF SetBitrate, Encoder

\* All may be told at once.
LEMMA AllTold ==
    ASSUME encoders \in Seq(Encoder), NEW bitrate \in I32, NEW fec \in 0..50,
           encoders' = [i \in DOMAIN encoders |-> encoders'[i]],
           \A i \in DOMAIN encoders : encoders'[i] = SetBitrate(encoders[i], bitrate, fec)
    PROVE  /\ encoders' \in Seq(Encoder) /\ Len(encoders') = Len(encoders)
           /\ DOMAIN encoders' = DOMAIN encoders
           /\ \A i \in DOMAIN encoders :
                 /\ encoders'[i].unit = encoders[i].unit
                 /\ encoders'[i].bitrate =
                      Quotient(bitrate, encoders[i].unit) * encoders[i].unit
                 /\ encoders'[i].fec = fec
<1>1. DOMAIN encoders = 1..Len(encoders) /\ Len(encoders) \in Nat
  BY LenProperties
<1>2. \A i \in DOMAIN encoders : encoders[i] \in Encoder
  BY <1>1
<1>3. \A i \in DOMAIN encoders : SetBitrate(encoders[i], bitrate, fec) \in Encoder
  BY <1>2, ToldIsEncoder
<1>4. encoders' \in Seq(Encoder) /\ Len(encoders') = Len(encoders)
      /\ DOMAIN encoders' = DOMAIN encoders
  <2>1. encoders' \in [1..Len(encoders) -> Encoder]
    BY <1>1, <1>3
  <2> QED BY <2>1, <1>1
<1>5. ASSUME NEW i \in DOMAIN encoders
      PROVE  /\ encoders'[i].unit = encoders[i].unit
             /\ encoders'[i].bitrate = Quotient(bitrate, encoders[i].unit) * encoders[i].unit
             /\ encoders'[i].fec = fec
  <2>1. encoders[i] \in Encoder
    BY <1>2
  <2>2. encoders'[i] = SetBitrate(encoders[i], bitrate, fec)
    OBVIOUS
  <2> DEFINE told == SetBitrate(encoders[i], bitrate, fec)
  <2>3. /\ told.bitrate = Quotient(bitrate, encoders[i].unit) * encoders[i].unit
        /\ told.unit = encoders[i].unit
        /\ told.fec = fec
    BY <2>1, ToldIsEncoder
  <2> QED BY <2>2, <2>3
<1> QED BY <1>4, <1>5

\* An operation is refused with a panic or done: its target is clamped, or held,
\* the other one left alone, and the encoders told their share of the lower one.
LEMMA Applied ==
    ASSUME TypeOK, Controlled, NEW by \in {"delay", "loss"},
           NEW kind \in {"hold", "decrease", "increase"}, NEW asks \in Int,
           kind = "hold" => asks \in I32, Apply(by, kind, asks)
    PROVE  /\ op' = [by |-> by, kind |-> kind]
           /\ UNCHANGED <<settings, stage, cc, estimate, network>>
           /\ onDelay' \in I32 /\ onLoss' \in I32
           /\ encoders' \in Seq(Encoder) /\ Len(encoders') = Len(encoders)
           /\ \/ /\ panicked' = TRUE /\ ~MayControl(asks)
                 /\ UNCHANGED <<onDelay, onLoss, encoders>>
              \/ /\ panicked' = FALSE /\ MayControl(asks)
                 /\ onDelay' = IF by # "delay" THEN onDelay ELSE
                                  IF kind = "hold" THEN asks ELSE Clamped(Signed(asks))
                 /\ onLoss' = IF by # "loss" THEN onLoss ELSE
                                  IF kind = "hold" THEN asks ELSE Clamped(Signed(asks))
                 /\ DOMAIN encoders' = DOMAIN encoders
                 /\ \A i \in DOMAIN encoders :
                      /\ encoders'[i].unit = encoders[i].unit
                      /\ encoders'[i].bitrate =
                           Quotient(Share(onDelay', onLoss'), encoders[i].unit)
                             * encoders[i].unit
<1>1. /\ op' = [by |-> by, kind |-> kind]
      /\ UNCHANGED <<settings, stage, cc, estimate, network>>
  BY DEF Apply
<1>2. panicked = FALSE
  BY DEF Controlled, TypeOK
<1>3. /\ Given /\ encoders \in Seq(Encoder) /\ onDelay \in I32 /\ onLoss \in I32
      /\ cc.max \in U32
  BY TypesGiven
<1>4. CASE ~MayControl(asks)
  BY <1>1, <1>3, <1>4 DEF Apply
<1>5. CASE MayControl(asks)
  <2> DEFINE new == IF kind = "hold" THEN asks ELSE Clamped(Signed(asks))
             share == Share(onDelay', onLoss')
             fec == FecPercentage(share, cc.max)
  <2>1. /\ onDelay' = IF by = "delay" THEN new ELSE onDelay
        /\ onLoss' = IF by = "loss" THEN new ELSE onLoss
        /\ encoders' = [i \in DOMAIN encoders |-> SetBitrate(encoders[i], share, fec)]
        /\ panicked' = FALSE
    BY <1>2, <1>5 DEF Apply
  <2>2. new \in I32
    <3>1. Signed(asks) \in I32 /\ Signed(asks) \in Int
      BY SignedFits DEF I32
    <3> QED BY <3>1, <1>3, LimitsFit
  <2> HIDE DEF new
  <2>3. onDelay' \in I32 /\ onLoss' \in I32
    BY <2>1, <2>2, <1>3
  <2>4. Len(encoders) > 0 /\ Least <= Most
    BY <1>5 DEF MayControl
  <2>5. share \in I32 /\ share <= cc.max
    BY <1>3, <2>3, <2>4, ShareFits
  <2>6. fec \in 0..50
    <3> HIDE DEF share
    <3>1. share \in Int
      BY <2>5 DEF I32
    <3> QED BY <3>1, <2>5, <1>3, FecFits
  <2> HIDE DEF share, fec
  <2>7. /\ encoders' \in Seq(Encoder) /\ Len(encoders') = Len(encoders)
        /\ DOMAIN encoders' = DOMAIN encoders
        /\ \A i \in DOMAIN encoders :
              /\ encoders'[i].unit = encoders[i].unit
              /\ encoders'[i].bitrate =
                   Quotient(share, encoders[i].unit) * encoders[i].unit
    <3>1. /\ encoders' = [i \in DOMAIN encoders |-> encoders'[i]]
          /\ \A i \in DOMAIN encoders :
                encoders'[i] = SetBitrate(encoders[i], share, fec)
      BY <2>1
    <3>2. encoders \in Seq(Encoder) /\ share \in I32
      BY <1>3, <2>5
    <3> QED BY <3>1, <3>2, <2>6, AllTold
  <2>8. /\ onDelay' = IF by # "delay" THEN onDelay ELSE new
        /\ onLoss' = IF by # "loss" THEN onLoss ELSE new
    BY <2>1
  <2> QED BY <1>1, <1>5, <2>1, <2>3, <2>7, <2>8 DEF new, share
<1> QED BY <1>4, <1>5

\* Sensible limits survive the multiplication, with room for what is added.
LEMMA SensibleFits ==
    ASSUME Given, Sensible, Len(encoders) > 0
    PROVE  /\ Limit(cc.min) \in I32 /\ Limit(cc.max) \in I32
           /\ Least = cc.min * Len(encoders) /\ Most = cc.max * Len(encoders)
           /\ Least >= 0 /\ Least <= Most
           /\ \A more \in Additions : Most + more < Word \div 2
<1> DEFINE m == cc.min  n == cc.max  k == Len(encoders)  h == Word \div 2
<1>1. /\ m \in Nat /\ n \in Nat /\ m <= n /\ k \in Nat \ {0} /\ k <= MaxVideos
      /\ h \in Nat \ {0} /\ MaxVideos \in Nat
  BY RatesFit, WordHalves DEF Given, CCInfo, U32, Sensible
<1>2. \A more \in Additions \cup {0} : n * MaxVideos + more < h
  BY DEF Sensible
<1>3. Additions \subseteq Nat
  BY RatesFit
<1>4. I32 = -h..(h - 1)
  BY DEF I32
<1> HIDE DEF m, n, k, h
<1>5. m * k <= n * k
  BY <1>1, TimesIncr
<1>6. n * k <= n * MaxVideos
  <2>1. k * n <= MaxVideos * n
    BY <1>1, TimesIncr
  <2> QED BY <2>1, <1>1
<1>7. /\ m * k \in Nat /\ n * k \in Nat /\ n * MaxVideos \in Nat
      /\ m <= m * k /\ n <= n * k
  <2>1. m * k \in Nat /\ n * k \in Nat /\ n * MaxVideos \in Nat
    BY <1>1
  <2>2. 1 * m <= k * m /\ 1 * n <= k * n
    BY <1>1, TimesIncr
  <2> QED BY <2>1, <2>2, <1>1
<1>8. \A more \in Additions \cup {0} : n * k + more < h
  <2> SUFFICES ASSUME NEW more \in Additions \cup {0} PROVE n * k + more < h
    OBVIOUS
  <2>1. more \in Nat /\ n * MaxVideos + more < h
    BY <1>2, <1>3
  <2> QED BY <2>1, <1>1, <1>6, <1>7
<1>9. n * k < h
  <2>1. n * k + 0 < h
    BY <1>8
  <2> QED BY <2>1, <1>7
<1>10. /\ m \in I32 /\ n \in I32 /\ m * k \in I32 /\ n * k \in I32
  BY <1>1, <1>4, <1>5, <1>7, <1>9
<1>11. Signed(m) = m /\ Signed(n) = n /\ Signed(m * k) = m * k /\ Signed(n * k) = n * k
  BY <1>1, <1>7, <1>10, SignedFits
<1>12. Limit(cc.min) = m * k /\ Limit(cc.max) = n * k
  BY <1>11 DEF Limit, m, n, k
<1>13. Least = m * k /\ Most = n * k
  BY <1>11, <1>12 DEF Least, Most
<1> QED BY <1>5, <1>7, <1>8, <1>10, <1>12, <1>13 DEF m, n, k, h

\* What an operation asks for fits when it is a product, which saturates, or adds
\* to a target in the limits
LEMMA TimesFits ==
    ASSUME NEW n \in Int, NEW part \in Int, NEW whole \in Nat \ {0}
    PROVE  Times(n, part, whole) \in I32 /\ Times(n, part, whole) \in Int
<1>1. n * part \in Int
  OBVIOUS
<1>2. Quotient(n * part, whole) \in Int
  BY <1>1, QuotientBounds
<1>3. ToI32(Quotient(n * part, whole)) \in I32
  BY <1>2, CastFits
<1> QED BY <1>3 DEF Times, I32

\* (such a target is one with a congestion window).
LEMMA SumFits ==
    ASSUME TypeOK, Windowed, window, Sensible, Len(encoders) > 0, NEW more \in Additions
    PROVE  /\ onDelay + more \in I32 /\ Signed(onDelay + more) = onDelay + more
           /\ onDelay + more >= onDelay
<1>1. Given /\ onDelay \in Int
  BY TypesGiven
<1>2. Least >= 0 /\ Most + more < Word \div 2 /\ Most \in Int /\ Least \in Int
  BY <1>1, SensibleFits, LimitsFit DEF I32
<1>3. Least <= onDelay /\ onDelay <= Most
  BY DEF Windowed
<1>4. more \in Nat
  BY RatesFit
<1>5. onDelay + more \in -(Word \div 2)..(Word \div 2 - 1)
  BY <1>1, <1>2, <1>3, <1>4, WordHalves
<1> QED BY <1>1, <1>4, <1>5, SignedFits DEF I32

\* So nothing stops an operation when the limits are sensible.
LEMMA SensibleMay ==
    ASSUME Given, Sensible, Len(encoders) > 0, NEW asks \in I32
    PROVE  MayControl(asks)
BY SensibleFits DEF MayControl, Fits

\* An operation of a controller keeps the invariant, if what it asks for fits when
\* the limits are sensible.
LEMMA ControlKeeps ==
    ASSUME IInv, Controlled, NEW by \in {"delay", "loss"},
           NEW kind \in {"hold", "decrease", "increase"}, NEW asks \in Int,
           kind = "hold" => by = "loss" /\ asks = onLoss,
           Sensible /\ Len(encoders) > 0 => asks \in I32,
           Apply(by, kind, asks),
           window' \in BOOLEAN, window' => window \/ (by = "delay" /\ ~panicked'),
           network' = network
    PROVE  IInv'
<1>1. /\ TypeOK /\ Staged /\ Told /\ Windowed /\ SensibleNeverPanics /\ Budgeted
      /\ Given /\ onDelay \in I32 /\ onLoss \in I32
      /\ stage = "connected" /\ cc.heuristic = "homegrown" /\ panicked = FALSE
  BY TypesGiven DEF IInv, Controlled, TypeOK
<1>2. kind = "hold" => asks \in I32
  BY <1>1
<1>3. /\ op' = [by |-> by, kind |-> kind]
      /\ settings' = settings /\ stage' = stage /\ cc' = cc /\ estimate' = estimate
      /\ onDelay' \in I32 /\ onLoss' \in I32
      /\ encoders' \in Seq(Encoder) /\ Len(encoders') = Len(encoders)
  BY <1>1, <1>2, Applied
<1>4. /\ Least' = Least /\ Most' = Most /\ Sensible' = Sensible
      /\ Share(onDelay, onLoss)' = Share(onDelay', onLoss')
  BY <1>3, SameLimits
<1>5. \/ /\ panicked' = TRUE /\ ~MayControl(asks)
         /\ onDelay' = onDelay /\ onLoss' = onLoss /\ encoders' = encoders
      \/ /\ panicked' = FALSE /\ MayControl(asks)
         /\ onDelay' = IF by # "delay" THEN onDelay ELSE
                          IF kind = "hold" THEN asks ELSE Clamped(Signed(asks))
         /\ DOMAIN encoders' = DOMAIN encoders
         /\ \A i \in DOMAIN encoders :
              /\ encoders'[i].unit = encoders[i].unit
              /\ encoders'[i].bitrate =
                   Quotient(Share(onDelay', onLoss'), encoders[i].unit) * encoders[i].unit
  BY <1>1, <1>2, Applied
<1>6. TypeOK'
  <2>1. op' \in Op /\ panicked' \in BOOLEAN
    BY <1>3, <1>5 DEF Op
  <2> QED BY <1>1, <1>3, <2>1 DEF TypeOK
<1>7. Staged'
  BY <1>1, <1>3 DEF Staged
<1>8. Told'
  <2> SUFFICES ASSUME ~panicked'
               PROVE  /\ Len(encoders') > 0 /\ Least' <= Most'
                      /\ \A i \in DOMAIN encoders' :
                           encoders'[i].bitrate =
                             Quotient(Share(onDelay, onLoss)', encoders'[i].unit)
                               * encoders'[i].unit
    BY DEF Told
  <2>1. Len(encoders) > 0 /\ Least <= Most
    BY <1>5 DEF MayControl
  <2> QED BY <2>1, <1>3, <1>4, <1>5
<1>9. Windowed'
  <2> SUFFICES ASSUME window' PROVE Least <= onDelay' /\ onDelay' <= Most
    BY <1>4 DEF Windowed
  <2>1. CASE by = "delay" /\ panicked' = FALSE
    <3>1. onDelay' = Clamped(Signed(asks)) /\ Least <= Most
      BY <1>5, <2>1 DEF MayControl
    <3>2. Signed(asks) \in Int
      BY SignedFits DEF I32
    <3> QED BY <3>1, <3>2, <1>1, LimitsFit
  <2>2. CASE ~(by = "delay" /\ panicked' = FALSE)
    <3>1. onDelay' = onDelay /\ window
      BY <2>2, <1>5
    <3> QED BY <3>1, <1>1 DEF Windowed
  <2> QED BY <2>1, <2>2
<1>10. SensibleNeverPanics'
  <2> SUFFICES ASSUME Sensible', panicked' PROVE encoders' = <<>>
    BY DEF SensibleNeverPanics
  <2>1. ~MayControl(asks) /\ encoders' = encoders
    BY <1>5
  <2>2. ~(Len(encoders) > 0)
    BY <2>1, <1>1, <1>4, SensibleMay
  <2> QED BY <2>1, <2>2, <1>1, <1>3, EmptySeq DEF TypeOK
<1>11. Budgeted'
  BY <1>1, <1>3 DEF Budgeted
<1> QED BY <1>6, <1>7, <1>8, <1>9, <1>10, <1>11 DEF IInv

-----------------------------------------------------------------------------
(* What the two controllers ask for.                                       *)

\* Feedback holds, decreases or increases the target on loss,
LEMMA LossAsks ==
    ASSUME TypeOK, LossControl
    PROVE  /\ Controlled /\ window' = window /\ network' = network
           /\ \E kind \in {"hold", "decrease", "increase"}, asks \in I32 :
                 /\ Apply("loss", kind, asks)
                 /\ kind = "hold" => asks = onLoss
                 /\ kind = "increase" => asks = Times(onDelay, 105, 100)
<1>1. onDelay \in Int /\ onLoss \in I32
  BY TypesGiven
<1>2. Controlled /\ window' = window
  BY DEF LossControl
<1>3. PICK lost \in {0, 5, 12, 60} :
         \/ Apply("loss", "hold", onLoss)
         \/ Apply("loss", "decrease", LossDecrease(lost))
         \/ Apply("loss", "increase", Times(onDelay, 105, 100))
  BY DEF LossControl
<1>4. network' = network
  BY <1>3 DEF Apply
<1>5. LossDecrease(lost) \in I32
  <2>1. 200 - Smaller(lost, 60) \in Int
    BY DEF Smaller
  <2> QED BY <1>1, <2>1, TimesFits DEF LossDecrease
<1>6. Times(onDelay, 105, 100) \in I32
  BY <1>1, TimesFits
<1>7. CASE Apply("loss", "hold", onLoss)
  BY <1>1, <1>2, <1>4, <1>7
<1>8. CASE Apply("loss", "decrease", LossDecrease(lost))
  BY <1>2, <1>4, <1>5, <1>8
<1>9. CASE Apply("loss", "increase", Times(onDelay, 105, 100))
  BY <1>2, <1>4, <1>6, <1>9
<1> QED BY <1>3, <1>7, <1>8, <1>9

\* and the statistics decrease or increase the one on delay: by a factor, or by an
\* addition within a congestion window.
LEMMA DelayAsks ==
    ASSUME TypeOK, DelayControl
    PROVE  /\ Controlled /\ network' = network /\ window' \in BOOLEAN
           /\ \E kind \in {"decrease", "increase"}, asks \in Int :
                 /\ Apply("delay", kind, asks)
                 /\ window' => window \/ ~panicked'
                 /\ kind = "decrease" =>
                      \E factor \in 0..100 : asks = Times(onDelay, factor, 100)
                 /\ kind = "increase" =>
                      \/ asks = Times(onDelay, 103, 100)
                      \/ window /\ \E more \in Additions : asks = onDelay + more
<1>1. onDelay \in Int /\ onLoss \in Int /\ window \in BOOLEAN
  BY TypesGiven DEF TypeOK
<1>2. Controlled
  BY DEF DelayControl
<1>3. PICK excess \in Excesses, growing \in BOOLEAN :
         DelayDecrease(excess, growing) \/ DelayIncrease(excess, growing)
  BY DEF DelayControl
<1>4. CASE DelayDecrease(excess, growing)
  <2>1. PICK factor \in {89, 92, 96, 97} :
           Apply("delay", "decrease", Times(onDelay, factor, 100))
    BY <1>4 DEF DelayDecrease, DelayFactors, Base
  <2>2. window' = IF panicked' THEN window ELSE TRUE
    BY <1>4 DEF DelayDecrease
  <2>3. network' = network
    BY <2>1 DEF Apply
  <2>4. factor \in 0..100 /\ Times(onDelay, factor, 100) \in Int
    BY <1>1, TimesFits
  <2> QED BY <1>1, <1>2, <2>1, <2>2, <2>3, <2>4
<1>5. CASE DelayIncrease(excess, growing)
  <2>1. \/ /\ Apply("delay", "increase", Times(onDelay, 103, 100))
           /\ window' \in {FALSE, window}
        \/ /\ window /\ window' = window
           /\ \E more \in Additions : Apply("delay", "increase", onDelay + more)
    BY <1>5 DEF DelayIncrease, Base
  <2>2. CASE Apply("delay", "increase", Times(onDelay, 103, 100))
             /\ window' \in {FALSE, window}
    <3>1. network' = network
      BY <2>2 DEF Apply
    <3>2. Times(onDelay, 103, 100) \in Int
      BY <1>1, TimesFits
    <3>3. window' \in BOOLEAN /\ (window' => window)
      <4>1. window' \in {FALSE, window}
        BY <2>2
      <4>2. CASE window' = FALSE
        BY <4>2
      <4>3. CASE window' = window
        BY <4>3, <1>1
      <4> QED BY <4>1, <4>2, <4>3
    <3> DEFINE asks == Times(onDelay, 103, 100)
    <3>4. Apply("delay", "increase", asks) /\ asks = Times(onDelay, 103, 100)
      BY <2>2
    <3> HIDE DEF asks
    <3> QED BY <1>2, <3>1, <3>2, <3>3, <3>4
  <2>3. CASE window /\ window' = window
             /\ \E more \in Additions : Apply("delay", "increase", onDelay + more)
    <3>1. PICK more \in Additions : Apply("delay", "increase", onDelay + more)
      BY <2>3
    <3>2. network' = network
      BY <3>1 DEF Apply
    <3>3. onDelay + more \in Int
      BY <1>1, RatesFit DEF I32
    <3> QED BY <1>1, <1>2, <2>3, <3>1, <3>2, <3>3
  <2> QED BY <2>1, <2>2, <2>3
<1> QED BY <1>3, <1>4, <1>5

-----------------------------------------------------------------------------
(* Each step keeps the invariant.                                          *)

\* The two controllers,
LEMMA LossControlKeeps ==
    ASSUME IInv, LossControl
    PROVE  IInv'
<1>1. TypeOK
  BY DEF IInv
<1>2. PICK kind \in {"hold", "decrease", "increase"}, asks \in I32 :
         Apply("loss", kind, asks) /\ (kind = "hold" => asks = onLoss)
  BY <1>1, LossAsks
<1>3. Controlled /\ window' = window /\ network' = network
  BY <1>1, LossAsks
<1>4. window' \in BOOLEAN /\ asks \in Int
  BY <1>1, <1>3 DEF TypeOK, I32
<1> QED BY <1>2, <1>3, <1>4, ControlKeeps

\* the second with its window,
LEMMA DelayControlKeeps ==
    ASSUME IInv, DelayControl
    PROVE  IInv'
<1>1. TypeOK /\ Windowed
  BY DEF IInv
<1>2. Controlled /\ network' = network /\ window' \in BOOLEAN /\ onDelay \in Int
  BY <1>1, DelayAsks, TypesGiven
<1>3. PICK kind \in {"decrease", "increase"}, asks \in Int :
         /\ Apply("delay", kind, asks)
         /\ window' => window \/ ~panicked'
         /\ kind = "decrease" =>
              \E factor \in 0..100 : asks = Times(onDelay, factor, 100)
         /\ kind = "increase" =>
              \/ asks = Times(onDelay, 103, 100)
              \/ window /\ \E more \in Additions : asks = onDelay + more
  BY <1>1, DelayAsks
<1>4. Sensible /\ Len(encoders) > 0 => asks \in I32
  <2>1. \A part \in Int : Times(onDelay, part, 100) \in I32
    BY <1>2, TimesFits
  <2>2. Sensible /\ Len(encoders) > 0 /\ window =>
           \A more \in Additions : onDelay + more \in I32
    BY <1>1, SumFits
  <2>3. CASE kind = "decrease"
    <3>1. PICK factor \in 0..100 : asks = Times(onDelay, factor, 100)
      BY <1>3, <2>3
    <3>2. factor \in Int
      OBVIOUS
    <3> QED BY <3>1, <3>2, <2>1
  <2>4. CASE kind = "increase"
    BY <1>3, <2>1, <2>2, <2>4
  <2> QED BY <2>3, <2>4
<1> QED BY <1>2, <1>3, <1>4, ControlKeeps

\* the initial state (without a consumer, nothing has happened),
LEMMA InitHolds ==
    ASSUME Init
    PROVE  IInv
<1>1. DefaultMin \in U32 /\ (DefaultMax * 3) \div 2 \in U32 /\ 0 \in U32 /\ 0 \in I32
      /\ MaxVideos \in Nat
  BY RatesFit, WordHalves DEF U32, I32
<1>2. /\ settings \in [heuristic : Heuristic, min : U32, max : U32, fec : BOOLEAN]
      /\ cc \in CCInfo
  BY <1>1 DEF Init, CCInfo
<1>3. encoders = <<>> /\ encoders \in Seq(Encoder) /\ Len(encoders) = 0
      /\ DOMAIN encoders = {}
  BY DEF Init
<1>4. /\ stage = "none" /\ op.by = "none" /\ op \in Op /\ window = FALSE /\ estimate = 0
      /\ panicked = FALSE /\ onDelay = 0 /\ onLoss = 0 /\ network = "rough"
  BY DEF Init, NoOp, Op
<1>5. Len(encoders) <= MaxVideos
  BY <1>1, <1>3
<1>6. window \in BOOLEAN /\ panicked \in BOOLEAN /\ estimate \in U32
  BY <1>1, <1>4
<1>7. TypeOK
  BY <1>1, <1>2, <1>3, <1>4, <1>5, <1>6 DEF TypeOK
<1> QED
  BY <1>3, <1>4, <1>7 DEF IInv, Staged, Told, Windowed, SensibleNeverPanics, Budgeted

\* A step that leaves the consumer and its encoders alone.
LEMMA ConsumerAlone ==
    ASSUME IInv, TypeOK', UNCHANGED <<stage, cc, encoders, targetVars, op, estimate, panicked>>
    PROVE  IInv'
<1>1. /\ stage' = stage /\ cc' = cc /\ encoders' = encoders /\ op' = op
      /\ onDelay' = onDelay /\ onLoss' = onLoss /\ window' = window
      /\ estimate' = estimate /\ panicked' = panicked
  BY DEF targetVars
<1>2. /\ Least' = Least /\ Most' = Most /\ Sensible' = Sensible
      /\ Share(onDelay, onLoss)' = Share(onDelay, onLoss)
  BY <1>1, SameLimits
<1>3. Staged' /\ Budgeted'
  BY <1>1 DEF IInv, Staged, Budgeted
<1>4. Told'
  BY <1>1, <1>2 DEF IInv, Told
<1>5. Windowed' /\ SensibleNeverPanics'
  BY <1>1, <1>2 DEF IInv, Windowed, SensibleNeverPanics
<1> QED BY <1>3, <1>4, <1>5 DEF IInv

\* such as an application that sets a property,
LEMMA SetPropertyKeeps ==
    ASSUME IInv, SetProperty
    PROVE  IInv'
<1>1. TypeOK
  BY DEF IInv
<1>2. settings' \in [heuristic : Heuristic, min : U32, max : U32, fec : BOOLEAN]
  <2>1. settings \in [heuristic : Heuristic, min : U32, max : U32, fec : BOOLEAN]
    BY <1>1 DEF TypeOK
  <2>2. CASE \E value \in AskedMin : SetMin(value)
    BY <2>1, <2>2, RatesFit DEF SetMin
  <2>3. CASE \E value \in AskedMax : SetMax(value)
    <3>1. PICK value \in AskedMax : SetMax(value)
      BY <2>3
    <3> DEFINE n == IF settings.fec THEN (value * settings.max * 3) \div 2 ELSE value
    <3>2. value \in Nat /\ settings.max \in Nat
      BY <2>1, RatesFit, WordHalves DEF U32
    <3>3. value * settings.max * 3 \in Int
      BY <3>2
    <3>4. n \in Int
      BY <3>2, <3>3
    <3>5. ToU32(n) \in U32
      BY <3>4, CastFits
    <3>6. settings' = [settings EXCEPT !.max = ToU32(n)]
      BY <3>1 DEF SetMax
    <3> HIDE DEF n
    <3> QED BY <2>1, <3>5, <3>6
  <2>4. CASE \E value \in BOOLEAN : SetDoFec(value)
    BY <2>1, <2>4 DEF SetDoFec
  <2> QED BY <2>2, <2>3, <2>4 DEF SetProperty
<1>3. UNCHANGED <<stage, cc, encoders, targetVars, op, estimate, network, panicked>>
  BY DEF SetProperty
<1>4. TypeOK'
  BY <1>1, <1>2, <1>3 DEF TypeOK, targetVars
<1> QED BY <1>3, <1>4, ConsumerAlone

\* or a network that calms down.
LEMMA CalmDownKeeps ==
    ASSUME IInv, CalmDown
    PROVE  IInv'
<1>1. network' = "calm" /\ settings' = settings
      /\ UNCHANGED <<stage, cc, encoders, targetVars, op, estimate, panicked>>
  BY DEF CalmDown, targetVars
<1>2. TypeOK'
  BY <1>1 DEF IInv, TypeOK, targetVars
<1> QED BY <1>1, <1>2, ConsumerAlone

\* Without encoders, there is nothing to say of them.
LEMMA Fresh ==
    ASSUME TypeOK', encoders' = <<>>, op'.by = "none", window' = FALSE, estimate' = 0,
           panicked' = FALSE
    PROVE  IInv'
<1>1. DOMAIN encoders' = {}
  OBVIOUS
<1> QED
  BY <1>1 DEF IInv, Staged, Told, Windowed, SensibleNeverPanics, Budgeted

\* A consumer is added without,
LEMMA AddConsumerKeeps ==
    ASSUME IInv, AddConsumer
    PROVE  IInv'
<1>1. /\ TypeOK /\ stage = "none" /\ panicked = FALSE /\ encoders = <<>>
      /\ op.by = "none" /\ window = FALSE /\ estimate = 0
  BY DEF IInv, AddConsumer, Staged, TypeOK
<1>2. cc' \in CCInfo
  BY <1>1 DEF AddConsumer, TypeOK, CCInfo
<1>3. /\ UNCHANGED <<settings, encoders, targetVars, op, estimate, network, panicked>>
      /\ stage' = "added"
  BY DEF AddConsumer
<1>4. TypeOK'
  BY <1>1, <1>2, <1>3 DEF TypeOK, targetVars
<1> QED BY <1>1, <1>3, <1>4, Fresh DEF targetVars

\* and removed with all it had.
LEMMA RemoveConsumerKeeps ==
    ASSUME IInv, RemoveConsumer
    PROVE  IInv'
<1>1. /\ stage' = "none" /\ encoders' = <<>> /\ onDelay' = 0 /\ onLoss' = 0
      /\ window' = FALSE /\ op' = NoOp /\ estimate' = 0
      /\ settings' = settings /\ cc' = cc /\ network' = network /\ panicked' = panicked
      /\ panicked = FALSE /\ TypeOK
  BY DEF RemoveConsumer, IInv, TypeOK
<1>2. /\ 0 \in I32 /\ 0 \in U32 /\ NoOp \in Op /\ NoOp.by = "none"
      /\ MaxVideos \in Nat
  BY RatesFit, WordHalves DEF I32, U32, NoOp, Op
<1>3. encoders' \in Seq(Encoder) /\ Len(encoders') <= MaxVideos
  BY <1>1, <1>2
<1>4. TypeOK'
  BY <1>1, <1>2, <1>3 DEF TypeOK
<1> QED BY <1>1, <1>2, <1>4, Fresh

\* A step to another stage, as far as the consumer's stages go.
LEMMA AnswerKeeps ==
    ASSUME IInv, Answer
    PROVE  IInv'
<1>1. /\ UNCHANGED <<settings, cc, encoders, targetVars, op, estimate, network, panicked>>
      /\ stage = "added" /\ stage' = "connecting" /\ panicked = FALSE /\ TypeOK
  BY DEF Answer, IInv, TypeOK
<1>2. op.by = "none" /\ window = FALSE /\ encoders = <<>>
  BY <1>1 DEF IInv, Staged, TypeOK
<1>3. TypeOK'
  BY <1>1 DEF TypeOK, targetVars
<1>4. Staged'
  BY <1>1, <1>2 DEF IInv, Staged, targetVars
<1>5. DOMAIN encoders' = {}
  BY <1>1, <1>2
<1> QED
  BY <1>1, <1>2, <1>3, <1>4, <1>5
  DEF IInv, Told, Windowed, SensibleNeverPanics, Budgeted, targetVars

\* The streams are connected before the first operation.
LEMMA ConnectedKeeps ==
    ASSUME IInv, Connected
    PROVE  IInv'
<1>1. /\ settings' = settings /\ cc' = cc /\ encoders' = encoders /\ onDelay' = onDelay
      /\ onLoss' = onLoss /\ window' = window /\ op' = op /\ estimate' = estimate
      /\ network' = network /\ panicked' = panicked
      /\ stage = "connecting" /\ stage' = "connected" /\ panicked = FALSE /\ TypeOK
  BY DEF Connected, IInv, TypeOK, targetVars
<1>2. op.by = "none" /\ window = FALSE
  BY <1>1 DEF IInv, Staged, TypeOK
<1>3. TypeOK'
  BY <1>1 DEF TypeOK
<1>4. Staged' /\ Budgeted'
  BY <1>1, <1>2 DEF IInv, Staged, Budgeted
<1> QED
  BY <1>1, <1>2, <1>3, <1>4 DEF IInv, Told, Windowed, SensibleNeverPanics

\* A new encoder is one, without FEC where there is congestion control.
LEMMA NewIsEncoder ==
    ASSUME cc.max \in U32, NEW unit \in Units, NEW start \in Starts
    PROVE  /\ NewEncoder(unit, start) \in Encoder
           /\ cc.heuristic # "disabled" => NewEncoder(unit, start).fec = 0
<1> DEFINE blank == [unit |-> unit, bitrate |-> 0, fec |-> 0]
           fresh == SetBitrate(blank, start, 0)
           safe == ToI32((cc.max * 2) \div 3)
<1>1. start \in I32 /\ 0 \in I32
  BY RatesFit, WordHalves DEF I32
<1>2. blank \in Encoder
  BY <1>1 DEF Encoder
<1>3. fresh \in Encoder /\ fresh.fec = 0
  BY <1>1, <1>2, ToldIsEncoder
<1>4. safe \in I32
  <2>1. (cc.max * 2) \div 3 \in Int
    BY WordHalves DEF U32
  <2> QED BY <2>1, CastFits
<1>5. SetBitrate(fresh, safe, 50) \in Encoder
  <2> HIDE DEF fresh, safe
  <2> QED BY <1>3, <1>4, ToldIsEncoder
<1>6. NewEncoder(unit, start) =
         IF cc.heuristic = "disabled" THEN SetBitrate(fresh, safe, 50) ELSE fresh
  BY DEF NewEncoder
<1> HIDE DEF fresh, safe
<1> QED BY <1>3, <1>5, <1>6

\* An encoder more is a target more, or a panic.
LEMMA ConnectVideoKeeps ==
    ASSUME IInv, ConnectVideo
    PROVE  IInv'
<1>1. /\ TypeOK /\ Staged /\ Budgeted /\ panicked = FALSE /\ Len(encoders) < MaxVideos
      /\ stage = "connecting" /\ stage' = "connecting" /\ settings' = settings /\ cc' = cc
      /\ window' = window /\ op' = op /\ estimate' = estimate /\ network' = network
  BY DEF ConnectVideo, IInv, TypeOK
<1>2. /\ encoders \in Seq(Encoder) /\ onDelay \in I32 /\ onLoss \in I32 /\ onDelay \in Int
      /\ cc.max \in U32
  BY <1>1, TypesGiven
<1>3. op.by = "none" /\ window = FALSE
  BY <1>1 DEF Staged, TypeOK
<1>4. PICK unit \in Units, start \in Starts :
         LET new == NewEncoder(unit, start)
             sum == onDelay + new.bitrate
         IN  \/ /\ cc.heuristic # "homegrown"
                /\ encoders' = Append(encoders, new)
                /\ UNCHANGED <<onDelay, onLoss, panicked>>
             \/ /\ cc.heuristic = "homegrown" /\ Fits(sum)
                /\ encoders' = Append(encoders, new)
                /\ onDelay' = Signed(sum) /\ onLoss' = onDelay'
                /\ UNCHANGED panicked
             \/ /\ cc.heuristic = "homegrown" /\ ~Fits(sum)
                /\ panicked' = TRUE
                /\ UNCHANGED <<encoders, onDelay, onLoss>>
  BY DEF ConnectVideo
<1> DEFINE new == NewEncoder(unit, start)
           sum == onDelay + new.bitrate
<1>5. new \in Encoder /\ (cc.heuristic # "disabled" => new.fec = 0)
  BY <1>2, NewIsEncoder
<1>6. sum \in Int
  BY <1>2, <1>5 DEF Encoder, I32
<1>7. onDelay' \in I32 /\ onLoss' \in I32 /\ panicked' \in BOOLEAN
  BY <1>1, <1>2, <1>4, <1>6, SignedFits
<1>8. panicked' = TRUE => cc.heuristic = "homegrown"
  BY <1>1, <1>4
<1>9. encoders' = encoders \/ encoders' = Append(encoders, new)
  BY <1>4
<1> HIDE DEF new, sum
<1>10. encoders' \in Seq(Encoder) /\ Len(encoders') <= MaxVideos
  <2>1. MaxVideos \in Nat
    BY RatesFit
  <2> QED BY <1>1, <1>2, <1>5, <1>9, <2>1
<1>11. ASSUME NEW i \in DOMAIN encoders', encoders'[i].fec > 0, cc.heuristic = "google"
       PROVE  i \in DOMAIN encoders /\ encoders'[i] = encoders[i]
  <2>1. CASE encoders' = encoders
    BY <2>1
  <2>2. CASE encoders' = Append(encoders, new)
    <3>1. /\ DOMAIN encoders = 1..Len(encoders) /\ Len(encoders) \in Nat
          /\ DOMAIN encoders' = 1..(Len(encoders) + 1)
      BY <1>2, <1>5, <2>2
    <3>2. encoders'[Len(encoders) + 1] = new
      BY <1>2, <2>2
    <3>3. i # Len(encoders) + 1
      BY <3>2, <1>5, <1>11
    <3>4. i \in 1..Len(encoders)
      BY <3>1, <3>3
    <3> QED BY <3>1, <3>4, <1>2, <2>2
  <2> QED BY <1>9, <2>1, <2>2
<1>12. TypeOK'
  BY <1>1, <1>7, <1>10 DEF TypeOK
<1>13. Staged'
  BY <1>1, <1>3, <1>8 DEF Staged
<1>14. Budgeted'
  BY <1>1, <1>11 DEF Budgeted
<1> QED
  BY <1>1, <1>3, <1>12, <1>13, <1>14 DEF IInv, Told, Windowed, SensibleNeverPanics

\* The bitrate that is left for an encoder, with its FEC, is the estimate at most.
LEMMA BudgetHolds ==
    ASSUME NEW bitrate \in Nat, NEW most \in U32, bitrate <= most, NEW unit \in Nat \ {0},
           FecPercentage(bitrate, most) > 0
    PROVE  Quotient(WithoutFec(bitrate, most), unit) * unit
             * (100 + FecPercentage(bitrate, most)) <= bitrate * 100
<1> DEFINE d == most - FecFrom  x == bitrate - FecFrom
           f == FecPercentage(bitrate, most)
           e == WithoutFec(bitrate, most)  t == Quotient(e, unit) * unit
           n == bitrate * 2 * d  w == 2 * d + x
           q == n \div w
<1>1. /\ f \in 0..50 /\ f > 0 /\ bitrate > FecFrom /\ most > FecFrom
      /\ f * d <= x * 50
  BY FecFits
<1>2. d \in Nat \ {0} /\ x \in Nat \ {0} /\ w \in Nat \ {0} /\ n \in Nat /\ FecFrom \in Nat
  <2>1. FecFrom \in Nat /\ most \in Nat
    BY RatesFit DEF U32
  <2>2. d \in Nat \ {0} /\ x \in Nat \ {0}
    BY <1>1, <2>1
  <2> HIDE DEF d, x
  <2> QED BY <2>1, <2>2
<1>3. q \in Nat /\ q * w <= n
  BY <1>2, DivBounds
<1>4. e = ToI32(q)
  <2>1. w = 2 * (most - FecFrom) + bitrate - FecFrom
    BY <1>2 DEF U32
  <2> QED BY <1>1, <2>1, RatesFit DEF WithoutFec, U32
<1> HIDE DEF e, q
<1>5. e \in Nat /\ e <= q /\ e \in Int
  BY <1>3, <1>4, CastFits, WordHalves DEF I32
<1>6. t \in Nat /\ t <= e
  <2> DEFINE r == Quotient(e, unit)
  <2>1. r \in Int /\ r >= 0 /\ r * unit <= e
    BY <1>5, QuotientBounds
  <2> HIDE DEF r
  <2>2. r * unit \in Nat
    BY <2>1
  <2> QED BY <2>1, <2>2 DEF r
<1> HIDE DEF t, f, d, x, n, w
<1>7. t * w <= n
  <2>1. t <= q
    BY <1>3, <1>5, <1>6
  <2>2. t * w <= q * w
    BY <2>1, <1>2, <1>3, <1>6, TimesIncr
  <2> QED BY <2>2, <1>2, <1>3, <1>6
<1>8. t * (100 + f) * d <= bitrate * 100 * d
  <2>1. t * (f * d) <= t * (x * 50)
    BY <1>1, <1>2, <1>6
  <2>2. t * (2 * d + x) <= bitrate * 2 * d
    BY <1>7 DEF n, w
  <2> DEFINE td == t * d  tx == t * x  bd == bitrate * d  tfd == t * (f * d)
  <2>3. td \in Nat /\ tx \in Nat /\ bd \in Nat /\ tfd \in Nat
    BY <1>1, <1>2, <1>6
  <2>4. t * (x * 50) = 50 * tx
    BY <1>2, <1>6
  <2>5. t * (2 * d + x) = 2 * td + tx /\ bitrate * 2 * d = 2 * bd
    BY <1>2, <1>6
  <2>6. t * (100 + f) * d = 100 * td + tfd /\ bitrate * 100 * d = 100 * bd
    BY <1>1, <1>2, <1>6
  <2> HIDE DEF td, tx, bd, tfd
  <2>7. tfd <= 50 * tx
    BY <2>1, <2>4 DEF tfd
  <2> QED BY <2>2, <2>3, <2>5, <2>6, <2>7
<1>9. t * (100 + f) < bitrate * 100 + 1
  <2>1. t * (100 + f) \in Int /\ bitrate * 100 \in Int
    BY <1>1, <1>6
  <2>2. t * (100 + f) * d < bitrate * 100 * d + d
    BY <1>8, <1>2, <2>1
  <2> QED BY <2>1, <2>2, <1>2, AtMost
<1> QED BY <1>1, <1>6, <1>9 DEF t, e, f

\* It fits,
LEMMA RestFits ==
    ASSUME NEW bitrate \in Nat, NEW most \in U32
    PROVE  WithoutFec(bitrate, most) \in I32
<1> DEFINE d == most - FecFrom  w == 2 * d + bitrate - FecFrom  n == bitrate * 2 * d
<1>1. FecFrom \in Nat /\ most \in Nat
  BY RatesFit DEF U32
<1>2. CASE bitrate <= FecFrom \/ most <= FecFrom
  BY <1>2, CastFits DEF WithoutFec
<1>3. CASE bitrate > FecFrom /\ most > FecFrom
  <2>1. w \in Nat \ {0} /\ n \in Nat
    BY <1>1, <1>3
  <2>2. n \div w \in Int
    BY <2>1, DivBounds
  <2>3. WithoutFec(bitrate, most) = ToI32(n \div w)
    BY <1>1, <1>3 DEF WithoutFec
  <2> QED BY <2>2, <2>3, CastFits
<1> QED BY <1>1, <1>2, <1>3

\* so an estimate is for every encoder with its FEC.
LEMMA EstimateKeeps ==
    ASSUME IInv, Estimate
    PROVE  IInv'
<1>1. /\ TypeOK /\ Staged /\ panicked = FALSE /\ cc.heuristic = "google"
      /\ stage # "none" /\ (stage = "added" => encoders = <<>>)
      /\ settings' = settings /\ stage' = stage /\ cc' = cc /\ onDelay' = onDelay
      /\ onLoss' = onLoss /\ window' = window /\ op' = op /\ network' = network
      /\ panicked' = panicked
  BY DEF Estimate, IInv, TypeOK, Staged, targetVars
<1>2. PICK bitrate \in Estimates \cap (cc.min..cc.max) :
         /\ estimate' = bitrate
         /\ encoders' = [i \in DOMAIN encoders |->
               SetBitrate(encoders[i], WithoutFec(bitrate, cc.max),
                          FecPercentage(bitrate, cc.max))]
  BY DEF Estimate
<1>3. /\ encoders \in Seq(Encoder) /\ cc.max \in U32 /\ cc.min \in U32
      /\ \A i \in DOMAIN encoders : encoders[i].unit \in Nat \ {0}
  BY <1>1, TypesGiven
<1>4. bitrate \in U32 /\ bitrate \in Nat /\ bitrate \in Int /\ bitrate <= cc.max
  BY <1>3, RatesFit DEF U32
<1> DEFINE e == WithoutFec(bitrate, cc.max)  f == FecPercentage(bitrate, cc.max)
<1>5. f \in 0..50
  BY <1>3, <1>4, FecFits
<1>6. e \in I32
  BY <1>3, <1>4, RestFits
<1>7. /\ encoders' \in Seq(Encoder) /\ Len(encoders') = Len(encoders)
      /\ DOMAIN encoders' = DOMAIN encoders
      /\ \A i \in DOMAIN encoders :
            /\ encoders'[i].unit = encoders[i].unit
            /\ encoders'[i].bitrate = Quotient(e, encoders[i].unit) * encoders[i].unit
            /\ encoders'[i].fec = f
  <2> HIDE DEF e, f
  <2>1. /\ encoders' = [i \in DOMAIN encoders |-> encoders'[i]]
        /\ \A i \in DOMAIN encoders : encoders'[i] = SetBitrate(encoders[i], e, f)
    BY <1>2 DEF e, f
  <2> QED BY <1>3, <1>5, <1>6, <2>1, AllTold
<1>8. op.by = "none" /\ ~window
  BY <1>1 DEF Staged, TypeOK
<1>9. TypeOK'
  BY <1>1, <1>2, <1>4, <1>7 DEF TypeOK
<1>10. Staged'
  <2>1. stage = "added" => encoders' = <<>>
    BY <1>1, <1>3, <1>7, EmptySeq
  <2> QED BY <1>1, <1>8, <2>1 DEF Staged
<1>11. Budgeted'
  <2> SUFFICES ASSUME NEW i \in DOMAIN encoders, encoders'[i].fec > 0
               PROVE  encoders'[i].bitrate * (100 + encoders'[i].fec) <= estimate' * 100
    BY <1>7 DEF Budgeted
  <2> HIDE DEF e, f
  <2>1. f > 0 /\ encoders'[i].bitrate = Quotient(e, encoders[i].unit) * encoders[i].unit
        /\ encoders'[i].fec = f
    BY <1>7
  <2>2. Quotient(e, encoders[i].unit) * encoders[i].unit * (100 + f) <= bitrate * 100
    BY <1>3, <1>4, <2>1, BudgetHolds DEF e, f
  <2> QED BY <1>2, <2>1, <2>2
<1> QED BY <1>1, <1>8, <1>9, <1>10, <1>11 DEF IInv, Told, Windowed, SensibleNeverPanics

\* One step of any kind.
LEMMA NextKeeps ==
    ASSUME IInv, [Next]_vars
    PROVE  IInv'
<1>1. CASE SetProperty
  BY <1>1, SetPropertyKeeps
<1>2. CASE AddConsumer
  BY <1>2, AddConsumerKeeps
<1>3. CASE Answer
  BY <1>3, AnswerKeeps
<1>4. CASE ConnectVideo
  BY <1>4, ConnectVideoKeeps
<1>5. CASE Connected
  BY <1>5, ConnectedKeeps
<1>6. CASE RemoveConsumer
  BY <1>6, RemoveConsumerKeeps
<1>7. CASE LossControl
  BY <1>7, LossControlKeeps
<1>8. CASE DelayControl
  BY <1>8, DelayControlKeeps
<1>9. CASE Estimate
  BY <1>9, EstimateKeeps
<1>10. CASE CalmDown
  BY <1>10, CalmDownKeeps
<1>11. CASE UNCHANGED vars
  <2>1. UNCHANGED <<settings, stage, cc, encoders, targetVars, op, estimate, network,
                    panicked>>
    BY <1>11 DEF vars
  <2>2. TypeOK'
    BY <2>1 DEF IInv, TypeOK, targetVars
  <2> QED BY <2>1, <2>2, ConsumerAlone
<1> QED
  BY <1>1, <1>2, <1>3, <1>4, <1>5, <1>6, <1>7, <1>8, <1>9, <1>10, <1>11 DEF Next

\* The invariant holds.
LEMMA Inductive == Spec => []IInv
<1>1. Init => IInv
  BY InitHolds
<1>2. IInv /\ [Next]_vars => IInv'
  BY NextKeeps
<1> QED BY <1>1, <1>2, PTL DEF Spec

-----------------------------------------------------------------------------
(* What the invariant says of the encoders.                                *)

\* An encoder is told its share but for less than a unit, and its share is in the
\* limits and no more than a part of the lower target.
LEMMA ShareOfEncoder ==
    ASSUME IInv, op.by # "none", ~panicked, Sensible, NEW i \in DOMAIN encoders
    PROVE  /\ encoders[i].bitrate > cc.min - encoders[i].unit
           /\ encoders[i].bitrate <= cc.max
           /\ encoders[i].bitrate * Len(encoders)
                <= Larger(Least, Smaller(onDelay, onLoss))
<1> DEFINE k == Len(encoders)  c == Clamped(Lower(onDelay, onLoss))
           s == Share(onDelay, onLoss)  u == encoders[i].unit
           q == Quotient(s, u)  b == encoders[i].bitrate
<1>1. /\ Given /\ k > 0 /\ Least <= Most /\ b = q * u
      /\ onDelay \in I32 /\ onLoss \in I32 /\ onDelay \in Int /\ onLoss \in Int
      /\ cc.min \in Nat /\ cc.max \in Nat /\ k \in Nat \ {0} /\ u \in Nat \ {0}
  <2>1. /\ Given /\ onDelay \in I32 /\ onLoss \in I32 /\ onDelay \in Int /\ onLoss \in Int
        /\ cc.min \in U32 /\ cc.max \in U32 /\ u \in Nat \ {0}
    BY TypesGiven DEF IInv
  <2>2. k > 0 /\ Least <= Most /\ b = q * u
    BY DEF IInv, Told
  <2> QED BY <2>1, <2>2, RatesFit DEF Given, U32
<1>2. Least = cc.min * k /\ Least >= 0 /\ Least \in Int /\ Most \in Int
  BY <1>1, SensibleFits, LimitsFit DEF I32
<1>3. /\ c \in Int /\ Least <= c
      /\ c <= Larger(Least, Smaller(onDelay, onLoss))
  BY <1>1, <1>2 DEF Clamped, Lower, Larger, Smaller
<1>4. s = Quotient(c, k)
  BY DEF Share
<1>5. s \in Int /\ s >= 0 /\ s * k <= c /\ c < s * k + k
  <2> HIDE DEF c, s, k
  <2>1. c >= 0
    BY <1>2, <1>3
  <2> QED BY <1>1, <1>3, <1>4, <2>1, QuotientBounds
<1>6. s <= cc.max
  BY <1>1, ShareFits
<1> HIDE DEF c, s, k
<1>7. cc.min <= s
  <2>1. cc.min * k \in Int /\ s * k \in Int
    BY <1>1, <1>5
  <2>2. cc.min * k < s * k + k
    BY <1>1, <1>2, <1>3, <1>5, <2>1
  <2> QED BY <2>2, <1>1, <1>5, AtMost
<1>8. q \in Int /\ q * u <= s /\ s < q * u + u
  <2> HIDE DEF u
  <2> QED BY <1>1, <1>5, QuotientBounds
<1> HIDE DEF u, q, b
<1>9. b \in Int
  BY <1>1, <1>8
<1>10. b <= s /\ b > cc.min - u
  BY <1>1, <1>5, <1>7, <1>8, <1>9
<1>11. b * k <= c
  <2>1. b * k <= s * k
    BY <1>1, <1>5, <1>9, <1>10, TimesIncr
  <2>2. b * k \in Int /\ s * k \in Int
    BY <1>1, <1>5, <1>9
  <2> QED BY <2>1, <2>2, <1>3, <1>5
<1>12. Larger(Least, Smaller(onDelay, onLoss)) \in Int /\ b * k \in Int
  BY <1>1, <1>2, <1>9 DEF Larger, Smaller
<1>13. b * k <= Larger(Least, Smaller(onDelay, onLoss))
  BY <1>3, <1>11, <1>12
<1> QED BY <1>1, <1>5, <1>6, <1>9, <1>10, <1>13 DEF b, u, k

-----------------------------------------------------------------------------
(* The theorems.                                                           *)

\* The bitrates and the percentages fit their integers, whatever the limits are,
\* and whether or not the build checks its arithmetic.
THEOREM TypeCorrect == Spec => []TypeOK
<1>1. IInv => TypeOK
  BY DEF IInv
<1> QED BY <1>1, Inductive, PTL

\* However two controllers move their targets in turn, the encoders stay in the
\* limits and under both targets.
THEOREM BitratesInvHolds == Spec => []BitratesInv
<1>1. IInv => WithinLimits
  BY ShareOfEncoder DEF WithinLimits
<1>2. IInv => LowerTargetHolds
  BY ShareOfEncoder DEF LowerTargetHolds
<1>3. IInv => BitratesInv
  BY <1>1, <1>2 DEF IInv, BitratesInv
<1> QED BY <1>3, Inductive, PTL

\* With sensible limits and a video stream no feedback makes the element panic.
THEOREM SensibleNeverPanicsHolds == Spec => []SensibleNeverPanics
<1>1. IInv => SensibleNeverPanics
  BY DEF IInv
<1> QED BY <1>1, Inductive, PTL

\* An encoder with its FEC sends no more than rtpgccbwe's estimate.
THEOREM EstimateAlwaysHolds == Spec => []EstimateHolds
<1>1. IInv => EstimateHolds
  BY DEF IInv, Staged, Budgeted, EstimateHolds
<1> QED BY <1>1, Inductive, PTL

-----------------------------------------------------------------------------
(* The sign of an operation.                                               *)

\* A product with more than the whole is not less, and with less not more, once it
\* is clamped: of a negative target, which the limits exclude, too.
LEMMA TimesClamped ==
    ASSUME Given, Sensible, Len(encoders) > 0, NEW n \in I32, NEW part \in Nat
    PROVE  /\ part >= 100 => Clamped(n) <= Clamped(Times(n, part, 100))
           /\ part <= 100 => Clamped(Times(n, part, 100)) <= Clamped(n)
<1> DEFINE p == n * part  q == Quotient(p, 100)  t == Times(n, part, 100)
<1>1. n \in Int /\ p \in Int
  BY DEF I32
<1>2. /\ q \in Int
      /\ p >= 0 => q * 100 <= p /\ p < q * 100 + 100
      /\ p < 0 => q <= 0
  <2> HIDE DEF p
  <2>1. p \in Int /\ 100 \in Nat \ {0}
    BY <1>1
  <2>2. /\ Quotient(p, 100) \in Int
        /\ p >= 0 => Quotient(p, 100) * 100 <= p /\ p < Quotient(p, 100) * 100 + 100
        /\ p < 0 => Quotient(p, 100) <= 0
    BY <2>1, QuotientBounds
  <2> QED BY <2>2
<1>3. t = ToI32(q) /\ t \in Int
  BY <1>2, CastFits DEF Times, I32
<1>4. ToI32(n) = n /\ ToI32(0) = 0
  BY <1>1, CastFits, WordHalves DEF I32
<1> HIDE DEF q, t
<1>5. CASE n >= 0
  <2>1. part >= 100 => n * 100 <= p
    BY <1>1, <1>5
  <2>2. part <= 100 => p <= n * 100
    BY <1>1, <1>5
  <2>3. p >= 0
    BY <1>1, <1>5
  <2> HIDE DEF p
  <2>4. (part >= 100 => n <= q) /\ (part <= 100 => q <= n)
    BY <2>1, <2>2, <2>3, <1>1, <1>2
  <2>5. (part >= 100 => n <= t) /\ (part <= 100 => t <= n)
    <3>1. n <= q => ToI32(n) <= ToI32(q)
      BY <1>1, <1>2, CastRises
    <3>2. q <= n => ToI32(q) <= ToI32(n)
      BY <1>1, <1>2, CastRises
    <3> QED BY <2>4, <3>1, <3>2, <1>3, <1>4
  <2>6. n <= t => Clamped(n) <= Clamped(t)
    BY <1>1, <1>3, ClampRises
  <2>7. t <= n => Clamped(t) <= Clamped(n)
    BY <1>1, <1>3, ClampRises
  <2> QED BY <2>5, <2>6, <2>7 DEF t
<1>6. CASE n < 0
  <2>1. p <= 0
    BY <1>1, <1>6
  <2> HIDE DEF p
  <2>2. q <= 0
    BY <2>1, <1>1, <1>2
  <2>3. t <= 0
    BY <2>2, <1>2, <1>3, <1>4, CastRises
  <2>4. Least >= 0 /\ Least <= Most /\ Least \in Int /\ Most \in Int
    BY SensibleFits, LimitsFit DEF I32
  <2>5. Clamped(n) = Least /\ Clamped(t) = Least
    BY <2>3, <2>4, <1>1, <1>3, <1>6 DEF Clamped, Larger, Smaller
  <2> QED BY <2>4, <2>5 DEF t
<1> QED BY <1>1, <1>5, <1>6

\* Moving one of the targets moves the lower of the two, once it is clamped, the
\* same way or not at all.
LEMMA LowerFollows ==
    ASSUME Given, Least <= Most, NEW a \in Int, NEW b \in Int, NEW new \in Int
    PROVE  /\ Clamped(a) <= new => Clamped(Lower(a, b)) <= Clamped(Lower(new, b))
           /\ Clamped(a) <= new => Clamped(Lower(a, b)) <= Clamped(Lower(a, new))
           /\ new <= Clamped(a) /\ Least <= new =>
                Clamped(Lower(new, b)) <= Clamped(Lower(a, b))
<1>1. Least \in I32 /\ Most \in I32
  BY LimitsFit
<1>2. Least \in Int /\ Most \in Int
  BY <1>1 DEF I32
<1> QED BY <1>2 DEF Clamped, Lower, Larger, Smaller

\* And the encoders follow.
LEMMA EncoderFollows ==
    ASSUME NEW k \in Nat \ {0}, NEW unit \in Nat \ {0}, NEW c \in Int, NEW d \in Int,
           c <= d
    PROVE  Quotient(Quotient(c, k), unit) * unit <= Quotient(Quotient(d, k), unit) * unit
<1> DEFINE p == Quotient(c, k)  q == Quotient(d, k)
<1>1. p \in Int /\ q \in Int /\ p <= q
  BY QuotientBounds, QuotientRises
<1> HIDE DEF p, q
<1>2. Quotient(p, unit) \in Int /\ Quotient(q, unit) \in Int
  BY <1>1, QuotientBounds
<1>3. Quotient(p, unit) <= Quotient(q, unit)
  BY <1>1, QuotientRises
<1>4. Quotient(p, unit) * unit <= Quotient(q, unit) * unit
  BY <1>2, <1>3, TimesIncr
<1> QED BY <1>4 DEF p, q

\* What the bitrates do between two operations.
Signs ==
    \A i \in DOMAIN encoders :
        /\ op'.kind = "increase" => encoders'[i].bitrate >= encoders[i].bitrate
        /\ op'.kind = "hold" => encoders'[i].bitrate = encoders[i].bitrate
        /\ op' = [by |-> "delay", kind |-> "decrease"] =>
             encoders'[i].bitrate <= encoders[i].bitrate

\* Encoders that stay as they are satisfy it.
LEMMA AloneKeepsSigns ==
    ASSUME TypeOK, encoders' = encoders
    PROVE  Signs
<1>1. \A i \in DOMAIN encoders : encoders[i].bitrate \in Int
  BY TypesGiven DEF Encoder, I32
<1> QED BY <1>1 DEF Signs

\* An operation whose target moves as its name says moves the encoders that way.
LEMMA ControlKeepsSigns ==
    ASSUME IInv, Controlled, op.by # "none", Sensible, NEW by \in {"delay", "loss"},
           NEW kind \in {"hold", "decrease", "increase"}, NEW asks \in I32,
           Apply(by, kind, asks),
           kind = "hold" => by = "loss" /\ asks = onLoss,
           kind = "increase" => Clamped(onDelay) <= Clamped(asks),
           by = "delay" /\ kind = "decrease" => Clamped(asks) <= Clamped(onDelay)
    PROVE  Signs
<1> DEFINE k == Len(encoders)
           c == Clamped(Lower(onDelay, onLoss))
           d == Clamped(Lower(onDelay', onLoss'))
<1>1. /\ TypeOK /\ Given /\ k \in Nat \ {0} /\ Least <= Most
      /\ onDelay \in Int /\ onLoss \in Int /\ asks \in Int /\ Signed(asks) = asks
      /\ \A i \in DOMAIN encoders :
            /\ encoders[i].unit \in Nat \ {0}
            /\ encoders[i].bitrate =
                 Quotient(Share(onDelay, onLoss), encoders[i].unit) * encoders[i].unit
  <2>1. TypeOK /\ Told /\ ~panicked
    BY DEF IInv, Controlled
  <2>2. /\ Given /\ onDelay \in Int /\ onLoss \in Int
        /\ \A i \in DOMAIN encoders : encoders[i].unit \in Nat \ {0}
    BY <2>1, TypesGiven
  <2>3. asks \in Int /\ Signed(asks) = asks
    BY SignedFits DEF I32
  <2> QED BY <2>1, <2>2, <2>3 DEF Told, Given
<1>2. /\ op' = [by |-> by, kind |-> kind]
      /\ onDelay' \in Int /\ onLoss' \in Int
      /\ \/ encoders' = encoders
         \/ /\ onDelay' = IF by # "delay" THEN onDelay ELSE
                             IF kind = "hold" THEN asks ELSE Clamped(asks)
            /\ onLoss' = IF by # "loss" THEN onLoss ELSE
                             IF kind = "hold" THEN asks ELSE Clamped(asks)
            /\ \A i \in DOMAIN encoders :
                 encoders'[i].bitrate =
                   Quotient(Share(onDelay', onLoss'), encoders[i].unit)
                     * encoders[i].unit
  <2>1. /\ op' = [by |-> by, kind |-> kind]
        /\ onDelay' \in I32 /\ onLoss' \in I32
        /\ \/ encoders' = encoders
           \/ /\ onDelay' = IF by # "delay" THEN onDelay ELSE
                               IF kind = "hold" THEN asks ELSE Clamped(Signed(asks))
              /\ onLoss' = IF by # "loss" THEN onLoss ELSE
                               IF kind = "hold" THEN asks ELSE Clamped(Signed(asks))
              /\ \A i \in DOMAIN encoders :
                   encoders'[i].bitrate =
                     Quotient(Share(onDelay', onLoss'), encoders[i].unit)
                       * encoders[i].unit
    BY <1>1, Applied
  <2> QED BY <1>1, <2>1 DEF I32
<1>3. CASE encoders' = encoders
  BY <1>1, <1>3, AloneKeepsSigns
<1>4. CASE encoders' # encoders
  <2>1. /\ onDelay' = IF by # "delay" THEN onDelay ELSE
                         IF kind = "hold" THEN asks ELSE Clamped(asks)
        /\ onLoss' = IF by # "loss" THEN onLoss ELSE
                         IF kind = "hold" THEN asks ELSE Clamped(asks)
    BY <1>2, <1>4
  <2>2. /\ Clamped(asks) \in Int /\ Least <= Clamped(asks)
        /\ c \in Int /\ d \in Int
    BY <1>1, <1>2, LimitsFit DEF Lower, Smaller
  <2>3. kind = "increase" => c <= d
    <3>1. CASE kind = "increase" /\ by = "delay"
      BY <3>1, <2>1, <2>2, <1>1, LowerFollows
    <3>2. CASE kind = "increase" /\ by = "loss"
      BY <3>2, <2>1, <2>2, <1>1, LowerFollows
    <3> QED BY <3>1, <3>2
  <2>4. kind = "decrease" /\ by = "delay" => d <= c
    BY <2>1, <2>2, <1>1, LowerFollows
  <2>5. kind = "hold" => d = c
    BY <2>1
  <2>6. ASSUME NEW i \in DOMAIN encoders
        PROVE  /\ kind = "increase" => encoders'[i].bitrate >= encoders[i].bitrate
               /\ kind = "hold" => encoders'[i].bitrate = encoders[i].bitrate
               /\ kind = "decrease" /\ by = "delay" =>
                    encoders'[i].bitrate <= encoders[i].bitrate
    <3> DEFINE u == encoders[i].unit
    <3>1. /\ encoders[i].bitrate = Quotient(Quotient(c, k), u) * u
          /\ encoders'[i].bitrate = Quotient(Quotient(d, k), u) * u
          /\ u \in Nat \ {0}
      BY <1>1, <1>2, <1>4 DEF Share
    <3> HIDE DEF c, d, k, u
    <3>2. kind = "increase" =>
             Quotient(Quotient(c, k), u) * u <= Quotient(Quotient(d, k), u) * u
      BY <1>1, <2>2, <2>3, <3>1, EncoderFollows
    <3>3. kind = "decrease" /\ by = "delay" =>
             Quotient(Quotient(d, k), u) * u <= Quotient(Quotient(c, k), u) * u
      BY <1>1, <2>2, <2>4, <3>1, EncoderFollows
    <3>4. /\ Quotient(Quotient(c, k), u) * u \in Int
          /\ Quotient(Quotient(d, k), u) * u \in Int
      <4>1. Quotient(c, k) \in Int /\ Quotient(d, k) \in Int
        BY <1>1, <2>2, QuotientBounds DEF k
      <4>2. /\ Quotient(Quotient(c, k), u) \in Int
            /\ Quotient(Quotient(d, k), u) \in Int
        BY <3>1, <4>1, QuotientBounds
      <4> QED BY <3>1, <4>2
    <3> QED BY <2>5, <3>1, <3>2, <3>3, <3>4
  <2>7. /\ op'.kind = kind
        /\ op' = [by |-> "delay", kind |-> "decrease"] => kind = "decrease" /\ by = "delay"
    BY <1>2
  <2> QED BY <2>6, <2>7 DEF Signs
<1> QED BY <1>3, <1>4

\* A delay operation moves every encoder as its sign says, and a loss operation
\* takes nothing by an increase and changes nothing while it holds.
THEOREM OpsAlwaysKeepTheirSign == Spec => OpsKeepTheirSign
<1>1. ASSUME IInv, [Next]_vars, op.by # "none", op'.by # "none", Sensible
      PROVE  Signs
  <2>1. /\ TypeOK /\ Windowed /\ stage = "connected" /\ cc.heuristic = "homegrown"
        /\ (~panicked => Len(encoders) > 0)
    BY <1>1 DEF IInv, Staged, Told
  <2>2. Given /\ onDelay \in I32 /\ onLoss \in I32 /\ onDelay \in Int
    BY <2>1, TypesGiven
  <2>3. CASE LossControl
    <3>1. PICK kind \in {"hold", "decrease", "increase"}, asks \in I32 :
             /\ Apply("loss", kind, asks)
             /\ kind = "hold" => asks = onLoss
             /\ kind = "increase" => asks = Times(onDelay, 105, 100)
      BY <2>1, <2>3, LossAsks
    <3>2. Controlled /\ ~panicked
      BY <2>3 DEF LossControl, Controlled
    <3>3. Clamped(onDelay) <= Clamped(Times(onDelay, 105, 100))
      BY <2>1, <2>2, <3>2, <1>1, TimesClamped
    <3> QED BY <1>1, <3>1, <3>2, <3>3, ControlKeepsSigns
  <2>4. CASE DelayControl
    <3>1. PICK kind \in {"decrease", "increase"}, asks \in Int :
             /\ Apply("delay", kind, asks)
             /\ kind = "decrease" =>
                  \E factor \in 0..100 : asks = Times(onDelay, factor, 100)
             /\ kind = "increase" =>
                  \/ asks = Times(onDelay, 103, 100)
                  \/ window /\ \E more \in Additions : asks = onDelay + more
      BY <2>1, <2>4, DelayAsks
    <3>2. Controlled /\ ~panicked /\ Len(encoders) > 0
      BY <2>1, <2>4 DEF DelayControl, Controlled
    <3>3. CASE kind = "decrease"
      <4>1. PICK factor \in 0..100 : asks = Times(onDelay, factor, 100)
        BY <3>1, <3>3
      <4>2. factor \in Nat /\ factor \in Int /\ factor <= 100
        OBVIOUS
      <4>3. Clamped(asks) <= Clamped(onDelay)
        BY <4>1, <4>2, <2>2, <3>2, <1>1, TimesClamped
      <4>4. asks \in I32
        BY <4>1, <4>2, <2>2, TimesFits
      <4> QED BY <1>1, <3>1, <3>2, <3>3, <4>3, <4>4, ControlKeepsSigns
    <3>4. CASE kind = "increase"
      <4>1. CASE asks = Times(onDelay, 103, 100)
        <5>1. Clamped(onDelay) <= Clamped(asks)
          BY <4>1, <2>2, <3>2, <1>1, TimesClamped
        <5>2. asks \in I32
          BY <4>1, <2>2, TimesFits
        <5> QED BY <1>1, <3>1, <3>2, <3>4, <5>1, <5>2, ControlKeepsSigns
      <4>2. CASE window /\ \E more \in Additions : asks = onDelay + more
        <5>1. asks \in I32 /\ asks >= onDelay
          BY <4>2, <2>1, <3>2, <1>1, SumFits
        <5>2. Clamped(onDelay) <= Clamped(asks)
          BY <5>1, <2>2, ClampRises
        <5> QED BY <1>1, <3>1, <3>2, <3>4, <5>1, <5>2, ControlKeepsSigns
      <4> QED BY <3>1, <3>4, <4>1, <4>2
    <3> QED BY <3>3, <3>4
  <2>5. CASE CalmDown \/ UNCHANGED vars
    <3>1. encoders' = encoders
      BY <2>5 DEF CalmDown, vars
    <3> QED BY <3>1, <2>1, AloneKeepsSigns
  <2>6. ~(SetProperty \/ AddConsumer \/ Answer \/ ConnectVideo \/ Connected)
    BY <2>1 DEF SetProperty, AddConsumer, Answer, ConnectVideo, Connected
  <2>7. ~RemoveConsumer /\ ~Estimate
    BY <1>1, <2>1 DEF RemoveConsumer, NoOp, Estimate
  <2> QED BY <1>1, <2>3, <2>4, <2>5, <2>6, <2>7 DEF Next
<1>2. IInv /\ [Next]_vars =>
         [op.by # "none" /\ op'.by # "none" /\ Sensible => Signs]_vars
  BY <1>1
<1>3. Spec => [][op.by # "none" /\ op'.by # "none" /\ Sensible => Signs]_vars
  BY <1>2, Inductive, PTL DEF Spec
<1> QED BY <1>3 DEF OpsKeepTheirSign, Signs

=============================================================================
