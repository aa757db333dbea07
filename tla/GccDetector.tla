---------------------------- MODULE GccDetector ----------------------------
(***************************************************************************)
(* What rtpgccbwe's detector keeps of the packets that reports are about   *)
(* (plugins/src/gcc/imp.rs): the 64 bit sequence numbers it makes of the   *)
(* 16 bits of a report, which wrap, are late and overtake one another, and *)
(* the window of received packets behind the received bitrate.             *)
(*                                                                         *)
(* A packet's true number is the count of packets since the one numbered 0 *)
(* in its 16 bits.  Reports are about one packet; the loop over several    *)
(* does the same for each.  The filters on delay are left out.             *)
(***************************************************************************)
EXTENDS Integers

CONSTANTS
    First,          \* the number of the first packet that is reported
    Jumps,          \* how far from the newest a report may be
    Arrivals,       \* instants of arrival
    Window,         \* the span of arrivals that is kept
    MaxReports      \* bound: the reports on packets

Cycle == 65536      \* 1 << 16
Half == 32767       \* i16::MAX

ASSUME FirstInCycle == First \subseteq 0..(Cycle - 1)
ASSUME JumpsAreNear ==
    /\ Jumps \subseteq Int
    /\ \A jump \in Jumps : -Half <= jump /\ jump <= Half
ASSUME InstantsAreCounted ==
    Arrivals \subseteq Nat \ {0} /\ Window \in Nat /\ MaxReports \in Nat

VARIABLES
    reports,    \* how many packets were reported
    newest,     \* the true number of the newest packet reported
    extended,   \* twcc_extended_seqnum
    received    \* last_received_packets: number |-> arrival

detectorVars == <<reports, newest, extended, received>>

DetectorInit ==
    /\ reports = 0
    /\ newest = 0 /\ extended = 0
    /\ received = << >>

-----------------------------------------------------------------------------
(* A definition just above another with the same parameters is a variant   *)
(* with a plausible bug: nothing uses it.                                  *)

Later(a, b) == IF a > b THEN a ELSE b

\* The 64 bit number, given the newest, for 16 bits of one near it.
UnwrappedForward(bits, near) ==
    LET number == bits + (near - (near % Cycle))
    IN  IF number < near /\ near - number > Half THEN number + Cycle ELSE number
Unwrapped(bits, near) ==
    LET number == bits + (near - (near % Cycle))
    IN  IF number < near
           THEN IF near - number > Half THEN number + Cycle ELSE number
           ELSE IF number - near > Half /\ number >= Cycle THEN number - Cycle
                ELSE number

\* update_last_received_packets: the lowest numbers go while the highest number
\* arrived more than the window after them.
Highest(packets) == CHOOSE n \in DOMAIN packets : \A m \in DOMAIN packets : m <= n

InWindow(packets, n) == packets[Highest(packets)] - packets[n] <= Window

Evicted(packets) ==
    [n \in {n \in DOMAIN packets :
              \E m \in DOMAIN packets : m <= n /\ InWindow(packets, m)} |-> packets[n]]

Inserted(packets, number, arrival) ==
    [n \in DOMAIN packets \cup {number} |-> IF n = number THEN arrival ELSE packets[n]]

\* A lost packet has no arrival.
Arrived(arrival) == arrival # 0

\* update, for one packet, which was lost or not.
Update(index, bits, arrival) ==
    LET number == Unwrapped(bits, extended)
    IN  /\ extended' = Later(number, extended)
        /\ received' = IF Arrived(arrival)
                          THEN Evicted(Inserted(received, number, arrival))
                          ELSE received
        /\ newest' = IF reports = 0 THEN index ELSE Later(index, newest)
        /\ reports' = reports + 1

\* The packets a report may be about.
Reportable ==
    IF reports = 0 THEN First ELSE {newest + jump : jump \in Jumps} \cap Nat

Report ==
    /\ reports < MaxReports
    /\ \E index \in Reportable, arrival \in Arrivals \cup {0} :
          Update(index, index % Cycle, arrival)

-----------------------------------------------------------------------------
(* Properties.                                                             *)

\* Numbers are natural, and a packet is kept with an arrival.
DetectorTypeOK ==
    /\ reports \in Nat /\ newest \in Nat /\ extended \in Nat
    /\ DOMAIN received \subseteq Nat
    /\ \A n \in DOMAIN received : received[n] \in Arrivals

\* The 64 bit number is the true one, through every wrap, whatever is lost and
\* late: no report sends it a cycle too far, which would put all packets after
\* it out of their order.
NumbersAreTrue == extended = newest

\* The received bitrate is over a second at most, from the arrival of the lowest
\* number kept to that of the highest, also where packets overtook one another.
WindowSpans ==
    \A n \in DOMAIN received :
        (\A m \in DOMAIN received : n <= m) => InWindow(received, n)

=============================================================================
