---------------------------- MODULE SessionBroker ----------------------------
(***************************************************************************)
(* What the signalling server promises about sessions, whatever the maps   *)
(* it keeps them in: peers take roles, a session links a registered        *)
(* producer and a registered consumer, a consumer is in one session at     *)
(* most, and a session that began lasts until one of its ends asks to end  *)
(* it or leaves.  A step changes one role, or begins one session, or ends  *)
(* one session, or removes one peer together with all its sessions.        *)
(***************************************************************************)
CONSTANT PeerId

VARIABLES
    prods,      \* registered producers
    cons,       \* registered consumers
    lsnrs,      \* registered listeners
    sessions    \* the <<producer, consumer>> pairs in session

brokerVars == <<prods, cons, lsnrs, sessions>>

Init ==
    /\ prods = {}
    /\ cons = {}
    /\ lsnrs = {}
    /\ sessions = {}

Involves(s, p) == s[1] = p \/ s[2] = p

JoinAsProducer(p) ==
    /\ prods' = prods \cup {p}
    /\ UNCHANGED <<cons, lsnrs, sessions>>

JoinAsConsumer(p) ==
    /\ cons' = cons \cup {p}
    /\ UNCHANGED <<prods, lsnrs, sessions>>

JoinAsListener(p) ==
    /\ lsnrs' = lsnrs \cup {p}
    /\ UNCHANGED <<prods, cons, sessions>>

Begin(p, c) ==
    /\ p \in prods
    /\ c \in cons
    /\ \A s \in sessions : s[2] # c
    /\ sessions' = sessions \cup {<<p, c>>}
    /\ UNCHANGED <<prods, cons, lsnrs>>

End(p, c) ==
    /\ <<p, c>> \in sessions
    /\ sessions' = sessions \ {<<p, c>>}
    /\ UNCHANGED <<prods, cons, lsnrs>>

Leave(p) ==
    /\ prods' = prods \ {p}
    /\ cons' = cons \ {p}
    /\ lsnrs' = lsnrs \ {p}
    /\ sessions' = {s \in sessions : ~Involves(s, p)}

Next ==
    \/ \E p \in PeerId : \/ JoinAsProducer(p)
                         \/ JoinAsConsumer(p)
                         \/ JoinAsListener(p)
                         \/ Leave(p)
    \/ \E p, c \in PeerId : Begin(p, c) \/ End(p, c)

Spec == Init /\ [][Next]_brokerVars

=============================================================================
