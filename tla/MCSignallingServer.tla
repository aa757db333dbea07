-------------------------- MODULE MCSignallingServer --------------------------
(***************************************************************************)
(* SignallingServer for TLC: one client that produces and one that consumes, *)
(* the populations of the runs.                                            *)
(***************************************************************************)
EXTENDS SignallingServer, TLC

CONSTANTS a, b

\* A producer such as webrtcsink and a consumer such as the web page.
ProducerAndConsumer ==
    (a :> {"produce", "session"}) @@ (b :> {"consume", "session"})

\* The same clients, making every kind of request.
AllRequests ==
    (a :> {"produce", "session", "relay"})
    @@ (b :> {"consume", "session", "listen", "list"})

\* Texts enough to register and to begin a session.
LivenessTexts == (a :> 1) @@ (b :> 2)
\* Texts enough for every kind of request to meet a session.
TwoTexts == (a :> 2) @@ (b :> 2)

=============================================================================
