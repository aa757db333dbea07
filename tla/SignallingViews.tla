--------------------------- MODULE SignallingViews ---------------------------
(***************************************************************************)
(* The handler together with what the peers can know: each peer applies    *)
(* the items the handler yields, in the order it yields them, and its own  *)
(* accepted requests.  A peer counts its session links with each other     *)
(* peer (the plugin's signaller and the web page keep such a record: they  *)
(* add a consumer on StartSession, drop it on EndSession), and a listener  *)
(* keeps the catalogue of producers the web page shows.                    *)
(***************************************************************************)
EXTENDS SignallingHandler

VARIABLES
    connected,  \* the peers whose socket is open
    links,      \* links[p][q]: the session links with q that p counts
    listed,     \* the listeners that asked for a list after registering
    catalogue   \* the producers each of them then knows of

views == <<links, listed, catalogue>>
viewVars == <<vars, connected, views>>

NoLinks == [q \in PeerId |-> 0]

ViewInit ==
    /\ Init
    /\ connected = {}
    /\ links = [p \in PeerId |-> NoLinks]
    /\ listed = {}
    /\ catalogue = [p \in PeerId |-> {}]

\* A socket opens.  Its identifier is fresh: nothing in the handler and no
\* item names it, so identifiers of closed sockets stand for fresh ones.
Connect(peer) ==
    /\ peer \notin connected
    /\ items = <<>>
    /\ connected' = connected \cup {peer}
    /\ UNCHANGED <<vars, views>>

\* An item is yielded to a peer whose socket is open, who reads it ...
Deliver ==
    /\ PopItem
    /\ UNCHANGED connected
    /\ LET to == Head(items)[1]
           msg == Head(items)[2]
       IN  /\ to \in connected
           /\ links' =
                CASE msg.type = "startSession" -> [links EXCEPT ![to][msg.peer] = @ + 1]
                  [] msg.type = "endSession"   -> [links EXCEPT ![to][msg.peer] = @ - 1]
                  [] OTHER -> links
           /\ listed' = IF msg.type = "list" THEN listed \cup ({to} \cap listeners)
                                             ELSE listed
           /\ catalogue' =
                CASE msg.type = "list" /\ to \in listeners ->
                        [catalogue EXCEPT ![to] = {entry.id : entry \in msg.producers}]
                  [] msg.type = "producerAdded" /\ to \in listed ->
                        [catalogue EXCEPT ![to] = @ \cup {msg.peer}]
                  [] msg.type = "producerRemoved" /\ to \in listed ->
                        [catalogue EXCEPT ![to] = @ \ {msg.peer}]
                  [] OTHER -> catalogue

\* ... or to one that has gone, for whom the server drops it.
Discard ==
    /\ PopItem
    /\ Head(items)[1] \notin connected
    /\ UNCHANGED <<connected, views>>

\* A request that changes the requester's own links is one that is accepted.
Ask(peer) ==
    /\ items = <<>>
    /\ peer \in connected
    /\ \E other \in PeerId :
          \/ /\ StartSession(peer, other)
             /\ links' = IF CanStart(peer, other)
                            THEN [links EXCEPT ![peer][other] = @ + 1] ELSE links
          \/ /\ EndSession(peer, other)
             /\ links' = IF AsProducer(peer, other) \/ AsConsumer(peer, other)
                            THEN [links EXCEPT ![peer][other] = @ - 1] ELSE links
    /\ UNCHANGED <<connected, listed, catalogue>>

\* Every other message leaves the sender's own view alone.
AskOther(peer) ==
    /\ items = <<>>
    /\ peer \in connected
    /\ \/ \E m \in Meta : \/ RegisterProducer(peer, m)
                          \/ RegisterConsumer(peer, m)
                          \/ RegisterListener(peer, m)
       \/ List(peer)
       \/ \E other \in PeerId, inner \in Inner : PeerMessage(peer, other, inner)
    /\ UNCHANGED <<connected, views>>

\* A socket closes, and what its peer knew is gone with it.
Depart(peer) ==
    /\ peer \in connected
    /\ HandleGone(peer)
    /\ connected' = connected \ {peer}
    /\ links' = [links EXCEPT ![peer] = NoLinks]
    /\ listed' = listed \ {peer}
    /\ catalogue' = [catalogue EXCEPT ![peer] = {}]

ViewNext ==
    \/ Deliver
    \/ Discard
    \/ \E peer \in PeerId :
          Connect(peer) \/ Ask(peer) \/ AskOther(peer) \/ Depart(peer)

ViewSpec == ViewInit /\ [][ViewNext]_viewVars

-----------------------------------------------------------------------------
(* Properties.                                                             *)

LinksBetween(p, q) == (IF InSession(p, q) THEN 1 ELSE 0)
                    + (IF InSession(q, p) THEN 1 ELSE 0)

\* The types of the views.
ViewTypeOK ==
    /\ \A p, q \in PeerId : links[p][q] \in 0..2
    /\ connected \subseteq PeerId
    /\ listed \subseteq listeners
    /\ \A p \in PeerId : catalogue[p] \subseteq PeerId

\* Nothing of a peer survives its socket: no role, no session and no metadata
\* name it once the server was told that it has gone.
OnlyConnectedKnown ==
    /\ DOMAIN producers \cup DOMAIN consumers \cup listeners \cup DOMAIN meta
          \subseteq connected
    /\ \A p, q \in PeerId : InSession(p, q) => {p, q} \subseteq connected

\* The views are well formed, a listener that has a list being registered as
\* one, and nothing of a closed socket stays in the handler, whatever roles and
\* sessions its peer had.
ViewsInv == ViewTypeOK /\ OnlyConnectedKnown

\* Once its items are out, every peer accounts for exactly the sessions the
\* server keeps: no start, no end and no departure goes unnoticed or is
\* announced twice, although the messages do not say which of two sessions
\* in opposite directions they are about.
LinksExact ==
    items = <<>> => \A p, q \in PeerId : links[p][q] = LinksBetween(p, q)

\* Once its items are out, a listener that asked for a list after registering
\* knows exactly the producers that are registered.
CatalogueExact ==
    items = <<>> => \A l \in listed : catalogue[l] = DOMAIN producers

\* A listener is never told of the arrival of a producer it already shows,
\* nor of the departure of one it does not show.
NoSurprise ==
    items # <<>> /\ Head(items)[1] \in listed =>
        LET l == Head(items)[1]
            msg == Head(items)[2]
        IN  /\ msg.type = "producerAdded" => msg.peer \notin catalogue[l]
            /\ msg.type = "producerRemoved" => msg.peer \in catalogue[l]

\* A listener's list plus the changes announced since are the producers there
\* are: no change is told twice, to a listener whose list has it, or never.
CatalogueTrue == CatalogueExact /\ NoSurprise

=============================================================================
