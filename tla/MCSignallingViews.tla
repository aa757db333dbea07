-------------------------- MODULE MCSignallingViews --------------------------
(***************************************************************************)
(* SignallingViews for TLC, with interchangeable peers.                    *)
(***************************************************************************)
EXTENDS SignallingViews, TLC

PeerSymmetry == Permutations(PeerId)

=============================================================================
