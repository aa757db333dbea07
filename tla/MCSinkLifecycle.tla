--------------------------- MODULE MCSinkLifecycle ---------------------------
(* SinkLifecycle for TLC: its pads are interchangeable.                    *)
EXTENDS SinkLifecycle, TLC

Pads == Permutations(Pad)

=============================================================================
