---------------------------- MODULE MCGccElement ----------------------------
(* GccElement with reports as far apart as 16 bits allow (see GccElement.cfg). *)
EXTENDS GccElement

NearAndFar == {-Half, -1, 1, Half}

=============================================================================
