--------------------------- MODULE MCGvForwarder ---------------------------
(* Three values of a byte: the two bytes of a header hold sizes up to 8.    *)
(* The second frame of the switch is too long for that and for the guest.   *)
EXTENDS GvForwarder

MCGuestFrames == {<<1, 0, 2>>}
MCHostFrames  == {<<0, 1>>, <<0, 0, 1, 1, 0, 0, 0, 0, 0, 0, 0>>}
=============================================================================
