---------------------------- MODULE MCCReceiver ----------------------------
(* CReceiver for TLC.  In a ring of eight bytes, with a header of two and  *)
(* at most four bytes a recv(), a body of one is parsed in peace, one of   *)
(* three overruns command[], one of four may fill the ring before it is    *)
(* whole and one of seven never fits.                                      *)
EXTENDS CReceiver

MCGarbage == {-1, 1, 3, 100}

=============================================================================
