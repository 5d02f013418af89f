---------------------------- MODULE MCIdleTimer ----------------------------
(* IdleTimer for TLC: connections are interchangeable.                     *)
EXTENDS IdleTimer, TLC

TimSymmetry == Permutations(Conn)

=============================================================================
