----------------------------- MODULE MCCClient -----------------------------
(* CClient for TLC.  The application threads are interchangeable; only the *)
(* run that checks no liveness uses that.                                  *)
EXTENDS CClient, TLC

Threads == Permutations(App)

=============================================================================
