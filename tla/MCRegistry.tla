----------------------------- MODULE MCRegistry -----------------------------
(* Registry for TLC: connections are interchangeable, and so are the ids   *)
(* (the marker "delete" aside).                                            *)
EXTENDS Registry, TLC

RegSymmetry == Permutations(Conn) \cup Permutations(DeviceId)

=============================================================================
