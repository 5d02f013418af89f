----------------------------- MODULE ByteQueue -----------------------------
(***************************************************************************)
(* What muduo::net::Buffer promises: a queue of bytes that grows and       *)
(* shrinks at both ends.  "call" is the operation performed last and the   *)
(* bytes that went in or came out with it.                                 *)
(***************************************************************************)
EXTENDS Sequences

VARIABLES queue, call

queueVars == <<queue, call>>

Appended  == call'.op = "append"   /\ queue' = queue \o call'.data
Prepended == call'.op = "prepend"  /\ queue' = call'.data \o queue
Retrieved == call'.op = "retrieve" /\ queue = call'.data \o queue'
Unwritten == call'.op = "unwrite"  /\ queue = queue' \o call'.data
Kept      == call'.op = "shrink"   /\ queue' = queue

QueueInit == queue = <<>> /\ call = [op |-> "none", data |-> <<>>]

QueueNext == Appended \/ Prepended \/ Retrieved \/ Unwritten \/ Kept

QueueSpec == QueueInit /\ [][QueueNext]_queueVars

=============================================================================
