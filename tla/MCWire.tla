------------------------------- MODULE MCWire -------------------------------
(* A small wire: bytes with four values and a header of two of them.       *)
EXTENDS Wire

MCCRLF == <<1, 0>>
MCRequest == {<<1>>, <<0, 2, 1>>, <<0, 0, 0, 3>>}
MCReply == {<<2, 1>>, <<1, 0, 2>>, <<3, 0>>}

=============================================================================
