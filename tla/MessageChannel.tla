--------------------------- MODULE MessageChannel ---------------------------
(***************************************************************************)
(* What the length header promises on a connection: the receiver is handed *)
(* the messages that were sent, whole and in order.  A message longer than *)
(* MaxLen is refused, and nothing after it is delivered.  Once the sender  *)
(* let a frame go out incomplete the channel is torn and promises nothing. *)
(***************************************************************************)
EXTENDS Naturals, Sequences

CONSTANTS Message, MaxLen

VARIABLES sent, delivered, mode

channelVars == <<sent, delivered, mode>>

Pending == SubSeq(sent, Len(delivered) + 1, Len(sent))

Send(m) ==
  /\ sent' = Append(sent, m)
  /\ UNCHANGED <<delivered, mode>>

Deliver ==
  /\ mode = "open" /\ Pending # <<>>
  /\ Len(Head(Pending)) <= MaxLen
  /\ delivered' = Append(delivered, Head(Pending))
  /\ UNCHANGED <<sent, mode>>

Refuse ==
  /\ mode = "open" /\ Pending # <<>>
  /\ Len(Head(Pending)) > MaxLen
  /\ mode' = "refused"
  /\ UNCHANGED <<sent, delivered>>

Tear ==
  /\ mode' = "torn"
  /\ UNCHANGED <<sent, delivered>>

Torn == mode = "torn" /\ mode' = "torn"

ChannelInit == sent = <<>> /\ delivered = <<>> /\ mode = "open"

ChannelNext == (\E m \in Message : Send(m)) \/ Deliver \/ Refuse \/ Tear \/ Torn

ChannelSpec == ChannelInit /\ [][ChannelNext]_channelVars

=============================================================================
