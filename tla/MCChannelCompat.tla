-------------------------- MODULE MCChannelCompat --------------------------
(* ChannelCompat with all kinds of channels. *)
EXTENDS ChannelCompat

AllKinds == {"bounded", "unbounded", "broadcast"}
=============================================================================
