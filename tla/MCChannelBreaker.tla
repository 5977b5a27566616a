------------------------ MODULE MCChannelBreaker ------------------------
(* Small instances of ChannelBreaker. *)
EXTENDS ChannelBreaker, TLC

CONSTANTS r1, p1
=============================================================================
