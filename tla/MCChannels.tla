----------------------------- MODULE MCChannels -----------------------------
(* Model-checking values for Channels: a buffered channel and two that are  *)
(* not, and one channel of either kind.                                     *)
EXTENDS Channels

Mixed == <<{1}, {0}, {0}>>
Either == <<{0, 1}>>
=============================================================================
