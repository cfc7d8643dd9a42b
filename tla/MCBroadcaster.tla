--------------------------- MODULE MCBroadcaster -----------------------------
(* Broadcaster for TLC.  A channel of one event is full after one (the code  *)
(* makes it 100), and with two connections the second watch may begin while  *)
(* subscribers of the first are being dropped.                               *)
EXTENDS Broadcaster
==============================================================================
