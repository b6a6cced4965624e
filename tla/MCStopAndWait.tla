--------------------------- MODULE MCStopAndWait ---------------------------
(* Frames enough to use each value of the bit twice, and copies enough for *)
(* late frames and ACKs of two frames to be on the way together.           *)
EXTENDS StopAndWait
=============================================================================
