-------------------------- MODULE MCSlidingWindow --------------------------
(* Four packets and a send window that is larger than the receive window,  *)
(* so that packets wait for one before them, fall out of the receive       *)
(* window, and both windows meet the end of the data.                      *)
EXTENDS SlidingWindow
=============================================================================
