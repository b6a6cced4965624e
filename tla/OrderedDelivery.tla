-------------------------- MODULE OrderedDelivery --------------------------
(***************************************************************************)
(* What a reliable data transfer promises over any channel: the frames     *)
(* 1..Frames are output once each and in order, the sender takes a frame   *)
(* for confirmed only after it was output, and output runs at most Window  *)
(* frames ahead of what is confirmed.  No channel, no loss, no bit.        *)
(***************************************************************************)
EXTENDS Integers, Sequences

CONSTANTS Frames, Window

VARIABLES output,      \* the frames given to the receiving host
          confirmed    \* how many frames the sender knows to be received

Init == output = <<>> /\ confirmed = 0

(* The next frame, or the next few if they are there already.              *)
Deliver ==
    /\ \E n \in 1..(Frames - Len(output)) :
        /\ Len(output) + n <= confirmed + Window
        /\ output' = output \o [i \in 1..n |-> Len(output) + i]
    /\ UNCHANGED confirmed

Confirm ==
    /\ confirmed' \in (confirmed + 1)..Len(output)
    /\ UNCHANGED output

Next == Deliver \/ Confirm

Spec == Init /\ [][Next]_<<output, confirmed>>
=============================================================================
