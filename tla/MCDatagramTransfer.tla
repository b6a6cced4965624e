------------------------ MODULE MCDatagramTransfer ------------------------
(* Three senders, two of whose files have the same header; each program on *)
(* its own.                                                                *)
EXTENDS DatagramTransfer, TLC

CONSTANTS s1, s2, s3, r1

Senders == {s1, s2, s3}
OneReceiver == {r1}
Chunks == [s \in Senders |-> IF s = s3 THEN 3 ELSE 2]
Lengths == [s \in Senders |-> IF s = s3 THEN 5 ELSE 4]
BothPrograms == {"multicast", "udp"}
SameHeader == Permutations({s1, s2})
=============================================================================
