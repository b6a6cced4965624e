--------------------------- MODULE MCLicenseSystem --------------------------
(* One licence and a few processes, each with an identifier of its own.    *)
EXTENDS LicenseSystem

CONSTANTS p1, p2, p3

OneSerial == {1}
TwoClients == {1, 2}
TwoProcs == {p1, p2}
ThreeClients == {1, 2, 3}
ThreeProcs == {p1, p2, p3}

SameSerial == [p \in Proc |-> 1]
OwnId == [p \in Proc |-> CASE p = p1 -> 1 [] p = p2 -> 2 [] p = p3 -> 3]
=============================================================================
