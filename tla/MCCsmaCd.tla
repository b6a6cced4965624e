------------------------------ MODULE MCCsmaCd ------------------------------
(* Three stations, as in the program's main function.                      *)
EXTENDS CsmaCd

CONSTANTS s1, s2, s3

ThreeStations == {s1, s2, s3}
=============================================================================
