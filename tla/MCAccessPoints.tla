----------------------------- MODULE MCAccessPoints ----------------------------
(* The plan of access points alone: two floors with two places each, which       *)
(* disturb each other with 2.4 GHz only.                                        *)
EXTENDS AccessPoints

MCApNear ==
    [b \in {"2.4GHz", "5GHz"} |->
        {q \in Place \X Place : b = "2.4GHz" \/ q[1] = q[2]}]
================================================================================
