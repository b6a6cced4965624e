---------------------------- MODULE LicenseSeats ----------------------------
(***************************************************************************)
(* What the licence server promises, without files, crashes or commands:   *)
(* licences are sold with a number of seats; a client takes a seat when    *)
(* one is free, keeps it by being heard of at least every Timeout seconds, *)
(* and leaves it when it says so or when it has not been heard of for      *)
(* longer.  README.md of the program, "功能", lists these promises.          *)
(***************************************************************************)
EXTENDS Integers, FiniteSets

CONSTANTS Serial, Client, Limits, Timeout, Absent, Epoch, MaxClock

VARIABLES limit,    \* limit[s]: the seats of licence s, 0 before it is sold
          seen,     \* seen[s][c]: the second c was last heard of, or Absent
          clock

vars == <<limit, seen, clock>>

Init ==
    /\ limit = [s \in Serial |-> 0]
    /\ seen = [s \in Serial |-> [c \in Client |-> Absent]]
    /\ clock = Epoch

(* The seated clients that have been heard of in the last Timeout seconds. *)
Present(s) ==
    {c \in Client : seen[s][c] # Absent /\ clock - seen[s][c] <= Timeout}

OnlyPresent ==
    [s \in Serial |-> [c \in Client |->
        IF c \in Present(s) THEN seen[s][c] ELSE Absent]]

Sell(s, n) ==
    /\ limit[s] = 0
    /\ limit' = [limit EXCEPT ![s] = n]
    /\ UNCHANGED <<seen, clock>>

(* c is heard of: it keeps its seat, or it takes one that is free.         *)
Hear(s, c) ==
    /\ c \in Present(s) \/ Cardinality(Present(s)) < limit[s]
    /\ seen' = [OnlyPresent EXCEPT ![s][c] = clock]
    /\ UNCHANGED <<limit, clock>>

Leave(s, c) ==
    /\ seen' = [seen EXCEPT ![s][c] = Absent]
    /\ UNCHANGED <<limit, clock>>

Expire ==
    /\ seen' = OnlyPresent
    /\ UNCHANGED <<limit, clock>>

Tick ==
    /\ clock < MaxClock
    /\ clock' = clock + 1
    /\ UNCHANGED <<limit, seen>>

Next ==
    \/ \E s \in Serial, n \in Limits : Sell(s, n)
    \/ \E s \in Serial, c \in Client : Hear(s, c) \/ Leave(s, c)
    \/ Expire
    \/ Tick

Spec == Init /\ [][Next]_vars
=============================================================================
