------------------------------- MODULE CsmaCd -------------------------------
(***************************************************************************)
(* The CSMA/CD simulation of LAB5/3: one thread per station, a shared      *)
(* medium that counts the active transmissions, and two gates that make    *)
(* all stations try their first frame at the same moment.                  *)
(*                                                                         *)
(* Each critical section of CSMACDMedium and StartGate is one action, with *)
(* the thread's own code up to the next one.  All sleeps (the gap between  *)
(* frames, the 20 ms before the check, the length of a frame, the backoff) *)
(* last for any time, so every order of the critical sections is allowed.  *)
(***************************************************************************)
EXTENDS Integers, FiniteSets

CONSTANTS Station,           \* station_id of each thread
          FramesPerStation   \* frames_per_station

ASSUME CsmaAssumption ==
    /\ IsFiniteSet(Station)
    /\ FramesPerStation \in Nat \ {0}

VARIABLES transmitting,   \* the stations whose flag is set in transmitting_
          activeCount,    \* active_count_
          readyGate,      \* first_frame_ready_gate: arrived_ and released_
          sendGate,       \* first_frame_send_gate
          pc,             \* what each thread does next
          frame           \* the frame each station is at

vars == <<transmitting, activeCount, readyGate, sendGate, pc, frame>>
medium == <<transmitting, activeCount>>
gates == <<readyGate, sendGate>>

(***************************************************************************)
(* "ready"      arrive at the ready gate    "readyWait" wait in it         *)
(* "firstSense" sense before frame 1        "sense"     sense before any   *)
(* "start"      arrive at the send gate     "startWait" wait in it         *)
(* "begin"      begin to transmit           "check"     look for collision *)
(* "jam"        stop after a collision      "carry"     send to the end    *)
(***************************************************************************)
States == {"ready", "readyWait", "firstSense", "start", "startWait", "sense",
           "begin", "check", "jam", "carry", "done"}

BeforeStart == {"ready", "readyWait", "firstSense", "start", "startWait"}

Gate == [arrived : Nat, released : BOOLEAN]

TypeOK ==
    /\ transmitting \in SUBSET Station
    /\ activeCount \in Nat
    /\ readyGate \in Gate
    /\ sendGate \in Gate
    /\ pc \in [Station -> States]
    /\ frame \in [Station -> 1..FramesPerStation]

Init ==
    /\ transmitting = {}
    /\ activeCount = 0
    /\ readyGate = [arrived |-> 0, released |-> FALSE]
    /\ sendGate = [arrived |-> 0, released |-> FALSE]
    /\ pc = [s \in Station |-> "ready"]
    /\ frame = [s \in Station |-> 1]

Goto(s, state) == pc' = [pc EXCEPT ![s] = state]

-----------------------------------------------------------------------------
(* StartGate::arrive_and_wait: the last station to arrive goes straight    *)
(* on, the others wait until the gate is released.                         *)

Mutant_Arrived(gate) ==
    [arrived  |-> gate.arrived + 1,
     released |-> gate.released \/ gate.arrived = Cardinality(Station)]

Arrived(gate) ==
    [arrived  |-> gate.arrived + 1,
     released |-> gate.released \/ gate.arrived + 1 = Cardinality(Station)]

ArriveReady(s) ==
    /\ pc[s] = "ready"
    /\ readyGate' = Arrived(readyGate)
    /\ Goto(s, IF readyGate.arrived + 1 = Cardinality(Station)
               THEN "firstSense" ELSE "readyWait")
    /\ UNCHANGED <<medium, sendGate, frame>>

LeaveReady(s) ==
    /\ pc[s] = "readyWait"
    /\ readyGate.released
    /\ Goto(s, "firstSense")
    /\ UNCHANGED <<medium, gates, frame>>

ArriveStart(s) ==
    /\ pc[s] = "start"
    /\ sendGate' = Arrived(sendGate)
    /\ Goto(s, IF sendGate.arrived + 1 = Cardinality(Station)
               THEN "begin" ELSE "startWait")
    /\ UNCHANGED <<medium, readyGate, frame>>

Mutant_LeaveStart(s) ==
    /\ pc[s] = "startWait"
    /\ Goto(s, "begin")
    /\ UNCHANGED <<medium, gates, frame>>

LeaveStart(s) ==
    /\ pc[s] = "startWait"
    /\ sendGate.released
    /\ Goto(s, "begin")
    /\ UNCHANGED <<medium, gates, frame>>

-----------------------------------------------------------------------------
(* CSMACDMedium.                                                           *)

SenseBusy == activeCount > 0

Mutant_CollisionDetected == activeCount > 2

CollisionDetected == activeCount > 1

BeginTransmission(s) ==
    /\ transmitting' = transmitting \cup {s}
    /\ activeCount' = activeCount + 1

Mutant_EndTransmission(s) ==
    /\ s \in transmitting
    /\ transmitting' = transmitting \ {s}
    /\ UNCHANGED activeCount

EndTransmission(s) ==
    /\ transmitting' = transmitting \ {s}
    /\ activeCount' = IF s \in transmitting THEN activeCount - 1 ELSE activeCount

-----------------------------------------------------------------------------
(* station_worker.  The sensing loops are left when the medium is idle.    *)

FirstSense(s) ==
    /\ pc[s] = "firstSense"
    /\ ~SenseBusy
    /\ Goto(s, "start")
    /\ UNCHANGED <<medium, gates, frame>>

Mutant_Sense(s) ==
    /\ pc[s] = "sense"
    /\ Goto(s, "begin")
    /\ UNCHANGED <<medium, gates, frame>>

Sense(s) ==
    /\ pc[s] = "sense"
    /\ ~SenseBusy
    /\ Goto(s, "begin")
    /\ UNCHANGED <<medium, gates, frame>>

Begin(s) ==
    /\ pc[s] = "begin"
    /\ BeginTransmission(s)
    /\ Goto(s, "check")
    /\ UNCHANGED <<gates, frame>>

Check(s) ==
    /\ pc[s] = "check"
    /\ Goto(s, IF CollisionDetected THEN "jam" ELSE "carry")
    /\ UNCHANGED <<medium, gates, frame>>

(* The backoff that follows ends at any time, with another try to sense.   *)
Jam(s) ==
    /\ pc[s] = "jam"
    /\ EndTransmission(s)
    /\ Goto(s, "sense")
    /\ UNCHANGED <<gates, frame>>

Deliver(s) ==
    /\ pc[s] = "carry"
    /\ EndTransmission(s)
    /\ IF frame[s] < FramesPerStation
       THEN /\ frame' = [frame EXCEPT ![s] = @ + 1]
            /\ Goto(s, "sense")
       ELSE /\ Goto(s, "done")
            /\ UNCHANGED frame
    /\ UNCHANGED gates

Step(s) ==
    \/ ArriveReady(s) \/ LeaveReady(s) \/ FirstSense(s)
    \/ ArriveStart(s) \/ LeaveStart(s) \/ Sense(s)
    \/ Begin(s) \/ Check(s) \/ Jam(s) \/ Deliver(s)

Next == \E s \in Station : Step(s)

Spec == Init /\ [][Next]_vars

(* Every sleep ends, every thread is scheduled.                            *)
FairSpec == Spec /\ \A s \in Station : WF_vars(Step(s))

-----------------------------------------------------------------------------
(* Properties.                                                             *)

(* Although the counter and the flags are changed by many threads, and     *)
(* transmissions end in two places, the counter is the number of flags set *)
(* and a flag is set exactly while its station is on the medium: no count  *)
(* is lost that would make the medium busy forever or hide a collision.    *)
CounterCounts ==
    /\ activeCount = Cardinality(transmitting)
    /\ transmitting = {s \in Station : pc[s] \in {"check", "jam", "carry"}}

(* Two stations never carry their frames to the end at the same time: the  *)
(* one check 20 ms after the beginning is enough for that, although        *)
(* stations sense, begin and check in separate critical sections.          *)
OneCarrier ==
    \A s, t \in Station : pc[s] = "carry" /\ pc[t] = "carry" => s = t

(* No station transmits before all have passed the ready gate, found the   *)
(* medium idle and arrived at the send gate; so the wait for an idle       *)
(* medium before the first frame cannot be starved by an early starter.    *)
CommonStart ==
    (\E s \in Station : pc[s] \notin BeforeStart)
        => \A s \in Station : pc[s] \in {"startWait"} \cup (States \ BeforeStart)

(* The simulation never stops before every station has sent all its        *)
(* frames: no gate keeps a station and no count keeps the medium busy.     *)
StopsOnlyWhenDone == (\A s \in Station : pc[s] = "done") \/ ENABLED Next

(* A busy medium becomes idle, whatever stations that sensed it idle       *)
(* before still add to the transmission: they are finitely many, and no    *)
(* station can join them without finding the medium idle.                  *)
MediumRecovers == SenseBusy ~> ~SenseBusy
=============================================================================
