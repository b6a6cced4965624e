---------------------------- MODULE CsmaCdProofs ----------------------------
(***************************************************************************)
(* Proofs about CsmaCd, for every finite set of stations and every number  *)
(* of frames: types, the medium's counter, one carrier at a time, the      *)
(* common start, and that somebody can go on until all are done.           *)
(*                                                                         *)
(* OneCarrier needs CounterCounts: a station passes the check when the     *)
(* counter is at most one, and only because the counter is the number of   *)
(* transmitting stations, itself among them, is nobody else on the medium. *)
(* CommonStart needs the send gate's counter to be the number of stations  *)
(* that have arrived, so that it is released when the last one arrives.    *)
(* That nobody is left behind needs both gates to be open when all are     *)
(* through, and the medium to be idle when nobody is on it.                *)
(***************************************************************************)
EXTENDS CsmaCd, FiniteSetTheorems, TLAPS

USE CsmaAssumption DEF CsmaAssumption

OnMedium == {"check", "jam", "carry"}

StartArrived ==
    {s \in Station : pc[s] \notin {"ready", "readyWait", "firstSense", "start"}}

GateCounts ==
    /\ sendGate.arrived = Cardinality(StartArrived)
    /\ sendGate.released => StartArrived = Station
    /\ (\E s \in Station : pc[s] \notin BeforeStart) => sendGate.released

ReadyArrived == {s \in Station : pc[s] # "ready"}

GatesOpen ==
    /\ readyGate.arrived = Cardinality(ReadyArrived)
    /\ Station # {} /\ ReadyArrived = Station => readyGate.released
    /\ Station # {} /\ StartArrived = Station => sendGate.released

IInv == TypeOK /\ CounterCounts /\ OneCarrier /\ GateCounts /\ GatesOpen

-----------------------------------------------------------------------------
(* Sets of stations are finite.                                            *)
LEMMA StationsFinite ==
    ASSUME NEW S \in SUBSET Station
    PROVE  IsFiniteSet(S) /\ Cardinality(S) \in Nat
  BY FS_Subset, FS_CardinalityType

(* The parts of a gate.                                                    *)
LEMMA GateParts ==
    ASSUME NEW gate \in Gate
    PROVE  /\ Arrived(gate) \in Gate
           /\ Arrived(gate).arrived = gate.arrived + 1
           /\ Arrived(gate).released
                <=> (gate.released \/ gate.arrived + 1 = Cardinality(Station))
  <1>1. gate.arrived \in Nat /\ gate.released \in BOOLEAN
    BY DEF Gate
  <1>2. gate.arrived + 1 \in Nat
    BY <1>1
  <1>3. (gate.released \/ gate.arrived + 1 = Cardinality(Station)) \in BOOLEAN
    OBVIOUS
  <1> QED
    BY <1>2, <1>3, Zenon DEF Gate, Arrived

(* The first state satisfies the invariant.                                *)
LEMMA InitIInv == Init => IInv
  <1> SUFFICES ASSUME Init PROVE IInv
    OBVIOUS
  <1>1. TypeOK
    BY DEF Init, TypeOK, Gate, States
  <1>2. CounterCounts
    BY FS_EmptySet DEF Init, CounterCounts
  <1>3. OneCarrier
    BY DEF Init, OneCarrier
  <1>4. GateCounts
    <2>1. StartArrived = {}
      BY DEF Init, StartArrived
    <2>2. \A s \in Station : pc[s] \in BeforeStart
      BY DEF Init, BeforeStart
    <2> QED
      BY <2>1, <2>2, FS_EmptySet DEF Init, GateCounts
  <1>5. GatesOpen
    <2>1. StartArrived = {} /\ ReadyArrived = {}
      BY DEF Init, StartArrived, ReadyArrived
    <2> QED
      BY <2>1, FS_EmptySet DEF Init, GatesOpen
  <1> QED
    BY <1>1, <1>2, <1>3, <1>4, <1>5 DEF IInv

-----------------------------------------------------------------------------
(* Every step keeps the types; the counter is not below zero afterwards    *)
(* because a station that ends was counted.                                *)
LEMMA StepTypes ==
    ASSUME TypeOK, CounterCounts, NEW s \in Station, Step(s)
    PROVE  TypeOK'
  <1> USE DEF TypeOK
  <1>1. CASE ArriveReady(s)
    BY <1>1, GateParts DEF ArriveReady, Goto, States, medium
  <1>2. CASE LeaveReady(s)
    BY <1>2 DEF LeaveReady, Goto, States, medium, gates
  <1>3. CASE FirstSense(s)
    BY <1>3 DEF FirstSense, Goto, States, medium, gates
  <1>4. CASE ArriveStart(s)
    BY <1>4, GateParts DEF ArriveStart, Goto, States, medium
  <1>5. CASE LeaveStart(s)
    BY <1>5 DEF LeaveStart, Goto, States, medium, gates
  <1>6. CASE Sense(s)
    BY <1>6 DEF Sense, Goto, States, medium, gates
  <1>7. CASE Begin(s)
    BY <1>7 DEF Begin, BeginTransmission, Goto, States, gates
  <1>8. CASE Check(s)
    BY <1>8 DEF Check, Goto, States, medium, gates
  <1>9. s \in transmitting => activeCount - 1 \in Nat
    <2> SUFFICES ASSUME s \in transmitting PROVE activeCount - 1 \in Nat
      OBVIOUS
    <2>1. IsFiniteSet(transmitting) /\ Cardinality(transmitting) \in Nat
      BY StationsFinite
    <2>2. Cardinality(transmitting) # 0
      BY <2>1, FS_EmptySet
    <2> QED
      BY <2>1, <2>2 DEF CounterCounts
  <1>10. EndTransmission(s) => /\ transmitting' \in SUBSET Station
                               /\ activeCount' \in Nat
    BY <1>9 DEF EndTransmission
  <1>11. CASE Jam(s)
    BY <1>10, <1>11 DEF Jam, Goto, States, gates
  <1>12. CASE Deliver(s)
    <2>1. frame' \in [Station -> 1..FramesPerStation]
      BY <1>12 DEF Deliver
    <2>2. pc' \in [Station -> States]
      BY <1>12 DEF Deliver, Goto, States
    <2> QED
      BY <1>10, <1>12, <2>1, <2>2 DEF Deliver, gates
  <1> QED
    BY <1>1, <1>2, <1>3, <1>4, <1>5, <1>6, <1>7, <1>8, <1>11, <1>12 DEF Step

(* Every step keeps the counter equal to the number of flags.              *)
LEMMA StepCounts ==
    ASSUME TypeOK, CounterCounts, NEW s \in Station, Step(s)
    PROVE  CounterCounts'
  <1> USE DEF TypeOK, CounterCounts
  <1>0. IsFiniteSet(transmitting)
    BY StationsFinite
  <1>1. CASE /\ UNCHANGED <<transmitting, activeCount>>
             /\ \E q \in States : Goto(s, q) /\ (q \in OnMedium <=> pc[s] \in OnMedium)
    BY <1>1 DEF Goto, OnMedium
  <1>2. CASE Begin(s)
    <2>1. s \notin transmitting
      BY <1>2 DEF Begin
    <2>2. activeCount' = Cardinality(transmitting')
      BY <1>0, <1>2, <2>1, FS_AddElement DEF Begin, BeginTransmission
    <2>3. transmitting' = {t \in Station : pc'[t] \in OnMedium}
      BY <1>2 DEF Begin, BeginTransmission, Goto, OnMedium
    <2> QED
      BY <2>2, <2>3 DEF OnMedium
  <1>3. ASSUME EndTransmission(s), s \in transmitting,
               NEW q \in States \ OnMedium, Goto(s, q)
        PROVE  CounterCounts'
    <2>1. activeCount' = Cardinality(transmitting')
      BY <1>0, <1>3, FS_RemoveElement DEF EndTransmission
    <2>2. transmitting' = {t \in Station : pc'[t] \in OnMedium}
      BY <1>3 DEF EndTransmission, Goto, OnMedium
    <2> QED
      BY <2>1, <2>2 DEF OnMedium
  <1>4. CASE Jam(s)
    <2>1. s \in transmitting /\ "sense" \in States \ OnMedium
      BY <1>4 DEF Jam, OnMedium, States
    <2> QED
      BY <1>3, <1>4, <2>1 DEF Jam
  <1>5. CASE Deliver(s)
    <2>1. s \in transmitting /\ {"sense", "done"} \subseteq States \ OnMedium
      BY <1>5 DEF Deliver, OnMedium, States
    <2> QED
      BY <1>3, <1>5, <2>1 DEF Deliver
  <1>6. CASE ArriveReady(s) \/ LeaveReady(s) \/ FirstSense(s)
    BY <1>1, <1>6 DEF ArriveReady, LeaveReady, FirstSense, medium, States, OnMedium
  <1>7. CASE ArriveStart(s) \/ LeaveStart(s) \/ Sense(s)
    BY <1>1, <1>7 DEF ArriveStart, LeaveStart, Sense, medium, States, OnMedium
  <1>8. CASE Check(s)
    BY <1>1, <1>8 DEF Check, medium, States, OnMedium
  <1> QED
    BY <1>2, <1>4, <1>5, <1>6, <1>7, <1>8 DEF Step

(* A station that passes the check is alone on the medium.                 *)
LEMMA PassedAlone ==
    ASSUME TypeOK, CounterCounts, NEW s \in Station, s \in transmitting,
           ~CollisionDetected
    PROVE  transmitting = {s}
  <1>1. {s} \in SUBSET transmitting /\ Cardinality({s}) = 1
    BY FS_Singleton
  <1>2. IsFiniteSet(transmitting) /\ Cardinality(transmitting) \in Nat
    BY StationsFinite DEF TypeOK
  <1>3. Cardinality(transmitting) = 1
    <2>1. Cardinality(transmitting) <= 1
      BY DEF CollisionDetected, CounterCounts, TypeOK
    <2>2. Cardinality({s}) <= Cardinality(transmitting)
      BY <1>1, <1>2, FS_Subset
    <2> QED
      BY <1>1, <1>2, <2>1, <2>2
  <1> QED
    BY <1>1, <1>2, <1>3, FS_Subset

(* No step puts a second carrier on the medium.                            *)
LEMMA StepOneCarrier ==
    ASSUME TypeOK, CounterCounts, OneCarrier, NEW s \in Station, Step(s)
    PROVE  OneCarrier'
  <1> USE DEF TypeOK, OneCarrier
  <1>1. ASSUME NEW q, q # "carry", Goto(s, q)
        PROVE  OneCarrier'
    BY <1>1 DEF Goto
  <1>2. CASE Check(s)
    <2>1. CASE CollisionDetected
      BY <1>1, <1>2, <2>1 DEF Check
    <2>2. CASE ~CollisionDetected
      <3>1. transmitting = {s}
        BY <1>2, <2>2, PassedAlone DEF Check, CounterCounts
      <3>2. \A t \in Station : pc[t] = "carry" => t = s
        BY <3>1 DEF CounterCounts
      <3> QED
        BY <1>2, <3>2 DEF Check, Goto
    <2> QED
      BY <2>1, <2>2
  <1>3. CASE Deliver(s)
    BY <1>1, <1>3 DEF Deliver
  <1>4. CASE ArriveReady(s) \/ LeaveReady(s) \/ FirstSense(s) \/ ArriveStart(s)
    BY <1>1, <1>4 DEF ArriveReady, LeaveReady, FirstSense, ArriveStart
  <1>5. CASE LeaveStart(s) \/ Sense(s) \/ Begin(s) \/ Jam(s)
    BY <1>1, <1>5 DEF LeaveStart, Sense, Begin, Jam
  <1> QED
    BY <1>2, <1>3, <1>4, <1>5 DEF Step

-----------------------------------------------------------------------------
(* The send gate.                                                          *)
LEMMA StepGate ==
    ASSUME TypeOK, GateCounts, NEW s \in Station, Step(s)
    PROVE  GateCounts'
  <1> USE DEF TypeOK
  <1>1. CASE ArriveStart(s)
    <2>1. s \notin StartArrived /\ StartArrived' = StartArrived \cup {s}
      BY <1>1 DEF ArriveStart, Goto, StartArrived
    <2>2. StartArrived \in SUBSET Station /\ StartArrived' \in SUBSET Station
      BY <2>1 DEF StartArrived
    <2>3. sendGate'.arrived = Cardinality(StartArrived')
      <3>1. Cardinality(StartArrived') = Cardinality(StartArrived) + 1
        BY <2>1, <2>2, StationsFinite, FS_AddElement
      <3> QED
        BY <1>1, <3>1, GateParts DEF ArriveStart, GateCounts
    <2>4. ~sendGate.released
      BY <2>1 DEF GateCounts
    <2>5. sendGate'.released <=> sendGate.arrived + 1 = Cardinality(Station)
      BY <1>1, <2>4, GateParts DEF ArriveStart
    <2>6. sendGate'.released => StartArrived' = Station
      <3>1. sendGate'.arrived = sendGate.arrived + 1
        BY <1>1, GateParts DEF ArriveStart
      <3> QED
        BY <2>2, <2>3, <2>5, <3>1, FS_Subset
    <2>7. ~sendGate'.released => \A t \in Station : pc'[t] \in BeforeStart
      BY <1>1, <2>4, <2>5 DEF ArriveStart, GateCounts, Goto, BeforeStart
    <2> QED
      BY <2>3, <2>6, <2>7 DEF GateCounts
  <1>2. ASSUME UNCHANGED sendGate, NEW q, Goto(s, q),
               (pc[s] \in {"ready", "readyWait", "firstSense", "start"})
                 <=> (q \in {"ready", "readyWait", "firstSense", "start"}),
               q \in BeforeStart \/ sendGate.released
        PROVE  GateCounts'
    <2>1. StartArrived' = StartArrived
      BY <1>2 DEF Goto, StartArrived
    <2>2. (\E t \in Station : pc'[t] \notin BeforeStart) => sendGate.released
      BY <1>2 DEF Goto, GateCounts
    <2> QED
      BY <1>2, <2>1, <2>2 DEF GateCounts
  <1>3. CASE ArriveReady(s)
    BY <1>2, <1>3 DEF ArriveReady, BeforeStart
  <1>4. CASE LeaveReady(s) \/ FirstSense(s)
    BY <1>2, <1>4 DEF LeaveReady, FirstSense, BeforeStart, gates
  <1>5. CASE LeaveStart(s)
    BY <1>2, <1>5 DEF LeaveStart, gates
  <1>6. CASE Sense(s) \/ Begin(s) \/ Check(s) \/ Jam(s) \/ Deliver(s)
    <2>1. sendGate.released
      BY <1>6 DEF Sense, Begin, Check, Jam, Deliver, GateCounts, BeforeStart
    <2>2. CASE Sense(s)
      BY <1>2, <2>1, <2>2 DEF Sense, gates
    <2>3. CASE Begin(s)
      BY <1>2, <2>1, <2>3 DEF Begin, gates
    <2>4. CASE Check(s)
      BY <1>2, <2>1, <2>4 DEF Check, gates
    <2>5. CASE Jam(s)
      BY <1>2, <2>1, <2>5 DEF Jam, gates
    <2>6. CASE Deliver(s)
      BY <1>2, <2>1, <2>6 DEF Deliver, gates
    <2> QED
      BY <1>6, <2>2, <2>3, <2>4, <2>5, <2>6
  <1> QED
    BY <1>1, <1>3, <1>4, <1>5, <1>6 DEF Step

(* The last station to arrive opens a gate.                                *)
LEMMA StepOpens ==
    ASSUME TypeOK, GateCounts, GatesOpen, NEW s \in Station, Step(s)
    PROVE  GatesOpen'
  <1> USE DEF TypeOK
  <1>1. CASE ArriveReady(s)
    <2>1. s \notin ReadyArrived /\ ReadyArrived' = ReadyArrived \cup {s}
      BY <1>1 DEF ArriveReady, Goto, ReadyArrived
    <2>2. ReadyArrived \in SUBSET Station
      BY DEF ReadyArrived
    <2>3. Cardinality(ReadyArrived') = Cardinality(ReadyArrived) + 1
      BY <2>1, <2>2, StationsFinite, FS_AddElement
    <2>4. readyGate'.arrived = Cardinality(ReadyArrived')
      BY <1>1, <2>3, GateParts DEF ArriveReady, GatesOpen
    <2>5. ReadyArrived' = Station => readyGate'.released
      BY <1>1, <2>3, GateParts DEF ArriveReady, GatesOpen
    <2>6. StartArrived' = StartArrived /\ UNCHANGED sendGate
      BY <1>1 DEF ArriveReady, Goto, StartArrived
    <2> QED
      BY <2>4, <2>5, <2>6 DEF GatesOpen
  <1>2. CASE ArriveStart(s)
    <2>1. s \notin StartArrived /\ StartArrived' = StartArrived \cup {s}
      BY <1>2 DEF ArriveStart, Goto, StartArrived
    <2>2. StartArrived \in SUBSET Station
      BY DEF StartArrived
    <2>3. Cardinality(StartArrived') = Cardinality(StartArrived) + 1
      BY <2>1, <2>2, StationsFinite, FS_AddElement
    <2>4. StartArrived' = Station => sendGate'.released
      BY <1>2, <2>3, GateParts DEF ArriveStart, GateCounts
    <2>5. ReadyArrived' = ReadyArrived /\ UNCHANGED readyGate
      BY <1>2 DEF ArriveStart, Goto, ReadyArrived
    <2> QED
      BY <2>4, <2>5 DEF GatesOpen
  <1>3. ASSUME UNCHANGED gates, NEW q, Goto(s, q), pc[s] # "ready", q # "ready",
               (pc[s] \in {"ready", "readyWait", "firstSense", "start"})
                 <=> (q \in {"ready", "readyWait", "firstSense", "start"})
        PROVE  GatesOpen'
    <2>1. StartArrived' = StartArrived /\ ReadyArrived' = ReadyArrived
      BY <1>3 DEF Goto, StartArrived, ReadyArrived
    <2> QED
      BY <1>3, <2>1 DEF GatesOpen, gates
  <1>4. CASE LeaveReady(s) \/ FirstSense(s)
    BY <1>3, <1>4 DEF LeaveReady, FirstSense
  <1>5. CASE LeaveStart(s) \/ Sense(s) \/ Begin(s)
    BY <1>3, <1>5 DEF LeaveStart, Sense, Begin
  <1>6. CASE Check(s) \/ Jam(s) \/ Deliver(s)
    BY <1>3, <1>6 DEF Check, Jam, Deliver
  <1> QED
    BY <1>1, <1>2, <1>4, <1>5, <1>6 DEF Step

-----------------------------------------------------------------------------
(* The invariant holds in every reachable state.                           *)
THEOREM Invariance == Spec => []IInv
  <1>1. IInv /\ [Next]_vars => IInv'
    <2> SUFFICES ASSUME IInv, [Next]_vars PROVE IInv'
      OBVIOUS
    <2>1. CASE Next
      <3>1. PICK s \in Station : Step(s)
        BY <2>1 DEF Next
      <3> QED
        BY <3>1, StepTypes, StepCounts, StepOneCarrier, StepGate, StepOpens DEF IInv
    <2>2. CASE UNCHANGED vars
      BY <2>2 DEF vars, IInv, TypeOK, CounterCounts, OneCarrier, GateCounts, StartArrived,
                  GatesOpen, ReadyArrived
    <2> QED
      BY <2>1, <2>2
  <1> QED
    BY <1>1, InitIInv, PTL DEF Spec

(* The medium's counter and flags agree with what the threads do, for any  *)
(* number of stations (CSMACDMedium).                                      *)
THEOREM CounterIsRight == Spec => []CounterCounts
  <1>1. IInv => CounterCounts
    BY DEF IInv
  <1> QED
    BY <1>1, Invariance, PTL

(* However many stations sense and begin in separate critical sections,    *)
(* no two of them carry a frame to its end at the same time.               *)
THEOREM CarrierAlone == Spec => []OneCarrier
  <1>1. IInv => OneCarrier
    BY DEF IInv
  <1> QED
    BY <1>1, Invariance, PTL

(* Nobody transmits before every station has arrived at the send gate.     *)
THEOREM StartTogether == Spec => []CommonStart
  <1>1. IInv => CommonStart
    BY DEF IInv, GateCounts, CommonStart, StartArrived, TypeOK, States, BeforeStart
  <1> QED
    BY <1>1, Invariance, PTL

(* What the thread of a station waits for, as the guards of its actions.   *)
(* The other conjuncts of Step(s) give values to the next state, so these  *)
(* are the states in which the thread can go on.                           *)
CanStep(s) ==
    \/ pc[s] \in {"ready", "start", "begin", "check", "jam", "carry"}
    \/ pc[s] = "readyWait" /\ readyGate.released
    \/ pc[s] = "startWait" /\ sendGate.released
    \/ pc[s] \in {"firstSense", "sense"} /\ ~SenseBusy

(* No step is taken that these guards would forbid.                        *)
LEMMA GuardsAreNeeded ==
    ASSUME NEW s \in Station, Step(s)
    PROVE  CanStep(s)
  BY DEF Step, CanStep, ArriveReady, LeaveReady, ArriveStart, LeaveStart, FirstSense, Sense,
         Begin, Check, Jam, Deliver

(* A busy medium has somebody on it who will end; without him the medium   *)
(* is idle, and only a closed gate can hold a station back.                *)
LEMMA SomebodyCanStep ==
    ASSUME IInv, \A s \in Station : ~CanStep(s), NEW t \in Station
    PROVE  pc[t] = "done"
  <1> USE DEF IInv, TypeOK, CanStep
  <1>1. ~SenseBusy
    <2>1. transmitting = {}
      BY DEF CounterCounts
    <2> QED
      BY <2>1, FS_EmptySet DEF CounterCounts, SenseBusy
  <1>2. readyGate.released
    <2>1. ReadyArrived = Station
      BY DEF ReadyArrived
    <2> QED
      BY <2>1 DEF GatesOpen
  <1>3. \A s \in Station : pc[s] \in {"startWait", "done"}
    BY <1>1, <1>2 DEF States
  <1>4. sendGate.released
    <2>1. StartArrived = Station
      BY <1>3 DEF StartArrived
    <2> QED
      BY <2>1 DEF GatesOpen
  <1> QED
    BY <1>3, <1>4

(* Until every station has sent all its frames, one of them can go on, for *)
(* any number of stations: what StopsOnlyWhenDone says, with the guards    *)
(* written out in place of ENABLED.                                        *)
THEOREM NeverStuck ==
    Spec => []((\A s \in Station : pc[s] = "done") \/ \E s \in Station : CanStep(s))
  <1>1. IInv => (\A s \in Station : pc[s] = "done") \/ \E s \in Station : CanStep(s)
    BY SomebodyCanStep
  <1> QED
    BY <1>1, Invariance, PTL
=============================================================================
