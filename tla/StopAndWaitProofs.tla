------------------------- MODULE StopAndWaitProofs -------------------------
(***************************************************************************)
(* Proofs about StopAndWait, for every number of frames and every bound on *)
(* the copies in the channel: types, the meaning of the bit, the stop      *)
(* frame, and that the protocol implements OrderedDelivery.                *)
(*                                                                         *)
(* The argument: the channel is a queue, so the ids in it never decrease,  *)
(* and none is below the last delivered one (InOrder).  With a sender at   *)
(* most one frame ahead (Counts), a frame in the channel is the last       *)
(* delivered or the next, and parity tells which.  An ACK is only ever for *)
(* a delivered frame (AcksDelivered), so the sender goes on in time.       *)
(***************************************************************************)
EXTENDS StopAndWait, TLAPS

USE WaitAssumption DEF WaitAssumption

Channel == Seq(Frame \cup {StopFrame})

(* The frames of q, when d are delivered and the sender is at frame n.     *)
InOrder(q, d, n) ==
    /\ \A k \in 1..Len(q) : ~q[k].stop =>
        d <= q[k].id /\ q[k].id <= n /\ q[k].seq = (q[k].id - 1) % 2
    /\ \A j, k \in 1..Len(q) :
        j <= k /\ ~q[j].stop /\ ~q[k].stop => q[j].id <= q[k].id

Counts ==
    /\ Confirmed <= Len(delivered)
    /\ Len(delivered) <= frameId
    /\ status \in {"finish", "done"} => frameId = FrameCount
    /\ nextSeq = Confirmed % 2
    /\ expectedSeq = Len(delivered) % 2

AcksDelivered ==
    \A k \in 1..Len(ackChannel) : ackChannel[k].frame_id <= Len(delivered)

StopLast ==
    /\ \A k \in 1..Len(dataChannel) :
        dataChannel[k].stop => status = "done" /\ k = Len(dataChannel)
    /\ ~receiving => status = "done" /\ dataChannel = <<>>

IInv ==
    /\ TypeOK
    /\ Counts
    /\ InOrder(dataChannel, Len(delivered), frameId)
    /\ AcksDelivered
    /\ StopLast

-----------------------------------------------------------------------------
(* What is in the channel.                                                 *)

(* The parts of a frame or a stop frame.                                   *)
LEMMA FrameParts ==
    ASSUME NEW f \in Frame \cup {StopFrame}
    PROVE  /\ f.id \in Int
           /\ ~f.stop => f.id \in 1..FrameCount /\ f.seq \in Bit
  <1>1. CASE f \in Frame
    BY <1>1 DEF Frame, Bit
  <1>2. CASE f = StopFrame
    BY <1>2 DEF StopFrame
  <1> QED
    BY <1>1, <1>2

(* The rest of a channel after its first frame was taken.                  *)
LEMMA TailOfChannel ==
    ASSUME NEW q \in Channel, q # <<>>
    PROVE  /\ Head(q) = q[1]
           /\ 1 \in 1..Len(q)
           /\ Head(q) \in Frame \cup {StopFrame}
           /\ Tail(q) \in Channel
           /\ Len(Tail(q)) = Len(q) - 1
           /\ \A k \in 1..Len(Tail(q)) : k + 1 \in 1..Len(q) /\ Tail(q)[k] = q[k + 1]
  BY DEF Channel

(* Taking a frame leaves the others in order.                              *)
LEMMA TailInOrder ==
    ASSUME NEW q \in Channel, q # <<>>, NEW d \in Nat, NEW n \in Nat,
           InOrder(q, d, n)
    PROVE  InOrder(Tail(q), d, n)
  BY TailOfChannel DEF InOrder

(* Delivering the frame taken leaves nothing older behind it.              *)
LEMMA DeliverInOrder ==
    ASSUME NEW q \in Channel, q # <<>>, NEW d \in Nat, NEW n \in Nat,
           InOrder(q, d, n), ~Head(q).stop, Head(q).id = d + 1
    PROVE  InOrder(Tail(q), d + 1, n)
  <1>1. \A k \in 1..Len(Tail(q)) :
            ~Tail(q)[k].stop => d + 1 <= Tail(q)[k].id
    BY TailOfChannel DEF InOrder
  <1>2. InOrder(Tail(q), d, n)
    BY TailInOrder
  <1> QED
    BY <1>1, <1>2 DEF InOrder

(* A frame sent last has the greatest id.                                  *)
LEMMA AppendInOrder ==
    ASSUME NEW q \in Channel, NEW d \in Nat, NEW n \in Nat, InOrder(q, d, n),
           NEW f \in Frame \cup {StopFrame},
           ~f.stop => f.id = n /\ d <= n /\ f.seq = (n - 1) % 2
    PROVE  InOrder(Append(q, f), d, n)
  <1>1. /\ Len(Append(q, f)) = Len(q) + 1
        /\ Append(q, f)[Len(q) + 1] = f
        /\ \A k \in 1..Len(q) : Append(q, f)[k] = q[k]
    BY DEF Channel
  <1>2. Len(q) \in Nat /\ \A k \in 1..Len(q) : q[k].id \in Int
    BY FrameParts DEF Channel
  <1>3. \A k \in 1..(Len(q) + 1) : k \in 1..Len(q) \/ k = Len(q) + 1
    BY <1>2
  <1>4. \A k \in 1..Len(Append(q, f)) : ~Append(q, f)[k].stop =>
            /\ d <= Append(q, f)[k].id
            /\ Append(q, f)[k].id <= n
            /\ Append(q, f)[k].seq = (Append(q, f)[k].id - 1) % 2
    BY <1>1, <1>2, <1>3 DEF InOrder
  <1>5. \A j, k \in 1..Len(Append(q, f)) :
            j <= k /\ ~Append(q, f)[j].stop /\ ~Append(q, f)[k].stop
                => Append(q, f)[j].id <= Append(q, f)[k].id
    <2> SUFFICES ASSUME NEW j \in 1..(Len(q) + 1), NEW k \in 1..(Len(q) + 1), j <= k,
                        ~Append(q, f)[j].stop, ~Append(q, f)[k].stop
                 PROVE  Append(q, f)[j].id <= Append(q, f)[k].id
      BY <1>1
    <2>1. CASE k = Len(q) + 1
      <3>1. Append(q, f)[k].id = n
        BY <1>1, <2>1
      <3> QED
        BY <1>1, <1>4, <3>1
    <2>2. CASE k \in 1..Len(q)
      BY <1>1, <1>2, <2>2 DEF InOrder
    <2> QED
      BY <1>3, <2>1, <2>2
  <1> QED
    BY <1>4, <1>5 DEF InOrder

LEMMA FlipCounts ==
    ASSUME NEW d \in Nat
    PROVE  Flip(d % 2) = (d + 1) % 2 /\ (d + 1) % 2 \in {0, 1}
  BY DEF Flip

(* Parity tells a frame that is new from a copy of the last one.           *)
LEMMA ParityTells ==
    ASSUME NEW d \in Nat, NEW i \in Nat, i = d \/ i = d + 1
    PROVE  ((i - 1) % 2 = d % 2) <=> i = d + 1
  <1>1. (d + 1 - 1) % 2 = d % 2
    OBVIOUS
  <1>2. (d - 1) % 2 # d % 2
    OBVIOUS
  <1> QED
    BY <1>1, <1>2

(* In every state of the invariant, for every frame in the channel.        *)
LEMMA NewOrLast ==
    ASSUME IInv, NEW k \in 1..Len(dataChannel), ~dataChannel[k].stop
    PROVE  /\ dataChannel[k].id = Len(delivered) \/ dataChannel[k].id = Len(delivered) + 1
           /\ dataChannel[k].seq = expectedSeq <=> dataChannel[k].id = Len(delivered) + 1
  <1>1. /\ dataChannel[k] \in Frame \cup {StopFrame}
        /\ Len(delivered) \in Nat
        /\ frameId \in Nat
    BY DEF IInv, TypeOK
  <1>2. dataChannel[k].id \in Nat
    BY <1>1, FrameParts
  <1>3. Len(delivered) <= dataChannel[k].id /\ dataChannel[k].id <= frameId
    BY DEF IInv, InOrder
  <1>4. frameId <= Len(delivered) + 1
    <2>1. Confirmed <= Len(delivered) /\ (status \in {"finish", "done"} => frameId = FrameCount)
      BY DEF IInv, Counts
    <2> QED
      BY <1>1, <2>1 DEF Confirmed
  <1>5. dataChannel[k].id = Len(delivered) \/ dataChannel[k].id = Len(delivered) + 1
    BY <1>1, <1>2, <1>3, <1>4
  <1>6. dataChannel[k].seq = (dataChannel[k].id - 1) % 2
    BY DEF IInv, InOrder
  <1> QED
    BY <1>1, <1>2, <1>5, <1>6, ParityTells DEF IInv, Counts

-----------------------------------------------------------------------------
(* Each step keeps the invariant.                                          *)

LEMMA InitIInv == Init => IInv
  <1> SUFFICES ASSUME Init PROVE IInv
    OBVIOUS
  <1>1. TypeOK
    BY DEF Init, TypeOK, Bit
  <1>2. Counts
    BY DEF Init, Counts, Confirmed
  <1>3. InOrder(dataChannel, Len(delivered), frameId) /\ AcksDelivered /\ StopLast
    BY DEF Init, InOrder, AcksDelivered, StopLast
  <1> QED
    BY <1>1, <1>2, <1>3 DEF IInv

LEMMA SendKeeps == IInv /\ Send => IInv'
  <1> SUFFICES ASSUME IInv, Send PROVE IInv'
    OBVIOUS
  <1> DEFINE f == [id |-> frameId, seq |-> nextSeq, stop |-> FALSE]
  <1>1. f \in Frame
    BY DEF Frame, IInv, TypeOK
  <1>2. dataChannel' = Append(dataChannel, f) /\ dataChannel \in Channel
    BY DEF Send, IInv, TypeOK, Channel
  <1>3. TypeOK'
    BY <1>1, <1>2 DEF Send, IInv, TypeOK, receiver, Channel
  <1>4. Counts'
    BY DEF Send, IInv, Counts, Confirmed, receiver
  <1>5. InOrder(dataChannel', Len(delivered'), frameId')
    <2>1. Len(delivered) <= frameId /\ nextSeq = (frameId - 1) % 2
      BY DEF Send, IInv, Counts, Confirmed
    <2>2. Len(delivered) \in Nat /\ frameId \in Nat
      BY DEF IInv, TypeOK
    <2>3. InOrder(Append(dataChannel, f), Len(delivered), frameId)
      BY <1>1, <1>2, <2>1, <2>2, AppendInOrder DEF IInv
    <2> QED
      BY <1>2, <2>3 DEF Send, receiver
  <1>6. AcksDelivered'
    BY DEF Send, IInv, AcksDelivered, receiver
  <1>7. StopLast'
    BY <1>2 DEF Send, IInv, StopLast, receiver, Channel
  <1> QED
    BY <1>3, <1>4, <1>5, <1>6, <1>7 DEF IInv

LEMMA TimeoutKeeps == IInv /\ Timeout => IInv'
  BY DEF Timeout, IInv, TypeOK, Counts, Confirmed, AcksDelivered, StopLast, receiver

LEMMA TakeAckKeeps == IInv /\ TakeAck => IInv'
  <1> SUFFICES ASSUME IInv, TakeAck PROVE IInv'
    OBVIOUS
  <1>1. /\ ackChannel \in Seq(Ack) /\ ackChannel # <<>>
        /\ 1 \in 1..Len(ackChannel)
        /\ Head(ackChannel) = ackChannel[1]
        /\ ackChannel' \in Seq(Ack)
        /\ \A k \in 1..Len(ackChannel') :
              k + 1 \in 1..Len(ackChannel) /\ ackChannel'[k] = ackChannel[k + 1]
    BY DEF TakeAck, IInv, TypeOK
  <1>2. AcksDelivered'
    BY <1>1 DEF TakeAck, IInv, AcksDelivered, receiver
  <1>3. StopLast'
    BY DEF TakeAck, IInv, StopLast, receiver
  <1>4. Len(delivered) \in Nat /\ frameId \in Nat /\ frameId <= FrameCount
    BY DEF IInv, TypeOK
  <1>5. CASE Acknowledges(Head(ackChannel))
    <2>1. Len(delivered) = frameId
      <3>1. ackChannel[1].frame_id = frameId
        BY <1>1, <1>5 DEF Acknowledges
      <3>2. ackChannel[1].frame_id <= Len(delivered)
        BY <1>1 DEF IInv, AcksDelivered
      <3> QED
        BY <1>4, <3>1, <3>2 DEF IInv, Counts
    <2>2. Confirmed = frameId - 1 /\ nextSeq = (frameId - 1) % 2
      BY DEF TakeAck, IInv, Counts, Confirmed
    <2>3. NextFrame
      BY <1>5 DEF TakeAck
    <2>4. nextSeq' = frameId % 2
      BY <1>4, <2>2, <2>3 DEF NextFrame, Flip
    <2>5. TypeOK'
      <3>1. nextSeq' \in Bit
        BY <1>4, <2>4 DEF Bit
      <3> QED
        BY <1>1, <2>3, <3>1 DEF NextFrame, TakeAck, IInv, TypeOK, receiver
    <2>6. Counts'
      BY <1>4, <2>1, <2>3, <2>4 DEF NextFrame, TakeAck, IInv, Counts, Confirmed, receiver
    <2>7. InOrder(dataChannel', Len(delivered'), frameId')
      <3>1. frameId' \in Nat /\ frameId <= frameId'
        BY <1>4, <2>3 DEF NextFrame
      <3>2. \A k \in 1..Len(dataChannel) : dataChannel[k].id \in Int
        BY FrameParts DEF IInv, TypeOK
      <3> QED
        BY <1>4, <3>1, <3>2 DEF TakeAck, IInv, InOrder, receiver
    <2> QED
      BY <1>2, <1>3, <2>5, <2>6, <2>7 DEF IInv
  <1>6. CASE ~Acknowledges(Head(ackChannel))
    <2>1. status' = "send" /\ UNCHANGED <<frameId, nextSeq, dataChannel, receiver>>
      BY <1>6 DEF TakeAck
    <2>2. TypeOK'
      BY <1>1, <2>1 DEF IInv, TypeOK, receiver
    <2>3. Counts'
      BY <2>1 DEF TakeAck, IInv, Counts, Confirmed, receiver
    <2> QED
      BY <1>2, <1>3, <2>1, <2>2, <2>3 DEF IInv, receiver
  <1> QED
    BY <1>5, <1>6

LEMMA FinishKeeps == IInv /\ Finish => IInv'
  <1> SUFFICES ASSUME IInv, Finish PROVE IInv'
    OBVIOUS
  <1>1. dataChannel' = Append(dataChannel, StopFrame) /\ dataChannel \in Channel
    BY DEF Finish, IInv, TypeOK, Channel
  <1>2. TypeOK'
    BY <1>1 DEF Finish, IInv, TypeOK, receiver, Channel
  <1>3. Counts'
    BY DEF Finish, IInv, Counts, Confirmed, receiver
  <1>4. InOrder(dataChannel', Len(delivered'), frameId')
    <2>1. Len(delivered) \in Nat /\ frameId \in Nat
      BY DEF IInv, TypeOK
    <2>2. StopFrame \in Frame \cup {StopFrame} /\ StopFrame.stop
      BY DEF StopFrame
    <2>3. InOrder(Append(dataChannel, StopFrame), Len(delivered), frameId)
      BY <1>1, <2>1, <2>2, AppendInOrder DEF IInv
    <2> QED
      BY <1>1, <2>3 DEF Finish, receiver
  <1>5. AcksDelivered'
    BY DEF Finish, IInv, AcksDelivered, receiver
  <1>6. StopLast'
    BY <1>1 DEF Finish, IInv, StopLast, receiver, Channel
  <1> QED
    BY <1>2, <1>3, <1>4, <1>5, <1>6 DEF IInv

-----------------------------------------------------------------------------
(* The receiver's steps begin by taking a frame.                           *)
LEMMA ArrivalFacts ==
    ASSUME IInv, FrameArrives
    PROVE  /\ dataChannel \in Channel /\ dataChannel # <<>>
           /\ 1 \in 1..Len(dataChannel) /\ Head(dataChannel) = dataChannel[1]
           /\ Head(dataChannel) \in Frame
           /\ dataChannel' \in Channel
           /\ \A k \in 1..Len(dataChannel') :
                 dataChannel'[k].stop => status = "done" /\ k = Len(dataChannel')
  <1>1. dataChannel \in Channel /\ dataChannel # <<>> /\ dataChannel' = Tail(dataChannel)
    BY DEF IInv, TypeOK, Channel, FrameArrives
  <1>2. Head(dataChannel) \in Frame
    BY <1>1, TailOfChannel DEF FrameArrives, StopFrame
  <1>3. \A k \in 1..Len(dataChannel') :
            dataChannel'[k].stop => status = "done" /\ k = Len(dataChannel')
    <2>1. Len(dataChannel) \in Nat
      BY <1>1 DEF Channel
    <2> QED
      BY <1>1, <2>1, TailOfChannel DEF IInv, StopLast
  <1> QED
    BY <1>1, <1>2, <1>3, TailOfChannel

(* Accept keeps everything but the ACKs, and then the frame is delivered.  *)
LEMMA AcceptKeeps ==
    ASSUME IInv, FrameArrives, Accept(Head(dataChannel)), UNCHANGED sender
    PROVE  /\ delivered' \in Seq(1..FrameCount) /\ expectedSeq' \in Bit
           /\ Counts'
           /\ InOrder(dataChannel', Len(delivered'), frameId')
           /\ StopLast'
           /\ Len(delivered) <= Len(delivered')
           /\ Head(dataChannel).id <= Len(delivered')
  <1> DEFINE f == Head(dataChannel)
             d == Len(delivered)
  <1>1. /\ f \in Frame /\ ~f.stop /\ f.id \in 1..FrameCount
        /\ d \in Nat /\ frameId \in Nat
    BY ArrivalFacts, FrameParts DEF FrameArrives, IInv, TypeOK
  <1>2. /\ f.id = d \/ f.id = d + 1
        /\ f.seq = expectedSeq <=> f.id = d + 1
    BY <1>1, ArrivalFacts, NewOrLast
  <1>3. f.id <= frameId
    BY <1>1, ArrivalFacts DEF IInv, InOrder
  <1>4. StopLast'
    BY ArrivalFacts DEF StopLast, IInv, FrameArrives, Accept, sender
  <1>5. CASE f.id = d + 1
    <2>1. delivered' = Append(delivered, f.id) /\ expectedSeq' = Flip(expectedSeq)
      BY <1>2, <1>5 DEF Accept
    <2>2. Len(delivered') = d + 1 /\ delivered' \in Seq(1..FrameCount)
      BY <1>1, <2>1 DEF IInv, TypeOK
    <2>3. expectedSeq' = (d + 1) % 2
      <3>1. expectedSeq = d % 2
        BY DEF IInv, Counts
      <3> QED
        BY <1>1, <2>1, <3>1, FlipCounts
    <2>4. expectedSeq' \in Bit
      BY <1>1, <2>3, FlipCounts DEF Bit
    <2>5. Confirmed \in Int
      BY <1>1 DEF Confirmed, IInv, TypeOK
    <2>6. Counts'
      BY <1>1, <1>3, <1>5, <2>2, <2>3, <2>5 DEF IInv, Counts, Confirmed, sender
    <2>7. InOrder(dataChannel', Len(delivered'), frameId')
      BY <1>1, <1>5, <2>2, ArrivalFacts, DeliverInOrder DEF FrameArrives, IInv, sender
    <2> QED
      BY <1>1, <1>4, <1>5, <2>2, <2>4, <2>6, <2>7
  <1>6. CASE f.id = d
    <2>1. UNCHANGED <<delivered, expectedSeq>>
      BY <1>1, <1>2, <1>6 DEF Accept
    <2>2. Counts'
      BY <2>1 DEF IInv, Counts, Confirmed, sender
    <2>3. InOrder(dataChannel', Len(delivered'), frameId')
      BY <1>1, <2>1, ArrivalFacts, TailInOrder DEF FrameArrives, IInv, sender
    <2> QED
      BY <1>1, <1>4, <1>6, <2>1, <2>2, <2>3 DEF IInv, TypeOK
  <1> QED
    BY <1>2, <1>5, <1>6

(* The ACKs that were delivered before still are.                          *)
LEMMA AcksStay ==
    ASSUME IInv, Len(delivered) <= Len(delivered'), Len(delivered') \in Nat
    PROVE  \A k \in 1..Len(ackChannel) :
              ackChannel[k].frame_id \in Nat /\ ackChannel[k].frame_id <= Len(delivered')
  <1>1. \A k \in 1..Len(ackChannel) : ackChannel[k].frame_id \in Nat
    <2>1. \A k \in 1..Len(ackChannel) : ackChannel[k] \in Ack
      BY DEF IInv, TypeOK
    <2>2. \A ack \in Ack : ack.frame_id \in Nat
      BY DEF Ack
    <2> QED
      BY <2>1, <2>2
  <1>2. Len(delivered) \in Nat
    BY DEF IInv, TypeOK
  <1> QED
    BY <1>1, <1>2 DEF IInv, AcksDelivered

LEMMA LoseFrameKeeps == IInv /\ LoseFrame => IInv'
  <1> SUFFICES ASSUME IInv, LoseFrame PROVE IInv'
    OBVIOUS
  <1>1. FrameArrives
    BY DEF LoseFrame
  <1>2. TypeOK'
    BY <1>1, ArrivalFacts DEF LoseFrame, IInv, TypeOK, Channel, sender, receiver
  <1>3. Counts' /\ AcksDelivered'
    BY DEF LoseFrame, IInv, Counts, Confirmed, AcksDelivered, sender, receiver
  <1>4. InOrder(dataChannel', Len(delivered'), frameId')
    <2>1. Len(delivered) \in Nat /\ frameId \in Nat
      BY DEF IInv, TypeOK
    <2> QED
      BY <1>1, <2>1, ArrivalFacts, TailInOrder
      DEF LoseFrame, FrameArrives, IInv, sender, receiver
  <1>5. StopLast'
    BY <1>1, ArrivalFacts DEF LoseFrame, FrameArrives, IInv, StopLast, sender, receiver
  <1> QED
    BY <1>2, <1>3, <1>4, <1>5 DEF IInv

LEMMA LoseAckKeeps == IInv /\ LoseAck => IInv'
  <1> SUFFICES ASSUME IInv, LoseAck PROVE IInv'
    OBVIOUS
  <1>1. FrameArrives /\ Accept(Head(dataChannel)) /\ UNCHANGED <<sender, ackChannel>>
    BY DEF LoseAck
  <1>2. TypeOK'
    BY <1>1, ArrivalFacts, AcceptKeeps DEF IInv, TypeOK, Channel, sender, Accept
  <1>3. AcksDelivered'
    <2>1. Len(delivered') \in Nat
      BY <1>2 DEF TypeOK
    <2> QED
      BY <1>1, <2>1, AcceptKeeps, AcksStay DEF AcksDelivered
  <1> QED
    BY <1>1, <1>2, <1>3, AcceptKeeps DEF IInv

LEMMA ReceiveKeeps == IInv /\ Receive => IInv'
  <1> SUFFICES ASSUME IInv, Receive PROVE IInv'
    OBVIOUS
  <1> DEFINE f == Head(dataChannel)
             ack == [frame_id |-> f.id, seq |-> f.seq]
  <1>1. FrameArrives /\ Accept(f) /\ UNCHANGED sender
    BY DEF Receive
  <1>2. ackChannel' = Append(ackChannel, ack)
    BY DEF Receive, Answer
  <1>3. ack \in Ack
    BY <1>1, ArrivalFacts DEF Frame, Ack
  <1>4. TypeOK'
    BY <1>1, <1>2, <1>3, ArrivalFacts, AcceptKeeps
    DEF IInv, TypeOK, Channel, sender, Accept
  <1>5. AcksDelivered'
    <2>1. Len(delivered') \in Nat
      BY <1>4 DEF TypeOK
    <2>2. \A k \in 1..Len(ackChannel) : ackChannel[k].frame_id <= Len(delivered')
      BY <1>1, <2>1, AcceptKeeps, AcksStay
    <2>3. ack.frame_id <= Len(delivered')
      BY <1>1, AcceptKeeps
    <2>4. ackChannel \in Seq(Ack)
      BY DEF IInv, TypeOK
    <2> QED
      BY <1>2, <2>2, <2>3, <2>4 DEF AcksDelivered
  <1> QED
    BY <1>1, <1>4, <1>5, AcceptKeeps DEF IInv

LEMMA StopKeeps == IInv /\ Stop => IInv'
  <1> SUFFICES ASSUME IInv, Stop PROVE IInv'
    OBVIOUS
  <1>1. dataChannel \in Channel /\ dataChannel # <<>>
    BY DEF IInv, TypeOK, Channel, Stop
  <1>2. status = "done" /\ Len(dataChannel) = 1
    BY <1>1, TailOfChannel DEF IInv, StopLast, Stop
  <1>3. dataChannel' = <<>>
    BY <1>1, <1>2 DEF Stop, Channel
  <1>4. TypeOK'
    <2>1. dataChannel' \in Seq(Frame \cup {StopFrame})
      BY <1>3
    <2>2. receiving' \in BOOLEAN
      BY Zenon DEF Stop
    <2> QED
      BY <2>1, <2>2 DEF Stop, IInv, TypeOK, sender
  <1>5. Counts' /\ AcksDelivered'
    BY DEF Stop, IInv, Counts, Confirmed, AcksDelivered, sender
  <1>6. InOrder(dataChannel', Len(delivered'), frameId')
    BY <1>3 DEF InOrder
  <1>7. StopLast'
    <2>1. 1..Len(dataChannel') = {}
      BY <1>3
    <2>2. status' = "done"
      BY <1>2 DEF Stop, sender
    <2> QED
      BY <1>3, <2>1, <2>2 DEF StopLast
  <1> QED
    BY <1>4, <1>5, <1>6, <1>7 DEF IInv

LEMMA NextKeeps == IInv /\ [Next]_vars => IInv'
  <1> SUFFICES ASSUME IInv, [Next]_vars PROVE IInv'
    OBVIOUS
  <1>1. CASE UNCHANGED vars
    BY <1>1 DEF vars, sender, receiver, IInv, TypeOK, Counts, Confirmed, InOrder,
                AcksDelivered, StopLast
  <1>2. CASE SenderStep
    BY <1>2, SendKeeps, TimeoutKeeps, TakeAckKeeps, FinishKeeps DEF SenderStep
  <1>3. CASE ReceiverStep
    BY <1>3, LoseFrameKeeps, LoseAckKeeps, ReceiveKeeps, StopKeeps DEF ReceiverStep
  <1> QED
    BY <1>1, <1>2, <1>3 DEF Next

-----------------------------------------------------------------------------
(* The invariant holds in every reachable state.                           *)
THEOREM Invariance == Spec => []IInv
  BY InitIInv, NextKeeps, PTL DEF Spec

(* For any number of frames and copies, the bit tells a new frame from a   *)
(* copy of a delivered one (receiver, main.cpp:150).                       *)
THEOREM BitIsEnough == Spec => []BitTellsNew
  <1>1. IInv => BitTellsNew
    BY NewOrLast DEF BitTellsNew
  <1> QED
    BY <1>1, Invariance, PTL

(* The receiver leaves its loop with everything delivered.                 *)
THEOREM StopIsLast == Spec => []StopsAfterAll
  <1>1. IInv => StopsAfterAll
    <2> SUFFICES ASSUME IInv, ~receiving
                 PROVE  Len(delivered) = FrameCount /\ dataChannel = <<>>
      BY DEF StopsAfterAll
    <2>1. status = "done" /\ dataChannel = <<>>
      BY DEF IInv, StopLast
    <2>2. Len(delivered) \in Nat
      BY DEF IInv, TypeOK
    <2> QED
      BY <2>1, <2>2 DEF IInv, Counts, Confirmed
  <1> QED
    BY <1>1, Invariance, PTL

(* Types.                                                                  *)
THEOREM TypeCorrect == Spec => []TypeOK
  <1>1. IInv => TypeOK
    BY DEF IInv
  <1> QED
    BY <1>1, Invariance, PTL

-----------------------------------------------------------------------------
(* The refinement: which abstract step each step is.                       *)

(* An accepted frame is the next one, and it is not further ahead of the   *)
(* sender than one.                                                        *)
LEMMA AcceptDelivers ==
    ASSUME IInv, FrameArrives, Accept(Head(dataChannel)), UNCHANGED sender
    PROVE  ImplementsDelivery!Deliver \/ UNCHANGED <<delivered, Confirmed>>
  <1> DEFINE f == Head(dataChannel)
             d == Len(delivered)
  <1>1. /\ f \in Frame /\ ~f.stop /\ f.id \in 1..FrameCount
        /\ d \in Nat /\ frameId \in 1..FrameCount
    BY ArrivalFacts, FrameParts DEF FrameArrives, IInv, TypeOK
  <1>2. f.seq = expectedSeq <=> f.id = d + 1
    BY <1>1, ArrivalFacts, NewOrLast
  <1>3. f.id <= frameId
    BY <1>1, ArrivalFacts DEF IInv, InOrder
  <1>4. Confirmed' = Confirmed
    BY DEF Confirmed, sender
  <1>5. CASE f.id = d + 1
    <2>1. delivered' = Append(delivered, d + 1)
      BY <1>2, <1>5 DEF Accept
    <2>2. d < FrameCount /\ d < Confirmed + 1
      BY <1>1, <1>3, <1>5 DEF Confirmed
    <2>3. delivered' = delivered \o [i \in 1..1 |-> d + i]
      <3>1. delivered \in Seq(1..FrameCount)
        BY DEF IInv, TypeOK
      <3>2. [i \in 1..1 |-> d + i] = <<d + 1>>
        OBVIOUS
      <3> QED
        BY <1>1, <2>1, <3>1, <3>2
    <2>4. 1 \in 1..(FrameCount - d) /\ d + 1 <= Confirmed + 1
      BY <1>1, <2>2 DEF Confirmed
    <2> QED
      BY <1>4, <2>3, <2>4 DEF ImplementsDelivery!Deliver
  <1>6. CASE f.id # d + 1
    BY <1>2, <1>4, <1>6 DEF Accept
  <1> QED
    BY <1>5, <1>6

(* Taking an ACK confirms the frame in hand, which was delivered, or       *)
(* changes nothing that the abstract specification sees.                   *)
LEMMA TakeAckConfirms ==
    ASSUME IInv, TakeAck
    PROVE  ImplementsDelivery!Confirm \/ UNCHANGED <<delivered, Confirmed>>
  <1>1. /\ delivered' = delivered
        /\ Len(delivered) \in Nat
        /\ frameId \in 1..FrameCount
    BY DEF TakeAck, receiver, IInv, TypeOK
  <1>2. CASE Acknowledges(Head(ackChannel))
    <2>1. /\ 1 \in 1..Len(ackChannel)
          /\ Head(ackChannel) = ackChannel[1]
      BY DEF TakeAck, IInv, TypeOK
    <2>2. frameId <= Len(delivered)
      BY <1>2, <2>1 DEF Acknowledges, IInv, AcksDelivered
    <2>3. Confirmed = frameId - 1
      BY DEF TakeAck, Confirmed
    <2>4. Confirmed' = frameId
      BY <1>1, <1>2 DEF TakeAck, NextFrame, Confirmed
    <2>5. Confirmed' \in (Confirmed + 1)..Len(delivered)
      BY <1>1, <2>2, <2>3, <2>4
    <2> QED
      BY <1>1, <2>5 DEF ImplementsDelivery!Confirm
  <1>3. CASE ~Acknowledges(Head(ackChannel))
    BY <1>1, <1>3 DEF TakeAck, Confirmed
  <1> QED
    BY <1>2, <1>3

LEMMA StepRefines ==
    IInv /\ [Next]_vars => [ImplementsDelivery!Next]_<<delivered, Confirmed>>
  <1> SUFFICES ASSUME IInv, [Next]_vars
               PROVE  \/ ImplementsDelivery!Deliver
                      \/ ImplementsDelivery!Confirm
                      \/ UNCHANGED <<delivered, Confirmed>>
    BY DEF ImplementsDelivery!Next
  <1>1. CASE UNCHANGED vars \/ Send \/ Timeout \/ LoseFrame \/ Stop
    BY <1>1 DEF vars, Send, Timeout, LoseFrame, Stop, sender, receiver, Confirmed
  <1>2. CASE TakeAck
    BY <1>2, TakeAckConfirms
  <1>3. CASE Finish
    BY <1>3 DEF Finish, receiver, Confirmed
  <1>4. CASE LoseAck
    BY <1>4, AcceptDelivers DEF LoseAck
  <1>5. CASE Receive
    BY <1>5, AcceptDelivers DEF Receive
  <1> QED
    BY <1>1, <1>2, <1>3, <1>4, <1>5 DEF Next, SenderStep, ReceiverStep

(* For any number of frames and copies, any loss and any timing, the       *)
(* protocol delivers every frame once and in order.                        *)
THEOREM Refinement == Spec => DeliversInOrder
  <1>1. Init => ImplementsDelivery!Init
    BY DEF Init, ImplementsDelivery!Init, Confirmed
  <1> QED
    BY <1>1, StepRefines, Invariance, PTL
    DEF Spec, DeliversInOrder, ImplementsDelivery!Spec
=============================================================================
