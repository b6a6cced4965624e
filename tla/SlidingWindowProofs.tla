------------------------ MODULE SlidingWindowProofs ------------------------
(***************************************************************************)
(* Proofs about SlidingWindow, for every number of packets and all window  *)
(* sizes: the flags of the shared record agree, neither window is overrun, *)
(* and the protocol implements OrderedDelivery.                            *)
(*                                                                         *)
(* The argument: an ACK is put on its channel in the step that puts the    *)
(* packet into received, and a packet is in the channel only when it is in *)
(* sent (InChannel); so acked is in received and received in sent.  Each   *)
(* base is at the first packet outside its set, and the order of the sets  *)
(* becomes the order of the bases.                                         *)
(***************************************************************************)
EXTENDS SlidingWindow, WellFoundedInduction, TLAPS

USE WindowAssumption DEF WindowAssumption

InChannel == \A k \in 1..Len(dataChannel) : dataChannel[k] \in sent \cup {StopPacket}

BatchTaken ==
    /\ batch \subseteq 0..nextSeq - 1
    /\ status \in {"send", "resend"} => batch # {}

IInv == TypeOK /\ FlagsAgree /\ WindowsHold /\ InChannel /\ BatchTaken

-----------------------------------------------------------------------------
(* Least elements.                                                         *)

(* A set of naturals that is not empty has a least element.                *)
LEMMA LeastIsLeast ==
    ASSUME NEW S \in SUBSET Nat, S # {}
    PROVE  LeastOf(S) \in S /\ \A y \in S : LeastOf(S) <= y
  <1>1. \E x \in S : \A y \in S : ~(<<y, x>> \in OpToRel(<, Nat))
    BY NatLessThanWellFounded, WFMin
  <1>2. PICK x \in S : \A y \in S : ~(<<y, x>> \in OpToRel(<, Nat))
    BY <1>1
  <1>3. \A y \in S : ~(y < x)
    BY <1>2 DEF OpToRel
  <1>4. \A y \in S : x <= y
    BY <1>3
  <1> QED
    BY <1>4 DEF LeastOf

(* What the two loops that move a base on compute.                         *)
LEMMA FirstOutsideIs ==
    ASSUME NEW S \in SUBSET Packet, NEW base \in 0..Total
    PROVE  /\ FirstOutside(S, base) \in base..Total
           /\ FirstOutside(S, base) \notin S
           /\ \A i \in base..(FirstOutside(S, base) - 1) : i \in S
  <1> DEFINE R == (base..Total) \ S
  <1>1. R \in SUBSET Nat /\ Total \in R
    BY DEF Packet
  <1>2. LeastOf(R) \in R /\ \A y \in R : LeastOf(R) <= y
    BY <1>1, LeastIsLeast
  <1>3. FirstOutside(S, base) = LeastOf(R)
    BY DEF FirstOutside
  <1> HIDE DEF R
  <1>4. LeastOf(R) \in base..Total /\ LeastOf(R) \notin S
    BY <1>2 DEF R
  <1>5. \A i \in base..(LeastOf(R) - 1) : i \in S
    <2> SUFFICES ASSUME NEW i \in base..(LeastOf(R) - 1), i \notin S
                 PROVE  FALSE
      OBVIOUS
    <2>1. i \in R
      BY <1>4 DEF R
    <2> QED
      BY <1>2, <1>4, <2>1
  <1> QED
    BY <1>3, <1>4, <1>5

(* There is one packet with these properties.                              *)
LEMMA FirstOutsideOnly ==
    ASSUME NEW S \in SUBSET Packet, NEW base \in 0..Total, NEW m \in base..Total,
           m \notin S, \A i \in base..(m - 1) : i \in S
    PROVE  m = FirstOutside(S, base)
  <1> DEFINE f == FirstOutside(S, base)
  <1>1. f \in base..Total /\ f \notin S /\ \A i \in base..(f - 1) : i \in S
    BY FirstOutsideIs
  <1>2. ~(m < f)
    BY <1>1
  <1>3. ~(f < m)
    BY <1>1
  <1> QED
    BY <1>1, <1>2, <1>3

(* A base that was right is moved on to where it is right for a larger set.*)
LEMMA FirstOutsideGrows ==
    ASSUME NEW S \in SUBSET Packet, NEW T \in SUBSET Packet, S \subseteq T,
           NEW base \in 0..Total, base = FirstOutside(S, 0)
    PROVE  FirstOutside(T, base) = FirstOutside(T, 0) /\ base <= FirstOutside(T, base)
  <1> DEFINE m == FirstOutside(T, base)
  <1>1. m \in base..Total /\ m \notin T /\ \A i \in base..(m - 1) : i \in T
    BY FirstOutsideIs
  <1>2. \A i \in 0..(base - 1) : i \in S
    BY FirstOutsideIs
  <1>3. \A i \in 0..(m - 1) : i \in T
    BY <1>1, <1>2
  <1>4. 0 \in 0..Total /\ m \in 0..Total
    BY <1>1
  <1> QED
    BY <1>1, <1>3, <1>4, FirstOutsideOnly

(* Ranges that begin at 0.                                                 *)
LEMMA RangeGrows ==
    ASSUME NEW a \in Int, NEW b \in Int, a <= b
    PROVE  0..a - 1 \subseteq 0..b - 1
  OBVIOUS

(* A window's end is in the data and does not fall when its base rises.    *)
LEMMA EndsGrow ==
    ASSUME NEW a \in 0..Total, NEW b \in 0..Total, a <= b, NEW w \in Nat \ {0}
    PROVE  /\ Least(Total, a + w) \in 0..Total
           /\ a <= Least(Total, a + w)
           /\ Least(Total, a + w) <= Least(Total, b + w)
           /\ Least(Total, a + w) <= a + w
  BY DEF Least

(* The order of the sets is the order of the bases.                        *)
LEMMA BasesInOrder ==
    ASSUME IInv
    PROVE  /\ sendBase <= receiveBase
           /\ receiveBase <= sendBase + SendWindow
           /\ \A i \in 0..(receiveBase - 1) : i \in received
  <1>1. sendBase \in 0..Total /\ receiveBase \in 0..Total /\ 0 \in 0..Total
    BY DEF IInv, TypeOK
  <1>2. acked \in SUBSET Packet /\ received \in SUBSET Packet
    BY DEF IInv, TypeOK
  <1>3. \A i \in 0..(sendBase - 1) : i \in acked
    BY <1>1, <1>2, FirstOutsideIs DEF IInv, FlagsAgree
  <1>4. receiveBase \notin received /\ \A i \in 0..(receiveBase - 1) : i \in received
    BY <1>1, <1>2, FirstOutsideIs DEF IInv, FlagsAgree
  <1>5. sendBase <= receiveBase
    <2> SUFFICES ASSUME receiveBase < sendBase PROVE FALSE
      BY <1>1
    <2>1. receiveBase \in 0..(sendBase - 1)
      BY <1>1
    <2> QED
      BY <1>3, <1>4, <2>1 DEF IInv, FlagsAgree
  <1>ends. SendEnd \in 0..Total /\ SendEnd <= sendBase + SendWindow
    BY <1>1 DEF SendEnd, Least
  <1>6. receiveBase <= SendEnd
    <2> SUFFICES ASSUME receiveBase # 0 PROVE receiveBase <= SendEnd
      BY <1>1, <1>ends
    <2>1. receiveBase - 1 \in 0..(receiveBase - 1)
      BY <1>1
    <2>2. receiveBase - 1 \in 0..(SendEnd - 1)
      BY <1>4, <2>1 DEF IInv, FlagsAgree, WindowsHold
    <2> QED
      BY <1>1, <1>ends, <2>2
  <1> QED
    BY <1>1, <1>ends, <1>4, <1>5, <1>6

-----------------------------------------------------------------------------
LEMMA InitIInv == Init => IInv
  <1> SUFFICES ASSUME Init PROVE IInv
    OBVIOUS
  <1>1. TypeOK
    <2>1. 0 \in 0..Total /\ <<>> \in Seq(Packet) /\ <<>> \in Seq(Packet \cup {StopPacket})
      OBVIOUS
    <2> QED
      BY <2>1 DEF Init, TypeOK
  <1>2. 0 = FirstOutside({}, 0)
    <2>1. 0 \in 0..Total /\ {} \in SUBSET Packet
      OBVIOUS
    <2>2. \A i \in 0..(0 - 1) : i \in {}
      OBVIOUS
    <2> QED
      BY <2>1, <2>2, FirstOutsideOnly
  <1>3. FlagsAgree
    BY <1>2 DEF Init, FlagsAgree
  <1>4. WindowsHold
    BY DEF Init, WindowsHold, SendEnd, Least
  <1>5. InChannel /\ BatchTaken
    BY DEF Init, InChannel, BatchTaken
  <1> QED
    BY <1>1, <1>3, <1>4, <1>5 DEF IInv

(* Steps that touch neither the record nor the channels.                   *)
LEMMA QuietKeeps ==
    ASSUME IInv, UNCHANGED <<senderState, receiverState, dataChannel, ackChannel>>,
           status' \in {"check", "fill", "drain", "collect", "resend", "finish", "done"},
           receiving' \in BOOLEAN, done' \in BOOLEAN, monitoring' \in BOOLEAN,
           batch' \subseteq 0..nextSeq - 1, status' = "resend" => batch' # {}
    PROVE  IInv'
  <1>1. TypeOK'
    BY DEF IInv, TypeOK, Packet, senderState, receiverState
  <1>2. FlagsAgree' /\ WindowsHold' /\ InChannel' /\ BatchTaken'
    BY DEF IInv, FlagsAgree, WindowsHold, InChannel, BatchTaken, SendEnd, ReceiveEnd,
           senderState, receiverState
  <1> QED
    BY <1>1, <1>2 DEF IInv

LEMMA OuterNoAckKeep == IInv /\ (Outer \/ NoAck) => IInv'
  BY QuietKeeps DEF Outer, NoAck, ends, IInv, TypeOK, BatchTaken

LEMMA CollectKeeps == IInv /\ Collect => IInv'
  <1> SUFFICES ASSUME IInv, Collect PROVE IInv'
    OBVIOUS
  <1>1. sendBase \in Nat /\ nextSeq \in Nat
    BY DEF IInv, TypeOK
  <1>2. batch' \subseteq 0..nextSeq - 1
    BY <1>1 DEF Collect
  <1> QED
    BY <1>2, QuietKeeps DEF Collect, ends, IInv, TypeOK

LEMMA FillKeeps == IInv /\ Fill => IInv'
  <1> SUFFICES ASSUME IInv, Fill PROVE IInv'
    OBVIOUS
  <1>1. CASE nextSeq < SendEnd
    <2>1. /\ sendBase \in 0..Total /\ nextSeq \in 0..Total
          /\ SendEnd \in 0..Total
      BY DEF IInv, TypeOK, SendEnd, Least
    <2>2. /\ batch' = {nextSeq} /\ nextSeq' = nextSeq + 1 /\ status' = "send"
          /\ UNCHANGED <<sendBase, sent, acked, receiverState, dataChannel, ackChannel, ends>>
      BY <1>1 DEF Fill
    <2>3. TypeOK'
      BY <1>1, <2>1, <2>2 DEF IInv, TypeOK, Packet, receiverState, ends
    <2>4. FlagsAgree' /\ InChannel'
      BY <2>2 DEF IInv, FlagsAgree, InChannel, receiverState
    <2>5. WindowsHold'
      BY <1>1, <2>1, <2>2 DEF IInv, WindowsHold, SendEnd, ReceiveEnd, receiverState
    <2>6. BatchTaken'
      BY <2>1, <2>2 DEF BatchTaken
    <2> QED
      BY <2>3, <2>4, <2>5, <2>6 DEF IInv
  <1>2. CASE ~(nextSeq < SendEnd)
    BY <1>2, QuietKeeps DEF Fill, IInv, TypeOK, BatchTaken, senderState, ends
  <1> QED
    BY <1>1, <1>2

LEMMA SendPacketKeeps == IInv /\ SendPacket => IInv'
  <1> SUFFICES ASSUME IInv, SendPacket PROVE IInv'
    OBVIOUS
  <1> DEFINE seq == LeastOf(batch)
  <1>1. sendBase \in 0..Total /\ nextSeq \in 0..Total /\ SendEnd \in 0..Total
    BY DEF IInv, TypeOK, SendEnd, Least
  <1>2. seq \in batch
    <2>1. batch \in SUBSET Nat /\ batch # {}
      BY <1>1 DEF IInv, BatchTaken, SendPacket
    <2> QED
      BY <2>1, LeastIsLeast
  <1>3. seq \in Packet /\ seq \in 0..SendEnd - 1
    <2> HIDE DEF seq
    <2>1. batch \subseteq Packet /\ batch \subseteq 0..nextSeq - 1 /\ nextSeq <= SendEnd
      BY DEF IInv, TypeOK, BatchTaken, WindowsHold
    <2>2. 0..nextSeq - 1 \subseteq 0..SendEnd - 1
      BY <1>1, <2>1
    <2> QED
      BY <1>2, <2>1, <2>2
  <1>4. /\ sent' = sent \cup {seq}
        /\ dataChannel' = Append(dataChannel, seq)
        /\ batch' = batch \ {seq}
        /\ status' = IF batch # {seq} THEN status
                     ELSE IF status = "send" THEN "fill" ELSE "check"
        /\ UNCHANGED <<sendBase, nextSeq, acked, receiverState, ackChannel, ends>>
    BY DEF SendPacket
  <1> HIDE DEF seq
  <1>5. TypeOK'
    BY <1>3, <1>4 DEF IInv, TypeOK, receiverState, ends
  <1>6. FlagsAgree'
    BY <1>4 DEF IInv, FlagsAgree, receiverState
  <1>7. WindowsHold'
    BY <1>3, <1>4 DEF IInv, WindowsHold, SendEnd, ReceiveEnd, receiverState
  <1>8. InChannel'
    <2>1. dataChannel \in Seq(Packet \cup {StopPacket})
      BY DEF IInv, TypeOK
    <2> QED
      BY <1>4, <2>1 DEF IInv, InChannel
  <1>9. BatchTaken'
    BY <1>2, <1>4 DEF IInv, BatchTaken
  <1> QED
    BY <1>5, <1>6, <1>7, <1>8, <1>9 DEF IInv

(* The send base moves on, and with it the end of the send window.         *)
LEMMA TakeAckKeeps == IInv /\ TakeAck => IInv'
  <1> SUFFICES ASSUME IInv, TakeAck PROVE IInv'
    OBVIOUS
  <1>1. /\ ackChannel \in Seq(Packet) /\ ackChannel # <<>>
        /\ 1 \in 1..Len(ackChannel) /\ Head(ackChannel) = ackChannel[1]
        /\ Head(ackChannel) \in Packet
        /\ ackChannel' \in Seq(Packet)
        /\ \A k \in 1..Len(ackChannel') :
              k + 1 \in 1..Len(ackChannel) /\ ackChannel'[k] = ackChannel[k + 1]
    BY DEF TakeAck, IInv, TypeOK
  <1>2. acked' = acked \cup {Head(ackChannel)} /\ sendBase' = FirstOutside(acked', sendBase)
    BY DEF TakeAck
  <1>3. acked \in SUBSET Packet /\ acked' \in SUBSET Packet /\ sendBase \in 0..Total
    BY <1>1, <1>2 DEF IInv, TypeOK
  <1>4. sendBase' = FirstOutside(acked', 0) /\ sendBase <= sendBase'
    BY <1>2, <1>3, FirstOutsideGrows DEF IInv, FlagsAgree
  <1>5. sendBase' \in 0..Total
    BY <1>2, <1>3, FirstOutsideIs
  <1>6. TypeOK'
    BY <1>1, <1>3, <1>5 DEF TakeAck, IInv, TypeOK, receiverState, ends
  <1>7. FlagsAgree'
    <2>1. acked' \subseteq received
      BY <1>1, <1>2 DEF IInv, FlagsAgree
    <2>2. \A k \in 1..Len(ackChannel') : ackChannel'[k] \in received
      BY <1>1 DEF IInv, FlagsAgree
    <2> QED
      BY <1>4, <2>1, <2>2 DEF TakeAck, IInv, FlagsAgree, receiverState
  <1>8. WindowsHold'
    <2>1. SendEnd \in 0..Total /\ SendEnd' \in 0..Total /\ SendEnd <= SendEnd'
      BY <1>3, <1>4, <1>5 DEF SendEnd, Least
    <2>2. nextSeq \in 0..Total /\ nextSeq <= SendEnd /\ sent \subseteq 0..SendEnd - 1
      BY DEF IInv, TypeOK, WindowsHold
    <2>3. PICK e \in 0..Total : e = SendEnd'
      BY <2>1
    <2>4. /\ UNCHANGED <<nextSeq, sent, received, ReceiveEnd>>
          /\ received \subseteq 0..ReceiveEnd - 1
      BY DEF TakeAck, IInv, WindowsHold, ReceiveEnd, receiverState
    <2>5. nextSeq <= SendEnd' /\ sent \subseteq 0..SendEnd' - 1
      <3>1. SendEnd <= e
        BY <2>1, <2>3
      <3>2. nextSeq <= e /\ sent \subseteq 0..e - 1
        BY <2>1, <2>2, <3>1
      <3> QED
        BY <2>3, <3>2
    <2> QED
      BY <2>4, <2>5 DEF WindowsHold
  <1>9. InChannel' /\ BatchTaken'
    BY DEF TakeAck, IInv, InChannel, BatchTaken
  <1> QED
    BY <1>6, <1>7, <1>8, <1>9 DEF IInv

LEMMA FinishKeeps == IInv /\ Finish => IInv'
  <1> SUFFICES ASSUME IInv, Finish PROVE IInv'
    OBVIOUS
  <1>1. dataChannel \in Seq(Packet \cup {StopPacket}) /\ done' \in BOOLEAN
    BY DEF Finish, IInv, TypeOK
  <1>2. TypeOK'
    BY <1>1 DEF Finish, IInv, TypeOK, senderState, receiverState
  <1>3. FlagsAgree' /\ WindowsHold'
    BY DEF Finish, IInv, FlagsAgree, WindowsHold, SendEnd, ReceiveEnd, senderState, receiverState
  <1>4. InChannel' /\ BatchTaken'
    BY <1>1 DEF Finish, IInv, InChannel, BatchTaken, senderState
  <1> QED
    BY <1>2, <1>3, <1>4 DEF IInv

-----------------------------------------------------------------------------
(* The receiver takes a packet that was sent.                              *)
LEMMA ArrivalFacts ==
    ASSUME IInv, NEW seq \in Packet \cup {StopPacket}, PacketArrives(seq)
    PROVE  /\ dataChannel' \in Seq(Packet \cup {StopPacket})
           /\ \A k \in 1..Len(dataChannel') : dataChannel'[k] \in sent \cup {StopPacket}
           /\ seq \in Packet => seq \in sent
  <1>1. /\ dataChannel \in Seq(Packet \cup {StopPacket}) /\ dataChannel # <<>>
        /\ 1 \in 1..Len(dataChannel) /\ Head(dataChannel) = dataChannel[1]
        /\ dataChannel' = Tail(dataChannel)
        /\ \A k \in 1..Len(dataChannel') :
              k + 1 \in 1..Len(dataChannel) /\ dataChannel'[k] = dataChannel[k + 1]
    BY DEF PacketArrives, IInv, TypeOK
  <1>2. dataChannel' \in Seq(Packet \cup {StopPacket})
    BY <1>1
  <1>3. seq \in Packet => seq # StopPacket
    BY DEF Packet, StopPacket
  <1>4. seq = dataChannel[1]
    BY <1>1 DEF PacketArrives
  <1> QED
    BY <1>1, <1>2, <1>3, <1>4 DEF IInv, InChannel

(* What Accept does to the receiver's part of the record.                  *)
LEMMA AcceptFacts ==
    ASSUME IInv, NEW seq \in Packet, seq \in sent, ~OutOfWindow(seq), Accept(seq)
    PROVE  /\ receiveBase' \in 0..Total /\ receiveBase <= receiveBase'
           /\ received' \in SUBSET Packet /\ delivered' \in SUBSET Packet
           /\ received \subseteq received' /\ received' \subseteq sent /\ seq \in received'
           /\ delivered' = 0..receiveBase' - 1
           /\ receiveBase' = FirstOutside(received', 0)
           /\ received' \subseteq 0..ReceiveEnd' - 1
  <1>1. /\ receiveBase \in 0..Total /\ ReceiveEnd \in 0..Total
        /\ received \in SUBSET Packet /\ delivered \in SUBSET Packet
        /\ received \subseteq sent /\ received \subseteq 0..ReceiveEnd - 1
        /\ delivered = 0..receiveBase - 1 /\ receiveBase = FirstOutside(received, 0)
    <2>1. receiveBase \in 0..Total
      BY DEF IInv, TypeOK
    <2>2. ReceiveEnd \in 0..Total
      BY <2>1, WindowAssumption DEF ReceiveEnd, Least
    <2> QED
      BY <2>1, <2>2 DEF IInv, TypeOK, FlagsAgree, WindowsHold
  <1>2. CASE seq < receiveBase
    <2>1. UNCHANGED <<receiveBase, received, delivered>>
      BY <1>2 DEF Accept, receiverState
    <2>2. ReceiveEnd' = ReceiveEnd
      BY <2>1 DEF ReceiveEnd
    <2>3. seq \in 0..(receiveBase - 1)
      BY <1>1, <1>2 DEF Packet
    <2>4. seq \in received
      BY <2>3, BasesInOrder
    <2> QED
      BY <1>1, <2>1, <2>2, <2>4
  <1>3. CASE ~(seq < receiveBase)
    <2>1. /\ received' = received \cup {seq}
          /\ receiveBase' = FirstOutside(received', receiveBase)
          /\ delivered' = delivered \cup (receiveBase..receiveBase' - 1)
      BY <1>3 DEF Accept
    <2>2. received' \in SUBSET Packet /\ received \subseteq received'
      BY <1>1, <2>1
    <2>3. receiveBase' \in 0..Total
      BY <1>1, <2>1, <2>2, FirstOutsideIs
    <2>4. receiveBase' = FirstOutside(received', 0) /\ receiveBase <= receiveBase'
      BY <1>1, <2>1, <2>2, FirstOutsideGrows
    <2>5. delivered' = 0..receiveBase' - 1
      BY <1>1, <2>1, <2>3, <2>4
    <2>6. delivered' \in SUBSET Packet
      <3>1. PICK b \in 0..Total : b = receiveBase'
        BY <2>3
      <3>2. b \in Int /\ Total \in Int /\ b <= Total
        BY <3>1
      <3>3. 0..b - 1 \subseteq 0..Total - 1
        BY <3>2, RangeGrows
      <3> QED
        BY <2>5, <3>1, <3>3 DEF Packet
    <2>7. received' \subseteq 0..ReceiveEnd' - 1
      <3>1. PICK e \in 0..Total : e = ReceiveEnd' /\ ReceiveEnd <= e
        BY <1>1, <2>3, <2>4 DEF ReceiveEnd, Least
      <3>2. received' \subseteq 0..ReceiveEnd - 1
        BY <1>1, <2>1 DEF OutOfWindow, Packet
      <3>3. received' \subseteq 0..e - 1
        <4>1. 0..ReceiveEnd - 1 \subseteq 0..e - 1
          <5>1. ReceiveEnd \in Int /\ e \in Int
            BY <1>1, <3>1
          <5> QED
            BY <3>1, <5>1, RangeGrows
        <4> QED
          BY <3>2, <4>1
      <3> QED
        BY <3>1, <3>3
    <2> QED
      BY <1>1, <2>1, <2>2, <2>3, <2>4, <2>5, <2>6, <2>7
  <1> QED
    BY <1>2, <1>3

LEMMA DropKeeps ==
    ASSUME IInv, NEW seq \in Packet, LosePacket(seq) \/ Drop(seq)
    PROVE  IInv'
  <1>1. /\ PacketArrives(seq)
        /\ UNCHANGED <<status, batch, senderState, receiverState, ackChannel, ends>>
    BY DEF LosePacket, Drop
  <1>2. TypeOK'
    BY <1>1, ArrivalFacts DEF IInv, TypeOK, senderState, receiverState, ends
  <1>3. FlagsAgree' /\ WindowsHold'
    BY <1>1 DEF IInv, FlagsAgree, WindowsHold, SendEnd, ReceiveEnd, senderState, receiverState
  <1>4. InChannel' /\ BatchTaken'
    BY <1>1, ArrivalFacts DEF IInv, InChannel, BatchTaken, senderState
  <1> QED
    BY <1>2, <1>3, <1>4 DEF IInv

LEMMA AcceptKeeps ==
    ASSUME IInv, NEW seq \in Packet, LoseAck(seq) \/ Receive(seq)
    PROVE  IInv'
  <1>1. /\ PacketArrives(seq) /\ ~OutOfWindow(seq) /\ Accept(seq)
        /\ UNCHANGED <<status, batch, senderState, ends>>
        /\ ackChannel' = ackChannel \/ ackChannel' = Append(ackChannel, seq)
    BY DEF LoseAck, Receive, Answer
  <1>2. seq \in sent
    BY <1>1, ArrivalFacts
  <1>3. /\ receiveBase' \in 0..Total
        /\ received' \in SUBSET Packet /\ delivered' \in SUBSET Packet
        /\ received \subseteq received' /\ received' \subseteq sent /\ seq \in received'
        /\ delivered' = 0..receiveBase' - 1
        /\ receiveBase' = FirstOutside(received', 0)
        /\ received' \subseteq 0..ReceiveEnd' - 1
    BY <1>1, <1>2, AcceptFacts
  <1>4. /\ ackChannel' \in Seq(Packet)
        /\ \A k \in 1..Len(ackChannel') : ackChannel'[k] \in received'
    <2>1. ackChannel \in Seq(Packet) /\ \A k \in 1..Len(ackChannel) : ackChannel[k] \in received
      BY DEF IInv, TypeOK, FlagsAgree
    <2>2. CASE ackChannel' = ackChannel
      BY <1>3, <2>1, <2>2
    <2>3. CASE ackChannel' = Append(ackChannel, seq)
      <3>1. \A k \in 1..Len(ackChannel') : ackChannel'[k] \in received \cup {seq}
        BY <2>1, <2>3
      <3> QED
        <4>1. ackChannel' \in Seq(Packet)
          BY <2>1, <2>3
        <4>2. received \cup {seq} \subseteq received'
          BY <1>3
        <4> QED
          BY <3>1, <4>1, <4>2
    <2> QED
      BY <1>1, <2>2, <2>3
  <1>5. TypeOK'
    BY <1>1, <1>3, <1>4, ArrivalFacts DEF IInv, TypeOK, senderState, ends
  <1>6. FlagsAgree'
    BY <1>1, <1>3, <1>4 DEF IInv, FlagsAgree, senderState
  <1>7. WindowsHold'
    BY <1>1, <1>3 DEF IInv, WindowsHold, SendEnd, senderState
  <1>8. InChannel' /\ BatchTaken'
    BY <1>1, ArrivalFacts DEF IInv, InChannel, BatchTaken, senderState
  <1> QED
    BY <1>5, <1>6, <1>7, <1>8 DEF IInv

LEMMA StopKeeps == IInv /\ Stop => IInv'
  <1> SUFFICES ASSUME IInv, Stop PROVE IInv'
    OBVIOUS
  <1>1. PacketArrives(StopPacket) /\ receiving' \in BOOLEAN
    BY Zenon DEF Stop
  <1>2. TypeOK'
    BY <1>1, ArrivalFacts DEF Stop, IInv, TypeOK, senderState, receiverState
  <1>3. FlagsAgree' /\ WindowsHold'
    BY DEF Stop, IInv, FlagsAgree, WindowsHold, SendEnd, ReceiveEnd, senderState, receiverState
  <1>4. InChannel' /\ BatchTaken'
    BY <1>1, ArrivalFacts DEF Stop, IInv, InChannel, BatchTaken, senderState
  <1> QED
    BY <1>2, <1>3, <1>4 DEF IInv

LEMMA MonitorEndKeeps == IInv /\ MonitorEnd => IInv'
  <1> SUFFICES ASSUME IInv, MonitorEnd PROVE IInv'
    OBVIOUS
  <1>1. monitoring' \in BOOLEAN
    BY Zenon DEF MonitorEnd
  <1>2. TypeOK'
    BY <1>1 DEF MonitorEnd, IInv, TypeOK, senderState, receiverState
  <1>3. FlagsAgree' /\ WindowsHold' /\ InChannel' /\ BatchTaken'
    BY DEF MonitorEnd, IInv, FlagsAgree, WindowsHold, SendEnd, ReceiveEnd, InChannel,
           BatchTaken, senderState, receiverState
  <1> QED
    BY <1>2, <1>3 DEF IInv

LEMMA NextKeeps == IInv /\ [Next]_vars => IInv'
  <1> SUFFICES ASSUME IInv, [Next]_vars PROVE IInv'
    OBVIOUS
  <1>1. CASE UNCHANGED vars
    BY <1>1 DEF vars, senderState, receiverState, ends, IInv, TypeOK, FlagsAgree,
                WindowsHold, SendEnd, ReceiveEnd, InChannel, BatchTaken
  <1>2. CASE SenderStep
    BY <1>2, OuterNoAckKeep, FillKeeps, SendPacketKeeps, TakeAckKeeps, CollectKeeps,
       FinishKeeps DEF SenderStep
  <1>3. CASE ReceiverStep
    <2>1. CASE Stop
      BY <2>1, StopKeeps
    <2>2. CASE \E seq \in Packet : LosePacket(seq) \/ Drop(seq) \/ LoseAck(seq) \/ Receive(seq)
      BY <2>2, DropKeeps, AcceptKeeps
    <2> QED
      BY <1>3, <2>1, <2>2 DEF ReceiverStep
  <1>4. CASE MonitorEnd
    BY <1>4, MonitorEndKeeps
  <1> QED
    BY <1>1, <1>2, <1>3, <1>4 DEF Next

-----------------------------------------------------------------------------
(* The invariant holds in every reachable state.                           *)
THEOREM Invariance == Spec => []IInv
  BY InitIInv, NextKeeps, PTL DEF Spec

(* Types.                                                                  *)
THEOREM TypeCorrect == Spec => []TypeOK
  <1>1. IInv => TypeOK
    BY DEF IInv
  <1> QED
    BY <1>1, Invariance, PTL

(* For any number of packets and all windows, the flags and bases that two *)
(* threads write agree: nothing is acknowledged that was not received,     *)
(* nothing delivered past a gap.                                           *)
THEOREM RecordIsConsistent == Spec => []FlagsAgree
  <1>1. IInv => FlagsAgree
    BY DEF IInv
  <1> QED
    BY <1>1, Invariance, PTL

(* Neither window is ever overrun, whichever is larger.                    *)
THEOREM WindowsRespected == Spec => []WindowsHold
  <1>1. IInv => WindowsHold
    BY DEF IInv
  <1> QED
    BY <1>1, Invariance, PTL

-----------------------------------------------------------------------------
(* The refinement: the receiver's steps deliver, TakeAck confirms.         *)

(* The first b frames are the first a and the b - a after them.            *)
LEMMA IdentityExtends ==
    ASSUME NEW a \in Nat, NEW b \in Nat, a < b
    PROVE  [i \in 1..b |-> i] = [i \in 1..a |-> i] \o [i \in 1..(b - a) |-> a + i]
  <1> DEFINE s == [i \in 1..a |-> i]
             t == [i \in 1..(b - a) |-> a + i]
  <1>1. s \in Seq(Nat) /\ Len(s) = a
    OBVIOUS
  <1>2. t \in Seq(Nat) /\ Len(t) = b - a
    OBVIOUS
  <1>3. s \o t \in Seq(Nat) /\ Len(s \o t) = b
    BY <1>1, <1>2
  <1>4. \A i \in 1..b : (s \o t)[i] = i
    <2> SUFFICES ASSUME NEW i \in 1..b PROVE (s \o t)[i] = i
      OBVIOUS
    <2>1. CASE i <= a
      BY <1>1, <1>2, <2>1
    <2>2. CASE a < i
      <3>1. (s \o t)[i] = t[i - a] /\ i - a \in 1..(b - a)
        <4> HIDE DEF s, t
        <4> QED
          BY <1>1, <1>2, <2>2
      <3> QED
        BY <3>1
    <2> QED
      BY <2>1, <2>2
  <1> QED
    BY <1>3, <1>4

LEMMA AcceptDelivers ==
    ASSUME IInv, IInv', NEW seq \in Packet, LoseAck(seq) \/ Receive(seq)
    PROVE  ImplementsDelivery!Deliver
             \/ UNCHANGED <<[i \in 1..receiveBase |-> i], sendBase>>
  <1>1. /\ ~OutOfWindow(seq) /\ Accept(seq) /\ PacketArrives(seq)
        /\ sendBase' = sendBase
    BY DEF LoseAck, Receive, senderState
  <1>2. receiveBase \in 0..Total /\ receiveBase' \in 0..Total /\ receiveBase <= receiveBase'
    BY <1>1, ArrivalFacts, AcceptFacts DEF IInv, TypeOK
  <1>3. receiveBase' <= sendBase + SendWindow
    <2>1. (receiveBase <= sendBase + SendWindow)'
      BY BasesInOrder, IInv' , PTL
    <2> QED
      BY <1>1, <2>1
  <1>4. CASE receiveBase' = receiveBase
    BY <1>1, <1>4
  <1>5. CASE receiveBase < receiveBase'
    <2> DEFINE out == [i \in 1..receiveBase |-> i]
               n == receiveBase' - receiveBase
    <2>1. Len(out) = receiveBase /\ out \in Seq(Nat)
      BY <1>2
    <2>2. n \in 1..(Total - receiveBase) /\ receiveBase + n <= sendBase + SendWindow
      <3>1. PICK b \in 0..Total : b = receiveBase'
        BY <1>2
      <3>2. sendBase \in Int /\ b <= sendBase + SendWindow /\ receiveBase < b
        BY <1>3, <1>5, <3>1 DEF IInv, TypeOK
      <3>3. b - receiveBase \in 1..(Total - receiveBase)
        BY <1>2, <3>2
      <3>4. receiveBase + (b - receiveBase) <= sendBase + SendWindow
        BY <1>2, <3>2
      <3> QED
        BY <3>1, <3>3, <3>4
    <2>3. out' = out \o [i \in 1..n |-> receiveBase + i]
      <3>1. PICK b \in 0..Total : b = receiveBase'
        BY <1>2
      <3>2. receiveBase \in Nat /\ b \in Nat /\ receiveBase < b
        BY <1>2, <1>5, <3>1
      <3>3. [i \in 1..b |-> i]
              = [i \in 1..receiveBase |-> i] \o [i \in 1..(b - receiveBase) |-> receiveBase + i]
        BY <3>2, IdentityExtends
      <3> QED
        BY <3>1, <3>3
    <2> QED
      BY <1>1, <2>1, <2>2, <2>3 DEF ImplementsDelivery!Deliver
  <1> QED
    BY <1>2, <1>4, <1>5

(* The ACK taken is of a packet received, so the new base is not past the  *)
(* receive base.                                                           *)
LEMMA TakeAckConfirms ==
    ASSUME IInv, IInv', TakeAck
    PROVE  ImplementsDelivery!Confirm
             \/ UNCHANGED <<[i \in 1..receiveBase |-> i], sendBase>>
  <1>1. receiveBase' = receiveBase
    BY DEF TakeAck, receiverState
  <1>2. receiveBase \in 0..Total /\ sendBase \in 0..Total
    BY DEF IInv, TypeOK
  <1>3. PICK b \in 0..Total : b = sendBase' /\ sendBase <= b
    <2>1. acked \in SUBSET Packet /\ acked' \in SUBSET Packet /\ acked \subseteq acked'
      BY DEF TakeAck, IInv, TypeOK
    <2>2. sendBase' = FirstOutside(acked', sendBase)
      BY DEF TakeAck
    <2> QED
      BY <1>2, <2>1, <2>2, FirstOutsideGrows, FirstOutsideIs DEF IInv, FlagsAgree
  <1>4. b <= receiveBase
    <2>1. (sendBase <= receiveBase)'
      BY BasesInOrder, IInv', PTL
    <2> QED
      BY <1>1, <1>3, <2>1
  <1>5. CASE b = sendBase
    BY <1>1, <1>3, <1>5
  <1>6. CASE b # sendBase
    <2>1. sendBase' \in (sendBase + 1)..receiveBase
      BY <1>2, <1>3, <1>4, <1>6
    <2>2. Len([i \in 1..receiveBase |-> i]) = receiveBase
      BY <1>2
    <2> QED
      BY <1>1, <2>1, <2>2 DEF ImplementsDelivery!Confirm
  <1> QED
    BY <1>5, <1>6

LEMMA StepRefines ==
    IInv /\ IInv' /\ [Next]_vars
        => [ImplementsDelivery!Next]_<<[i \in 1..receiveBase |-> i], sendBase>>
  <1> SUFFICES ASSUME IInv, IInv', [Next]_vars
               PROVE  \/ ImplementsDelivery!Deliver
                      \/ ImplementsDelivery!Confirm
                      \/ UNCHANGED <<[i \in 1..receiveBase |-> i], sendBase>>
    BY DEF ImplementsDelivery!Next
  <1>1. CASE UNCHANGED <<receiveBase, sendBase>>
    BY <1>1
  <1>2. CASE TakeAck
    BY <1>2, TakeAckConfirms
  <1>3. CASE \E seq \in Packet : LoseAck(seq) \/ Receive(seq)
    BY <1>3, AcceptDelivers
  <1>4. CASE UNCHANGED vars \/ Outer \/ Fill \/ SendPacket \/ NoAck \/ Collect \/ Finish
    BY <1>1, <1>4 DEF vars, Outer, Fill, SendPacket, NoAck, Collect, Finish,
                      senderState, receiverState
  <1>5. CASE Stop \/ MonitorEnd \/ \E seq \in Packet : LosePacket(seq) \/ Drop(seq)
    BY <1>1, <1>5 DEF Stop, MonitorEnd, LosePacket, Drop, senderState, receiverState
  <1> QED
    BY <1>2, <1>3, <1>4, <1>5 DEF Next, SenderStep, ReceiverStep

(* For any number of packets, all windows, any loss and any timing, the    *)
(* protocol delivers every packet once and in order.                       *)
THEOREM Refinement == Spec => DeliversInOrder
  <1>1. Init => ImplementsDelivery!Init
    BY DEF Init, ImplementsDelivery!Init
  <1> QED
    BY <1>1, StepRefines, Invariance, PTL
    DEF Spec, DeliversInOrder, ImplementsDelivery!Spec
=============================================================================
