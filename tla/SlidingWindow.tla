--------------------------- MODULE SlidingWindow ---------------------------
(***************************************************************************)
(* The sliding-window simulation of LAB11/14 (selective repeat): a sender, *)
(* a receiver and a monitor thread share one record under one mutex; data  *)
(* and ACKs go through two queues; the receiver draws what is lost.        *)
(*                                                                         *)
(* One action is one critical section on the record with the thread's own  *)
(* channel operation next to it: only the receiver takes packets and only  *)
(* the sender takes ACKs, so a packet taken and not yet handled is as good *)
(* as one still in its queue, and only the monitor, which does not look at *)
(* the queues, could run between the two.  Packets are numbered from 0.    *)
(***************************************************************************)
EXTENDS Integers, Sequences, FiniteSets

CONSTANTS Total,           \* options.total_packets
          SendWindow,      \* options.send_window
          ReceiveWindow,   \* options.receive_window
          MaxQueue         \* bound: packets in the data channel at a sending

ASSUME WindowAssumption ==
    /\ Total \in Nat \ {0}
    /\ SendWindow \in Nat \ {0}
    /\ ReceiveWindow \in Nat \ {0}
    /\ MaxQueue \in Nat \ {0}

VARIABLES status,        \* where the sender is in its loop
          batch,         \* the packets it is about to send
          sendBase, nextSeq, sent, acked,          \* SharedState, sender's
          receiveBase, received, delivered,        \* SharedState, receiver's
          dataChannel,   \* packets and the stop packet
          ackChannel,
          receiving,     \* the receiver's loop has not been left
          done, monitoring

senderState == <<sendBase, nextSeq, sent, acked>>
receiverState == <<receiveBase, received, delivered>>
ends == <<receiving, done, monitoring>>
vars == <<status, batch, senderState, receiverState, dataChannel, ackChannel, ends>>

Packet == 0..Total - 1
StopPacket == Total      \* stands for Packet{0, true}

LeastOf(S) == CHOOSE x \in S : \A y \in S : x <= y
Least(a, b) == IF a < b THEN a ELSE b

SendEnd == Least(Total, sendBase + SendWindow)

ReceiveEnd == Least(Total, receiveBase + ReceiveWindow)

TypeOK ==
    /\ status \in {"check", "fill", "send", "drain", "collect", "resend", "finish", "done"}
    /\ batch \in SUBSET Packet
    /\ sendBase \in 0..Total /\ nextSeq \in 0..Total /\ receiveBase \in 0..Total
    /\ sent \in SUBSET Packet /\ acked \in SUBSET Packet
    /\ received \in SUBSET Packet /\ delivered \in SUBSET Packet
    /\ dataChannel \in Seq(Packet \cup {StopPacket})
    /\ ackChannel \in Seq(Packet)
    /\ receiving \in BOOLEAN /\ done \in BOOLEAN /\ monitoring \in BOOLEAN

Init ==
    /\ status = "check"
    /\ batch = {}
    /\ sendBase = 0 /\ nextSeq = 0 /\ sent = {} /\ acked = {}
    /\ receiveBase = 0 /\ received = {} /\ delivered = {}
    /\ dataChannel = <<>> /\ ackChannel = <<>>
    /\ receiving = TRUE /\ done = FALSE /\ monitoring = TRUE

(* The first packet from base on that is not in S.                         *)
FirstOutside(S, base) == LeastOf((base..Total) \ S)

-----------------------------------------------------------------------------
(* The sender.                                                             *)

Outer ==
    /\ status = "check"
    /\ status' = IF sendBase >= Total THEN "finish" ELSE "fill"
    /\ UNCHANGED <<batch, senderState, receiverState, dataChannel, ackChannel, ends>>

Mutant_Fill ==
    /\ status = "fill"
    /\ IF nextSeq < Least(Total, sendBase + SendWindow + 1)
       THEN /\ batch' = {nextSeq}
            /\ nextSeq' = nextSeq + 1
            /\ status' = "send"
       ELSE /\ status' = "drain"
            /\ UNCHANGED <<batch, nextSeq>>
    /\ UNCHANGED <<sendBase, sent, acked, receiverState, dataChannel, ackChannel, ends>>

Fill ==
    /\ status = "fill"
    /\ IF nextSeq < SendEnd
       THEN /\ batch' = {nextSeq}
            /\ nextSeq' = nextSeq + 1
            /\ status' = "send"
       ELSE /\ status' = "drain"
            /\ UNCHANGED <<batch, nextSeq>>
    /\ UNCHANGED <<sendBase, sent, acked, receiverState, dataChannel, ackChannel, ends>>

(* send_packet, for the next packet of the batch.                          *)
SendPacket ==
    /\ status \in {"send", "resend"}
    /\ Len(dataChannel) < MaxQueue
    /\ LET seq == LeastOf(batch) IN
        /\ sent' = sent \cup {seq}
        /\ dataChannel' = Append(dataChannel, seq)
        /\ batch' = batch \ {seq}
        /\ status' = IF batch # {seq} THEN status
                     ELSE IF status = "send" THEN "fill" ELSE "check"
    /\ UNCHANGED <<sendBase, nextSeq, acked, receiverState, ackChannel, ends>>

Mutant_TakeAck ==
    /\ status = "drain"
    /\ ackChannel # <<>>
    /\ ackChannel' = Tail(ackChannel)
    /\ acked' = acked \cup {Head(ackChannel)}
    /\ sendBase' = Head(ackChannel) + 1
    /\ UNCHANGED <<status, batch, nextSeq, sent, receiverState, dataChannel, ends>>

(* ACKs are taken until none comes for a while.                            *)
TakeAck ==
    /\ status = "drain"
    /\ ackChannel # <<>>
    /\ ackChannel' = Tail(ackChannel)
    /\ acked' = acked \cup {Head(ackChannel)}
    /\ sendBase' = FirstOutside(acked', sendBase)
    /\ UNCHANGED <<status, batch, nextSeq, sent, receiverState, dataChannel, ends>>

NoAck ==
    /\ status = "drain"
    /\ ackChannel = <<>>
    /\ status' = "collect"
    /\ UNCHANGED <<batch, senderState, receiverState, dataChannel, ackChannel, ends>>

(* What timed out is any part of what is not acknowledged.                 *)
Collect ==
    /\ status = "collect"
    /\ batch' \in SUBSET {seq \in sendBase..nextSeq - 1 : seq \in sent /\ seq \notin acked}
    /\ status' = IF batch' = {} THEN "check" ELSE "resend"
    /\ UNCHANGED <<senderState, receiverState, dataChannel, ackChannel, ends>>

Finish ==
    /\ status = "finish"
    /\ done' = TRUE
    /\ dataChannel' = Append(dataChannel, StopPacket)
    /\ status' = "done"
    /\ UNCHANGED <<batch, senderState, receiverState, ackChannel, receiving, monitoring>>

-----------------------------------------------------------------------------
(* The receiver.                                                           *)

PacketArrives(seq) ==
    /\ receiving
    /\ dataChannel # <<>>
    /\ Head(dataChannel) = seq
    /\ dataChannel' = Tail(dataChannel)

LosePacket(seq) ==
    /\ PacketArrives(seq)
    /\ UNCHANGED <<status, batch, senderState, receiverState, ackChannel, ends>>

Mutant_OutOfWindow(seq) == FALSE

OutOfWindow(seq) == seq >= ReceiveEnd

(* A packet in the window, new or not: buffer it, deliver what is in order.*)
(* One before the window changes nothing.                                  *)
Accept(seq) ==
    IF seq < receiveBase
    THEN UNCHANGED receiverState
    ELSE /\ received' = received \cup {seq}
         /\ receiveBase' = FirstOutside(received', receiveBase)
         /\ delivered' = delivered \cup (receiveBase..receiveBase' - 1)

Drop(seq) ==
    /\ PacketArrives(seq)
    /\ OutOfWindow(seq)
    /\ UNCHANGED <<status, batch, senderState, receiverState, ackChannel, ends>>

LoseAck(seq) ==
    /\ PacketArrives(seq)
    /\ ~OutOfWindow(seq)
    /\ Accept(seq)
    /\ UNCHANGED <<status, batch, senderState, ackChannel, ends>>

Mutant_Answer(seq) ==
    ackChannel' = IF seq < receiveBase THEN ackChannel ELSE Append(ackChannel, seq)

Answer(seq) == ackChannel' = Append(ackChannel, seq)

Receive(seq) ==
    /\ PacketArrives(seq)
    /\ ~OutOfWindow(seq)
    /\ Accept(seq)
    /\ Answer(seq)
    /\ UNCHANGED <<status, batch, senderState, ends>>

Stop ==
    /\ PacketArrives(StopPacket)
    /\ receiving' = FALSE
    /\ UNCHANGED <<status, batch, senderState, receiverState, ackChannel, done, monitoring>>

-----------------------------------------------------------------------------
(* The monitor.  A round reads the record in one critical section; what it *)
(* prints are these functions of the state, and it changes nothing.        *)

SentUnacked == sent \ acked
AllowedUnsent == {seq \in Packet : nextSeq <= seq /\ seq < SendEnd}
AtLeastZero(n) == IF n < 0 THEN 0 ELSE n
AvailableWindow == AtLeastZero(SendEnd - sendBase - Cardinality(SentUnacked))
Buffered == {seq \in receiveBase..ReceiveEnd - 1 : seq \in received /\ seq \notin delivered}
NotifyWindow == AtLeastZero(ReceiveEnd - receiveBase - Cardinality(Buffered))

MonitorEnd ==
    /\ monitoring
    /\ done
    /\ monitoring' = FALSE
    /\ UNCHANGED <<status, batch, senderState, receiverState, dataChannel, ackChannel,
                   receiving, done>>

-----------------------------------------------------------------------------
SenderStep == Outer \/ Fill \/ SendPacket \/ TakeAck \/ NoAck \/ Collect \/ Finish

ReceiverStep ==
    \/ \E seq \in Packet : LosePacket(seq) \/ Drop(seq) \/ LoseAck(seq) \/ Receive(seq)
    \/ Stop

Next == SenderStep \/ ReceiverStep \/ MonitorEnd

Spec == Init /\ [][Next]_vars

(* The threads run; a packet that is sent again and again gets through     *)
(* with its ACK in the end (loss_probability < 1); one that stays without  *)
(* ACK times out in the end (each round of the loop lasts 80 ms or more).  *)
FairSpec ==
    /\ Spec
    /\ WF_vars(SenderStep) /\ WF_vars(ReceiverStep) /\ WF_vars(MonitorEnd)
    /\ \A seq \in Packet : /\ SF_vars(Receive(seq))
                           /\ SF_vars(Collect /\ seq \in batch')

-----------------------------------------------------------------------------
(* Properties.                                                             *)

(* Whatever is lost, late or sent again, and whichever window is larger,   *)
(* delivery is in order, the send base only passes what was delivered, and *)
(* the receiver never gets more than a send window ahead of it.            *)
ImplementsDelivery ==
    INSTANCE OrderedDelivery
        WITH Frames <- Total, Window <- SendWindow,
             output <- [i \in 1..receiveBase |-> i], confirmed <- sendBase
DeliversInOrder == ImplementsDelivery!Spec

(* The four vectors of the record, written by two threads: what is         *)
(* acknowledged was received, what was received was sent, an ACK on the    *)
(* way is of a packet received, delivery has no gap and each base is at    *)
(* the first packet not acknowledged or not received.                      *)
FlagsAgree ==
    /\ acked \subseteq received /\ received \subseteq sent
    /\ \A k \in 1..Len(ackChannel) : ackChannel[k] \in received
    /\ delivered = 0..receiveBase - 1
    /\ sendBase = FirstOutside(acked, 0)
    /\ receiveBase = FirstOutside(received, 0)

(* Neither window is overrun: what is buffered fits the receive window,    *)
(* also when the send window is the larger one, and what was taken to be   *)
(* sent fits the send window.                                              *)
WindowsHold ==
    /\ received \subseteq 0..ReceiveEnd - 1
    /\ sent \subseteq 0..SendEnd - 1
    /\ nextSeq <= SendEnd

(* All three threads end.                                                  *)
AllEnd == <>(status = "done" /\ ~receiving /\ ~monitoring)

(* main.cpp:337 and 343: the monitor prints what may be sent and is not    *)
(* sent yet, and the size of the available window; between two sendings    *)
(* they are the same.                                                      *)
AvailableIsAllowed == batch = {} => AvailableWindow = Cardinality(AllowedUnsent)
=============================================================================
