---------------------------- MODULE StopAndWait ----------------------------
(***************************************************************************)
(* The stop-and-wait simulation of LAB11/13: a sender and a receiver       *)
(* thread, a data channel and an ACK channel (queues under a mutex), frames *)
(* and ACKs lost at random by the receiver, a one-bit sequence number.     *)
(*                                                                         *)
(* One action is one channel operation with the thread's own code up to    *)
(* the next one.  The receiver's pop and push are one action: only the     *)
(* receiver takes frames, so a frame that it took and has not yet answered *)
(* is as good as one still at the head of the queue.  The ACK timeout may  *)
(* pass whenever no ACK is there, also while the frame or its ACK is still *)
(* on the way.  The receiver's own timeout only makes it wait again.       *)
(***************************************************************************)
EXTENDS Integers, Sequences

CONSTANTS FrameCount,   \* options.frame_count
          MaxCopies     \* bound: frames in the data channel at a new attempt

ASSUME WaitAssumption ==
    /\ FrameCount \in Nat \ {0}
    /\ MaxCopies \in Nat \ {0}

VARIABLES status,        \* what the sender does next
          frameId,       \* frame_id
          nextSeq,       \* next_seq
          dataChannel,   \* data_channel: frames and the stop frame
          ackChannel,    \* ack_channel
          expectedSeq,   \* expected_seq
          delivered,     \* the ids delivered to the host, in order
          receiving      \* the receiver's loop has not been left

sender == <<status, frameId, nextSeq>>
receiver == <<expectedSeq, delivered, receiving>>
vars == <<sender, dataChannel, ackChannel, receiver>>

Bit == {0, 1}
Frame == [id : 1..FrameCount, seq : Bit, stop : {FALSE}]
StopFrame == [id |-> 0, seq |-> 0, stop |-> TRUE]
Ack == [frame_id : 1..FrameCount, seq : Bit]

TypeOK ==
    /\ status \in {"send", "wait", "finish", "done"}
    /\ frameId \in 1..FrameCount
    /\ nextSeq \in Bit
    /\ dataChannel \in Seq(Frame \cup {StopFrame})
    /\ ackChannel \in Seq(Ack)
    /\ expectedSeq \in Bit
    /\ delivered \in Seq(1..FrameCount)
    /\ receiving \in BOOLEAN

Init ==
    /\ status = "send"
    /\ frameId = 1
    /\ nextSeq = 0
    /\ dataChannel = <<>>
    /\ ackChannel = <<>>
    /\ expectedSeq = 0
    /\ delivered = <<>>
    /\ receiving = TRUE

Flip(bit) == 1 - bit

-----------------------------------------------------------------------------
(* The sender.                                                             *)

(* An attempt.  Nothing in the code limits the data channel; MaxCopies     *)
(* keeps a sender that times out again and again from filling it.          *)
Send ==
    /\ status = "send"
    /\ Len(dataChannel) < MaxCopies
    /\ dataChannel' =
        Append(dataChannel, [id |-> frameId, seq |-> nextSeq, stop |-> FALSE])
    /\ status' = "wait"
    /\ UNCHANGED <<frameId, nextSeq, ackChannel, receiver>>

Timeout ==
    /\ status = "wait"
    /\ ackChannel = <<>>
    /\ status' = "send"
    /\ UNCHANGED <<frameId, nextSeq, dataChannel, ackChannel, receiver>>

Mutant_Acknowledges(ack) == ack.frame_id <= frameId

Acknowledges(ack) == ack.frame_id = frameId /\ ack.seq = nextSeq

(* The frame is acknowledged: on to the next one, or to the stop frame.    *)
NextFrame ==
    /\ nextSeq' = Flip(nextSeq)
    /\ IF frameId < FrameCount
       THEN frameId' = frameId + 1 /\ status' = "send"
       ELSE status' = "finish" /\ UNCHANGED frameId

(* An ACK of another frame ends the wait too: the loop sends again.        *)
TakeAck ==
    /\ status = "wait"
    /\ ackChannel # <<>>
    /\ ackChannel' = Tail(ackChannel)
    /\ IF Acknowledges(Head(ackChannel))
       THEN NextFrame
       ELSE status' = "send" /\ UNCHANGED <<frameId, nextSeq>>
    /\ UNCHANGED <<dataChannel, receiver>>

Finish ==
    /\ status = "finish"
    /\ dataChannel' = Append(dataChannel, StopFrame)
    /\ status' = "done"
    /\ UNCHANGED <<frameId, nextSeq, ackChannel, receiver>>

-----------------------------------------------------------------------------
(* The receiver.  It draws first whether the frame is lost and later       *)
(* whether its ACK is; the stop frame is never lost.                       *)

FrameArrives ==
    /\ receiving
    /\ dataChannel # <<>>
    /\ ~Head(dataChannel).stop
    /\ dataChannel' = Tail(dataChannel)

LoseFrame ==
    /\ FrameArrives
    /\ UNCHANGED <<sender, ackChannel, receiver>>

Mutant_Accept(frame) ==
    /\ UNCHANGED receiving
    /\ IF frame.seq = expectedSeq
       THEN delivered' = Append(delivered, frame.id) /\ UNCHANGED expectedSeq
       ELSE UNCHANGED <<delivered, expectedSeq>>

Accept(frame) ==
    /\ UNCHANGED receiving
    /\ IF frame.seq = expectedSeq
       THEN /\ delivered' = Append(delivered, frame.id)
            /\ expectedSeq' = Flip(expectedSeq)
       ELSE UNCHANGED <<delivered, expectedSeq>>

LoseAck ==
    /\ FrameArrives
    /\ Accept(Head(dataChannel))
    /\ UNCHANGED <<sender, ackChannel>>

Mutant_Answer(frame) ==
    ackChannel' = IF frame.seq = expectedSeq
                  THEN Append(ackChannel, [frame_id |-> frame.id, seq |-> frame.seq])
                  ELSE ackChannel

(* New frame or duplicate, it is acknowledged.                             *)
Answer(frame) ==
    ackChannel' = Append(ackChannel, [frame_id |-> frame.id, seq |-> frame.seq])

Receive ==
    /\ FrameArrives
    /\ Accept(Head(dataChannel))
    /\ Answer(Head(dataChannel))
    /\ UNCHANGED sender

Stop ==
    /\ receiving
    /\ dataChannel # <<>>
    /\ Head(dataChannel).stop
    /\ dataChannel' = Tail(dataChannel)
    /\ receiving' = FALSE
    /\ UNCHANGED <<sender, ackChannel, expectedSeq, delivered>>

-----------------------------------------------------------------------------
SenderStep == Send \/ Timeout \/ TakeAck \/ Finish
ReceiverStep == LoseFrame \/ LoseAck \/ Receive \/ Stop

Next == SenderStep \/ ReceiverStep

Spec == Init /\ [][Next]_vars

(* Both threads run, and loss_probability < 1: a frame that is tried again *)
(* and again gets through with its ACK in the end.                         *)
FairSpec ==
    /\ Spec
    /\ WF_vars(SenderStep)
    /\ WF_vars(ReceiverStep)
    /\ SF_vars(Receive)

-----------------------------------------------------------------------------
(* Properties.                                                             *)

(* How many frames the sender knows to be received.                        *)
Confirmed == IF status \in {"finish", "done"} THEN FrameCount ELSE frameId - 1

(* Lost and late frames and ACKs, retransmissions and stale ACKs           *)
(* notwithstanding, frames are delivered once and in order, and the sender *)
(* goes on to the next one only when the one before is delivered.          *)
ImplementsDelivery ==
    INSTANCE OrderedDelivery
        WITH Frames <- FrameCount, Window <- 1,
             output <- delivered, confirmed <- Confirmed
DeliversInOrder == ImplementsDelivery!Spec

(* One bit is enough: of all the frames still in the channel, late copies  *)
(* included, exactly those that the receiver has not had carry the bit it  *)
(* expects.                                                                *)
BitTellsNew ==
    \A k \in 1..Len(dataChannel) :
        LET frame == dataChannel[k] IN
        ~frame.stop =>
            (frame.seq = expectedSeq <=> frame.id = Len(delivered) + 1)

(* The stop frame overtakes nothing: when the receiver leaves its loop,    *)
(* every frame was delivered and none is left in the channel.              *)
StopsAfterAll ==
    ~receiving => Len(delivered) = FrameCount /\ dataChannel = <<>>

(* Both threads end, so main's joins return.                               *)
BothEnd == <>(status = "done" /\ ~receiving)
=============================================================================
