------------------------- MODULE DatagramTransfer -------------------------
(***************************************************************************)
(* Files cut into numbered datagrams: the multicast sender and receiver of *)
(* LAB14/16 and the UDP client and server of LAB14/17.  The programs       *)
(* differ in three places, which `program' selects: the multicast sender   *)
(* repeats the file, the multicast receiver compares the header of every   *)
(* datagram with the first one, and its exit code says whether a chunk is  *)
(* missing.                                                                *)
(*                                                                         *)
(* The network loses, delays, reorders and duplicates.  Nothing stops a    *)
(* second sender from using the group or the port.  The receiver's timeout *)
(* may pass whenever it listens, since datagrams may be delayed for longer. *)
(* A receiver that cannot write, or whose socket fails, ends with an error. *)
(* Datagrams of other protocols and of a wrong length are ignored by the   *)
(* receivers and are left out, and so are files that change while sent.    *)
(***************************************************************************)
EXTENDS Integers, FiniteSets

CONSTANTS Sender, Receiver,
          Total,      \* total_chunks of each sender's file
          Shape,      \* its chunk size and length
          Rounds,     \* rounds of the multicast sender
          Programs    \* a subset of {"multicast", "udp"}

Absent == "absent"

ASSUME TransferAssumption ==
    /\ Total \in [Sender -> Nat]
    /\ Rounds \in Nat \ {0}
    /\ Programs \subseteq {"multicast", "udp"}
    /\ Absent \notin Sender

VARIABLES program,
          sent,       \* datagrams that each sender has sent
          air,        \* datagrams on the way to each receiver
          mode,       \* where each receiver is
          header,     \* what its first datagram said of the file
          blocks,     \* received: whose chunk is in each place
          count,      \* received_chunks
          reached     \* history: the datagrams that recvfrom returned

network == <<sent, air>>
table == <<header, blocks, count>>
vars == <<program, network, mode, table, reached>>

Header(s) == [total |-> Total[s], shape |-> Shape[s]]
Unknown == [total |-> 0, shape |-> Absent]
Datagram == {d \in Sender \X Nat : d[2] < Total[d[1]]}

Init ==
    /\ program \in Programs
    /\ sent = [s \in Sender |-> 0]
    /\ air = [r \in Receiver |-> {}]
    /\ mode = [r \in Receiver |-> "off"]
    /\ header = [r \in Receiver |-> Unknown]
    /\ blocks = [r \in Receiver |-> <<>>]
    /\ count = [r \in Receiver |-> 0]
    /\ reached = [r \in Receiver |-> {}]

-----------------------------------------------------------------------------
(* Senders and the network.                                                *)

RoundsSent == IF program = "multicast" THEN Rounds ELSE 1

(* The next chunk, in the first or in a later round, to whoever listens.   *)
SendChunk(s) ==
    /\ sent[s] < RoundsSent * Total[s]
    /\ sent' = [sent EXCEPT ![s] = @ + 1]
    /\ LET datagram == <<s, sent[s] % Total[s]>>
       IN air' = [r \in Receiver |->
            IF mode[r] = "listening" THEN air[r] \cup {datagram} ELSE air[r]]
    /\ UNCHANGED <<program, mode, table, reached>>

Lose(r, d) ==
    /\ d \in air[r]
    /\ air' = [air EXCEPT ![r] = @ \ {d}]
    /\ UNCHANGED <<program, sent, mode, table, reached>>

(* recvfrom returns d; the network may deliver it once more.               *)
Arrives(r, d) ==
    /\ mode[r] = "listening"
    /\ d \in air[r]
    /\ \/ air' = [air EXCEPT ![r] = @ \ {d}]
       \/ UNCHANGED air
    /\ reached' = [reached EXCEPT ![r] = @ \cup {d}]
    /\ UNCHANGED <<program, sent>>

-----------------------------------------------------------------------------
(* Receivers.                                                              *)

Join(r) ==
    /\ mode[r] = "off"
    /\ mode' = [mode EXCEPT ![r] = "listening"]
    /\ UNCHANGED <<program, network, table, reached>>

(* received.empty()                                                        *)
First(r) == header[r].total = 0

Mutant_Foreign(r, d) ==
    /\ ~First(r)
    /\ program = "multicast"
    /\ d[2] >= header[r].total

(* Only the multicast receiver compares the three fields.                  *)
Foreign(r, d) ==
    /\ ~First(r)
    /\ program = "multicast"
    /\ Header(d[1]) # header[r]

(* received[seq] past the end of received.                                 *)
OutOfBounds(r, d) ==
    /\ ~First(r)
    /\ ~Foreign(r, d)
    /\ d[2] >= header[r].total

HeaderAfter(r, d) == IF First(r) THEN Header(d[1]) ELSE header[r]

BlocksBefore(r, d) ==
    IF First(r) THEN [b \in 0..Total[d[1]] - 1 |-> Absent] ELSE blocks[r]

Fits(r, d) == ~Foreign(r, d) /\ ~OutOfBounds(r, d)

Mutant_Store(r, d) ==
    /\ Arrives(r, d)
    /\ Fits(r, d)
    /\ BlocksBefore(r, d)[d[2]] = Absent
    /\ header' = [header EXCEPT ![r] = HeaderAfter(r, d)]
    /\ blocks' = [blocks EXCEPT ![r] =
                    IF First(r) THEN BlocksBefore(r, d)
                                ELSE [@ EXCEPT ![d[2]] = d[1]]]
    /\ count' = [count EXCEPT ![r] = @ + (IF First(r) THEN 0 ELSE 1)]
    /\ mode' = IF count'[r] = header'[r].total
                 THEN [mode EXCEPT ![r] = "ended"] ELSE mode

(* A chunk that is not there yet; the first one fixes the file.            *)
Store(r, d) ==
    /\ Arrives(r, d)
    /\ Fits(r, d)
    /\ BlocksBefore(r, d)[d[2]] = Absent
    /\ header' = [header EXCEPT ![r] = HeaderAfter(r, d)]
    /\ blocks' = [blocks EXCEPT ![r] =
                    [BlocksBefore(r, d) EXCEPT ![d[2]] = d[1]]]
    /\ count' = [count EXCEPT ![r] = @ + 1]
    /\ mode' = IF count'[r] = header'[r].total
                 THEN [mode EXCEPT ![r] = "ended"] ELSE mode

Repeated(r, d) == ~First(r) /\ Fits(r, d) /\ blocks[r][d[2]] # Absent

Mutant_Ignore(r, d) ==
    /\ Arrives(r, d)
    /\ Foreign(r, d) \/ Repeated(r, d)
    /\ count' = [count EXCEPT ![r] = IF Repeated(r, d) THEN @ + 1 ELSE @]
    /\ UNCHANGED <<mode, header, blocks>>

Ignore(r, d) ==
    /\ Arrives(r, d)
    /\ Foreign(r, d) \/ Repeated(r, d)
    /\ UNCHANGED <<mode, table>>

(* The read past the end of the table is undefined and so is all that      *)
(* follows.                                                                *)
Stray(r, d) ==
    /\ Arrives(r, d)
    /\ OutOfBounds(r, d)
    /\ mode' = [mode EXCEPT ![r] = "undefined"]
    /\ UNCHANGED table

(* ftruncate fails on the first datagram, or pwrite on this one, which may  *)
(* have written some of it: the place is not marked and the program ends.  *)
WriteFails(r, d) ==
    /\ Arrives(r, d)
    /\ Fits(r, d)
    /\ BlocksBefore(r, d)[d[2]] = Absent
    /\ header' = [header EXCEPT ![r] = HeaderAfter(r, d)]
    /\ blocks' = [blocks EXCEPT ![r] = BlocksBefore(r, d)]
    /\ mode' = [mode EXCEPT ![r] = "failed"]
    /\ UNCHANGED count

(* The socket or the output cannot be opened, or recvfrom fails.           *)
Fails(r) ==
    /\ mode[r] \in {"off", "listening"}
    /\ mode' = [mode EXCEPT ![r] = "failed"]
    /\ UNCHANGED <<program, network, table, reached>>

GiveUp(r) ==
    /\ mode[r] = "listening"
    /\ mode' = [mode EXCEPT ![r] = "ended"]
    /\ UNCHANGED <<program, network, table, reached>>

Missing(r) == header[r].total - count[r]

Mutant_ExitCode(r) ==
    IF mode[r] = "failed" THEN 1
    ELSE IF program = "multicast" /\ count[r] = 0 THEN 2 ELSE 0

(* The exit code of a receiver that has ended or failed.                   *)
ExitCode(r) ==
    IF mode[r] = "failed" THEN 1
    ELSE IF program = "multicast" /\ Missing(r) # 0 THEN 2 ELSE 0

Next ==
    \/ \E s \in Sender : SendChunk(s)
    \/ \E r \in Receiver :
        \/ Join(r)
        \/ GiveUp(r)
        \/ Fails(r)
        \/ \E d \in air[r] :
            \/ Lose(r, d) \/ Store(r, d) \/ WriteFails(r, d)
            \/ Ignore(r, d) \/ Stray(r, d)

Spec == Init /\ [][Next]_vars

-----------------------------------------------------------------------------
(* Properties.                                                             *)

(* Types; a table is as long as the header says.                           *)
TypeOK ==
    /\ program \in {"multicast", "udp"}
    /\ sent \in [Sender -> Nat]
    /\ \A s \in Sender : sent[s] <= RoundsSent * Total[s]
    /\ air \in [Receiver -> SUBSET Datagram]
    /\ reached \in [Receiver -> SUBSET Datagram]
    /\ mode \in [Receiver -> {"off", "listening", "ended", "failed", "undefined"}]
    /\ header \in [Receiver -> {Unknown} \cup {Header(s) : s \in Sender}]
    /\ count \in [Receiver -> Nat]
    /\ blocks = [r \in Receiver |-> blocks[r]]
    /\ \A r \in Receiver :
        /\ blocks[r] \in [0..header[r].total - 1 -> Sender \cup {Absent}]
        /\ count[r] <= header[r].total

Stored(r) == {b \in DOMAIN blocks[r] : blocks[r][b] # Absent}

(* The counter that decides when to stop, and that the last line reports,  *)
(* is the number of chunks stored, whatever came twice, and nobody who has *)
(* all of them waits for the timeout or fails.                             *)
Tally ==
    \A r \in Receiver :
        /\ count[r] = Cardinality(Stored(r))
        /\ mode[r] \in {"listening", "failed"} /\ ~First(r)
            => count[r] < header[r].total

(* No two senders have used the group or the port.                         *)
OneSender == \A s, t \in Sender : sent[s] > 0 /\ sent[t] > 0 => s = t

(* However many senders use one group, the output never mixes files that   *)
(* differ in number of chunks, chunk size or length; the UDP server can    *)
(* promise it while only one client has sent.                              *)
OneFile ==
    \A r \in Receiver :
        program = "multicast" \/ OneSender
        => /\ mode[r] # "undefined"
           /\ \A b \in Stored(r) : Header(blocks[r][b]) = header[r]

(* A chunk of the adopted file that recvfrom returned is not dropped by a  *)
(* receiver that has not failed: its place holds a chunk that was received *)
(* for it.  In the multicast receiver that one is of a file with the same  *)
(* header; while nobody else has sent it is the chunk itself.  (The UDP    *)
(* server takes a chunk of a second client for a repeated one if the first *)
(* client's is in its place, file_transfer.cpp:298.)                       *)
NothingDropped ==
    \A r \in Receiver : \A d \in reached[r] :
        mode[r] \in {"listening", "ended"} /\ Header(d[1]) = header[r]
            => LET kept == blocks[r][d[2]]
               IN /\ <<kept, d[2]>> \in reached[r]
                  /\ program = "multicast" => Header(kept) = header[r]
                  /\ OneSender => kept = d[1]

(* A multicast receiver that exits with 0 after the first datagram has     *)
(* every chunk, and one that exits with 2, or with 1 after an error, has   *)
(* not.                                                                    *)
ExitTellsTheTruth ==
    \A r \in Receiver :
        program = "multicast" /\ mode[r] \in {"ended", "failed"} /\ ~First(r)
        => (ExitCode(r) = 0) = (Absent \notin {blocks[r][b] : b \in DOMAIN blocks[r]})
=============================================================================
