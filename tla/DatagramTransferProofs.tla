---------------------- MODULE DatagramTransferProofs ----------------------
(***************************************************************************)
(* Proofs about DatagramTransfer, for all senders, receivers, files and    *)
(* numbers of rounds.  The network is arbitrary: a datagram may be lost,   *)
(* delayed, reordered or delivered again.                                  *)
(*                                                                         *)
(* OneFile is not inductive: for the UDP server it rests on where every    *)
(* datagram, header and chunk came from (Origins), and for both programs   *)
(* on a header being unknown only while nothing has been received.         *)
(***************************************************************************)
EXTENDS DatagramTransfer, FiniteSetTheorems, TLAPS

USE TransferAssumption DEF TransferAssumption

Headers == {Unknown} \cup {Header(s) : s \in Sender}
Full(bs) == {b \in DOMAIN bs : bs[b] # Absent}
Places(h) == 0..h.total - 1
Tables(h) == [Places(h) -> Sender \cup {Absent}]

(* What every receiver knows came from a sender that has sent something.   *)
Origins ==
    \A r \in Receiver :
        /\ \A d \in air[r] \cup reached[r] : sent[d[1]] > 0
        /\ header[r].total = 0 => header[r] = Unknown /\ reached[r] = {}
        /\ header[r] # Unknown =>
            \E s \in Sender : sent[s] > 0 /\ header[r] = Header(s)
        /\ \A b \in Stored(r) :
            /\ sent[blocks[r][b]] > 0
            /\ program = "multicast" => Header(blocks[r][b]) = header[r]
        /\ mode[r] = "undefined" => program = "udp" /\ ~OneSender
        /\ mode[r] = "off" => header[r] = Unknown

Running(r) == mode[r] # "undefined" /\ mode[r] # "failed"

(* The place of every datagram of the adopted file that arrived is filled, *)
(* with one that arrived for it.                                           *)
Filled ==
    \A r \in Receiver : \A d \in reached[r] :
        Running(r) /\ Header(d[1]) = header[r] => d[2] \in Stored(r)
CameFor ==
    \A r \in Receiver : \A b \in Stored(r) : <<blocks[r][b], b>> \in reached[r]

IInv == TypeOK /\ Tally /\ Filled /\ CameFor /\ Origins

-----------------------------------------------------------------------------
(* Lengths are numbers.                                                    *)
LEMMA HeaderTotal ==
    /\ Unknown.total = 0
    /\ \A s \in Sender : Header(s).total = Total[s] /\ Total[s] \in Nat
    /\ \A h \in Headers : h.total \in Nat
  BY DEF Headers, Header, Unknown

(* A set of places is finite and not larger than the file.                 *)
LEMMA PlacesFinite ==
    ASSUME NEW n \in Nat, NEW S \in SUBSET (0..n - 1)
    PROVE  /\ IsFiniteSet(S)
           /\ Cardinality(S) \in 0..n
           /\ Cardinality(S) = n => S = 0..n - 1
  <1>1. IsFiniteSet(0..n - 1) /\ Cardinality(0..n - 1) = n
    BY FS_Interval
  <1> HIDE DEF TransferAssumption
  <1>2. /\ IsFiniteSet(S)
        /\ Cardinality(S) <= n
        /\ n = Cardinality(S) => 0..n - 1 = S
    BY <1>1, FS_Subset
  <1>3. Cardinality(S) \in Nat
    BY <1>2, FS_CardinalityType
  <1> QED
    BY <1>2, <1>3

(* A chunk in an empty place.                                              *)
LEMMA OneMore ==
    ASSUME NEW n \in Nat, NEW bs \in [0..n - 1 -> Sender \cup {Absent}],
           NEW b \in 0..n - 1, bs[b] = Absent, NEW s \in Sender
    PROVE  LET new == [bs EXCEPT ![b] = s]
           IN /\ new \in [0..n - 1 -> Sender \cup {Absent}]
              /\ Full(new) = Full(bs) \cup {b}
              /\ Cardinality(Full(new)) = Cardinality(Full(bs)) + 1
              /\ Cardinality(Full(new)) \in 0..n
  <1> DEFINE new == [bs EXCEPT ![b] = s]
  <1>1. new \in [0..n - 1 -> Sender \cup {Absent}]
    OBVIOUS
  <1>2. Full(new) = Full(bs) \cup {b} /\ b \notin Full(bs)
    BY DEF Full
  <1>3. Full(bs) \in SUBSET (0..n - 1) /\ Full(new) \in SUBSET (0..n - 1)
    BY <1>1 DEF Full
  <1>4. IsFiniteSet(Full(bs))
    BY <1>3, PlacesFinite
  <1>5. Cardinality(Full(new)) = Cardinality(Full(bs)) + 1
    BY <1>2, <1>4, FS_AddElement
  <1>6. Cardinality(Full(new)) \in 0..n
    BY <1>3, PlacesFinite
  <1> QED
    BY <1>1, <1>2, <1>5, <1>6

(* An empty table is the function with no place.                           *)
LEMMA NoPlaces ==
    ASSUME NEW bs \in [0..(0 - 1) -> Sender \cup {Absent}]
    PROVE  Full(bs) = {}
  BY DEF Full

LEMMA InitIInv == Init => IInv
  <1> SUFFICES ASSUME Init PROVE IInv
    OBVIOUS
  <1>1. \A r \in Receiver : header[r] = Unknown /\ header[r].total = 0
    BY HeaderTotal DEF Init
  <1>2. \A r \in Receiver : blocks[r] = <<>>
    BY DEF Init
  <1>3. <<>> \in [0..(0 - 1) -> Sender \cup {Absent}]
    OBVIOUS
  <1>4. \A r \in Receiver : Stored(r) = {}
    BY <1>2 DEF Stored
  <1>5. TypeOK
    <2>1. \A s \in Sender : sent[s] <= RoundsSent * Total[s]
      <3> SUFFICES ASSUME NEW s \in Sender PROVE sent[s] <= RoundsSent * Total[s]
        OBVIOUS
      <3>1. sent[s] = 0 /\ RoundsSent \in Nat /\ Total[s] \in Nat
        BY DEF Init, RoundsSent
      <3>2. \A x, y \in Nat : 0 <= x * y
        OBVIOUS
      <3> QED
        BY <3>1, <3>2
    <2>2. blocks = [r \in Receiver |-> blocks[r]]
      BY DEF Init
    <2> QED
      BY <2>1, <2>2, <1>1, <1>2, <1>3 DEF Init, TypeOK
  <1>6. Tally
    BY <1>1, <1>4, FS_EmptySet DEF Init, Tally, First
  <1>7. Filled /\ CameFor
    BY <1>4 DEF Init, Filled, CameFor
  <1>8. Origins
    BY <1>1, <1>4 DEF Init, Origins
  <1> QED
    BY <1>5, <1>6, <1>7, <1>8 DEF IInv

-----------------------------------------------------------------------------
(* The senders that have sent stay so.                                     *)
LEMMA SendKeepsIInv ==
    ASSUME IInv, NEW s \in Sender, SendChunk(s)
    PROVE  IInv'
  <1> DEFINE chunk == <<s, sent[s] % Total[s]>>
  <1>1. Total[s] \in Nat /\ sent[s] \in Nat /\ RoundsSent \in Nat
    BY DEF IInv, TypeOK, RoundsSent
  <1>2. Total[s] > 0
    <2>1. sent[s] < RoundsSent * Total[s]
      BY DEF SendChunk
    <2>2. Total[s] = 0 => RoundsSent * Total[s] = 0
      BY <1>1
    <2> QED
      BY <2>1, <2>2, <1>1
  <1>3. chunk \in Datagram
    <2>1. sent[s] % Total[s] \in 0..Total[s] - 1
      BY <1>1, <1>2
    <2> QED
      BY <2>1, <1>1 DEF Datagram
  <1>4. \A t \in Sender : sent[t] > 0 => sent'[t] > 0
    BY <1>1 DEF SendChunk, IInv, TypeOK
  <1>5. sent'[s] > 0
    BY <1>1 DEF SendChunk, IInv, TypeOK
  <1>6. \A r \in Receiver : air'[r] \subseteq air[r] \cup {chunk}
    BY DEF SendChunk
  <1>7. TypeOK'
    <2>1. /\ sent' \in [Sender -> Nat]
          /\ \A t \in Sender : sent'[t] <= RoundsSent * Total[t]
      <3>1. \A t \in Sender : RoundsSent * Total[t] \in Int
        BY <1>1
      <3>2. sent[s] + 1 <= RoundsSent * Total[s]
        <4>1. RoundsSent * Total[s] \in Int /\ sent[s] < RoundsSent * Total[s]
          BY <3>1 DEF SendChunk
        <4> QED
          BY <4>1, <1>1
      <3> QED
        BY <3>2 DEF SendChunk, IInv, TypeOK
    <2>2. air' \in [Receiver -> SUBSET Datagram]
      BY <1>3 DEF SendChunk, IInv, TypeOK
    <2>3. RoundsSent' = RoundsSent
      BY DEF SendChunk, RoundsSent
    <2> QED
      BY <2>1, <2>2, <2>3 DEF SendChunk, IInv, TypeOK, table
  <1>8. Tally'
    BY DEF SendChunk, IInv, Tally, Stored, First, table
  <1>9. Filled' /\ CameFor'
    BY DEF SendChunk, IInv, Filled, CameFor, Running, Header, Stored, table
  <1>10. Origins'
    <2> SUFFICES ASSUME NEW r \in Receiver
                 PROVE  /\ \A d \in air'[r] \cup reached'[r] : sent'[d[1]] > 0
                        /\ header'[r].total = 0
                             => header'[r] = Unknown /\ reached'[r] = {}
                        /\ header'[r] # Unknown =>
                             \E t \in Sender : sent'[t] > 0 /\ header'[r] = Header(t)
                        /\ \A b \in Stored(r)' :
                             /\ sent'[blocks'[r][b]] > 0
                             /\ program' = "multicast"
                                  => Header(blocks'[r][b]) = header'[r]
                        /\ mode'[r] = "undefined" => program' = "udp" /\ ~OneSender'
                        /\ mode'[r] = "off" => header'[r] = Unknown
      BY DEF Origins
    <2>1. UNCHANGED <<header, blocks, reached, mode, program>>
      BY DEF SendChunk, table
    <2>2. \A d \in air'[r] \cup reached'[r] : sent'[d[1]] > 0
      <3>1. \A d \in air[r] \cup reached[r] : d[1] \in Sender /\ sent[d[1]] > 0
        BY DEF IInv, TypeOK, Origins, Datagram
      <3> QED
        BY <2>1, <3>1, <1>4, <1>5, <1>6
    <2>3. \A b \in Stored(r)' : blocks[r][b] \in Sender /\ b \in Stored(r)
      <3>1. Stored(r)' = Stored(r)
        BY <2>1 DEF Stored
      <3>2. blocks[r] \in [0..header[r].total - 1 -> Sender \cup {Absent}]
        BY DEF IInv, TypeOK
      <3>3. \A b \in Stored(r) : blocks[r][b] \in Sender
        BY <3>2 DEF Stored
      <3> QED
        BY <3>1, <3>3
    <2>4. ~OneSender => ~OneSender'
      BY <1>4 DEF OneSender
    <2> QED
      BY <2>1, <2>2, <2>3, <2>4, <1>4 DEF IInv, Origins
  <1> QED
    BY <1>7, <1>8, <1>9, <1>10 DEF IInv

(* A datagram that is lost, a receiver that joins, gives up or fails: the  *)
(* table stays.                                                            *)
LEMMA QuietKeepsIInv ==
    ASSUME IInv, NEW r \in Receiver,
           Join(r) \/ GiveUp(r) \/ Fails(r) \/ (\E d \in air[r] : Lose(r, d))
    PROVE  IInv'
  <1>1. UNCHANGED <<program, sent, table, reached>>
    BY DEF Join, GiveUp, Fails, Lose, network
  <1>2. /\ air' \in [Receiver -> SUBSET Datagram]
        /\ \A q \in Receiver : air'[q] \subseteq air[q]
    <2>1. air \in [Receiver -> SUBSET Datagram]
      BY DEF IInv, TypeOK
    <2>2. CASE UNCHANGED air
      BY <2>1, <2>2
    <2>3. CASE \E d \in air[r] : Lose(r, d)
      <3>1. PICK d \in air[r] : Lose(r, d)
        BY <2>3
      <3>2. air' = [air EXCEPT ![r] = air[r] \ {d}]
        BY <3>1 DEF Lose
      <3> HIDE DEF Datagram
      <3>3. air[r] \ {d} \in SUBSET Datagram
        BY <2>1
      <3> QED
        BY <2>1, <3>2, <3>3
    <2> QED
      BY <2>2, <2>3 DEF Join, GiveUp, Fails, network
  <1>3. /\ mode' \in [Receiver -> {"off", "listening", "ended", "failed", "undefined"}]
        /\ \A q \in Receiver :
             /\ mode'[q] = "undefined" => mode[q] = "undefined"
             /\ mode'[q] = "listening" => mode[q] \in {"off", "listening"}
             /\ mode'[q] = "failed" => mode[q] \in {"off", "listening", "failed"}
             /\ mode'[q] = "off" => mode[q] = "off"
             /\ Running(q)' => Running(q)
    BY DEF Join, GiveUp, Fails, Lose, IInv, TypeOK, Running
  <1>4. TypeOK'
    BY <1>1, <1>2, <1>3 DEF IInv, TypeOK, RoundsSent, table
  <1>5. Tally'
    <2>1. \A q \in Receiver : mode[q] = "off" => First(q)
      BY HeaderTotal DEF IInv, Origins, First
    <2> QED
      BY <1>1, <1>3, <2>1 DEF IInv, Tally, Stored, First, table
  <1>6. Filled' /\ CameFor'
    BY <1>1, <1>3 DEF IInv, Filled, CameFor, table, Stored, Header
  <1>7. Origins'
    <2>1. /\ OneSender' = OneSender
          /\ \A q \in Receiver : Stored(q)' = Stored(q)
      BY <1>1 DEF OneSender, Stored, table
    <2> QED
      BY <1>1, <1>2, <1>3, <2>1 DEF IInv, Origins, table, Header
  <1> QED
    BY <1>4, <1>5, <1>6, <1>7 DEF IInv

(* What an arrival does to the network, whatever the receiver makes of it. *)
LEMMA Arrival ==
    ASSUME IInv, NEW r \in Receiver, NEW d \in air[r], Arrives(r, d)
    PROVE  /\ d[1] \in Sender /\ d[2] \in 0..Total[d[1]] - 1
           /\ sent[d[1]] > 0
           /\ mode[r] = "listening"
           /\ air' \in [Receiver -> SUBSET Datagram]
           /\ reached' \in [Receiver -> SUBSET Datagram]
           /\ \A q \in Receiver : air'[q] \subseteq air[q]
           /\ reached'[r] = reached[r] \cup {d}
           /\ \A q \in Receiver \ {r} : reached'[q] = reached[q]
  <1>1. /\ air \in [Receiver -> SUBSET Datagram]
        /\ reached \in [Receiver -> SUBSET Datagram]
        /\ d \in Datagram
    BY DEF IInv, TypeOK
  <1>2. d[1] \in Sender /\ d[2] \in 0..Total[d[1]] - 1
    BY <1>1 DEF Datagram
  <1>3. sent[d[1]] > 0
    BY DEF IInv, Origins
  <1> HIDE DEF Datagram
  <1>4. /\ air' \in [Receiver -> SUBSET Datagram]
        /\ \A q \in Receiver : air'[q] \subseteq air[q]
    <2>1. CASE UNCHANGED air
      BY <1>1, <2>1
    <2>2. CASE air' = [air EXCEPT ![r] = @ \ {d}]
      <3>1. air[r] \ {d} \in SUBSET Datagram
        BY <1>1
      <3> QED
        BY <1>1, <2>2, <3>1
    <2> QED
      BY <2>1, <2>2 DEF Arrives
  <1>5. /\ reached' \in [Receiver -> SUBSET Datagram]
        /\ reached'[r] = reached[r] \cup {d}
        /\ \A q \in Receiver \ {r} : reached'[q] = reached[q]
    <2>1. reached' = [reached EXCEPT ![r] = reached[r] \cup {d}]
      BY DEF Arrives
    <2>2. reached[r] \cup {d} \in SUBSET Datagram
      BY <1>1
    <2> QED
      BY <1>1, <2>1, <2>2
  <1> QED
    BY <1>2, <1>3, <1>4, <1>5 DEF Arrives

(* A datagram that is ignored was of another file, or its chunk is there.  *)
LEMMA IgnoreKeepsIInv ==
    ASSUME IInv, NEW r \in Receiver, NEW d \in air[r], Ignore(r, d)
    PROVE  IInv'
  <1>1. Arrives(r, d) /\ UNCHANGED <<program, sent, mode, header, blocks, count>>
    BY DEF Ignore, Arrives, table
  <1>2. ~First(r)
    BY DEF Ignore, Foreign, Repeated
  <1>3. /\ OneSender' = OneSender /\ RoundsSent' = RoundsSent
        /\ \A q \in Receiver : Stored(q)' = Stored(q) /\ First(q)' = First(q)
    BY <1>1 DEF OneSender, RoundsSent, Stored, First
  <1>4. TypeOK'
    BY <1>1, <1>3, Arrival DEF IInv, TypeOK
  <1>5. Tally'
    BY <1>1, <1>3 DEF IInv, Tally
  <1>6. Filled' /\ CameFor'
    <2>1. Header(d[1]) = header[r] => d[2] \in Stored(r)
      <3>1. Repeated(r, d) => d[2] \in Stored(r)
        <4>1. d[2] \in 0..Total[d[1]] - 1
          BY <1>1, Arrival
        <4>2. blocks[r] \in Tables(header[r]) /\ header[r].total \in Nat
          BY HeaderTotal DEF IInv, TypeOK, Tables, Places, Headers
        <4> QED
          BY <4>1, <4>2 DEF Repeated, Fits, OutOfBounds, Tables, Places, Stored
      <3> QED
        BY <3>1 DEF Ignore, Foreign
    <2> QED
      BY <1>1, <1>3, <2>1, Arrival DEF IInv, Filled, CameFor, Running, Header
  <1>7. Origins'
    <2> SUFFICES ASSUME NEW q \in Receiver
                 PROVE  /\ \A e \in air'[q] \cup reached'[q] : sent[e[1]] > 0
                        /\ header[q].total = 0
                             => header[q] = Unknown /\ reached'[q] = {}
                        /\ header[q] # Unknown =>
                             \E t \in Sender : sent[t] > 0 /\ header[q] = Header(t)
                        /\ \A b \in Stored(q) :
                             /\ sent[blocks[q][b]] > 0
                             /\ program = "multicast"
                                  => Header(blocks[q][b]) = header[q]
                        /\ mode'[q] = "undefined" => program = "udp" /\ ~OneSender
                        /\ mode'[q] = "off" => header[q] = Unknown
      BY <1>1, <1>3 DEF Origins, Header
    <2>1. \A e \in air'[q] \cup reached'[q] : sent[e[1]] > 0
      BY <1>1, Arrival DEF IInv, Origins
    <2>2. header[q].total = 0 => q # r
      BY <1>2 DEF First
    <2>3. q # r => reached'[q] = reached[q]
      BY <1>1, Arrival
    <2> QED
      BY <1>1, <2>1, <2>2, <2>3 DEF IInv, Origins
  <1> QED
    BY <1>4, <1>5, <1>6, <1>7 DEF IInv

(* Past the end of the table: the datagram is longer numbered than the     *)
(* adopted file, so that another sender has sent that one.                 *)
LEMMA StrayKeepsIInv ==
    ASSUME IInv, NEW r \in Receiver, NEW d \in air[r], Stray(r, d)
    PROVE  IInv'
  <1>1. Arrives(r, d) /\ UNCHANGED <<program, sent, header, blocks, count>>
    BY DEF Stray, Arrives, table
  <1>2. ~First(r) /\ ~Foreign(r, d) /\ d[2] >= header[r].total
    BY DEF Stray, OutOfBounds
  <1>3. mode' = [mode EXCEPT ![r] = "undefined"]
    BY DEF Stray
  <1>4. /\ OneSender' = OneSender /\ RoundsSent' = RoundsSent
        /\ \A q \in Receiver : Stored(q)' = Stored(q) /\ First(q)' = First(q)
    BY <1>1 DEF OneSender, RoundsSent, Stored, First
  <1>5. TypeOK'
    <2>1. mode' \in [Receiver -> {"off", "listening", "ended", "failed", "undefined"}]
      BY <1>3 DEF IInv, TypeOK
    <2> QED
      BY <1>1, <1>4, <2>1, Arrival DEF IInv, TypeOK
  <1>6. Tally'
    BY <1>1, <1>3, <1>4 DEF IInv, TypeOK, Tally
  <1>7. Filled' /\ CameFor'
    <2>1. ~Running(r)' /\ \A q \in Receiver \ {r} : Running(q)' = Running(q)
      BY <1>3 DEF IInv, TypeOK, Running
    <2>2. Filled'
      BY <1>1, <1>4, <2>1, Arrival DEF IInv, Filled, Header
    <2>3. CameFor'
      <3> SUFFICES ASSUME NEW q \in Receiver, NEW b \in Stored(q)
                   PROVE  <<blocks[q][b], b>> \in reached'[q]
        BY <1>1, <1>4 DEF CameFor
      <3>1. <<blocks[q][b], b>> \in reached[q]
        BY DEF IInv, CameFor
      <3> QED
        BY <1>1, <3>1, Arrival
    <2> QED
      BY <2>2, <2>3
  <1>8. program = "udp" /\ ~OneSender
    <2>1. PICK s \in Sender : sent[s] > 0 /\ header[r] = Header(s)
      BY <1>2, HeaderTotal DEF IInv, Origins, First
    <2>2. Header(d[1]) # header[r]
      BY <1>1, <1>2, Arrival, HeaderTotal
    <2>3. s # d[1]
      BY <2>1, <2>2
    <2> QED
      BY <1>1, <1>2, <2>1, <2>2, <2>3, Arrival
      DEF Foreign, OneSender, IInv, TypeOK
  <1>9. Origins'
    <2> SUFFICES ASSUME NEW q \in Receiver
                 PROVE  /\ \A e \in air'[q] \cup reached'[q] : sent[e[1]] > 0
                        /\ header[q].total = 0
                             => header[q] = Unknown /\ reached'[q] = {}
                        /\ header[q] # Unknown =>
                             \E t \in Sender : sent[t] > 0 /\ header[q] = Header(t)
                        /\ \A b \in Stored(q) :
                             /\ sent[blocks[q][b]] > 0
                             /\ program = "multicast"
                                  => Header(blocks[q][b]) = header[q]
                        /\ mode'[q] = "undefined" => program = "udp" /\ ~OneSender
                        /\ mode'[q] = "off" => header[q] = Unknown
      BY <1>1, <1>4 DEF Origins, Header
    <2>1. \A e \in air'[q] \cup reached'[q] : sent[e[1]] > 0
      BY <1>1, Arrival DEF IInv, Origins
    <2>2. header[q].total = 0 => q # r
      BY <1>2 DEF First
    <2>3. q # r => reached'[q] = reached[q] /\ mode'[q] = mode[q]
      BY <1>1, <1>3, Arrival DEF IInv, TypeOK
    <2>4. q = r => mode'[q] = "undefined"
      BY <1>3 DEF IInv, TypeOK
    <2> QED
      BY <1>8, <2>1, <2>2, <2>3, <2>4 DEF IInv, Origins
  <1> QED
    BY <1>5, <1>6, <1>7, <1>9 DEF IInv

(* The header and the table that a chunk meets, which the first one makes. *)
LEMMA Before ==
    ASSUME IInv, NEW r \in Receiver, NEW d \in air[r], Arrives(r, d), Fits(r, d)
    PROVE  LET h == HeaderAfter(r, d)
               old == BlocksBefore(r, d)
           IN /\ h \in Headers /\ h.total \in Nat /\ d[2] \in 0..h.total - 1
              /\ h # Unknown /\ h.total # 0
              /\ \E s \in Sender : sent[s] > 0 /\ h = Header(s)
              /\ old \in [0..h.total - 1 -> Sender \cup {Absent}]
              /\ Full(old) = Stored(r)
              /\ \A b \in Full(old) : /\ ~First(r) /\ h = header[r]
                                     /\ old[b] = blocks[r][b]
  <1> DEFINE h == HeaderAfter(r, d)
             old == BlocksBefore(r, d)
             n == h.total
  <1>3. d[1] \in Sender /\ d[2] \in 0..Total[d[1]] - 1 /\ sent[d[1]] > 0
    BY Arrival
  <1>4. header[r] \in Headers /\ blocks[r] \in Tables(header[r]) /\ count[r] \in Nat
    BY DEF IInv, TypeOK, Headers, Tables, Places
  <1>5. h \in Headers /\ n \in Nat /\ d[2] \in 0..n - 1
    <2>1. CASE First(r)
      BY <1>3, <2>1, HeaderTotal DEF HeaderAfter, Headers
    <2>2. CASE ~First(r)
      BY <1>3, <1>4, <2>2, HeaderTotal DEF HeaderAfter, Fits, OutOfBounds
    <2> QED
      BY <2>1, <2>2
  <1>6. old \in [0..n - 1 -> Sender \cup {Absent}] /\ Full(old) = Stored(r)
    <2>1. CASE First(r)
      <3>1. n = Total[d[1]] /\ old = [b \in 0..Total[d[1]] - 1 |-> Absent]
        BY <1>3, <2>1, HeaderTotal DEF HeaderAfter, BlocksBefore
      <3>2. Full(old) = {}
        BY <3>1 DEF Full
      <3>3. Stored(r) = {}
        <4>1. blocks[r] \in [0..(0 - 1) -> Sender \cup {Absent}]
          BY <1>4, <2>1 DEF First, Tables, Places
        <4> QED
          BY <4>1 DEF Stored
      <3> QED
        BY <3>1, <3>2, <3>3
    <2>2. CASE ~First(r)
      BY <1>4, <2>2 DEF HeaderAfter, BlocksBefore, Tables, Places, Full, Stored
    <2> QED
      BY <2>1, <2>2
  <1> HIDE DEF h, old, n
  <1>7. /\ h # Unknown /\ n # 0
        /\ \E s \in Sender : sent[s] > 0 /\ h = Header(s)
    <2>1. n # 0
      BY <1>5
    <2>2. h # Unknown
      BY <2>1, HeaderTotal DEF n
    <2>3. CASE First(r)
      BY <1>3, <2>1, <2>2, <2>3 DEF HeaderAfter, h
    <2>4. CASE ~First(r)
      BY <2>1, <2>2, <2>4 DEF HeaderAfter, h, IInv, Origins
    <2> QED
      BY <2>3, <2>4
  <1>8. \A b \in Full(old) : ~First(r) /\ h = header[r] /\ old[b] = blocks[r][b]
    <2>1. Stored(r) # {} => ~First(r)
      BY <1>4, NoPlaces DEF First, Tables, Places, Stored, Full
    <2>2. ~First(r) => old = blocks[r] /\ h = header[r]
      BY DEF old, h, BlocksBefore, HeaderAfter
    <2> QED
      BY <1>6, <2>1, <2>2
  <1> QED
    BY <1>5, <1>6, <1>7, <1>8 DEF h, old, n

(* A chunk that is stored was not there before, and the table was made for *)
(* its file.                                                               *)
LEMMA StoreKeepsIInv ==
    ASSUME IInv, NEW r \in Receiver, NEW d \in air[r], Store(r, d)
    PROVE  IInv'
  <1> DEFINE h == HeaderAfter(r, d)
             old == BlocksBefore(r, d)
             new == [old EXCEPT ![d[2]] = d[1]]
             n == h.total
  <1>1. Arrives(r, d) /\ UNCHANGED <<program, sent>>
    BY DEF Store, Arrives
  <1>2. /\ Fits(r, d) /\ old[d[2]] = Absent
        /\ header' = [header EXCEPT ![r] = h]
        /\ blocks' = [blocks EXCEPT ![r] = new]
        /\ count' = [count EXCEPT ![r] = count[r] + 1]
        /\ mode' = IF count'[r] = header'[r].total
                     THEN [mode EXCEPT ![r] = "ended"] ELSE mode
    BY DEF Store
  <1>3. d[1] \in Sender /\ d[2] \in 0..Total[d[1]] - 1 /\ sent[d[1]] > 0
    BY <1>1, Arrival
  <1>4. header[r] \in Headers /\ blocks[r] \in Tables(header[r]) /\ count[r] \in Nat
    BY DEF IInv, TypeOK, Headers, Tables, Places
  <1>5. h \in Headers /\ n \in Nat /\ d[2] \in 0..n - 1
    BY <1>1, <1>2, Before
  <1>6. /\ old \in [0..n - 1 -> Sender \cup {Absent}] /\ Full(old) = Stored(r)
        /\ \A b \in Full(old) : h = header[r] /\ old[b] = blocks[r][b]
        /\ h # Unknown /\ n # 0
        /\ \E s \in Sender : sent[s] > 0 /\ h = Header(s)
    BY <1>1, <1>2, Before
  <1>7. /\ new \in [0..n - 1 -> Sender \cup {Absent}]
        /\ Full(new) = Full(old) \cup {d[2]}
        /\ Cardinality(Full(new)) = Cardinality(Full(old)) + 1
        /\ Cardinality(Full(new)) \in 0..n
    <2> HIDE DEF h, old
    <2> QED
      BY <1>2, <1>3, <1>5, <1>6, OneMore
  <1>8. count[r] + 1 = Cardinality(Full(new)) /\ count[r] + 1 \in 0..n
    BY <1>6, <1>7 DEF IInv, Tally
  <1> HIDE DEF h, old, new, n
  <1>9. /\ header'[r] = h /\ blocks'[r] = new /\ count'[r] = count[r] + 1
        /\ Stored(r)' = Full(new)
        /\ \A q \in Receiver \ {r} :
             /\ header'[q] = header[q] /\ blocks'[q] = blocks[q]
             /\ count'[q] = count[q] /\ mode'[q] = mode[q]
             /\ Stored(q)' = Stored(q)
    BY <1>2 DEF IInv, TypeOK, Stored, Full
  <1>10. /\ mode' \in [Receiver -> {"off", "listening", "ended", "failed", "undefined"}]
         /\ mode'[r] = IF count[r] + 1 = n THEN "ended" ELSE "listening"
    BY <1>1, <1>2, <1>9, Arrival DEF IInv, TypeOK, n
  <1>11. TypeOK'
    <2>1. header' \in [Receiver -> Headers]
      BY <1>2, <1>5 DEF IInv, TypeOK, Headers
    <2>2. count' \in [Receiver -> Nat]
      BY <1>2, <1>4 DEF IInv, TypeOK
    <2>3. blocks' = [q \in Receiver |-> blocks'[q]]
      BY <1>2 DEF IInv, TypeOK
    <2>4. ASSUME NEW q \in Receiver
          PROVE  /\ blocks'[q] \in [0..header'[q].total - 1 -> Sender \cup {Absent}]
                 /\ count'[q] <= header'[q].total
      <3>1. CASE q = r
        BY <1>5, <1>7, <1>8, <1>9, <3>1 DEF n
      <3>2. CASE q # r
        <4>1. /\ blocks[q] \in [0..header[q].total - 1 -> Sender \cup {Absent}]
              /\ count[q] <= header[q].total
          BY DEF IInv, TypeOK
        <4>2. blocks'[q] = blocks[q] /\ header'[q] = header[q] /\ count'[q] = count[q]
          BY <1>9, <3>2
        <4> QED
          BY <4>1, <4>2, Zenon
      <3> QED
        BY <3>1, <3>2
    <2> QED
      BY <1>1, <1>10, <2>1, <2>2, <2>3, <2>4, Arrival
      DEF IInv, TypeOK, RoundsSent, Headers
  <1>12. Tally'
    <2>1. mode'[r] \in {"listening", "failed"} => count'[r] < header'[r].total
      BY <1>5, <1>8, <1>9, <1>10 DEF n
    <2> QED
      BY <1>8, <1>9, <2>1 DEF IInv, Tally, First
  <1>13. Filled'
    <2> SUFFICES ASSUME NEW q \in Receiver, NEW e \in reached'[q],
                        Running(q)', Header(e[1]) = header'[q]
                 PROVE  e[2] \in Stored(q)'
      BY DEF Filled, Header
    <2>1. CASE q # r
      BY <1>1, <1>9, <2>1, Arrival DEF IInv, Filled, Running
    <2>2. CASE q = r /\ e = d
      BY <1>7, <1>9, <2>2
    <2>3. CASE q = r /\ e \in reached[r]
      <3>1. ~First(r) /\ h = header[r]
        BY <2>3 DEF IInv, Origins, First, HeaderAfter, h
      <3>2. e[2] \in Stored(r)
        BY <1>1, <1>9, <2>3, <3>1, Arrival DEF IInv, Filled, Running
      <3> QED
        BY <1>6, <1>7, <1>9, <2>3, <3>2
    <2> QED
      BY <1>1, <2>1, <2>2, <2>3, Arrival
  <1>14. OneSender' = OneSender
    BY <1>1 DEF OneSender
  <1>15. /\ h # Unknown /\ n # 0
         /\ \E s \in Sender : sent[s] > 0 /\ h = Header(s)
    BY <1>6
  <1>16. \A b \in Full(new) :
            /\ sent[new[b]] > 0
            /\ program = "multicast" => Header(new[b]) = h
    <2> SUFFICES ASSUME NEW b \in Full(new)
                 PROVE  /\ sent[new[b]] > 0
                        /\ program = "multicast" => Header(new[b]) = h
      OBVIOUS
    <2>1. CASE b = d[2]
      <3>1. new[b] = d[1]
        BY <1>5, <1>6, <2>1 DEF new
      <3>2. program = "multicast" => Header(d[1]) = h
        BY <1>2 DEF Fits, Foreign, HeaderAfter, h
      <3> QED
        BY <1>3, <3>1, <3>2
    <2>2. CASE b # d[2]
      <3>1. b \in Stored(r) /\ new[b] = old[b]
        <4>1. b \in Full(old)
          BY <1>7, <2>2
        <4>2. b \in 0..n - 1
          BY <1>6, <4>1 DEF Full
        <4> QED
          BY <1>6, <2>2, <4>1, <4>2 DEF new
      <3>3. old[b] = blocks[r][b] /\ h = header[r]
        BY <1>6, <3>1
      <3> QED
        BY <3>1, <3>3 DEF IInv, Origins
    <2> QED
      BY <2>1, <2>2
  <1>17. Origins'
    <2> SUFFICES ASSUME NEW q \in Receiver
                 PROVE  /\ \A e \in air'[q] \cup reached'[q] : sent[e[1]] > 0
                        /\ header'[q].total = 0
                             => header'[q] = Unknown /\ reached'[q] = {}
                        /\ header'[q] # Unknown =>
                             \E t \in Sender : sent[t] > 0 /\ header'[q] = Header(t)
                        /\ \A b \in Stored(q)' :
                             /\ sent[blocks'[q][b]] > 0
                             /\ program = "multicast"
                                  => Header(blocks'[q][b]) = header'[q]
                        /\ mode'[q] = "undefined" => program = "udp" /\ ~OneSender
                        /\ mode'[q] = "off" => header'[q] = Unknown
      BY <1>1, <1>14 DEF Origins, Header
    <2>1. CASE q # r
      BY <1>1, <1>9, <2>1, Arrival DEF IInv, Origins
    <2>2. CASE q = r
      <3>1. \A e \in air'[q] \cup reached'[q] : sent[e[1]] > 0
        BY <1>1, <2>2, Arrival DEF IInv, Origins
      <3> QED
        BY <1>9, <1>10, <1>15, <1>16, <2>2, <3>1 DEF n
    <2> QED
      BY <2>1, <2>2
  <1>18. CameFor'
    <2> SUFFICES ASSUME NEW q \in Receiver, NEW b \in Stored(q)'
                 PROVE  <<blocks'[q][b], b>> \in reached'[q]
      BY DEF CameFor
    <2>1. CASE q # r
      BY <1>1, <1>9, <2>1, Arrival DEF IInv, CameFor
    <2>2. CASE q = r /\ b = d[2]
      <3>1. blocks'[r][b] = d[1] /\ d = <<d[1], d[2]>>
        <4>1. d \in Datagram
          BY DEF IInv, TypeOK
        <4>2. d = <<d[1], d[2]>>
          BY <4>1 DEF Datagram
        <4> QED
          BY <1>5, <1>6, <1>9, <2>2, <4>2 DEF new
      <3> QED
        BY <1>1, <2>2, <3>1, Arrival
    <2>3. CASE q = r /\ b # d[2]
      <3>1. b \in Full(old) /\ b \in 0..n - 1
        BY <1>6, <1>7, <1>9, <2>3 DEF Full
      <3>2. new[b] = old[b] /\ old[b] = blocks[r][b] /\ b \in Stored(r)
        BY <1>6, <2>3, <3>1 DEF new
      <3> QED
        BY <1>1, <1>9, <2>3, <3>2, Arrival DEF IInv, CameFor
    <2> QED
      BY <2>1, <2>2, <2>3
  <1> QED
    BY <1>11, <1>12, <1>13, <1>17, <1>18 DEF IInv

(* A write that fails marks nothing, and nothing is claimed of the file.   *)
LEMMA WriteFailsKeepsIInv ==
    ASSUME IInv, NEW r \in Receiver, NEW d \in air[r], WriteFails(r, d)
    PROVE  IInv'
  <1> DEFINE h == HeaderAfter(r, d)
             old == BlocksBefore(r, d)
             n == h.total
  <1>1. Arrives(r, d) /\ Fits(r, d) /\ UNCHANGED <<program, sent, count>>
    BY DEF WriteFails, Arrives
  <1>2. /\ old[d[2]] = Absent
        /\ header' = [header EXCEPT ![r] = h]
        /\ blocks' = [blocks EXCEPT ![r] = old]
        /\ mode' = [mode EXCEPT ![r] = "failed"]
    BY DEF WriteFails
  <1>3. /\ h \in Headers /\ n \in Nat /\ d[2] \in 0..n - 1
        /\ h # Unknown /\ n # 0
        /\ \E s \in Sender : sent[s] > 0 /\ h = Header(s)
        /\ old \in [0..n - 1 -> Sender \cup {Absent}]
        /\ Full(old) = Stored(r)
        /\ \A b \in Full(old) : ~First(r) /\ h = header[r] /\ old[b] = blocks[r][b]
    BY <1>1, Before
  <1> HIDE DEF h, old, n
  <1>4. /\ header'[r] = h /\ blocks'[r] = old /\ mode'[r] = "failed"
        /\ Stored(r)' = Stored(r)
        /\ \A q \in Receiver \ {r} :
             /\ header'[q] = header[q] /\ blocks'[q] = blocks[q]
             /\ mode'[q] = mode[q] /\ Stored(q)' = Stored(q)
    BY <1>2, <1>3 DEF IInv, TypeOK, Stored, Full
  <1>5. count[r] < n
    <2>1. Full(old) \in SUBSET (0..n - 1) /\ d[2] \notin Full(old)
      BY <1>2, <1>3 DEF Full
    <2>2. Cardinality(Full(old)) \in 0..n /\ Cardinality(Full(old)) # n
      BY <1>3, <2>1, PlacesFinite
    <2>3. count[r] = Cardinality(Full(old))
      BY <1>3 DEF IInv, Tally
    <2> QED
      BY <1>3, <2>2, <2>3
  <1>6. TypeOK'
    <2>1. header' \in [Receiver -> Headers]
      BY <1>2, <1>3 DEF IInv, TypeOK, Headers
    <2>2. mode' \in [Receiver -> {"off", "listening", "ended", "failed", "undefined"}]
      BY <1>2 DEF IInv, TypeOK
    <2>3. blocks' = [q \in Receiver |-> blocks'[q]]
      BY <1>2 DEF IInv, TypeOK
    <2>4. ASSUME NEW q \in Receiver
          PROVE  /\ blocks'[q] \in [0..header'[q].total - 1 -> Sender \cup {Absent}]
                 /\ count[q] <= header'[q].total
      <3>1. CASE q = r
        <4>1. count[r] \in Nat
          BY DEF IInv, TypeOK
        <4> QED
          BY <1>3, <1>4, <1>5, <3>1, <4>1 DEF n
      <3>2. CASE q # r
        <4>1. /\ blocks[q] \in [0..header[q].total - 1 -> Sender \cup {Absent}]
              /\ count[q] <= header[q].total
          BY DEF IInv, TypeOK
        <4>2. blocks'[q] = blocks[q] /\ header'[q] = header[q]
          BY <1>4, <3>2
        <4> QED
          BY <4>1, <4>2, Zenon
      <3> QED
        BY <3>1, <3>2
    <2> QED
      BY <1>1, <2>1, <2>2, <2>3, <2>4, Arrival DEF IInv, TypeOK, RoundsSent, Headers
  <1>7. Tally'
    BY <1>1, <1>4, <1>5 DEF IInv, Tally, First, n
  <1>8. Filled' /\ CameFor'
    <2>1. ~Running(r)'
      BY <1>4 DEF Running
    <2>2. \A q \in Receiver \ {r} : Running(q)' = Running(q)
      BY <1>4 DEF Running
    <2>3. Filled'
      BY <1>1, <1>4, <2>1, <2>2, Arrival DEF IInv, Filled, Header
    <2>4. CameFor'
      <3> SUFFICES ASSUME NEW q \in Receiver, NEW b \in Stored(q)'
                   PROVE  <<blocks'[q][b], b>> \in reached'[q]
        BY DEF CameFor
      <3>1. b \in Stored(q) /\ blocks'[q][b] = blocks[q][b]
        BY <1>3, <1>4
      <3>2. <<blocks[q][b], b>> \in reached[q]
        BY <3>1 DEF IInv, CameFor
      <3> QED
        BY <1>1, <3>1, <3>2, Arrival
    <2> QED
      BY <2>3, <2>4
  <1>9. OneSender' = OneSender
    BY <1>1 DEF OneSender
  <1>10. \A b \in Stored(r) :
            /\ sent[old[b]] > 0
            /\ program = "multicast" => Header(old[b]) = h
    BY <1>3 DEF IInv, Origins
  <1>11. Origins'
    <2> SUFFICES ASSUME NEW q \in Receiver
                 PROVE  /\ \A e \in air'[q] \cup reached'[q] : sent[e[1]] > 0
                        /\ header'[q].total = 0
                             => header'[q] = Unknown /\ reached'[q] = {}
                        /\ header'[q] # Unknown =>
                             \E t \in Sender : sent[t] > 0 /\ header'[q] = Header(t)
                        /\ \A b \in Stored(q)' :
                             /\ sent[blocks'[q][b]] > 0
                             /\ program = "multicast"
                                  => Header(blocks'[q][b]) = header'[q]
                        /\ mode'[q] = "undefined" => program = "udp" /\ ~OneSender
                        /\ mode'[q] = "off" => header'[q] = Unknown
      BY <1>1, <1>9 DEF Origins, Header
    <2>1. CASE q # r
      BY <1>1, <1>4, <2>1, Arrival DEF IInv, Origins
    <2>2. CASE q = r
      <3>1. \A e \in air'[q] \cup reached'[q] : sent[e[1]] > 0
        BY <1>1, <2>2, Arrival DEF IInv, Origins
      <3> QED
        BY <1>3, <1>4, <1>10, <2>2, <3>1 DEF n
    <2> QED
      BY <2>1, <2>2
  <1> QED
    BY <1>6, <1>7, <1>8, <1>11 DEF IInv

-----------------------------------------------------------------------------
LEMMA NextIInv == IInv /\ [Next]_vars => IInv'
  <1> SUFFICES ASSUME IInv, [Next]_vars PROVE IInv'
    OBVIOUS
  <1>1. CASE UNCHANGED vars
    BY <1>1 DEF vars, network, table, IInv, TypeOK, RoundsSent, Tally, Stored, First,
                Filled, CameFor, Running, Header, Origins, OneSender
  <1>2. CASE \E s \in Sender : SendChunk(s)
    BY <1>2, SendKeepsIInv
  <1>3. CASE \E r \in Receiver :
                Join(r) \/ GiveUp(r) \/ Fails(r) \/ \E d \in air[r] : Lose(r, d)
    BY <1>3, QuietKeepsIInv
  <1>4. CASE \E r \in Receiver : \E d \in air[r] : Store(r, d)
    BY <1>4, StoreKeepsIInv
  <1>5. CASE \E r \in Receiver : \E d \in air[r] : Ignore(r, d)
    BY <1>5, IgnoreKeepsIInv
  <1>6. CASE \E r \in Receiver : \E d \in air[r] : Stray(r, d)
    BY <1>6, StrayKeepsIInv
  <1>7. CASE \E r \in Receiver : \E d \in air[r] : WriteFails(r, d)
    BY <1>7, WriteFailsKeepsIInv
  <1> QED
    BY <1>1, <1>2, <1>3, <1>4, <1>5, <1>6, <1>7 DEF Next

(* The invariant holds in every reachable state.                           *)
THEOREM Invariance == Spec => []IInv
  BY InitIInv, NextIInv, PTL DEF Spec

(* Types: tables have the length that the first datagram gave.             *)
THEOREM TypeCorrect == Spec => []TypeOK
  <1>1. IInv => TypeOK
    BY DEF IInv
  <1> QED
    BY Invariance, <1>1, PTL

(* The receiver's counter is the number of chunks stored, whatever is lost, *)
(* repeated, reordered or sent by others.                                  *)
THEOREM CounterIsRight == Spec => []Tally
  <1>1. IInv => Tally
    BY DEF IInv
  <1> QED
    BY Invariance, <1>1, PTL

(* Files that differ in number of chunks, chunk size or length are never   *)
(* mixed.                                                                  *)
THEOREM NeverMixed == Spec => []OneFile
  <1>1. IInv => OneFile
    <2> SUFFICES ASSUME IInv, NEW r \in Receiver,
                        program = "multicast" \/ OneSender
                 PROVE  /\ mode[r] # "undefined"
                        /\ \A b \in Stored(r) : Header(blocks[r][b]) = header[r]
      BY DEF OneFile
    <2>1. mode[r] # "undefined"
      BY DEF IInv, Origins
    <2>2. ASSUME NEW b \in Stored(r) PROVE Header(blocks[r][b]) = header[r]
      <3>1. CASE program = "multicast"
        BY <3>1 DEF IInv, Origins
      <3>2. CASE OneSender
        <4>1. blocks[r] \in Tables(header[r])
          BY DEF IInv, TypeOK, Tables, Places
        <4>2. blocks[r][b] \in Sender /\ sent[blocks[r][b]] > 0
          BY <4>1 DEF Tables, Stored, IInv, Origins
        <4>3. header[r] # Unknown
          BY <4>1, NoPlaces, HeaderTotal DEF Tables, Places, Stored, Full
        <4>4. PICK s \in Sender : sent[s] > 0 /\ header[r] = Header(s)
          BY <4>3 DEF IInv, Origins
        <4> QED
          BY <3>2, <4>2, <4>4 DEF OneSender
      <3> QED
        BY <3>1, <3>2
    <2> QED
      BY <2>1, <2>2
  <1> QED
    BY Invariance, <1>1, PTL

(* What reached a receiver that has not failed is kept: the place of every *)
(* datagram of the adopted file holds one that came for it, of a file with *)
(* the same header for multicast, the datagram itself while one has sent.  *)
THEOREM ReachedIsKept == Spec => []NothingDropped
  <1>1. IInv => NothingDropped
    <2> SUFFICES ASSUME IInv, NEW r \in Receiver, NEW d \in reached[r],
                        mode[r] \in {"listening", "ended"}, Header(d[1]) = header[r]
                 PROVE  LET kept == blocks[r][d[2]]
                        IN /\ <<kept, d[2]>> \in reached[r]
                           /\ program = "multicast" => Header(kept) = header[r]
                           /\ OneSender => kept = d[1]
      BY DEF NothingDropped
    <2> DEFINE kept == blocks[r][d[2]]
    <2>1. d[2] \in Stored(r)
      BY DEF IInv, Filled, Running
    <2>2. <<kept, d[2]>> \in reached[r]
      BY <2>1 DEF IInv, CameFor
    <2>3. sent[kept] > 0 /\ (program = "multicast" => Header(kept) = header[r])
      BY <2>1 DEF IInv, Origins
    <2>4. kept \in Sender /\ d[1] \in Sender
      <3>1. reached[r] \in SUBSET Datagram
        BY DEF IInv, TypeOK
      <3> QED
        BY <2>2, <3>1 DEF Datagram
    <2>5. OneSender => kept = d[1]
      <3> SUFFICES ASSUME OneSender PROVE kept = d[1]
        OBVIOUS
      <3>1. sent[d[1]] > 0
        BY DEF IInv, Origins
      <3> QED
        BY <2>3, <2>4, <3>1 DEF OneSender
    <2> QED
      BY <2>2, <2>3, <2>5
  <1> QED
    BY Invariance, <1>1, PTL

(* Once a file is known, the exit code 0 means that all of it is there.    *)
THEOREM ExitCodeIsRight == Spec => []ExitTellsTheTruth
  <1>1. IInv => ExitTellsTheTruth
    <2> SUFFICES ASSUME IInv, NEW r \in Receiver, program = "multicast",
                        mode[r] \in {"ended", "failed"}, ~First(r)
                 PROVE  (ExitCode(r) = 0)
                            = (Absent \notin {blocks[r][b] : b \in DOMAIN blocks[r]})
      BY DEF ExitTellsTheTruth
    <2> DEFINE n == header[r].total
    <2>1. n \in Nat /\ count[r] \in Nat /\ blocks[r] \in [0..n - 1 -> Sender \cup {Absent}]
      BY HeaderTotal DEF IInv, TypeOK, Headers
    <2>2. (ExitCode(r) = 0) <=> (count[r] = n)
      <3>1. CASE mode[r] = "failed"
        <4>1. count[r] < n
          BY <3>1 DEF IInv, Tally
        <4> QED
          BY <2>1, <3>1, <4>1 DEF ExitCode
      <3>2. CASE mode[r] = "ended"
        BY <2>1, <3>2 DEF ExitCode, Missing
      <3> QED
        BY <3>1, <3>2
    <2> HIDE DEF n
    <2>3. Stored(r) \in SUBSET (0..n - 1) /\ Cardinality(Stored(r)) = count[r]
      BY <2>1 DEF Stored, IInv, Tally
    <2>4. count[r] = n <=> Stored(r) = 0..n - 1
      <3>1. Cardinality(0..n - 1) = n
        BY <2>1, FS_Interval
      <3> QED
        BY <2>1, <2>3, <3>1, PlacesFinite
    <2>5. Stored(r) = 0..n - 1
            <=> Absent \notin {blocks[r][b] : b \in DOMAIN blocks[r]}
      BY <2>1 DEF Stored
    <2> QED
      BY <2>2, <2>4, <2>5
  <1> QED
    BY Invariance, <1>1, PTL
=============================================================================
