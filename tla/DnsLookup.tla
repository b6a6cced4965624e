------------------------------- MODULE DnsLookup -------------------------------
(* The DNS client of LAB15/25: one query, one answer, names that may be          *)
(* compressed.  Packets are bytes; the 12 of the header are kept as a record.    *)
(* The server is external: it echoes the question, writes one record after the   *)
(* other and may refer back to any name it has written.                          *)
EXTENDS Naturals, Sequences

CONSTANTS
    DnsLabel,       \* bytes used as labels, of one byte each
    DnsQuestion,    \* name asked for, a sequence of labels
    DnsRecords,     \* records a server may answer with
    MaxAnswers,     \* bound of the records in one answer
    MaxJumps,       \* 32: pointers that decode_name follows
    ReceiveBuffer   \* 4096: longer answers are cut

kDnsHeaderSize == 12
A == 1
CNAME == 5
MX == 15

\* Names of 255 bytes at most, and the records: A holds the four bytes of an
\* address, CNAME a name, MX a number and a name.
Byte == 0 .. 255
Word == 0 .. 256 * 256 - 1
DnsName == {labels \in Seq(DnsLabel) : Len(labels) <= 127}
DnsRecord ==
    [name : DnsName, type : {A}, address : [1 .. 4 -> Byte]] \cup
    [name : DnsName, type : {CNAME}, target : DnsName] \cup
    [name : DnsName, type : {MX}, preference : Word, target : DnsName]

ASSUME DnsAssumption ==
    /\ DnsLabel \subseteq Byte \ {0} /\ DnsQuestion \in DnsName
    /\ DnsRecords \subseteq DnsRecord
    /\ {MaxAnswers, MaxJumps, ReceiveBuffer} \subseteq Nat
    /\ 2 * MaxAnswers <= MaxJumps

VARIABLES
    dnsAnswer,      \* what the server has written: bytes, records, names and where
    dnsResult       \* what the program has printed

dnsVars == <<dnsAnswer, dnsResult>>

Waiting == [kind |-> "waiting", records |-> <<>>]
Failed == [kind |-> "error", records |-> <<>>]

\* Position of the next byte to be written after the bytes in b.
EndOf(b) == kDnsHeaderSize + Len(b)

\* append_u16, append_name for the first k labels and for a whole name, and
\* build_query after its header: type A, class IN.
U16(n) == <<n \div 256, n % 256>>
Labels(labels, k) == [i \in 1 .. 2 * k |-> IF i % 2 = 1 THEN 1 ELSE labels[i \div 2]]
AppendName(labels) == Labels(labels, Len(labels)) \o <<0>>
BuildQuery == AppendName(DnsQuestion) \o U16(A) \o <<0, 1>>

\* Names that can be referred to when k labels of a name are written from
\* `position` on: its tails, each with the place where it begins.
Written(labels, k, position) ==
    {[labels |-> SubSeq(labels, i, Len(labels)), at |-> position + 2 * (i - 1)] :
        i \in {j \in 1 .. Len(labels) : j <= k + 1}}

DnsInit ==
    /\ dnsAnswer = [bytes |-> BuildQuery, records |-> <<>>,
                    names |-> Written(DnsQuestion, Len(DnsQuestion), kDnsHeaderSize)]
    /\ dnsResult = Waiting

\* What follows the labels written out: the null byte, or a pointer of 14 bits to
\* a place where the rest of the name is written already.
Endings(rest, names) ==
    IF rest = <<>> THEN {<<0>>}
    ELSE {U16(192 * 256 + n.at) : n \in {m \in names : m.labels = rest /\ m.at < 64 * 256}}

\* Ways to write a name from `position` on: k labels and an ending.
Spelled(labels, position, names) ==
    UNION {{[bytes |-> Labels(labels, k) \o ending,
             names |-> Written(labels, k, position)] :
                ending \in Endings(SubSeq(labels, k + 1, Len(labels)), names)} :
           k \in 0 .. Len(labels)}

\* Ways to write the data of a record from `position` on.
Data(r, position, names) ==
    CASE r.type = A -> {[bytes |-> r.address, names |-> {}]}
      [] r.type = CNAME -> Spelled(r.target, position, names)
      [] r.type = MX -> {[bytes |-> U16(r.preference) \o w.bytes, names |-> w.names] :
                           w \in Spelled(r.target, position + 2, names)}

\* Owner, type, class and time to live of a record.
RecordHead(r, owner) == owner.bytes \o U16(r.type) \o <<0, 1, 0, 0, 0, 9>>

\* The server writes one more record: its head, the length of its data, its data.
AddRecord(r) ==
    /\ dnsResult = Waiting
    /\ Len(dnsAnswer.records) < MaxAnswers
    /\ \E owner \in Spelled(r.name, EndOf(dnsAnswer.bytes), dnsAnswer.names) :
          LET head == dnsAnswer.bytes \o RecordHead(r, owner)
              known == dnsAnswer.names \cup owner.names
          IN  \E d \in Data(r, EndOf(head) + 2, known) :
                 dnsAnswer' = [bytes |-> head \o U16(Len(d.bytes)) \o d.bytes,
                               records |-> Append(dnsAnswer.records, r),
                               names |-> known \cup d.names]
    /\ UNCHANGED dnsResult

-------------------------------------------------------------------------------
\* The byte at position p of packet b, and the number read_u16 finds there.
ByteAt(b, p) == b[p - kDnsHeaderSize + 1]
ReadU16(b, p) == ByteAt(b, p) * 256 + ByteAt(b, p + 1)

\* next_offset is left behind the end of the name or behind its first pointer.
Mutant_AfterPointer(c, n) == n.next
AfterPointer(c, n) == c + 2

\* The name and next_offset at a null byte, pointer or label at c, from the names
\* where the pointer leads or behind the label.
EndAt(c) == {[labels |-> <<>>, next |-> c + 1]}
Redirected(c, names) ==
    {[labels |-> n.labels, next |-> AfterPointer(c, n)] : n \in names}
Prepended(label, names) ==
    {[labels |-> <<label>> \o n.labels, next |-> n.next] : n \in names}

\* The loop of decode_name at position c of b: the name read there and next_offset,
\* as a set with one element, {} where the code throws.  `name` holds what is read
\* at the positions behind c, `beyond` what is read where a pointer leads.
NameAt(b, beyond, name, c) ==
    IF c >= EndOf(b) \/ c < kDnsHeaderSize THEN {}
    ELSE LET length == ByteAt(b, c)
             pointer == (length - 192) * 256 + ByteAt(b, c + 1)
         IN  IF length = 0 THEN EndAt(c)
             ELSE IF length >= 192
             THEN IF c + 1 >= EndOf(b) \/ pointer >= EndOf(b) THEN {}
                  ELSE Redirected(c, beyond[pointer])
             ELSE IF c + 1 + length > EndOf(b) THEN {}
                  ELSE Prepended(ByteAt(b, c + 1), name[c + 1 + length])

NamesAt(b, beyond) ==
    LET name[c \in 0 .. EndOf(b)] == NameAt(b, beyond, name, c)
    IN  name

\* The names of b when j more pointers may be followed, and decode_name.
DecodedFrom(b) ==
    LET names[j \in 0 .. MaxJumps] ==
            NamesAt(b, IF j = 0 THEN [c \in 0 .. EndOf(b) |-> {}] ELSE names[j - 1])
    IN  names

DecodeName(b, offset) ==
    IF offset >= EndOf(b) THEN {} ELSE DecodedFrom(b)[MaxJumps][offset]

\* parse_rdata, for data at `offset`: a name, a number and a name, or bytes.
ParseData(b, offset, length, type, name) ==
    IF offset + length > EndOf(b) THEN {}
    ELSE IF type = CNAME
    THEN {[name |-> name, type |-> CNAME, target |-> n.labels] : n \in DecodeName(b, offset)}
    ELSE IF type = MX /\ length >= 3
    THEN {[name |-> name, type |-> MX, preference |-> ReadU16(b, offset),
           target |-> n.labels] : n \in DecodeName(b, offset + 2)}
    ELSE {[name |-> name, type |-> type,
           address |-> [i \in 1 .. length |-> ByteAt(b, offset + i - 1)]]}

\* parse_record: the record it returns with the offset it leaves; ten bytes lie
\* between the owner's name n and the data, the last two of them its length.
ParseBehind(b, n) ==
    IF n.next + 10 > EndOf(b) THEN {}
    ELSE LET length == ReadU16(b, n.next + 8)
         IN  {[record |-> r, next |-> n.next + 10 + length] :
                r \in ParseData(b, n.next + 10, length, ReadU16(b, n.next), n.labels)}

ParseRecord(b, offset) == UNION {ParseBehind(b, n) : n \in DecodeName(b, offset)}

\* The loops of main over qdcount questions (one) and i answers.
ParseQuestion(b) ==
    {[records |-> <<>>, next |-> n.next + 4] : n \in DecodeName(b, kDnsHeaderSize)}
ParseNext(b, s) ==
    {[records |-> Append(s.records, p.record), next |-> p.next] : p \in ParseRecord(b, s.next)}
AnswersFrom(b) ==
    LET parsed[i \in 0 .. MaxAnswers] ==
            IF i = 0 THEN ParseQuestion(b)
            ELSE UNION {ParseNext(b, s) : s \in parsed[i - 1]}
    IN  parsed

ParseAnswers(b, ancount) ==
    {[kind |-> "printed", records |-> s.records] : s \in AnswersFrom(b)[ancount]}

\* recvfrom returns the answer, cut if it is longer than the buffer.
Receive ==
    LET size == ReceiveBuffer - kDnsHeaderSize
        b == dnsAnswer.bytes
        parsed == ParseAnswers(IF Len(b) > size THEN SubSeq(b, 1, size) ELSE b,
                               Len(dnsAnswer.records))
    IN  /\ dnsResult = Waiting
        /\ dnsResult' \in IF parsed = {} THEN {Failed} ELSE parsed
        /\ UNCHANGED dnsAnswer

\* The query or the answer is lost, the identifier is that of another query, or
\* the server reports an error.
ReceiveNothing ==
    /\ dnsResult = Waiting
    /\ dnsResult' = [Failed EXCEPT !.kind = "lost"]
    /\ UNCHANGED dnsAnswer

DnsNext ==
    \/ \E r \in DnsRecords : AddRecord(r)
    \/ Receive
    \/ ReceiveNothing

DnsSpec == DnsInit /\ [][DnsNext]_dnsVars

-------------------------------------------------------------------------------
\* What is printed are the records the server put into its answer, all of them
\* and in their order, however their names are compressed; an answer is an error
\* only if it was cut, and then nothing of it is printed (main.cpp:96-154,
\* 260-321, 387-402).
RecordsAreTrue ==
    /\ dnsResult.kind = "printed" => dnsResult.records = dnsAnswer.records
    /\ dnsResult.kind = "error" => EndOf(dnsAnswer.bytes) > ReceiveBuffer
================================================================================
