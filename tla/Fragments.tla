------------------------------- MODULE Fragments -------------------------------
(* fragmentPacket of LAB8/61: a packet on a path of links, each with its MTU,    *)
(* cut where it does not fit, pieces of pieces included.  One action is one      *)
(* turn of the loop over pathMTUs.                                              *)
EXTENDS Naturals, Sequences, SequencesExt

CONSTANTS
    PacketLengths,  \* lengths to try
    PathMtu,        \* MTUs to try
    MaxHops         \* bound of the path

kHeaderLength == 20
OffsetUnit == 8

ASSUME FragmentAssumption ==
    PacketLengths \subseteq Nat /\ PathMtu \subseteq Nat /\ MaxHops \in Nat

VARIABLES
    packetLength,
    fragments,      \* Fragment: length with header, offset in units of 8; <<>> after throw
    hops

fragmentVars == <<packetLength, fragments, hops>>

FragmentStart(length) ==
    /\ packetLength = length
    /\ fragments = IF packetLength > kHeaderLength
                   THEN <<[length |-> packetLength, offset |-> 0]>> ELSE <<>>
    /\ hops = 0

FragmentInit == \E length \in PacketLengths : FragmentStart(length)

\* max_payload.
Mutant_MaxPayload(mtu) == mtu - kHeaderLength
MaxPayload(mtu) == ((mtu - kHeaderLength) \div OffsetUnit) * OffsetUnit

\* fragment_once, for an MTU that leaves room: all pieces but the last are full.
FragmentOnce(f, mtu) ==
    LET full == (f.length - kHeaderLength - 1) \div MaxPayload(mtu)
        step == MaxPayload(mtu) \div OffsetUnit
    IN  IF f.length <= mtu THEN <<f>>
        ELSE [i \in 1 .. full + 1 |->
                [length |-> IF i <= full THEN kHeaderLength + MaxPayload(mtu)
                            ELSE f.length - full * MaxPayload(mtu),
                 offset |-> f.offset + (i - 1) * step]]

\* Does fragment_once throw for f?
Refused(f, mtu) ==
    \/ mtu <= kHeaderLength
    \/ f.length > mtu /\ MaxPayload(mtu) = 0

NextLink(mtu) ==
    /\ fragments # <<>>
    /\ hops < MaxHops
    /\ hops' = hops + 1
    /\ fragments' =
          IF \E i \in DOMAIN fragments : Refused(fragments[i], mtu) THEN <<>>
          ELSE FlattenSeq([i \in DOMAIN fragments |-> FragmentOnce(fragments[i], mtu)])
    /\ UNCHANGED packetLength

FragmentNext == \E mtu \in PathMtu : NextLink(mtu)

FragmentSpec == FragmentInit /\ [][FragmentNext]_fragmentVars

-------------------------------------------------------------------------------
\* The pieces follow each other without gap or overlap from 0 to the length of
\* the payload, however often pieces were cut again, and each carries something:
\* whoever puts them together gets the packet (main.cpp:23-41, 53-60).
PiecesAddUp ==
    fragments # <<>> =>
        LET end(f) == OffsetUnit * f.offset + f.length - kHeaderLength
        IN  /\ fragments[1].offset = 0
            /\ end(Last(fragments)) = packetLength - kHeaderLength
            /\ \A i \in 1 .. Len(fragments) - 1 :
                  end(fragments[i]) = OffsetUnit * fragments[i + 1].offset
            /\ \A i \in DOMAIN fragments : fragments[i].length > kHeaderLength
================================================================================
