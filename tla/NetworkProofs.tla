----------------------------- MODULE NetworkProofs -----------------------------
(* Proofs about the programs of the lower layers: learning bridges, for every    *)
(* number of bridges and every set of stations; RIP tables, for every network;   *)
(* the two ping clients, for every range of sequence numbers, day and word; DHCP *)
(* clients among any servers; fragmentation, for all paths and packets; Dijkstra *)
(* on every finite graph; the colour channel, for any frames and colours; the    *)
(* plan of access points, for every building and choice; and words on a line, for *)
(* all strings, characters of any number of bits and any damage.                 *)
EXTENDS Bridge, RipNetwork, Ping, Dhcp, Fragments, Dijkstra, ColourChannel,
        AccessPoints, LineCodes, FiniteSetTheorems, WellFoundedInduction, TLAPS

-------------------------------------------------------------------------------
(* Bridges.  AnnouncedIsReached is not inductive: that no bridge filters what is *)
(* for a station says nothing of bridges the station has moved beyond.  What is   *)
(* kept is that all bridges have the port it is behind.                         *)

KnownEverywhere ==
    \A a \in announced, b \in 1 .. Bridges : macTable[b][a] = Port(b, stationAt[a])

BridgeIInv == BridgeTypeOK /\ KnownEverywhere

LEMMA PortType == \A b, s : Port(b, s) \in {1, 2}
  BY DEF Port

(* A broadcast gets to every bridge.                                            *)
LEMMA BroadcastMeetsAll == \A b, s : Meets(b, s, Broadcast)
  BY DEF Meets, Passes

(* What learning changes: only the entry of the source, to the port it is behind. *)
LEMMA LearnedEntries ==
    ASSUME BridgeTypeOK, NEW s, NEW from \in Station, NEW to,
           NEW b \in 1 .. Bridges, NEW a \in Station
    PROVE  Learned(s, from, to)[b][a] =
               IF a = from /\ Meets(b, s, to) THEN Port(b, s) ELSE macTable[b][a]
  BY BridgeAssumption DEF BridgeTypeOK, BridgeAssumption, Learned

LEMMA LearnedType ==
    ASSUME BridgeTypeOK, NEW s, NEW from \in Station \cup {Broadcast}, NEW to
    PROVE  Learned(s, from, to) \in [1 .. Bridges -> [Station -> 0 .. 2]]
  BY PortType DEF BridgeTypeOK, Learned

THEOREM BridgeInvariance == BridgeSpec => []BridgeIInv
  <1>1. BridgeInit => BridgeIInv
    BY BridgeAssumption
       DEF BridgeInit, BridgeIInv, BridgeTypeOK, KnownEverywhere, Segment, BridgeAssumption
  <1>2. BridgeIInv /\ [BridgeNext]_bridgeVars => BridgeIInv'
    <2> SUFFICES ASSUME BridgeIInv, [BridgeNext]_bridgeVars
                 PROVE  BridgeIInv'
      OBVIOUS
    <2> USE DEF BridgeIInv
    <2>1. ASSUME NEW from \in Station, NEW to \in Station \cup {Broadcast},
                 SendFrame(from, to)
          PROVE  BridgeIInv'
      <3>1. BridgeTypeOK'
        BY <2>1, LearnedType DEF SendFrame, BridgeTypeOK
      <3>2. ASSUME NEW a \in announced', NEW b \in 1 .. Bridges
            PROVE  macTable'[b][a] = Port(b, stationAt'[a])
        <4>1. a \in Station
          BY <3>1 DEF BridgeTypeOK
        <4>2. macTable'[b][a] =
                IF a = from /\ Meets(b, stationAt[from], to)
                THEN Port(b, stationAt[from]) ELSE macTable[b][a]
          BY <2>1, <4>1, LearnedEntries DEF SendFrame
        <4>3. CASE a \in announced
          BY <2>1, <4>2, <4>3 DEF SendFrame, KnownEverywhere
        <4>4. CASE a \notin announced
          <5>1. a = from /\ to = Broadcast
            BY <2>1, <3>2, <4>4 DEF SendFrame
          <5> QED
            BY <2>1, <4>2, <5>1, BroadcastMeetsAll DEF SendFrame
        <4> QED
          BY <4>3, <4>4
      <3> QED
        BY <3>1, <3>2 DEF KnownEverywhere
    <2>2. ASSUME NEW s \in Segment, NEW to \in Station \cup {Broadcast},
                 SendNameless(s, to)
          PROVE  BridgeIInv'
      <3>1. macTable' = macTable
        BY <2>2 DEF SendNameless, Learned, BridgeTypeOK
      <3> QED
        BY <2>2, <3>1 DEF SendNameless, BridgeTypeOK, KnownEverywhere, Segment
    <2>3. ASSUME NEW m \in Station, NEW s \in Segment, MoveStation(m, s)
          PROVE  BridgeIInv'
      <3>1. BridgeTypeOK'
        BY <2>3 DEF MoveStation, BridgeTypeOK, Segment
      <3>2. ASSUME NEW a \in announced', NEW b \in 1 .. Bridges
            PROVE  macTable'[b][a] = Port(b, stationAt'[a])
        <4>1. a \in announced /\ a # m
          BY <2>3, <3>2 DEF MoveStation
        <4>2. stationAt'[a] = stationAt[a] /\ macTable' = macTable
          BY <2>3, <4>1 DEF MoveStation, BridgeTypeOK
        <4> QED
          BY <4>1, <4>2 DEF KnownEverywhere
      <3> QED
        BY <3>1, <3>2 DEF KnownEverywhere
    <2>4. CASE UNCHANGED bridgeVars
      BY <2>4 DEF bridgeVars, BridgeTypeOK, KnownEverywhere, Segment
    <2> QED
      BY <2>1, <2>2, <2>3, <2>4 DEF BridgeNext
  <1> QED
    BY <1>1, <1>2, PTL DEF BridgeSpec

(* Tables hold ports of the bridge only, and only stations have entries.         *)
THEOREM BridgeTypes == BridgeSpec => []BridgeTypeOK
  <1>1. BridgeIInv => BridgeTypeOK
    BY DEF BridgeIInv
  <1> QED
    BY <1>1, BridgeInvariance, PTL

(* Whoever has broadcast since it was plugged in is reached from everywhere.     *)
THEOREM AnnouncedReachable == BridgeSpec => []AnnouncedIsReached
  <1>1. BridgeIInv => AnnouncedIsReached
    BY DEF BridgeIInv, KnownEverywhere, AnnouncedIsReached, Between, Passes
  <1> QED
    BY <1>1, BridgeInvariance, PTL
-------------------------------------------------------------------------------
(* Induction over the natural numbers, for a set.                               *)
LEMMA SetInduction ==
  ASSUME NEW S, 0 \in S, \A n \in Nat : n \in S => n + 1 \in S
  PROVE  Nat \subseteq S
  <1> DEFINE T == Nat \ S
  <1> SUFFICES ASSUME T # {} PROVE FALSE
    OBVIOUS
  <1> DEFINE R == OpToRel(<, Nat)
  <1>1. \A m, n \in Nat : <<m, n>> \in R <=> m < n
    BY DEF OpToRel
  <1>2. IsWellFoundedOn(R, Nat)
    BY NatLessThanWellFounded
  <1>3. T \subseteq Nat
    OBVIOUS
  <1> HIDE DEF R, T
  <1>4. PICK x \in T : \A y \in T : ~ (<<y, x>> \in R)
    BY <1>2, <1>3, WFMin
  <1>5. x \in Nat /\ x # 0 /\ x \notin S
    BY DEF T
  <1>6. x - 1 \in Nat /\ x - 1 < x /\ (x - 1) + 1 = x
    BY <1>5
  <1>7. x - 1 \notin T
    BY <1>1, <1>4, <1>5, <1>6
  <1> QED
    BY <1>5, <1>6, <1>7 DEF T

(* A set of natural numbers has a least element, and Min returns it.             *)
LEMMA MinIsLeast ==
  ASSUME NEW S \in SUBSET Nat, NEW k \in S
  PROVE  Min(S) \in S /\ Min(S) <= k
  <1> DEFINE R == OpToRel(<, Nat)
  <1>1. \A m, n \in Nat : <<m, n>> \in R <=> m < n
    BY DEF OpToRel
  <1>2. IsWellFoundedOn(R, Nat)
    BY NatLessThanWellFounded
  <1> HIDE DEF R
  <1>3. PICK x \in S : \A y \in S : ~ (<<y, x>> \in R)
    BY <1>2, WFMin
  <1>4. ASSUME NEW y \in S PROVE x <= y
    <2>1. x \in Nat /\ y \in Nat /\ ~ (<<y, x>> \in R)
      BY <1>3
    <2> QED
      BY <1>1, <2>1
  <1>5. \E z \in S : \A y \in S : z <= y
    BY <1>4
  <1>6. Min(S) \in S /\ \A y \in S : Min(S) <= y
    BY <1>5, Zenon DEF Min
  <1> QED
    BY <1>6

(* RIP.  Routers at most k hops from network n when nothing has failed.          *)
NearHome(n, near, k) ==
    IF k = 1 THEN {RipAttached[n]}
    ELSE near[k - 1] \cup {r \in Router : \E s \in near[k - 1] : <<s, r>> \in RipLinks}

IsNear(n, near, m) == near = [k \in 1 .. m |-> NearHome(n, near, k)]

Near(n) == CHOOSE near : IsNear(n, near, RipInfinity)

LEMMA NearExists ==
    ASSUME NEW n
    PROVE  IsNear(n, Near(n), RipInfinity)
  <1> DEFINE S == {m \in Nat : \E near : IsNear(n, near, m)}
  <1>1. 0 \in S
    <2>1. IsNear(n, [k \in 1 .. 0 |-> {}], 0)
      BY DEF IsNear
    <2> QED
      BY <2>1
  <1>2. ASSUME NEW m \in Nat, m \in S PROVE m + 1 \in S
    <2>1. PICK old : IsNear(n, old, m)
      BY <1>2
    <2> DEFINE new == [k \in 1 .. m + 1 |->
                          IF k <= m THEN old[k] ELSE NearHome(n, old, k)]
    <2>2. \A k \in 1 .. m : new[k] = old[k] /\ old[k] = NearHome(n, old, k)
      BY <2>1 DEF IsNear
    <2>3. \A k \in 1 .. m + 1 : k # 1 => k - 1 \in 1 .. m
      OBVIOUS
    <2> HIDE DEF new
    <2>4. \A k \in 1 .. m + 1 : NearHome(n, new, k) = NearHome(n, old, k)
      BY <2>2, <2>3 DEF NearHome
    <2>5. \A k \in 1 .. m + 1 : new[k] = NearHome(n, old, k)
      <3>1. ASSUME NEW k \in 1 .. m PROVE new[k] = NearHome(n, old, k)
        BY <2>2
      <3>2. new[m + 1] = NearHome(n, old, m + 1)
        BY DEF new
      <3>3. \A k \in 1 .. m + 1 : k \in 1 .. m \/ k = m + 1
        OBVIOUS
      <3> QED
        BY <3>1, <3>2, <3>3
    <2>6. new = [k \in 1 .. m + 1 |-> new[k]]
      BY DEF new
    <2>7. IsNear(n, new, m + 1)
      BY <2>4, <2>5, <2>6 DEF IsNear
    <2> QED
      BY <2>7
  <1> HIDE DEF S
  <1>3. RipInfinity \in S
    BY <1>1, <1>2, SetInduction, RipAssumption DEF RipAssumption
  <1>4. \E near : IsNear(n, near, RipInfinity)
    BY <1>3 DEF S
  <1> QED
    BY <1>4 DEF Near

(* Another hop is one more.                                                     *)
LEMMA NearSteps ==
    ASSUME NEW n
    PROVE  /\ RipAttached[n] \in Near(n)[1]
           /\ \A k \in 1 .. RipInfinity, s \in Router, r \in Router :
                 k + 1 <= RipInfinity /\ s \in Near(n)[k] /\ <<s, r>> \in RipLinks
                     => r \in Near(n)[k + 1]
  <1>1. RipInfinity \in Nat /\ RipInfinity > 1
    BY RipAssumption DEF RipAssumption
  <1>2. \A k \in 1 .. RipInfinity : Near(n)[k] = NearHome(n, Near(n), k)
    BY NearExists DEF IsNear
  <1>3. RipAttached[n] \in Near(n)[1]
    <2>1. 1 \in 1 .. RipInfinity
      BY <1>1
    <2>2. Near(n)[1] = NearHome(n, Near(n), 1)
      BY <1>2, <2>1
    <2> QED
      BY <2>2 DEF NearHome
  <1>4. ASSUME NEW k \in 1 .. RipInfinity, NEW s \in Router, NEW r \in Router,
               k + 1 <= RipInfinity, s \in Near(n)[k], <<s, r>> \in RipLinks
        PROVE  r \in Near(n)[k + 1]
    <2>1. k + 1 \in 1 .. RipInfinity /\ k + 1 # 1 /\ (k + 1) - 1 = k
      BY <1>1, <1>4
    <2>2. Near(n)[k + 1] = NearHome(n, Near(n), k + 1)
      BY <1>2, <2>1
    <2> QED
      BY <1>4, <2>1, <2>2 DEF NearHome
  <1> QED
    BY <1>3, <1>4

LEMMA WithinIsNear ==
    ASSUME ripUp = RipLinks, ripGone = {}, NEW n
    PROVE  RipWithin(n) = Near(n)
  <1>1. n \notin ripGone
    OBVIOUS
  <1> QED
    BY <1>1, Zenon DEF RipWithin, Near, IsNear, NearHome

(* What a table says of the way to network n is the length of a way.            *)
NotTooShort(e, r, n) ==
    /\ e.distance \in 1 .. RipInfinity
    /\ e.distance < RipInfinity => r \in Near(n)[e.distance]

WaysAreReal ==
    /\ ripUp = RipLinks /\ ripGone = {}
    /\ \A r \in Router, n \in Network : NotTooShort(ripTable[r][n], r, n)
    /\ \A l \in RipLinks, n \in Network : NotTooShort(ripCopy[l][n], l[1], n)

RipIInv ==
    /\ DOMAIN ripTable = Router /\ DOMAIN ripCopy = RipLinks
    /\ ripFailures \in Nat
    /\ ripFailures = 0 => WaysAreReal

LEMMA RipBegins == RipInit => RipIInv
  <1> SUFFICES ASSUME RipInit PROVE RipIInv
    OBVIOUS
  <1>1. RipInfinity \in Nat /\ RipInfinity > 1
    BY RipAssumption DEF RipAssumption
  <1>2. \A r, n : NotTooShort(NoRoute, r, n)
    BY <1>1 DEF NotTooShort, NoRoute
  <1>3. \A r, n : RipAttached[n] = r => NotTooShort([distance |-> 1, hop |-> r], r, n)
    BY <1>1, NearSteps DEF NotTooShort
  <1>4. \A r \in Router, n \in Network : NotTooShort(ripTable[r][n], r, n)
    BY <1>2, <1>3 DEF RipInit
  <1>5. \A l \in RipLinks, n \in Network : NotTooShort(ripCopy[l][n], l[1], n)
    BY <1>2 DEF RipInit
  <1> QED
    BY <1>4, <1>5 DEF RipInit, RipIInv, WaysAreReal

(* An entry that is merged says that the way through the neighbour exists.       *)
LEMMA MergedNotTooShort ==
    ASSUME NEW n, NEW s \in Router, NEW r \in Router, <<s, r>> \in RipLinks,
           NEW current, NotTooShort(current, r, n),
           NEW advertised, NotTooShort(advertised, s, n)
    PROVE  NotTooShort(MergedEntry(current, advertised, s), r, n)
  <1> DEFINE candidate == CandidateDistance(advertised)
             new == [distance |-> candidate, hop |-> s]
  <1>1. RipInfinity \in Nat /\ RipInfinity > 1
    BY RipAssumption DEF RipAssumption
  <1>2. advertised.distance \in 1 .. RipInfinity
    BY DEF NotTooShort
  <1>3. candidate \in 1 .. RipInfinity
    BY <1>1, <1>2 DEF CandidateDistance
  <1>4. ASSUME candidate < RipInfinity PROVE r \in Near(n)[candidate]
    <2>1. candidate = advertised.distance + 1 /\ advertised.distance < RipInfinity
          /\ advertised.distance + 1 <= RipInfinity
      BY <1>1, <1>2, <1>4 DEF CandidateDistance
    <2>2. s \in Near(n)[advertised.distance]
      BY <2>1 DEF NotTooShort
    <2> HIDE DEF candidate
    <2> QED
      BY <1>2, <2>1, <2>2, NearSteps
  <1>5. NotTooShort(new, r, n)
    BY <1>3, <1>4 DEF NotTooShort
  <1> QED
    BY <1>5 DEF MergedEntry

LEMMA RipKeeps == RipIInv /\ [RipNext]_ripVars => RipIInv'
  <1> SUFFICES ASSUME RipIInv, [RipNext]_ripVars PROVE RipIInv'
    OBVIOUS
  <1>1. ASSUME NEW s \in Router, NEW r \in Router, Advertise(s, r)
        PROVE  RipIInv'
    <2>1. DOMAIN ripTable' = Router /\ DOMAIN ripCopy' = RipLinks /\ ripFailures' \in Nat
      BY <1>1 DEF RipIInv, Advertise
    <2>2. ASSUME ripFailures' = 0 PROVE WaysAreReal'
      <3>1. WaysAreReal
        BY <1>1, <2>2 DEF RipIInv, Advertise
      <3>2. ASSUME NEW l \in RipLinks, NEW n \in Network
            PROVE  NotTooShort(ripCopy'[l][n], l[1], n)
        <4>1. CASE l = <<s, r>>
          <5>1. ripCopy'[l] = ripTable[s] /\ l[1] = s
            BY <1>1, <4>1 DEF RipIInv, Advertise
          <5> QED
            BY <3>1, <5>1 DEF WaysAreReal
        <4>2. CASE l # <<s, r>>
          <5>1. ripCopy'[l] = ripCopy[l]
            BY <1>1, <4>2 DEF RipIInv, Advertise
          <5> QED
            BY <3>1, <5>1 DEF WaysAreReal
        <4> QED
          BY <4>1, <4>2
      <3> QED
        BY <1>1, <3>1, <3>2 DEF WaysAreReal, Advertise
    <2> QED
      BY <2>1, <2>2 DEF RipIInv
  <1>2. ASSUME NEW s \in Router, NEW r \in Router, MergeTable(r, s)
        PROVE  RipIInv'
    <2>1. DOMAIN ripTable' = Router /\ DOMAIN ripCopy' = RipLinks /\ ripFailures' \in Nat
      BY <1>2 DEF RipIInv, MergeTable
    <2>2. ASSUME ripFailures' = 0 PROVE WaysAreReal'
      <3>1. WaysAreReal /\ <<s, r>> \in RipLinks
        BY <1>2, <2>2 DEF RipIInv, MergeTable, WaysAreReal
      <3>2. \A n \in Network : /\ NotTooShort(ripTable[r][n], r, n)
                               /\ NotTooShort(ripCopy[<<s, r>>][n], s, n)
        BY <3>1 DEF WaysAreReal
      <3>3. ASSUME NEW x \in Router, NEW n \in Network
            PROVE  NotTooShort(ripTable'[x][n], x, n)
        <4>1. CASE x = r
          <5>1. ripTable'[x][n] = MergedEntry(ripTable[r][n], ripCopy[<<s, r>>][n], s)
            BY <1>2, <4>1 DEF RipIInv, MergeTable
          <5> QED
            BY <3>1, <3>2, <4>1, <5>1, MergedNotTooShort
        <4>2. CASE x # r
          <5>1. ripTable'[x] = ripTable[x]
            BY <1>2, <4>2 DEF RipIInv, MergeTable
          <5> QED
            BY <3>1, <5>1 DEF WaysAreReal
        <4> QED
          BY <4>1, <4>2
      <3> QED
        BY <1>2, <3>1, <3>3 DEF WaysAreReal, MergeTable
    <2> QED
      BY <2>1, <2>2 DEF RipIInv
  <1>3. CASE (\E m \in Network : FailNetwork(m)) \/ (\E a, b \in Router : FailLink(a, b))
    <2>1. DOMAIN ripTable' = Router /\ ripCopy' = ripCopy /\ ripFailures' = ripFailures + 1
      BY <1>3 DEF FailNetwork, FailLink, Lost
    <2> QED
      BY <2>1 DEF RipIInv
  <1>4. CASE UNCHANGED ripVars
    BY <1>4 DEF ripVars, RipIInv, WaysAreReal
  <1> QED
    BY <1>1, <1>2, <1>3, <1>4 DEF RipNext

(* As long as nothing has failed no router takes a network for nearer than it    *)
(* is, for every network of routers, whoever hands which table to whom and       *)
(* however old it is by then (LAB13/34 main.cpp:53-72).                         *)
THEOREM NeverShorter == RipSpec => []NeverTooShort
  <1>1. RipIInv => NeverTooShort
    <2> SUFFICES ASSUME RipIInv, ripFailures = 0, NEW r \in Router, NEW n \in Network
                 PROVE  ripTable[r][n].distance >= TrueDistance(r, n)
      BY DEF NeverTooShort
    <2> DEFINE d == ripTable[r][n].distance
               ways == {RipInfinity} \cup {k \in 1 .. RipInfinity : r \in Near(n)[k]}
    <2>1. WaysAreReal /\ NotTooShort(ripTable[r][n], r, n)
      BY DEF RipIInv, WaysAreReal
    <2>2. RipInfinity \in Nat /\ RipInfinity > 1
      BY RipAssumption DEF RipAssumption
    <2>3. ways \in SUBSET Nat /\ d \in ways /\ d \in Nat
      BY <2>1, <2>2 DEF NotTooShort
    <2>4. TrueDistance(r, n) = Min(ways)
      <3>1. RipWithin(n) = Near(n)
        BY <2>1, WithinIsNear DEF WaysAreReal
      <3> QED
        BY <3>1 DEF TrueDistance
    <2> HIDE DEF d, ways
    <2>5. Min(ways) \in Nat /\ Min(ways) <= d
      BY <2>3, MinIsLeast
    <2>6. d >= TrueDistance(r, n)
      BY <2>3, <2>4, <2>5
    <2> QED
      BY <2>6 DEF d
  <1> QED
    BY <1>1, RipBegins, RipKeeps, PTL DEF RipSpec
-------------------------------------------------------------------------------
(* Division with remainder, as the provers need it.                             *)
LEMMA DivisionParts ==
    ASSUME NEW a \in Nat, NEW b \in Nat, b > 0
    PROVE  /\ a \div b \in Int /\ a % b \in 0 .. b - 1
           /\ a = b * (a \div b) + (a % b)
  <1>1. a = b * (a \div b) + (a % b)
    OBVIOUS
  <1>2. a \div b \in Int /\ a % b \in 0 .. b - 1
    OBVIOUS
  <1> QED
    BY <1>1, <1>2

LEMMA RemainderIs ==
    ASSUME NEW a \in Nat, NEW b \in Nat, b > 0,
           NEW q \in Int, NEW r \in 0 .. b - 1, a = b * q + r
    PROVE  a % b = r
  OBVIOUS

(* A multiple of b that lies between -b and b is 0.                             *)
LEMMA SmallMultiple ==
    ASSUME NEW b \in Nat, b > 0, NEW q \in Int, -b < b * q, b * q < b
    PROVE  q = 0
  <1>1. q >= 1 => b * q >= b
    OBVIOUS
  <1>2. q <= -1 => b * q <= -b
    OBVIOUS
  <1> QED
    BY <1>1, <1>2

(* What is assumed of the constants, one by one.                                *)
LEMMA PingConstants ==
    /\ SeqSize \in Nat /\ SeqSize > 1
    /\ Day \in Nat /\ Day > 1 /\ WordSize \in Nat /\ 2 * Day <= WordSize
  BY PingAssumption DEF PingAssumption

LEMMA SameNumber ==
    ASSUME NEW k \in Nat, NEW n \in Nat, k <= n, Young(k, n), k % SeqSize = n % SeqSize
    PROVE  k = n
  <1>1. SeqSize \in Nat /\ SeqSize > 0
    BY PingConstants
  <1> DEFINE p == k \div SeqSize
             q == n \div SeqSize
  <1>2. p \in Int /\ k = SeqSize * p + (k % SeqSize) /\ k % SeqSize \in Int
    BY <1>1, DivisionParts
  <1>3. q \in Int /\ n = SeqSize * q + (k % SeqSize)
    BY <1>1, DivisionParts
  <1>4. n - k < SeqSize
    BY <1>1 DEF Young
  <1> HIDE DEF p, q
  <1>5. n - k = SeqSize * (q - p)
    BY <1>1, <1>2, <1>3
  <1>6. q - p = 0
    <2>1. q - p \in Int /\ -SeqSize < SeqSize * (q - p) /\ SeqSize * (q - p) < SeqSize
      BY <1>1, <1>2, <1>3, <1>4, <1>5
    <2> QED
      BY <1>1, <2>1, SmallMultiple
  <1> QED
    BY <1>1, <1>5, <1>6

LEMMA NextDayTime ==
    ASSUME NEW t \in Nat
    PROVE  /\ DayTime(t) \in 0 .. Day - 1
           /\ DayTime(t + 1) = IF DayTime(t) = Day - 1 THEN 0 ELSE DayTime(t) + 1
  <1>1. Day \in Nat /\ Day > 1
    BY PingConstants
  <1> DEFINE q == t \div Day
             r == t % Day
  <1>2. q \in Int /\ r \in 0 .. Day - 1 /\ t = Day * q + r
    BY <1>1, DivisionParts
  <1> HIDE DEF q, r
  <1>3. CASE r = Day - 1
    <2>1. q + 1 \in Int /\ 0 \in 0 .. Day - 1 /\ t + 1 \in Nat
          /\ t + 1 = Day * (q + 1) + 0
      BY <1>1, <1>2, <1>3
    <2>2. (t + 1) % Day = 0
      BY <1>1, <2>1, RemainderIs
    <2> QED
      BY <1>2, <1>3, <2>2 DEF r, DayTime
  <1>4. CASE r # Day - 1
    <2>1. r + 1 \in 0 .. Day - 1 /\ t + 1 \in Nat /\ t + 1 = Day * q + (r + 1)
      BY <1>1, <1>2, <1>4
    <2>2. (t + 1) % Day = r + 1
      BY <1>1, <1>2, <2>1, RemainderIs
    <2> QED
      BY <1>2, <1>4, <2>2 DEF r, DayTime
  <1> QED
    BY <1>3, <1>4

LEMMA ElapsedIsWaited ==
    ASSUME NEW t \in Nat, NEW waited \in {0, 1}
    PROVE  Elapsed(DayTime(t), DayTime(t + waited)) = waited
  <1>1. Day \in Nat /\ Day > 1 /\ WordSize \in Nat /\ 2 * Day <= WordSize
    BY PingConstants
  <1> DEFINE r == DayTime(t)
             e == DayTime(t + waited)
             x == e + Day - r
  <1>2. r \in 0 .. Day - 1 /\ e \in 0 .. Day - 1
    BY NextDayTime
  <1>3. x \in 1 .. 2 * Day - 1
    BY <1>1, <1>2
  <1>4. x % WordSize = x
    BY <1>1, <1>3, RemainderIs
  <1>5. x \in {waited, waited + Day}
    <2>1. CASE waited = 0
      BY <1>1, <1>2, <2>1
    <2>2. CASE waited = 1
      <3>1. e = IF r = Day - 1 THEN 0 ELSE r + 1
        BY <2>2, NextDayTime
      <3> QED
        BY <1>1, <1>2, <2>2, <3>1
    <2> QED
      BY <2>1, <2>2
  <1>6. waited % Day = waited
    BY <1>1, RemainderIs
  <1>7. (waited + Day) % Day = waited
    <2>1. waited + Day \in Nat /\ waited \in 0 .. Day - 1
          /\ waited + Day = Day * 1 + waited
      BY <1>1
    <2> QED
      BY <1>1, <2>1, RemainderIs
  <1> QED
    BY <1>4, <1>5, <1>6, <1>7 DEF Elapsed

(* Ping and timestamps.  What is kept of every reply in the socket: which        *)
(* request it answers, that this is one of the last SeqSize - 1, when that was   *)
(* sent, and how long the server took.                                          *)
Answers(p, sent) ==
    /\ p.of \in DOMAIN sent /\ Young(p.of, Len(sent))
    /\ p.seq = p.of % SeqSize
    /\ p.sent = sent[p.of]
    /\ p.waited \in {0, 1}
    /\ \E t \in Nat : p.receive = DayTime(t) /\ p.transmit = DayTime(t + p.waited)

PingIInv ==
    /\ pingTool \in {"ping", "timestamp"}
    /\ pingSent \in Seq(Nat)
    /\ pingClock \in Nat
    /\ \A p \in pingReplies : Answers(p, pingSent)
    /\ TimesAreRight

LEMMA PingBegins == PingInit => PingIInv
  BY DEF PingInit, PingStart, PingIInv, TimesAreRight

LEMMA PingSendKeeps == PingIInv /\ PingSend => PingIInv'
  <1> SUFFICES ASSUME PingIInv, PingSend PROVE PingIInv'
    OBVIOUS
  <1> DEFINE n == Len(pingSent) + 1
             sent == Append(pingSent, pingClock)
  <1>1. /\ sent \in Seq(Nat) /\ Len(sent) = n
        /\ \A k \in DOMAIN pingSent : k \in DOMAIN sent /\ sent[k] = pingSent[k]
    BY DEF PingIInv
  <1>2. \A p \in pingReplies : Young(p.of, n) => Answers(p, sent)
    BY <1>1 DEF PingIInv, Answers
  <1> QED
    BY <1>1, <1>2 DEF PingIInv, PingSend, TimesAreRight

LEMMA PingAnswerKeeps ==
    ASSUME PingIInv, NEW k \in DOMAIN pingSent, NEW delay \in {0, 1}, PingAnswer(k, delay)
    PROVE  PingIInv'
  <1> DEFINE reply == [of |-> k, seq |-> k % SeqSize, sent |-> pingSent[k],
                       waited |-> delay, receive |-> DayTime(pingClock),
                       transmit |-> DayTime(pingClock + delay)]
  <1>1. Answers(reply, pingSent)
    BY DEF PingIInv, PingAnswer, Answers
  <1>2. \A p \in pingReplies' : Answers(p, pingSent)
    BY <1>1 DEF PingIInv, PingAnswer
  <1>3. pingClock' \in Nat
    BY DEF PingIInv, PingAnswer
  <1> QED
    BY <1>2, <1>3 DEF PingIInv, PingAnswer, TimesAreRight

(* What is accepted is measured from the request it answers: for the timestamp   *)
(* client because only the last request has the number it waits for.             *)
LEMMA PingReceiveKeeps ==
    ASSUME PingIInv, NEW p \in pingReplies, PingReceive(p)
    PROVE  PingIInv'
  <1> DEFINE n == Len(pingSent)
  <1>1. /\ Answers(p, pingSent) /\ pingSent \in Seq(Nat)
        /\ p.of \in 1 .. n /\ n \in Nat
    <2>1. Answers(p, pingSent) /\ pingSent \in Seq(Nat)
      BY DEF PingIInv
    <2>2. p.of \in DOMAIN pingSent
      BY <2>1 DEF Answers
    <2> QED
      BY <2>1, <2>2
  <1>2. Rtt(p) = pingClock - pingSent[p.of]
    <2>1. CASE pingTool = "ping"
      BY <1>1, <2>1 DEF Rtt, Answers
    <2>2. CASE pingTool = "timestamp"
      <3>1. p.of % SeqSize = n % SeqSize
        BY <1>1, <2>2 DEF PingReceive, Accepts, Answers
      <3>2. p.of = n
        BY <1>1, <3>1, SameNumber DEF Answers
      <3> QED
        BY <2>2, <3>2 DEF Rtt
    <2> QED
      BY <2>1, <2>2 DEF PingIInv
  <1>3. Elapsed(p.receive, p.transmit) = p.waited
    BY <1>1, ElapsedIsWaited DEF Answers
  <1>4. TimesAreRight'
    BY <1>2, <1>3 DEF PingReceive, TimesAreRight
  <1> QED
    BY <1>4 DEF PingIInv, PingReceive

LEMMA PingKeeps == PingIInv /\ [PingNext]_pingVars => PingIInv'
  <1> SUFFICES ASSUME PingIInv, [PingNext]_pingVars PROVE PingIInv'
    OBVIOUS
  <1>1. CASE PingSend
    BY <1>1, PingSendKeeps
  <1>2. CASE PingOverflow \/ PingTimeout \/ UNCHANGED pingVars
    BY <1>2 DEF PingOverflow, PingTimeout, pingVars, PingIInv, TimesAreRight
  <1>3. ASSUME NEW k \in DOMAIN pingSent, NEW delay \in {0, 1}, PingAnswer(k, delay)
        PROVE  PingIInv'
    BY <1>3, PingAnswerKeeps
  <1>4. ASSUME NEW p \in pingReplies, PingReceive(p)
        PROVE  PingIInv'
    BY <1>4, PingReceiveKeeps
  <1>5. CASE PingTick
    BY <1>5 DEF PingTick, PingIInv, TimesAreRight
  <1> QED
    BY <1>1, <1>2, <1>3, <1>4, <1>5 DEF PingNext

(* The times printed are those of the request whose number is printed with them, *)
(* for every number of requests, width of the sequence number and length of the  *)
(* day, and whatever the network does to the replies (ping_client.py:59-66,      *)
(* icmp_time_client.c:89-94).                                                   *)
THEOREM TimesRight == PingSpec => []TimesAreRight
  <1>1. PingIInv => TimesAreRight
    BY DEF PingIInv
  <1> QED
    BY <1>1, PingBegins, PingKeeps, PTL DEF PingSpec
-------------------------------------------------------------------------------
(* DHCP.  What is kept of a client in state d: which server and address it has   *)
(* chosen, and which messages it has sent in the exchange it is in.              *)
DhcpLease ==
    [state : {"init", "selecting", "requesting", "bound", "renewing", "rebooting"},
     server : DhcpServer \cup {NoServer},
     ip : DhcpAddress \cup {NoIp}]

ChosenBy(c, d) ==
    d.state = "requesting" => d.server \in DhcpServer /\ d.ip = PlannedIp(d.server, c)

SentBy(d, m) ==
    /\ d.state = "requesting" =>
          \/ m.type = "DISCOVER"
          \/ m.type = "REQUEST" /\ m.requested = d.ip /\ m.server = d.server
    /\ d.state = "renewing" =>
          m.type = "REQUEST" /\ m.requested = NoIp /\ m.ciaddr = d.ip
    /\ d.state = "selecting" => m.type = "DISCOVER"

DhcpIInv ==
    /\ dhcpState \in [DhcpClient -> DhcpLease]
    /\ DOMAIN dhcpMessages = DhcpClient
    /\ \A c \in DhcpClient :
          /\ ChosenBy(c, dhcpState[c])
          /\ \A m \in dhcpMessages[c] : SentBy(dhcpState[c], m)

LEMMA PlansAreAddresses ==
    ASSUME NEW s \in DhcpServer, NEW c \in DhcpClient
    PROVE  PlannedIp(s, c) \in DhcpAddress
  BY DhcpAssumption DEF DhcpAssumption, PlannedIp

LEMMA UnboundIsALease ==
    /\ Unbound \in DhcpLease
    /\ [Unbound EXCEPT !.state = "selecting"] \in DhcpLease
    /\ [Unbound EXCEPT !.state = "selecting"].state = "selecting"
    /\ \A ip \in DhcpAddress :
          LET d == [Unbound EXCEPT !.state = "rebooting", !.ip = ip]
          IN  d \in DhcpLease /\ d.state = "rebooting"
  BY DEF Unbound, DhcpLease

(* What a client does is its own affair.                                        *)
LEMMA GoingKeeps ==
    ASSUME DhcpIInv, NEW c \in DhcpClient, NEW d \in DhcpLease, NEW sent,
           ChosenBy(c, d), \A m \in sent : SentBy(d, m),
           ClientGoes(c, d, sent)
    PROVE  /\ DhcpIInv'
           /\ dhcpState'[c] = d
           /\ \A x \in DhcpClient \ {c} : dhcpState'[x] = dhcpState[x]
  BY DEF DhcpIInv, ClientGoes

(* A server that answers a REQUEST meant for one server is that server, and one  *)
(* that refuses an address plans another.                                       *)
LEMMA AcksAreFromChosen ==
    ASSUME DhcpIInv, NEW c \in DhcpClient, NEW s \in Answering(c, "ACK"),
           dhcpState[c].state = "requesting"
    PROVE  s = dhcpState[c].server
  <1>1. PICK m \in dhcpMessages[c] : ReplyType(s, c, m) = "ACK"
    BY DEF Answering
  <1>2. SentBy(dhcpState[c], m) /\ ChosenBy(c, dhcpState[c])
    BY DEF DhcpIInv
  <1>3. m.type # "DISCOVER" /\ IsFor(m, s)
    BY <1>1, <1>2 DEF ReplyType, SentBy
  <1>4. m.server = dhcpState[c].server /\ dhcpState[c].server # NoServer
    BY <1>2, <1>3, DhcpAssumption DEF SentBy, ChosenBy, DhcpAssumption
  <1> QED
    BY <1>3, <1>4 DEF IsFor

LEMMA NaksAreForOthers ==
    ASSUME DhcpIInv, NEW c \in DhcpClient, NEW s \in Answering(c, "NAK"),
           dhcpState[c].state \in {"requesting", "renewing"}
    PROVE  PlannedIp(s, c) # dhcpState[c].ip
  <1>1. PICK m \in dhcpMessages[c] : ReplyType(s, c, m) = "NAK"
    BY DEF Answering
  <1>2. SentBy(dhcpState[c], m) /\ ChosenBy(c, dhcpState[c])
    BY DEF DhcpIInv
  <1> DEFINE asked == IF m.requested # NoIp THEN m.requested ELSE m.ciaddr
  <1>3. m.type # "DISCOVER" /\ asked # PlannedIp(s, c)
    BY <1>1, <1>2 DEF ReplyType, SentBy
  <1>4. CASE dhcpState[c].state = "requesting"
    <2>1. dhcpState[c].ip # NoIp
      BY <1>2, <1>4, PlansAreAddresses, DhcpAssumption DEF ChosenBy, DhcpAssumption
    <2> QED
      BY <1>2, <1>3, <1>4, <2>1 DEF SentBy
  <1>5. CASE dhcpState[c].state = "renewing"
    BY <1>2, <1>3, <1>5 DEF SentBy
  <1> QED
    BY <1>4, <1>5

(* One step of ChoiceIsKept.                                                    *)
ChoiceKept(c) ==
    LET old == dhcpState[c]
        new == dhcpState'[c]
    IN  /\ old.state = "requesting" /\ new.state = "bound"
              => new.server = old.server /\ new.ip = old.ip
        /\ old.state \in {"requesting", "renewing"} /\ new.state = "init"
              => \E s \in DhcpServer : PlannedIp(s, c) # old.ip

(* It is enough to look at the client that moves.                               *)
LEMMA MoverMatters ==
    ASSUME NEW c \in DhcpClient, ChoiceKept(c),
           \A x \in DhcpClient \ {c} : dhcpState'[x] = dhcpState[x]
    PROVE  \A x \in DhcpClient : ChoiceKept(x)
  BY DEF ChoiceKept

LEMMA DhcpSteps ==
    ASSUME DhcpIInv, DhcpNext
    PROVE  DhcpIInv' /\ \A c \in DhcpClient : ChoiceKept(c)
  <1> SUFFICES ASSUME NEW c \in DhcpClient,
                      \/ Discover(c)
                      \/ \E ip \in DhcpAddress : Reboot(c, ip)
                      \/ \E to \in {{dhcpState[c].server}, DhcpServer} : Renew(c, to)
                      \/ Release(c)
                      \/ \E s \in DhcpServer :
                            TakeOffer(c, s) \/ TakeAck(c, s) \/ TakeNak(c, s)
               PROVE  DhcpIInv' /\ \A x \in DhcpClient : ChoiceKept(x)
    BY DEF DhcpNext
  <1>0. dhcpState[c] \in DhcpLease
    BY DEF DhcpIInv
  <1>1. CASE Discover(c)
    <2> DEFINE d == [Unbound EXCEPT !.state = "selecting"]
               sent == {Message("DISCOVER", NoIp, NoIp, NoServer, DhcpServer)}
    <2>1. d \in DhcpLease /\ d.state = "selecting"
      BY UnboundIsALease
    <2>2. \A m \in sent : m.type = "DISCOVER"
      BY DEF Message
    <2>3. ClientGoes(c, d, sent)
      BY <1>1 DEF Discover
    <2> HIDE DEF d, sent
    <2>4. ChosenBy(c, d) /\ \A m \in sent : SentBy(d, m)
      BY <2>1, <2>2 DEF ChosenBy, SentBy
    <2>5. /\ DhcpIInv' /\ dhcpState'[c] = d
          /\ \A x \in DhcpClient \ {c} : dhcpState'[x] = dhcpState[x]
      BY <2>1, <2>3, <2>4, GoingKeeps
    <2> QED
      BY <2>1, <2>5, MoverMatters DEF ChoiceKept
  <1>2. ASSUME NEW ip \in DhcpAddress, Reboot(c, ip)
        PROVE  DhcpIInv' /\ \A x \in DhcpClient : ChoiceKept(x)
    <2> DEFINE d == [Unbound EXCEPT !.state = "rebooting", !.ip = ip]
               sent == {Message("REQUEST", ip, NoIp, NoServer, DhcpServer)}
    <2>1. d \in DhcpLease /\ d.state = "rebooting"
      BY UnboundIsALease
    <2>2. ClientGoes(c, d, sent)
      BY <1>2 DEF Reboot
    <2> HIDE DEF d, sent
    <2>3. ChosenBy(c, d) /\ \A m \in sent : SentBy(d, m)
      BY <2>1 DEF ChosenBy, SentBy
    <2>4. /\ DhcpIInv' /\ dhcpState'[c] = d
          /\ \A x \in DhcpClient \ {c} : dhcpState'[x] = dhcpState[x]
      BY <2>1, <2>2, <2>3, GoingKeeps
    <2> QED
      BY <2>1, <2>4, MoverMatters DEF ChoiceKept
  <1>3. ASSUME NEW to, Renew(c, to)
        PROVE  DhcpIInv' /\ \A x \in DhcpClient : ChoiceKept(x)
    <2> DEFINE d == [dhcpState[c] EXCEPT !.state = "renewing"]
               sent == {Message("REQUEST", NoIp, dhcpState[c].ip, NoServer, to)}
    <2>1. d \in DhcpLease /\ d.state = "renewing" /\ d.ip = dhcpState[c].ip
      BY <1>0 DEF DhcpLease
    <2>2. \A m \in sent : m.type = "REQUEST" /\ m.requested = NoIp
                          /\ m.ciaddr = dhcpState[c].ip
      BY DEF Message
    <2>3. ClientGoes(c, d, sent)
      BY <1>3 DEF Renew
    <2> HIDE DEF d, sent
    <2>4. ChosenBy(c, d) /\ \A m \in sent : SentBy(d, m)
      BY <2>1, <2>2 DEF ChosenBy, SentBy
    <2>5. /\ DhcpIInv' /\ dhcpState'[c] = d
          /\ \A x \in DhcpClient \ {c} : dhcpState'[x] = dhcpState[x]
      BY <2>1, <2>3, <2>4, GoingKeeps
    <2> QED
      BY <2>1, <2>5, MoverMatters DEF ChoiceKept
  <1>4. CASE Release(c)
    <2>1. Unbound \in DhcpLease /\ Unbound.state = "init" /\ dhcpState[c].state = "bound"
      BY <1>4, UnboundIsALease DEF Unbound, Release
    <2>2. ChosenBy(c, Unbound)
      BY <2>1 DEF ChosenBy
    <2>3. /\ DhcpIInv' /\ dhcpState'[c] = Unbound
          /\ \A x \in DhcpClient \ {c} : dhcpState'[x] = dhcpState[x]
      BY <1>4, <2>1, <2>2, GoingKeeps DEF Release
    <2> QED
      BY <2>1, <2>3, MoverMatters DEF ChoiceKept
  <1>5. ASSUME NEW s \in DhcpServer, TakeOffer(c, s)
        PROVE  DhcpIInv' /\ \A x \in DhcpClient : ChoiceKept(x)
    <2> DEFINE d == [state |-> "requesting", server |-> s, ip |-> PlannedIp(s, c)]
               asks == Message("REQUEST", PlannedIp(s, c), NoIp, s, DhcpServer)
               sent == dhcpMessages[c] \cup {asks}
    <2>1. /\ d \in DhcpLease
          /\ d.state = "requesting" /\ d.server = s /\ d.ip = PlannedIp(s, c)
      BY PlansAreAddresses DEF DhcpLease
    <2>2. asks.type = "REQUEST" /\ asks.requested = PlannedIp(s, c) /\ asks.server = s
      BY DEF Message
    <2>3. ClientGoes(c, d, sent)
      BY <1>5 DEF TakeOffer
    <2>4. dhcpState[c].state = "selecting"
      BY <1>5 DEF TakeOffer
    <2>5. \A m \in dhcpMessages[c] : m.type = "DISCOVER"
      BY <2>4 DEF DhcpIInv, SentBy
    <2> HIDE DEF d, asks
    <2>6. ChosenBy(c, d) /\ \A m \in sent : SentBy(d, m)
      BY <2>1, <2>2, <2>5 DEF ChosenBy, SentBy
    <2>7. /\ DhcpIInv' /\ dhcpState'[c] = d
          /\ \A x \in DhcpClient \ {c} : dhcpState'[x] = dhcpState[x]
      BY <2>1, <2>3, <2>6, GoingKeeps
    <2> QED
      BY <2>1, <2>7, MoverMatters DEF ChoiceKept
  <1>6. ASSUME NEW s \in DhcpServer, TakeAck(c, s)
        PROVE  DhcpIInv' /\ \A x \in DhcpClient : ChoiceKept(x)
    <2> DEFINE d == [state |-> "bound", server |-> s, ip |-> PlannedIp(s, c)]
    <2>1. /\ d \in DhcpLease
          /\ d.state = "bound" /\ d.server = s /\ d.ip = PlannedIp(s, c)
      BY PlansAreAddresses DEF DhcpLease
    <2>2. ClientGoes(c, d, {}) /\ s \in Answering(c, "ACK")
      BY <1>6 DEF TakeAck
    <2> HIDE DEF d
    <2>3. ChosenBy(c, d)
      BY <2>1 DEF ChosenBy
    <2>4. /\ DhcpIInv' /\ dhcpState'[c] = d
          /\ \A x \in DhcpClient \ {c} : dhcpState'[x] = dhcpState[x]
      BY <2>1, <2>2, <2>3, GoingKeeps
    <2>5. dhcpState[c].state = "requesting" =>
              s = dhcpState[c].server /\ dhcpState[c].ip = PlannedIp(s, c)
      BY <2>2, AcksAreFromChosen DEF DhcpIInv, ChosenBy
    <2>6. ChoiceKept(c)
      BY <2>1, <2>4, <2>5 DEF ChoiceKept
    <2> QED
      BY <2>4, <2>6, MoverMatters
  <1>7. ASSUME NEW s \in DhcpServer, TakeNak(c, s)
        PROVE  DhcpIInv' /\ \A x \in DhcpClient : ChoiceKept(x)
    <2>1. Unbound \in DhcpLease /\ Unbound.state = "init"
      BY UnboundIsALease DEF Unbound
    <2>2. ClientGoes(c, Unbound, {}) /\ s \in Answering(c, "NAK")
      BY <1>7 DEF TakeNak
    <2>3. ChosenBy(c, Unbound)
      BY <2>1 DEF ChosenBy
    <2>4. /\ DhcpIInv' /\ dhcpState'[c] = Unbound
          /\ \A x \in DhcpClient \ {c} : dhcpState'[x] = dhcpState[x]
      BY <2>1, <2>2, <2>3, GoingKeeps
    <2>5. ChoiceKept(c)
      BY <2>1, <2>2, <2>4, NaksAreForOthers DEF ChoiceKept
    <2> QED
      BY <2>4, <2>5, MoverMatters
  <1> QED
    BY <1>1, <1>2, <1>3, <1>4, <1>5, <1>6, <1>7

LEMMA DhcpBegins == DhcpInit => DhcpIInv
  <1> SUFFICES ASSUME DhcpInit PROVE DhcpIInv
    OBVIOUS
  <1>1. Unbound \in DhcpLease /\ Unbound.state = "init"
    BY UnboundIsALease DEF Unbound
  <1>2. \A c \in DhcpClient : dhcpState[c] = Unbound /\ dhcpMessages[c] = {}
    BY DEF DhcpInit
  <1>3. dhcpState \in [DhcpClient -> DhcpLease] /\ DOMAIN dhcpMessages = DhcpClient
    BY <1>1 DEF DhcpInit
  <1> QED
    BY <1>1, <1>2, <1>3 DEF DhcpIInv, ChosenBy

(* A client that has chosen a server is bound by that one, to the address it was *)
(* offered, and loses an address only to a server that plans another, for every  *)
(* number of servers and clients, whatever their tables say, and however         *)
(* messages are lost, doubled or delayed (dhcp_server.py:253-262).               *)
THEOREM ChoiceKeptAlways == DhcpSpec => ChoiceIsKept
  <1>1. DhcpIInv /\ [DhcpNext]_dhcpVars => DhcpIInv'
    BY DhcpSteps DEF DhcpIInv, dhcpVars
  <1>2. DhcpIInv /\ [DhcpNext]_dhcpVars =>
            [\A c \in DhcpClient : ChoiceKept(c)]_dhcpVars
    BY DhcpSteps
  <1>3. [\A c \in DhcpClient : ChoiceKept(c)]_dhcpVars =>
        [\A c \in DhcpClient :
            LET old == dhcpState[c]
                new == dhcpState'[c]
            IN  /\ old.state = "requesting" /\ new.state = "bound"
                      => new.server = old.server /\ new.ip = old.ip
                /\ old.state \in {"requesting", "renewing"} /\ new.state = "init"
                      => \E s \in DhcpServer : PlannedIp(s, c) # old.ip]_dhcpVars
    BY DEF ChoiceKept
  <1> QED
    BY <1>1, <1>2, <1>3, DhcpBegins, PTL DEF DhcpSpec, ChoiceIsKept
-------------------------------------------------------------------------------
(* Fragmentation.                                                               *)
FragStart(f) == OffsetUnit * f.offset
FragEnd(f) == OffsetUnit * f.offset + f.length - kHeaderLength

(* A sequence of pieces that carry the payload from `from` to `to`.              *)
Carries(q, from, to) ==
    /\ q \in Seq([length : Nat, offset : Nat]) /\ q # <<>>
    /\ FragStart(q[1]) = from /\ FragEnd(q[Len(q)]) = to
    /\ \A i \in 1 .. Len(q) - 1 : FragEnd(q[i]) = FragStart(q[i + 1])
    /\ \A i \in 1 .. Len(q) : q[i].length > kHeaderLength

LEMMA CarriesOn ==
    ASSUME NEW q, NEW r, NEW from, NEW middle, NEW to,
           Carries(q, from, middle), Carries(r, middle, to)
    PROVE  Carries(q \o r, from, to)
  <1> DEFINE m == Len(q)
             n == Len(r)
             t == q \o r
  <1>1. /\ q \in Seq([length : Nat, offset : Nat]) /\ r \in Seq([length : Nat, offset : Nat])
        /\ m \in Nat /\ n \in Nat /\ m > 0 /\ n > 0
    BY DEF Carries
  <1>2. /\ FragStart(q[1]) = from /\ FragEnd(q[m]) = middle
        /\ FragStart(r[1]) = middle /\ FragEnd(r[n]) = to
    BY DEF Carries
  <1>3. \A i \in 1 .. m - 1 : FragEnd(q[i]) = FragStart(q[i + 1])
    BY DEF Carries
  <1>4. \A i \in 1 .. n - 1 : FragEnd(r[i]) = FragStart(r[i + 1])
    BY DEF Carries
  <1>5. \A i \in 1 .. m : q[i].length > kHeaderLength
    BY DEF Carries
  <1>6. \A i \in 1 .. n : r[i].length > kHeaderLength
    BY DEF Carries
  <1>7. /\ t \in Seq([length : Nat, offset : Nat]) /\ Len(t) = m + n
        /\ \A i \in 1 .. m : t[i] = q[i]
        /\ \A i \in 1 .. n : t[m + i] = r[i]
    BY <1>1
  <1> HIDE DEF t, m, n
  <1>8. t[1] = q[1] /\ t[m + n] = r[n] /\ t[m + 1] = r[1] /\ t[m] = q[m]
    BY <1>1, <1>7
  <1>9. ASSUME NEW i \in 1 .. Len(t) - 1
        PROVE  FragEnd(t[i]) = FragStart(t[i + 1])
    <2>1. CASE i < m
      <3>1. i \in 1 .. m - 1 /\ t[i] = q[i] /\ t[i + 1] = q[i + 1]
        BY <1>1, <1>7, <2>1
      <3> QED
        BY <1>3, <3>1
    <2>2. CASE i = m
      BY <1>2, <1>8, <2>2
    <2>3. CASE i > m
      <3> DEFINE j == i - m
      <3>1. j \in 1 .. n - 1 /\ m + j = i /\ j + 1 \in 1 .. n /\ m + (j + 1) = i + 1
        BY <1>1, <1>7, <2>3
      <3> HIDE DEF j
      <3>2. t[i] = r[j] /\ t[i + 1] = r[j + 1]
        <4>1. j \in 1 .. n
          BY <1>1, <3>1
        <4> QED
          BY <1>7, <3>1, <4>1
      <3> QED
        BY <1>4, <3>1, <3>2
    <2> QED
      BY <1>1, <2>1, <2>2, <2>3
  <1>10. ASSUME NEW i \in 1 .. Len(t)
        PROVE  t[i].length > kHeaderLength
    <2>1. CASE i <= m
      <3>1. i \in 1 .. m /\ t[i] = q[i]
        BY <1>1, <1>7, <2>1
      <3> QED
        BY <1>5, <3>1
    <2>2. CASE i > m
      <3>1. i - m \in 1 .. n /\ m + (i - m) = i
        BY <1>1, <1>7, <2>2
      <3>2. t[i] = r[i - m]
        BY <1>7, <3>1
      <3> QED
        BY <1>6, <3>1, <3>2
    <2> QED
      BY <1>1, <2>1, <2>2
  <1>11. t # <<>>
    BY <1>1, <1>7
  <1>12. FragStart(t[1]) = from /\ FragEnd(t[Len(t)]) = to
    BY <1>2, <1>7, <1>8
  <1>13. Carries(t, from, to)
    BY <1>7, <1>9, <1>10, <1>11, <1>12 DEF Carries
  <1> QED
    BY <1>13 DEF t

(* What FlattenSeq builds step by step.                                         *)
NextFlat(qs, flatten, i) == IF i = 1 THEN qs[i] ELSE flatten[i - 1] \o qs[i]

Flattened(qs, flatten, m) == flatten = [i \in 1 .. m |-> NextFlat(qs, flatten, i)]

LEMMA FlattenedExists ==
    ASSUME NEW qs, NEW n \in Nat
    PROVE  \E flatten : Flattened(qs, flatten, n)
  <1> DEFINE S == {m \in Nat : \E flatten : Flattened(qs, flatten, m)}
  <1>1. 0 \in S
    <2>1. Flattened(qs, [i \in 1 .. 0 |-> <<>>], 0)
      BY DEF Flattened
    <2> QED
      BY <2>1
  <1>2. ASSUME NEW m \in Nat, m \in S PROVE m + 1 \in S
    <2>1. PICK old : Flattened(qs, old, m)
      BY <1>2
    <2> DEFINE new == [i \in 1 .. m + 1 |-> IF i <= m THEN old[i] ELSE NextFlat(qs, old, i)]
    <2>2. \A i \in 1 .. m : new[i] = old[i] /\ old[i] = NextFlat(qs, old, i)
      BY <2>1 DEF Flattened
    <2>3. \A i \in 1 .. m + 1 : i # 1 => i - 1 \in 1 .. m
      OBVIOUS
    <2>4. \A i \in 1 .. m + 1 : i \in 1 .. m \/ i = m + 1
      OBVIOUS
    <2> HIDE DEF new
    <2>5. new[m + 1] = NextFlat(qs, old, m + 1)
      BY DEF new
    <2>6. new = [i \in 1 .. m + 1 |-> new[i]]
      BY DEF new
    <2>7. \A i \in 1 .. m + 1 : NextFlat(qs, new, i) = NextFlat(qs, old, i)
      BY <2>2, <2>3 DEF NextFlat
    <2>8. \A i \in 1 .. m + 1 : new[i] = NextFlat(qs, new, i)
      BY <2>2, <2>4, <2>5, <2>7
    <2>10. Flattened(qs, new, m + 1)
      BY <2>6, <2>8 DEF Flattened
    <2> QED
      BY <2>10
  <1> HIDE DEF S
  <1>3. n \in S
    BY <1>1, <1>2, SetInduction
  <1> QED
    BY <1>3 DEF S

LEMMA FlattenIs ==
    ASSUME NEW qs, Len(qs) \in Nat, Len(qs) # 0
    PROVE  \E flatten : Flattened(qs, flatten, Len(qs)) /\ FlattenSeq(qs) = flatten[Len(qs)]
  <1> DEFINE n == Len(qs)
             f == CHOOSE flatten : Flattened(qs, flatten, n)
  <1>1. Flattened(qs, f, n)
    BY FlattenedExists
  <1>2. FlattenSeq(qs) = f[n]
    BY Zenon DEF FlattenSeq, Flattened, NextFlat
  <1> QED
    BY <1>1, <1>2

(* Pieces of pieces: if each piece of q is replaced by pieces that carry what it  *)
(* carried, all of them together carry what q carried.                          *)
LEMMA PiecesOfPieces ==
    ASSUME NEW q, NEW from, NEW to, Carries(q, from, to),
           NEW qs, Len(qs) = Len(q),
           \A i \in 1 .. Len(q) : Carries(qs[i], FragStart(q[i]), FragEnd(q[i]))
    PROVE  Carries(FlattenSeq(qs), from, to)
  <1> DEFINE n == Len(q)
  <1>1. /\ n \in Nat /\ n > 0 /\ FragStart(q[1]) = from /\ FragEnd(q[n]) = to
        /\ \A i \in 1 .. n - 1 : FragEnd(q[i]) = FragStart(q[i + 1])
    BY DEF Carries
  <1>2. PICK flatten : Flattened(qs, flatten, n) /\ FlattenSeq(qs) = flatten[n]
    BY <1>1, FlattenIs
  <1>3. \A i \in 1 .. n : flatten[i] = NextFlat(qs, flatten, i)
    BY <1>2 DEF Flattened
  <1>4. \A i \in 1 .. n : Carries(qs[i], FragStart(q[i]), FragEnd(q[i]))
    OBVIOUS
  <1> HIDE DEF n
  <1> DEFINE S == {i \in Nat : i \in 1 .. n => Carries(flatten[i], from, FragEnd(q[i]))}
  <1>5. 0 \in S
    OBVIOUS
  <1>6. ASSUME NEW i \in Nat, i \in S PROVE i + 1 \in S
    <2> SUFFICES ASSUME i + 1 \in 1 .. n
                 PROVE  Carries(flatten[i + 1], from, FragEnd(q[i + 1]))
      OBVIOUS
    <2>1. Carries(qs[i + 1], FragStart(q[i + 1]), FragEnd(q[i + 1]))
      BY <1>4
    <2>2. CASE i = 0
      <3>1. flatten[i + 1] = qs[i + 1]
        BY <1>3, <2>2 DEF NextFlat
      <3> QED
        BY <1>1, <2>1, <2>2, <3>1
    <2>3. CASE i # 0
      <3>1. i \in 1 .. n /\ i \in 1 .. n - 1 /\ i + 1 # 1 /\ (i + 1) - 1 = i
        BY <1>1, <2>3
      <3>2. flatten[i + 1] = flatten[i] \o qs[i + 1]
        BY <1>3, <3>1 DEF NextFlat
      <3>3. Carries(flatten[i], from, FragStart(q[i + 1]))
        BY <1>1, <1>6, <3>1
      <3> QED
        BY <2>1, <3>2, <3>3, CarriesOn
    <2> QED
      BY <2>2, <2>3
  <1> HIDE DEF S
  <1>7. n \in S
    BY <1>1, <1>5, <1>6, SetInduction
  <1>8. Carries(flatten[n], from, FragEnd(q[n]))
    BY <1>1, <1>7 DEF S
  <1> QED
    BY <1>1, <1>2, <1>8

LEMMA QuotientParts ==
    ASSUME NEW a \in Nat, NEW b \in Nat, b > 0
    PROVE  a \div b \in Nat /\ b * (a \div b) \in Nat /\ b * (a \div b) <= a
  <1> DEFINE q == a \div b
  <1>1. q \in Int /\ a % b \in 0 .. b - 1 /\ a = b * q + (a % b)
    BY DivisionParts
  <1> HIDE DEF q
  <1>2. b * q \in Int /\ b * q <= a /\ b * q > -b
    BY <1>1
  <1>3. q <= -1 => b * q <= -b
    BY <1>1
  <1>4. q \in Nat
    BY <1>1, <1>2, <1>3
  <1>5. b * q \in Nat
    BY <1>4
  <1> QED
    BY <1>2, <1>4, <1>5 DEF q

(* One piece is cut so that nothing of it is lost.                              *)
LEMMA OneCut ==
    ASSUME NEW f \in [length : Nat, offset : Nat], f.length > kHeaderLength,
           NEW mtu \in Nat, ~ Refused(f, mtu)
    PROVE  Carries(FragmentOnce(f, mtu), FragStart(f), FragEnd(f))
  <1>1. CASE f.length <= mtu
    <2>1. FragmentOnce(f, mtu) = <<f>>
      BY <1>1 DEF FragmentOnce
    <2>2. /\ <<f>> \in Seq([length : Nat, offset : Nat]) /\ <<f>> # <<>>
          /\ Len(<<f>>) = 1 /\ <<f>>[1] = f
      OBVIOUS
    <2> QED
      BY <2>1, <2>2 DEF Carries
  <1>2. CASE f.length > mtu
    <2> DEFINE p == MaxPayload(mtu)
               k == p \div OffsetUnit
               full == (f.length - kHeaderLength - 1) \div p
               piece(i) == [length |-> IF i <= full THEN kHeaderLength + p
                                       ELSE f.length - full * p,
                            offset |-> f.offset + (i - 1) * k]
               q == [i \in 1 .. full + 1 |-> piece(i)]
    <2>1. f.length \in Nat /\ f.offset \in Nat /\ mtu > 20 /\ p # 0 /\ p = 8 * k /\ k \in Nat
      BY <1>2 DEF Refused, MaxPayload, kHeaderLength, OffsetUnit
    <2>2. p \in Nat /\ p > 0
      BY <2>1
    <2>3. f.length - kHeaderLength - 1 \in Nat
      BY <2>1 DEF kHeaderLength
    <2>4. FragmentOnce(f, mtu) = q
      <3>1. ~ (f.length <= mtu)
        BY <1>2, <2>1
      <3> QED
        BY <3>1 DEF FragmentOnce
    <2>5. full \in Nat /\ p * full \in Nat /\ p * full <= f.length - kHeaderLength - 1
      <3> HIDE DEF p
      <3> QED
        BY <2>2, <2>3, QuotientParts
    <2> HIDE DEF p, full, k
    <2>6. p * full <= f.length - 21 /\ full * p = p * full /\ full * p \in Nat
      BY <2>1, <2>2, <2>5 DEF kHeaderLength
    <2>7. \A i \in 1 .. full + 1 :
             /\ (i - 1) * k \in Nat /\ i * k = (i - 1) * k + k
      BY <2>1, <2>5
    <2>8. \A i \in 1 .. full + 1 : piece(i) \in [length : Nat, offset : Nat]
                                   /\ piece(i).length > kHeaderLength
      BY <2>1, <2>2, <2>5, <2>6, <2>7 DEF kHeaderLength
    <2>9. \A i \in 1 .. full : FragEnd(piece(i)) = FragStart(piece(i + 1))
      BY <2>1, <2>2, <2>5, <2>7 DEF FragEnd, FragStart, kHeaderLength, OffsetUnit
    <2>10. FragStart(piece(1)) = FragStart(f)
      BY <2>1 DEF FragStart, OffsetUnit
    <2>11. FragEnd(piece(full + 1)) = FragEnd(f)
      BY <2>1, <2>2, <2>5, <2>6 DEF FragEnd, kHeaderLength, OffsetUnit
    <2> HIDE DEF piece
    <2>12. q \in Seq([length : Nat, offset : Nat]) /\ Len(q) = full + 1
      BY <2>5, <2>8
    <2>13. \A i \in 1 .. full + 1 : q[i] = piece(i)
      OBVIOUS
    <2> HIDE DEF q
    <2>14. /\ q # <<>> /\ FragStart(q[1]) = FragStart(f) /\ FragEnd(q[Len(q)]) = FragEnd(f)
      BY <2>5, <2>10, <2>11, <2>12, <2>13
    <2>15. \A i \in 1 .. Len(q) - 1 : FragEnd(q[i]) = FragStart(q[i + 1])
      <3> SUFFICES ASSUME NEW i \in 1 .. Len(q) - 1
                   PROVE  FragEnd(q[i]) = FragStart(q[i + 1])
        OBVIOUS
      <3>1. i \in 1 .. full /\ i \in 1 .. full + 1 /\ i + 1 \in 1 .. full + 1
        BY <2>5, <2>12
      <3> QED
        BY <2>9, <2>13, <3>1
    <2>16. \A i \in 1 .. Len(q) : q[i].length > kHeaderLength
      BY <2>8, <2>12, <2>13
    <2> QED
      BY <2>4, <2>12, <2>14, <2>15, <2>16 DEF Carries
  <1> QED
    BY <1>1, <1>2

FragIInv ==
    /\ packetLength \in Nat
    /\ fragments # <<>> => Carries(fragments, 0, packetLength - kHeaderLength)

LEMMA LenOfDomain ==
    ASSUME NEW s, NEW n \in Nat, DOMAIN s = 1 .. n
    PROVE  Len(s) = n
  OBVIOUS

LEMMA ElementsOfSeq ==
    ASSUME NEW D, NEW s \in Seq(D)
    PROVE  \A i \in 1 .. Len(s) : s[i] \in D
  OBVIOUS

LEMMA FragBegins == FragmentInit => FragIInv
  <1> SUFFICES ASSUME FragmentInit, fragments # <<>> PROVE FragIInv
    BY FragmentAssumption DEF FragIInv, FragmentInit, FragmentStart, FragmentAssumption
  <1> DEFINE f == [length |-> packetLength, offset |-> 0]
  <1>1. packetLength \in Nat /\ packetLength > kHeaderLength /\ fragments = <<f>>
    BY FragmentAssumption DEF FragmentInit, FragmentStart, FragmentAssumption
  <1>2. f \in [length : Nat, offset : Nat] /\ f.length = packetLength /\ f.offset = 0
    BY <1>1
  <1> HIDE DEF f
  <1>3. /\ <<f>> \in Seq([length : Nat, offset : Nat]) /\ <<f>> # <<>>
        /\ Len(<<f>>) = 1 /\ <<f>>[1] = f
    BY <1>2
  <1>4. FragStart(f) = 0 /\ FragEnd(f) = packetLength - kHeaderLength
    BY <1>1, <1>2 DEF FragStart, FragEnd, kHeaderLength, OffsetUnit
  <1>5. Carries(<<f>>, 0, packetLength - kHeaderLength)
    BY <1>1, <1>2, <1>3, <1>4 DEF Carries
  <1> QED
    BY <1>1, <1>5 DEF FragIInv

LEMMA FragKeeps == FragIInv /\ [FragmentNext]_fragmentVars => FragIInv'
  <1> SUFFICES ASSUME FragIInv, FragmentNext PROVE FragIInv'
    BY DEF fragmentVars, FragIInv
  <1>1. PICK mtu \in PathMtu : NextLink(mtu)
    BY DEF FragmentNext
  <1>2. mtu \in Nat /\ packetLength' = packetLength /\ packetLength \in Nat
    BY <1>1, FragmentAssumption DEF FragmentAssumption, NextLink, FragIInv
  <1> SUFFICES ASSUME fragments' # <<>>
               PROVE  Carries(fragments', 0, packetLength - kHeaderLength)
    BY <1>2 DEF FragIInv
  <1> DEFINE qs == [i \in DOMAIN fragments |-> FragmentOnce(fragments[i], mtu)]
  <1>3. /\ Carries(fragments, 0, packetLength - kHeaderLength)
        /\ \A i \in DOMAIN fragments : ~ Refused(fragments[i], mtu)
        /\ fragments' = FlattenSeq(qs)
    BY <1>1 DEF NextLink, FragIInv
  <1>4. /\ fragments \in Seq([length : Nat, offset : Nat])
        /\ DOMAIN fragments = 1 .. Len(fragments) /\ Len(fragments) \in Nat
        /\ \A i \in 1 .. Len(fragments) :
              /\ fragments[i] \in [length : Nat, offset : Nat]
              /\ fragments[i].length > kHeaderLength
    <2>1. /\ fragments \in Seq([length : Nat, offset : Nat])
          /\ \A i \in 1 .. Len(fragments) : fragments[i].length > kHeaderLength
      BY <1>3 DEF Carries
    <2>2. \A i \in 1 .. Len(fragments) : fragments[i] \in [length : Nat, offset : Nat]
      BY <2>1, ElementsOfSeq
    <2> QED
      BY <2>1, <2>2
  <1>5. \A i \in 1 .. Len(fragments) :
           Carries(FragmentOnce(fragments[i], mtu), FragStart(fragments[i]),
                   FragEnd(fragments[i]))
    BY <1>2, <1>3, <1>4, OneCut
  <1>6. Len(qs) = Len(fragments) /\ \A i \in 1 .. Len(fragments) :
           qs[i] = FragmentOnce(fragments[i], mtu)
    <2>1. DOMAIN qs = 1 .. Len(fragments)
      BY <1>4
    <2>2. Len(qs) = Len(fragments)
      BY <1>4, <2>1, LenOfDomain
    <2> QED
      BY <1>4, <2>2
  <1> HIDE DEF qs
  <1> QED
    BY <1>3, <1>5, <1>6, PiecesOfPieces

(* Whoever puts the pieces together gets the packet, whatever its length, on     *)
(* every path and however often pieces are cut again (LAB8/61 main.cpp:23-41).   *)
THEOREM PiecesAlwaysAddUp == FragmentSpec => []PiecesAddUp
  <1>1. FragIInv => PiecesAddUp
    <2> SUFFICES ASSUME Carries(fragments, 0, packetLength - kHeaderLength),
                        packetLength \in Nat
                 PROVE  PiecesAddUp
      BY DEF FragIInv, PiecesAddUp
    <2>1. /\ fragments \in Seq([length : Nat, offset : Nat]) /\ fragments # <<>>
          /\ DOMAIN fragments = 1 .. Len(fragments) /\ 1 \in 1 .. Len(fragments)
      BY DEF Carries
    <2>2. fragments[1].offset \in Nat
      <3>1. fragments[1] \in [length : Nat, offset : Nat]
        BY <2>1, ElementsOfSeq
      <3> QED
        BY <3>1
    <2>3. OffsetUnit * fragments[1].offset = 0
      BY DEF Carries, FragStart
    <2>4. fragments[1].offset = 0
      BY <2>2, <2>3 DEF OffsetUnit
    <2> QED
      BY <2>1, <2>4 DEF PiecesAddUp, Carries, FragStart, FragEnd, Last
  <1> QED
    BY <1>1, FragBegins, FragKeeps, PTL DEF FragmentSpec

-------------------------------------------------------------------------------
(* Dijkstra.  The order in which nodes were taken from the queue for good is not *)
(* kept by the program; the argument needs that there is one.  A node is settled  *)
(* once its entry has been popped: from then on its distance and its predecessor  *)
(* stay, since every way that is still to be tried is at least as long.           *)
Reached(n) == n = dSource \/ dDistance[n] < kInfinity

LedTo(m, n) ==
    /\ dPrevious[n] = <<m>>
    /\ \E e \in dGraph : e[1] = m /\ e[2] = n /\ dDistance[m] + e[3] <= dDistance[n]

Settled(order) == {order[i] : i \in 1 .. Len(order)}

IsOrder(order) ==
    /\ order \in Seq(DNode)
    /\ \A i, j \in 1 .. Len(order) : order[i] = order[j] => i = j
    /\ \A i \in 1 .. Len(order) :
          IF i = 1 THEN order[i] = dSource ELSE \E j \in 1 .. i - 1 : LedTo(order[j], order[i])

NotQueued(order) ==
    \A n \in DNode : n \in Settled(order) <=> Reached(n) /\ <<dDistance[n], n>> \notin dQueue

ReachedBySettled(order) ==
    \A n \in DNode : Reached(n) /\ n # dSource => \E m \in Settled(order) : LedTo(m, n)

QueueIsLater(order) ==
    \A q \in dQueue : /\ Reached(q[2]) /\ dDistance[q[2]] <= q[1]
                      /\ \A m \in Settled(order) : dDistance[m] <= q[1]

InHand(order) ==
    \A e \in dEdges : /\ e[1] \in Settled(order)
                      /\ \A m \in Settled(order) : dDistance[m] <= dDistance[e[1]]

EdgesDone(order) ==
    \A e \in dGraph \ dEdges :
        e[1] \in Settled(order) => dDistance[e[2]] <= dDistance[e[1]] + e[3]

Orders(order) ==
    /\ IsOrder(order) /\ NotQueued(order) /\ ReachedBySettled(order)
    /\ QueueIsLater(order) /\ InHand(order) /\ EdgesDone(order)

DijkstraTypes ==
    /\ dGraph \subseteq DNode \X DNode \X (0 .. IntMax) /\ dSource \in DNode
    /\ dDistance \in [DNode -> Nat]
    /\ dDistance[dSource] = 0
    /\ \A n \in DNode : n # dSource => dDistance[n] <= kInfinity
    /\ DOMAIN dPrevious = DNode
    /\ dQueue \subseteq Nat \X DNode
    /\ dEdges \subseteq dGraph

DijkstraIInv == DijkstraTypes /\ \E order : Orders(order)

LEMMA Infinities ==
    /\ kInfinity \in Nat /\ kInfinity <= IntMax
    /\ IntMax \div 8 \in Nat /\ IntMax \div 8 <= kInfinity
  <1>1. IntMax \in Nat
    BY DijkstraAssumption DEF DijkstraAssumption
  <1> DEFINE q4 == IntMax \div 4
             q8 == IntMax \div 8
  <1>2. q4 \in Int /\ IntMax % 4 \in 0 .. 3 /\ IntMax = 4 * q4 + (IntMax % 4)
    BY <1>1, DivisionParts
  <1>3. q8 \in Int /\ IntMax % 8 \in 0 .. 7 /\ IntMax = 8 * q8 + (IntMax % 8)
    BY <1>1, DivisionParts
  <1> HIDE DEF q4, q8
  <1>4. q4 \in Nat /\ q4 <= IntMax /\ q8 \in Nat /\ q8 <= q4
    BY <1>1, <1>2, <1>3
  <1> QED
    BY <1>4 DEF q4, q8, kInfinity

LEMMA EdgeParts ==
    ASSUME DijkstraTypes, NEW e \in dGraph
    PROVE  /\ e[1] \in DNode /\ e[2] \in DNode /\ e[3] \in Nat
           /\ dDistance[e[1]] \in Nat /\ dDistance[e[2]] \in Nat
  <1>1. e \in DNode \X DNode \X (0 .. IntMax) /\ IntMax \in Nat
    BY DijkstraAssumption DEF DijkstraTypes, DijkstraAssumption
  <1>2. e[1] \in DNode /\ e[2] \in DNode /\ e[3] \in 0 .. IntMax
    BY <1>1
  <1> QED
    BY <1>1, <1>2 DEF DijkstraTypes

LEMMA DijkstraBegins == DijkstraInit => DijkstraIInv
  <1> SUFFICES ASSUME DijkstraInit PROVE DijkstraIInv
    OBVIOUS
  <1>1. PICK triples \in Graphs, directed \in BOOLEAN :
           \E n \in {e[1] : e \in triples} \cup {e[2] : e \in triples} :
               DijkstraStart(Parsed(triples, directed), n)
    BY DEF DijkstraInit
  <1>2. PICK n \in {e[1] : e \in triples} \cup {e[2] : e \in triples} :
           DijkstraStart(Parsed(triples, directed), n)
    BY <1>1
  <1>3. IntMax \in Nat /\ triples \subseteq DNode \X DNode \X (0 .. IntMax)
    BY <1>1, DijkstraAssumption DEF DijkstraAssumption
  <1>4. \A e \in triples : /\ e[1] \in DNode /\ e[2] \in DNode /\ e[3] \in 0 .. IntMax
                           /\ <<e[2], e[1], e[3]>> \in DNode \X DNode \X (0 .. IntMax)
    BY <1>3
  <1>5. Parsed(triples, directed) \subseteq DNode \X DNode \X (0 .. IntMax)
    BY <1>3, <1>4 DEF Parsed
  <1>6. n \in DNode
    BY <1>2, <1>4
  <1>7. DijkstraTypes
    BY <1>2, <1>5, <1>6, Infinities DEF DijkstraTypes, DijkstraStart
  <1>8. Settled(<<>>) = {}
    BY DEF Settled
  <1>9. Orders(<<>>)
    <2>1. IsOrder(<<>>)
      BY DEF IsOrder
    <2>2. \A m \in DNode : Reached(m) <=> m = dSource
      BY <1>2, <1>7, Infinities DEF DijkstraStart, DijkstraTypes, Reached
    <2>3. NotQueued(<<>>)
      BY <1>2, <1>7, <1>8, <2>2 DEF NotQueued, DijkstraStart, DijkstraTypes
    <2>4. ReachedBySettled(<<>>)
      BY <2>2 DEF ReachedBySettled
    <2>5. QueueIsLater(<<>>)
      BY <1>2, <1>7, <1>8, <2>2 DEF QueueIsLater, DijkstraStart, DijkstraTypes
    <2>6. InHand(<<>>) /\ EdgesDone(<<>>)
      BY <1>2, <1>8 DEF InHand, EdgesDone, DijkstraStart
    <2> QED
      BY <2>1, <2>3, <2>4, <2>5, <2>6 DEF Orders
  <1> QED
    BY <1>7, <1>9 DEF DijkstraIInv

(* An order goes on with a node that one of its nodes leads to.                 *)
LEMMA OrderGrows ==
    ASSUME NEW order, IsOrder(order), NEW n \in DNode, n \notin Settled(order),
           n = dSource => Len(order) = 0,
           n # dSource => \E m \in Settled(order) : LedTo(m, n)
    PROVE  IsOrder(Append(order, n))
  <1> DEFINE longer == Append(order, n)
  <1>1. /\ order \in Seq(DNode) /\ Len(order) \in Nat
        /\ longer \in Seq(DNode) /\ Len(longer) = Len(order) + 1
        /\ \A i \in 1 .. Len(order) : longer[i] = order[i]
        /\ longer[Len(order) + 1] = n
    BY DEF IsOrder
  <1>2. \A i \in 1 .. Len(order) + 1 : i \in 1 .. Len(order) \/ i = Len(order) + 1
    BY <1>1
  <1> HIDE DEF longer
  <1>3. ASSUME NEW i \in 1 .. Len(longer), NEW j \in 1 .. Len(longer),
               longer[i] = longer[j]
        PROVE  i = j
    <2>1. \A k \in 1 .. Len(order) : longer[k] # n
      BY <1>1 DEF Settled
    <2> QED
      BY <1>1, <1>2, <1>3, <2>1 DEF IsOrder
  <1>4. ASSUME NEW i \in 1 .. Len(longer)
        PROVE  IF i = 1 THEN longer[i] = dSource
               ELSE \E j \in 1 .. i - 1 : LedTo(longer[j], longer[i])
    <2>1. CASE i \in 1 .. Len(order)
      <3>1. IF i = 1 THEN order[i] = dSource
            ELSE \E j \in 1 .. i - 1 : LedTo(order[j], order[i])
        BY <2>1 DEF IsOrder
      <3>2. longer[i] = order[i] /\ \A j \in 1 .. i - 1 : longer[j] = order[j]
        BY <1>1, <2>1
      <3> QED
        BY <3>1, <3>2
    <2>2. CASE i = Len(order) + 1
      <3>1. longer[i] = n
        BY <1>1, <2>2
      <3>2. CASE n = dSource
        BY <2>2, <3>1, <3>2
      <3>3. CASE n # dSource
        <4>1. PICK m \in Settled(order) : LedTo(m, n)
          BY <3>3
        <4>2. PICK j \in 1 .. Len(order) : order[j] = m
          BY <4>1 DEF Settled
        <4>3. i # 1 /\ j \in 1 .. i - 1 /\ longer[j] = m
          BY <1>1, <2>2, <4>2
        <4> QED
          BY <3>1, <4>1, <4>3
      <3> QED
        BY <3>2, <3>3
    <2> QED
      BY <1>1, <1>2, <2>1, <2>2
  <1> QED
    BY <1>1, <1>3, <1>4 DEF IsOrder, longer

LEMMA PopKeeps ==
    ASSUME DijkstraTypes, NEW order, Orders(order), PopNode
    PROVE  DijkstraIInv'
  <1>1. PICK q \in dQueue :
           /\ dEdges = {}
           /\ \A p \in dQueue : q[1] <= p[1]
           /\ dQueue' = dQueue \ {q}
           /\ dEdges' = IF q[1] = dDistance[q[2]] THEN {e \in dGraph : e[1] = q[2]} ELSE {}
           /\ UNCHANGED <<dGraph, dSource, dDistance, dPrevious, dijkstraSound>>
    BY DEF PopNode
  <1>2. DijkstraTypes'
    BY <1>1 DEF DijkstraTypes
  <1> DEFINE u == q[2]
  <1>3. /\ \A n : Reached(n)' <=> Reached(n)
        /\ \A m, n : LedTo(m, n)' <=> LedTo(m, n)
    BY <1>1 DEF Reached, LedTo
  <1>4. /\ IsOrder(order) /\ NotQueued(order) /\ ReachedBySettled(order)
        /\ QueueIsLater(order) /\ EdgesDone(order)
    BY DEF Orders
  <1>5. q = <<q[1], u>> /\ q[1] \in Nat /\ u \in DNode /\ dDistance \in [DNode -> Nat]
    BY <1>1 DEF DijkstraTypes
  <1>6. /\ Reached(u) /\ dDistance[u] <= q[1]
        /\ \A m \in Settled(order) : dDistance[m] <= q[1]
    BY <1>1, <1>4 DEF QueueIsLater
  <1>7. /\ order \in Seq(DNode) /\ Len(order) \in Nat /\ Settled(order) \subseteq DNode
        /\ \A i \in 1 .. Len(order) : order[i] \in DNode
    BY <1>4 DEF IsOrder, Settled
  <1>8. CASE q[1] # dDistance[u]
    <2>1. dEdges' = {}
      BY <1>1, <1>8
    <2>2. IsOrder(order)'
      BY <1>1, <1>3, <1>4 DEF IsOrder
    <2>3. NotQueued(order)'
      <3>1. \A n \in DNode : <<dDistance[n], n>> # q
        BY <1>5, <1>8
      <3> QED
        BY <1>1, <1>3, <1>4, <3>1 DEF NotQueued, Settled
    <2>4. ReachedBySettled(order)'
      BY <1>1, <1>3, <1>4 DEF ReachedBySettled, Settled
    <2>5. QueueIsLater(order)'
      BY <1>1, <1>3, <1>4 DEF QueueIsLater, Settled
    <2>6. InHand(order)' /\ EdgesDone(order)'
      BY <1>1, <1>4, <2>1 DEF InHand, EdgesDone, Settled
    <2> QED
      BY <1>2, <2>2, <2>3, <2>4, <2>5, <2>6 DEF DijkstraIInv, Orders
  <1>9. CASE q[1] = dDistance[u]
    <2> DEFINE longer == Append(order, u)
    <2>1. /\ longer \in Seq(DNode) /\ Len(longer) = Len(order) + 1
          /\ \A i \in 1 .. Len(order) : longer[i] = order[i]
          /\ longer[Len(order) + 1] = u
      BY <1>5, <1>7
    <2>2. \A i \in 1 .. Len(order) + 1 : i \in 1 .. Len(order) \/ i = Len(order) + 1
      BY <1>7
    <2>3. 1 .. Len(order) \subseteq 1 .. Len(order) + 1 /\ Len(order) + 1 \in 1 .. Len(order) + 1
      BY <1>7
    <2> HIDE DEF longer
    <2>4. Settled(longer) = Settled(order) \cup {u}
      BY <2>1, <2>2, <2>3 DEF Settled
    <2>5. u \notin Settled(order)
      BY <1>1, <1>4, <1>5, <1>9 DEF NotQueued
    <2>6. IsOrder(longer)'
      <3>1. u = dSource => Len(order) = 0
        <4>1. ASSUME Len(order) # 0 PROVE dSource \in Settled(order)
          <5>1. 1 \in 1 .. Len(order)
            BY <1>7, <4>1
          <5> QED
            BY <1>4, <5>1 DEF IsOrder, Settled
        <4> QED
          BY <2>5, <4>1
      <3>2. u # dSource => \E m \in Settled(order) : LedTo(m, u)
        BY <1>4, <1>5, <1>6 DEF ReachedBySettled
      <3>3. IsOrder(longer)
        BY <1>4, <1>5, <2>5, <3>1, <3>2, OrderGrows DEF longer
      <3> QED
        BY <1>1, <1>3, <3>3 DEF IsOrder
    <2>7. NotQueued(longer)'
      <3>1. \A n \in DNode : n # u => <<dDistance[n], n>> # q
        BY <1>5
      <3>2. <<dDistance[u], u>> = q
        BY <1>5, <1>9
      <3>3. \A n \in DNode : n \in Settled(order) \cup {u} <=>
                Reached(n) /\ <<dDistance[n], n>> \notin dQueue \ {q}
        BY <1>4, <1>6, <3>1, <3>2 DEF NotQueued
      <3>4. \A n \in DNode : n \in Settled(longer) <=>
                Reached(n) /\ <<dDistance[n], n>> \notin dQueue \ {q}
        BY <2>4, <3>3
      <3> QED
        BY <1>1, <1>3, <3>4 DEF NotQueued, Settled
    <2>8. ReachedBySettled(longer)'
      <3>1. \A n \in DNode : Reached(n) /\ n # dSource =>
                \E m \in Settled(longer) : LedTo(m, n)
        BY <1>4, <2>4 DEF ReachedBySettled
      <3> QED
        BY <1>1, <1>3, <3>1 DEF ReachedBySettled, Settled
    <2>9. QueueIsLater(longer)'
      <3>1. \A p \in dQueue : /\ Reached(p[2]) /\ dDistance[p[2]] <= p[1]
                              /\ \A m \in Settled(longer) : dDistance[m] <= p[1]
        BY <1>1, <1>4, <1>9, <2>4 DEF QueueIsLater
      <3> QED
        BY <1>1, <1>3, <3>1 DEF QueueIsLater, Settled
    <2>10. InHand(longer)'
      <3>1. \A e \in dEdges' : e[1] = u
        BY <1>1
      <3>2. u \in Settled(longer) /\ \A m \in Settled(longer) : dDistance[m] <= dDistance[u]
        BY <1>5, <1>6, <1>9, <2>4
      <3> QED
        BY <1>1, <3>1, <3>2 DEF InHand, Settled
    <2>11. EdgesDone(longer)'
      <3>1. ASSUME NEW e \in dGraph, e \notin dEdges', e[1] \in Settled(longer)
            PROVE  dDistance[e[2]] <= dDistance[e[1]] + e[3]
        <4>1. e[1] # u
          BY <1>1, <1>9, <3>1
        <4> QED
          BY <1>1, <1>4, <2>4, <3>1, <4>1 DEF EdgesDone
      <3> QED
        BY <1>1, <3>1 DEF EdgesDone, Settled
    <2> QED
      BY <1>2, <2>6, <2>7, <2>8, <2>9, <2>10, <2>11 DEF DijkstraIInv, Orders
  <1> QED
    BY <1>8, <1>9

LEMMA RelaxKeeps ==
    ASSUME DijkstraTypes, NEW order, Orders(order), NEW e \in dEdges, RelaxEdge(e)
    PROVE  DijkstraIInv'
  <1> DEFINE u == e[1]
             v == e[2]
             candidate == dDistance[u] + e[3]
  <1>1. /\ u \in DNode /\ v \in DNode /\ e[3] \in Nat /\ e \in dGraph
        /\ dDistance[u] \in Nat /\ dDistance[v] \in Nat
    BY EdgeParts DEF DijkstraTypes
  <1>2. candidate \in Nat /\ dDistance[u] <= candidate
    BY <1>1
  <1>3. /\ dEdges' = dEdges \ {e} /\ dGraph' = dGraph /\ dSource' = dSource
    BY DEF RelaxEdge
  <1>4. /\ IsOrder(order) /\ NotQueued(order) /\ ReachedBySettled(order)
        /\ QueueIsLater(order) /\ InHand(order) /\ EdgesDone(order)
    BY DEF Orders
  <1>5. u \in Settled(order) /\ \A m \in Settled(order) : dDistance[m] <= dDistance[u]
    BY <1>4 DEF InHand
  <1>6. Settled(order) \subseteq DNode
    BY <1>4 DEF IsOrder, Settled
  <1>7. dDistance \in [DNode -> Nat]
    BY DEF DijkstraTypes
  <1>8. CASE ~ Better(candidate, v)
    <2>1. UNCHANGED <<dDistance, dPrevious, dQueue>>
      BY <1>8 DEF RelaxEdge
    <2>2. DijkstraTypes'
      BY <1>3, <2>1 DEF DijkstraTypes
    <2>3. /\ \A n : Reached(n)' <=> Reached(n)
          /\ \A m, n : LedTo(m, n)' <=> LedTo(m, n)
      BY <1>3, <2>1 DEF Reached, LedTo
    <2>4. IsOrder(order)'
      BY <1>3, <1>4, <2>3 DEF IsOrder
    <2>5. NotQueued(order)'
      BY <1>4, <2>1, <2>3 DEF NotQueued, Settled
    <2>6. ReachedBySettled(order)'
      BY <1>3, <1>4, <2>3 DEF ReachedBySettled, Settled
    <2>7. QueueIsLater(order)'
      BY <1>4, <2>1, <2>3 DEF QueueIsLater, Settled
    <2>8. InHand(order)'
      BY <1>3, <1>4, <2>1 DEF InHand, Settled
    <2>9. EdgesDone(order)'
      <3>1. dDistance[v] <= candidate
        BY <1>1, <1>2, <1>8 DEF Better
      <3>2. \A x \in dGraph \ dEdges' :
               x[1] \in Settled(order) => dDistance[x[2]] <= dDistance[x[1]] + x[3]
        BY <1>3, <1>4, <3>1 DEF EdgesDone
      <3> QED
        BY <1>3, <2>1, <3>2 DEF EdgesDone, Settled
    <2> QED
      BY <2>2, <2>4, <2>5, <2>6, <2>7, <2>8, <2>9 DEF DijkstraIInv, Orders
  <1>9. CASE Better(candidate, v)
    <2>1. /\ candidate < dDistance[v]
          /\ dDistance' = [dDistance EXCEPT ![v] = candidate]
          /\ dPrevious' = [dPrevious EXCEPT ![v] = <<u>>]
          /\ dQueue' = dQueue \cup {<<candidate, v>>}
      BY <1>9 DEF RelaxEdge, Better
    <2>2. v \notin Settled(order)
      BY <1>1, <1>2, <1>5, <2>1
    <2>3. v # dSource
      BY <1>2, <2>1 DEF DijkstraTypes
    <2> HIDE DEF candidate
    <2>4. /\ dDistance' \in [DNode -> Nat]
          /\ dDistance'[v] = candidate /\ dPrevious'[v] = <<u>>
          /\ \A n \in DNode : n # v => dDistance'[n] = dDistance[n] /\ dPrevious'[n] = dPrevious[n]
      BY <1>1, <1>2, <1>7, <2>1 DEF DijkstraTypes
    <2>5. candidate < kInfinity
      BY <1>1, <1>2, <2>1, <2>3, Infinities DEF DijkstraTypes
    <2>6. DijkstraTypes'
      <3>1. \A n \in DNode : n # dSource => dDistance'[n] <= kInfinity
        BY <1>2, <2>4, <2>5, Infinities DEF DijkstraTypes
      <3> QED
        BY <1>1, <1>2, <1>3, <2>1, <2>3, <2>4, <3>1 DEF DijkstraTypes
    <2>7. /\ Reached(v)'
          /\ \A n \in DNode : n # v => (Reached(n)' <=> Reached(n))
      BY <1>3, <2>4, <2>5 DEF Reached
    <2>8. /\ LedTo(u, v)'
          /\ \A m \in Settled(order), n \in DNode : n # v /\ LedTo(m, n) => LedTo(m, n)'
      <3>1. dDistance'[u] = dDistance[u]
        BY <1>1, <1>5, <2>2, <2>4
      <3>2. dDistance'[u] + e[3] <= dDistance'[v]
        BY <1>2, <2>4, <3>1 DEF candidate
      <3>3. LedTo(u, v)'
        BY <1>1, <1>3, <2>4, <3>2 DEF LedTo
      <3>4. \A m \in Settled(order) : dDistance'[m] = dDistance[m]
        BY <1>6, <2>2, <2>4
      <3> QED
        BY <1>3, <2>4, <3>3, <3>4 DEF LedTo
    <2>9. IsOrder(order)'
      <3>1. ASSUME NEW i \in 1 .. Len(order), i # 1
            PROVE  \E j \in 1 .. i - 1 : LedTo(order[j], order[i])'
        <4>1. PICK j \in 1 .. i - 1 : LedTo(order[j], order[i])
          BY <1>4, <3>1 DEF IsOrder
        <4>2. j \in 1 .. Len(order)
          BY <1>4, <3>1, <4>1 DEF IsOrder
        <4>3. order[j] \in Settled(order) /\ order[i] \in Settled(order)
          BY <3>1, <4>2 DEF Settled
        <4> QED
          BY <1>6, <2>2, <2>8, <4>1, <4>3
      <3> QED
        BY <1>3, <1>4, <3>1 DEF IsOrder
    <2>10. NotQueued(order)'
      <3>1. ASSUME NEW n \in DNode
            PROVE  n \in Settled(order) <=> Reached(n)' /\ <<dDistance'[n], n>> \notin dQueue'
        <4>1. CASE n = v
          BY <2>1, <2>2, <2>4, <4>1
        <4>2. CASE n # v
          <5>1. <<dDistance[n], n>> # <<candidate, v>>
            BY <4>2
          <5> QED
            BY <1>4, <2>1, <2>4, <2>7, <4>2, <5>1 DEF NotQueued
        <4> QED
          BY <4>1, <4>2
      <3> QED
        BY <3>1 DEF NotQueued, Settled
    <2>11. ReachedBySettled(order)'
      <3>1. ASSUME NEW n \in DNode, Reached(n)', n # dSource
            PROVE  \E m \in Settled(order) : LedTo(m, n)'
        <4>1. CASE n = v
          BY <1>5, <2>8, <4>1
        <4>2. CASE n # v
          BY <1>4, <2>7, <2>8, <3>1, <4>2 DEF ReachedBySettled
        <4> QED
          BY <4>1, <4>2
      <3> QED
        BY <1>3, <3>1 DEF ReachedBySettled, Settled
    <2>12. \A m \in Settled(order) : dDistance'[m] = dDistance[m] /\ dDistance[m] \in Nat
      BY <1>6, <1>7, <2>2, <2>4
    <2>13. QueueIsLater(order)'
      <3>1. ASSUME NEW q \in dQueue'
            PROVE  /\ Reached(q[2])' /\ dDistance'[q[2]] <= q[1]
                   /\ \A m \in Settled(order) : dDistance'[m] <= q[1]
        <4>1. CASE q = <<candidate, v>>
          <5>1. q[1] = candidate /\ q[2] = v
            BY <4>1
          <5>2. \A m \in Settled(order) : dDistance'[m] <= candidate
            BY <1>1, <1>2, <1>5, <2>12
          <5> QED
            BY <1>2, <2>4, <2>7, <5>1, <5>2
        <4>2. CASE q \in dQueue
          <5>1. /\ Reached(q[2]) /\ dDistance[q[2]] <= q[1]
                /\ \A m \in Settled(order) : dDistance[m] <= q[1]
            BY <1>4, <4>2 DEF QueueIsLater
          <5>2. q[1] \in Nat /\ q[2] \in DNode
            BY <4>2 DEF DijkstraTypes
          <5>3. dDistance'[q[2]] <= q[1]
            BY <1>1, <1>2, <2>1, <2>4, <5>1, <5>2
          <5> QED
            BY <2>7, <2>12, <5>1, <5>2, <5>3
        <4> QED
          BY <2>1, <3>1, <4>1, <4>2
      <3> QED
        BY <3>1 DEF QueueIsLater, Settled
    <2>14. InHand(order)'
      <3>1. \A x \in dEdges' : /\ x[1] \in Settled(order)
                               /\ \A m \in Settled(order) : dDistance'[m] <= dDistance'[x[1]]
        BY <1>3, <1>4, <2>12 DEF InHand
      <3> QED
        BY <3>1 DEF InHand, Settled
    <2>15. EdgesDone(order)'
      <3>1. ASSUME NEW x \in dGraph, x \notin dEdges', x[1] \in Settled(order)
            PROVE  dDistance'[x[2]] <= dDistance'[x[1]] + x[3]
        <4>1. /\ x[2] \in DNode /\ x[3] \in Nat /\ dDistance[x[2]] \in Nat
              /\ dDistance[x[1]] \in Nat /\ dDistance'[x[1]] = dDistance[x[1]]
          BY <2>12, <3>1, EdgeParts
        <4>2. CASE x = e
          BY <1>1, <2>4, <4>1, <4>2 DEF candidate
        <4>3. CASE x # e
          <5>1. dDistance[x[2]] <= dDistance[x[1]] + x[3]
            BY <1>3, <1>4, <3>1, <4>3 DEF EdgesDone
          <5>2. dDistance'[x[2]] <= dDistance[x[2]]
            BY <1>1, <1>2, <2>1, <2>4, <4>1
          <5>3. dDistance'[x[2]] \in Nat
            BY <2>4, <4>1
          <5> QED
            BY <4>1, <5>1, <5>2, <5>3
        <4> QED
          BY <4>2, <4>3
      <3> QED
        BY <1>3, <3>1 DEF EdgesDone, Settled
    <2> QED
      BY <2>6, <2>9, <2>10, <2>11, <2>13, <2>14, <2>15 DEF DijkstraIInv, Orders
  <1> QED
    BY <1>8, <1>9

LEMMA DijkstraKeeps == DijkstraIInv /\ [DijkstraNext]_dVars => DijkstraIInv'
  <1> SUFFICES ASSUME DijkstraIInv, [DijkstraNext]_dVars PROVE DijkstraIInv'
    OBVIOUS
  <1>1. DijkstraTypes
    BY DEF DijkstraIInv
  <1>2. PICK order : Orders(order)
    BY DEF DijkstraIInv
  <1>3. CASE PopNode
    BY <1>1, <1>2, <1>3, PopKeeps
  <1>4. CASE \E e \in dEdges : RelaxEdge(e)
    BY <1>1, <1>2, <1>4, RelaxKeeps
  <1>5. CASE UNCHANGED dVars
    <2>1. DijkstraTypes'
      BY <1>1, <1>5 DEF dVars, DijkstraTypes
    <2>2. /\ \A n : Reached(n)' <=> Reached(n)
          /\ \A m, n : LedTo(m, n)' <=> LedTo(m, n)
      BY <1>5 DEF dVars, Reached, LedTo
    <2>3. IsOrder(order)'
      BY <1>2, <1>5, <2>2 DEF dVars, Orders, IsOrder
    <2>4. NotQueued(order)'
      BY <1>2, <1>5, <2>2 DEF dVars, Orders, NotQueued, Settled
    <2>5. ReachedBySettled(order)'
      BY <1>2, <1>5, <2>2 DEF dVars, Orders, ReachedBySettled, Settled
    <2>6. QueueIsLater(order)'
      BY <1>2, <1>5, <2>2 DEF dVars, Orders, QueueIsLater, Settled
    <2>7. InHand(order)' /\ EdgesDone(order)'
      BY <1>2, <1>5 DEF dVars, Orders, InHand, EdgesDone, Settled
    <2> QED
      BY <2>1, <2>3, <2>4, <2>5, <2>6, <2>7 DEF DijkstraIInv, Orders
  <1> QED
    BY <1>3, <1>4, <1>5 DEF DijkstraNext

(* How many nodes there are bounds every order and every recursion.              *)
Steps == Cardinality(DNode)

LEMMA StepsType == Steps \in Nat
  BY DijkstraAssumption, FS_CardinalityType DEF DijkstraAssumption, Steps

LEMMA OrderFits ==
    ASSUME NEW order, IsOrder(order)
    PROVE  Len(order) \in Nat /\ Len(order) <= Steps
  <1> DEFINE n == Len(order)
             f == [i \in 1 .. n |-> order[i]]
  <1>1. n \in Nat /\ \A i \in 1 .. n : order[i] \in DNode
    BY DEF IsOrder
  <1>2. f \in [1 .. n -> DNode] /\ \A i, j \in 1 .. n : f[i] = f[j] => i = j
    BY <1>1 DEF IsOrder
  <1>3. IsFiniteSet(DNode)
    BY DijkstraAssumption DEF DijkstraAssumption
  <1> HIDE DEF n, f
  <1>4. IsFiniteSet(1 .. n) /\ Cardinality(1 .. n) = n
    <2>1. 1 \in Int /\ n \in Int
      BY <1>1
    <2>2. /\ IsFiniteSet(1 .. n)
          /\ Cardinality(1 .. n) = IF 1 > n THEN 0 ELSE n - 1 + 1
      BY <2>1, FS_Interval
    <2> QED
      BY <1>1, <2>2
  <1>5. f \in Injection(1 .. n, DNode)
    BY <1>2, Zenon DEF Injection, IsInjective
  <1>6. Cardinality(1 .. n) <= Cardinality(DNode)
    BY <1>3, <1>5, FS_Injection
  <1> QED
    BY <1>1, <1>4, <1>6 DEF Steps, n

(* The lengths of the shortest ways of at most k edges.                         *)
LengthHome(len, k) ==
    IF k = 0
    THEN [m \in DNode |-> IF m = dSource THEN 0 ELSE IntMax]
    ELSE [m \in DNode |-> Min({len[k - 1][m]} \cup
             {len[k - 1][e[1]] + e[3] : e \in {f \in dGraph : f[2] = m}})]

IsLength(len, m) == len = [k \in 0 .. m |-> LengthHome(len, k)]

LengthsOf(m) == CHOOSE len : IsLength(len, m)

LEMMA LengthsExist ==
    ASSUME NEW n \in Nat
    PROVE  IsLength(LengthsOf(n), n)
  <1> DEFINE S == {m \in Nat : \E len : IsLength(len, m)}
  <1>1. 0 \in S
    <2> DEFINE len == [k \in 0 .. 0 |-> LengthHome(<<>>, 0)]
    <2>1. \A k \in 0 .. 0 : LengthHome(len, k) = LengthHome(<<>>, 0)
      BY DEF LengthHome
    <2>2. IsLength(len, 0)
      BY <2>1 DEF IsLength
    <2> QED
      BY <2>2
  <1>2. ASSUME NEW m \in Nat, m \in S PROVE m + 1 \in S
    <2>1. PICK old : IsLength(old, m)
      BY <1>2
    <2> DEFINE new == [k \in 0 .. m + 1 |-> IF k <= m THEN old[k] ELSE LengthHome(old, k)]
    <2>2. \A k \in 0 .. m : new[k] = old[k] /\ old[k] = LengthHome(old, k)
      BY <2>1 DEF IsLength
    <2>3. \A k \in 0 .. m + 1 : k # 0 => k - 1 \in 0 .. m
      OBVIOUS
    <2>4. new[m + 1] = LengthHome(old, m + 1)
      OBVIOUS
    <2>5. new = [k \in 0 .. m + 1 |-> new[k]]
      OBVIOUS
    <2> HIDE DEF new
    <2>6. \A k \in 0 .. m + 1 : LengthHome(new, k) = LengthHome(old, k)
      <3>1. ASSUME NEW k \in 0 .. m + 1, k # 0 PROVE new[k - 1] = old[k - 1]
        BY <2>2, <2>3, <3>1
      <3> QED
        BY <3>1, Zenon DEF LengthHome
    <2>7. \A k \in 0 .. m + 1 : k \in 0 .. m \/ k = m + 1
      OBVIOUS
    <2>8. \A k \in 0 .. m + 1 : new[k] = LengthHome(old, k)
      BY <2>2, <2>4, <2>7
    <2>9. IsLength(new, m + 1)
      BY <2>5, <2>6, <2>8 DEF IsLength
    <2> QED
      BY <2>9
  <1> HIDE DEF S
  <1>3. n \in S
    BY <1>1, <1>2, SetInduction
  <1>4. \E len : IsLength(len, n)
    BY <1>3 DEF S
  <1> QED
    BY <1>4 DEF LengthsOf

LEMMA ShortestIs ==
    ASSUME NEW n
    PROVE  ShortestFrom(n) = LengthsOf(Steps)[Steps][n]
  BY Zenon DEF ShortestFrom, LengthsOf, IsLength, LengthHome, Steps

(* A way of one edge more: it is one of those that are compared, and the least.   *)
LEMMA LengthSteps ==
    ASSUME DijkstraTypes, NEW n \in Nat, NEW len, IsLength(len, n)
    PROVE  /\ \A k \in 0 .. n : len[k] \in [DNode -> Nat]
           /\ \A m \in DNode : len[0][m] = IF m = dSource THEN 0 ELSE IntMax
           /\ \A k \in Nat, m \in DNode : k + 1 <= n =>
                 /\ len[k + 1][m] <= len[k][m]
                 /\ \A e \in dGraph : e[2] = m => len[k + 1][m] <= len[k][e[1]] + e[3]
                 /\ \/ len[k + 1][m] = len[k][m]
                    \/ \E e \in dGraph : /\ e[2] = m
                                         /\ len[k + 1][m] = len[k][e[1]] + e[3]
  <1> DEFINE ways(k, m) == {len[k][m]} \cup
                 {len[k][e[1]] + e[3] : e \in {f \in dGraph : f[2] = m}}
             S == {k \in Nat : k <= n => len[k] \in [DNode -> Nat]}
  <1>1. \A k \in 0 .. n : len[k] = LengthHome(len, k)
    BY DEF IsLength
  <1>2. IntMax \in Nat
    BY DijkstraAssumption DEF DijkstraAssumption
  <1>3. len[0] = [m \in DNode |-> IF m = dSource THEN 0 ELSE IntMax]
    <2>1. 0 \in 0 .. n
      OBVIOUS
    <2> QED
      BY <1>1, <2>1 DEF LengthHome
  <1>4. \A k \in Nat : k + 1 <= n => len[k + 1] = [m \in DNode |-> Min(ways(k, m))]
    <2>1. ASSUME NEW k \in Nat, k + 1 <= n
          PROVE  len[k + 1] = [m \in DNode |-> Min(ways(k, m))]
      <3>1. k + 1 \in 0 .. n /\ k + 1 # 0 /\ (k + 1) - 1 = k
        BY <2>1
      <3>2. len[k + 1] = LengthHome(len, k + 1)
        BY <1>1, <3>1
      <3>3. \A x : x # 0 /\ x - 1 = k => LengthHome(len, x) = [m \in DNode |-> Min(ways(k, m))]
        BY Zenon DEF LengthHome
      <3> QED
        BY <3>1, <3>2, <3>3
    <2> QED
      BY <2>1
  <1>5. ASSUME NEW k \in Nat, len[k] \in [DNode -> Nat], NEW m \in DNode
        PROVE  /\ ways(k, m) \in SUBSET Nat /\ len[k][m] \in ways(k, m)
               /\ \A e \in dGraph : e[2] = m => len[k][e[1]] + e[3] \in ways(k, m)
    <2>1. \A e \in dGraph : len[k][e[1]] + e[3] \in Nat
      BY <1>5, EdgeParts
    <2> QED
      BY <1>5, <2>1
  <1>6. \A k \in Nat, m \in DNode : len[k] \in [DNode -> Nat] =>
            /\ Min(ways(k, m)) \in ways(k, m) /\ Min(ways(k, m)) \in Nat
            /\ Min(ways(k, m)) <= len[k][m]
            /\ \A e \in dGraph : e[2] = m => Min(ways(k, m)) <= len[k][e[1]] + e[3]
    <2> HIDE DEF ways
    <2> QED
      BY <1>5, MinIsLeast
  <1>7. 0 \in S
    BY <1>2, <1>3
  <1>8. ASSUME NEW k \in Nat, k \in S PROVE k + 1 \in S
    <2>1. ASSUME k + 1 <= n PROVE len[k + 1] \in [DNode -> Nat]
      <3>1. len[k] \in [DNode -> Nat]
        BY <1>8, <2>1
      <3> HIDE DEF ways
      <3>2. \A m \in DNode : Min(ways(k, m)) \in Nat
        BY <1>6, <3>1
      <3> QED
        BY <1>4, <2>1, <3>2
    <2> QED
      BY <2>1
  <1> HIDE DEF S
  <1>9. Nat \subseteq S
    BY <1>7, <1>8, SetInduction
  <1>10. \A k \in Nat : k <= n => len[k] \in [DNode -> Nat]
    BY <1>9 DEF S
  <1>11. ASSUME NEW k \in Nat, NEW m \in DNode, k + 1 <= n
         PROVE  /\ len[k + 1][m] <= len[k][m]
                /\ \A e \in dGraph : e[2] = m => len[k + 1][m] <= len[k][e[1]] + e[3]
                /\ \/ len[k + 1][m] = len[k][m]
                   \/ \E e \in dGraph : /\ e[2] = m
                                        /\ len[k + 1][m] = len[k][e[1]] + e[3]
    <2>1. len[k] \in [DNode -> Nat]
      BY <1>10, <1>11
    <2>2. len[k + 1][m] = Min(ways(k, m))
      BY <1>4, <1>11
    <2>3. len[k + 1][m] \in ways(k, m)
      BY <1>6, <2>1, <2>2
    <2>4. /\ Min(ways(k, m)) <= len[k][m]
          /\ \A e \in dGraph : e[2] = m => Min(ways(k, m)) <= len[k][e[1]] + e[3]
      <3> HIDE DEF ways
      <3> QED
        BY <1>6, <2>1
    <2>5. \/ len[k + 1][m] = len[k][m]
          \/ \E e \in dGraph : e[2] = m /\ len[k + 1][m] = len[k][e[1]] + e[3]
      BY <2>3
    <2> HIDE DEF ways
    <2> QED
      BY <2>2, <2>4, <2>5
  <1>12. \A m \in DNode : len[0][m] = IF m = dSource THEN 0 ELSE IntMax
    BY <1>3
  <1> QED
    BY <1>10, <1>11, <1>12

(* No way is shorter than the distances, once every edge has been tried.         *)
LEMMA NoneShorter ==
    ASSUME DijkstraTypes, NEW order, Orders(order), dQueue = {}, dEdges = {},
           NEW n \in Nat, NEW len, IsLength(len, n), NEW m \in DNode
    PROVE  dDistance[m] <= len[n][m] \/ kInfinity <= len[n][m]
  <1> DEFINE S == {k \in Nat : k <= n =>
                      \A x \in DNode : dDistance[x] <= len[k][x] \/ kInfinity <= len[k][x]}
  <1>1. /\ \A k \in 0 .. n : len[k] \in [DNode -> Nat]
        /\ \A x \in DNode : len[0][x] = IF x = dSource THEN 0 ELSE IntMax
        /\ \A k \in Nat, x \in DNode : k + 1 <= n =>
              \/ len[k + 1][x] = len[k][x]
              \/ \E e \in dGraph : e[2] = x /\ len[k + 1][x] = len[k][e[1]] + e[3]
    BY LengthSteps
  <1>2. 0 \in S
    BY <1>1, Infinities DEF DijkstraTypes
  <1>3. ASSUME NEW k \in Nat, k \in S PROVE k + 1 \in S
    <2>1. ASSUME k + 1 <= n, NEW x \in DNode
          PROVE  dDistance[x] <= len[k + 1][x] \/ kInfinity <= len[k + 1][x]
      <3>1. \A y \in DNode : dDistance[y] <= len[k][y] \/ kInfinity <= len[k][y]
        BY <1>3, <2>1
      <3>2. CASE len[k + 1][x] = len[k][x]
        BY <3>1, <3>2
      <3>3. ASSUME NEW e \in dGraph, e[2] = x, len[k + 1][x] = len[k][e[1]] + e[3]
            PROVE  dDistance[x] <= len[k + 1][x] \/ kInfinity <= len[k + 1][x]
        <4> DEFINE u == e[1]
        <4>1. /\ u \in DNode /\ e[3] \in Nat /\ dDistance[u] \in Nat /\ dDistance[x] \in Nat
          BY <3>3, EdgeParts
        <4>2. len[k][u] \in Nat
          BY <1>1, <2>1, <4>1
        <4>3. dDistance[u] <= len[k][u] \/ kInfinity <= len[k][u]
          BY <3>1, <4>1
        <4>4. CASE u \in Settled(order)
          <5>1. dDistance[x] <= dDistance[u] + e[3]
            BY <3>3, <4>4 DEF Orders, EdgesDone
          <5> QED
            BY <3>3, <4>1, <4>2, <4>3, <5>1, Infinities
        <4>5. CASE u \notin Settled(order)
          <5>1. kInfinity <= dDistance[u]
            BY <4>1, <4>5, Infinities DEF Orders, NotQueued, Reached
          <5> QED
            BY <3>3, <4>1, <4>2, <4>3, <5>1, Infinities
        <4> QED
          BY <4>4, <4>5
      <3> QED
        BY <1>1, <2>1, <3>2, <3>3
    <2> QED
      BY <2>1
  <1> HIDE DEF S
  <1>4. n \in S
    BY <1>2, <1>3, SetInduction
  <1> QED
    BY <1>4 DEF S

(* The distance of a settled node is the length of a way, of as many edges at the *)
(* most as nodes were settled before it.                                        *)
LEMMA DistancesAreWays ==
    ASSUME DijkstraTypes, NEW order, IsOrder(order),
           NEW n \in Nat, Len(order) <= n, NEW len, IsLength(len, n),
           NEW m \in Settled(order)
    PROVE  len[n][m] <= dDistance[m]
  <1> DEFINE S == {k \in Nat : k <= n =>
                      \A i \in 1 .. Len(order) :
                          i <= k + 1 => len[k][order[i]] <= dDistance[order[i]]}
  <1>1. /\ \A k \in 0 .. n : len[k] \in [DNode -> Nat]
        /\ \A x \in DNode : len[0][x] = IF x = dSource THEN 0 ELSE IntMax
        /\ \A k \in Nat, x \in DNode : k + 1 <= n =>
              /\ len[k + 1][x] <= len[k][x]
              /\ \A e \in dGraph : e[2] = x => len[k + 1][x] <= len[k][e[1]] + e[3]
    BY LengthSteps
  <1>2. Len(order) \in Nat /\ \A i \in 1 .. Len(order) : order[i] \in DNode
    BY DEF IsOrder
  <1>3. dDistance[dSource] = 0 /\ dSource \in DNode
    BY DEF DijkstraTypes
  <1>4. 0 \in S
    <2>1. ASSUME NEW i \in 1 .. Len(order), i <= 0 + 1 PROVE order[i] = dSource
      BY <1>2, <2>1 DEF IsOrder
    <2> QED
      BY <1>1, <1>3, <2>1
  <1>5. ASSUME NEW k \in Nat, k \in S PROVE k + 1 \in S
    <2>1. ASSUME k + 1 <= n, NEW i \in 1 .. Len(order), i <= (k + 1) + 1
          PROVE  len[k + 1][order[i]] <= dDistance[order[i]]
      <3>1. \A j \in 1 .. Len(order) : j <= k + 1 => len[k][order[j]] <= dDistance[order[j]]
        BY <1>5, <2>1
      <3>2. CASE i = 1
        <4>1. len[k][order[i]] <= dDistance[order[i]] /\ order[i] \in DNode
          BY <1>2, <2>1, <3>1, <3>2
        <4>2. len[k][order[i]] \in Nat /\ len[k + 1][order[i]] \in Nat
              /\ dDistance[order[i]] \in Nat
          BY <1>1, <2>1, <4>1 DEF DijkstraTypes
        <4>3. len[k + 1][order[i]] <= len[k][order[i]]
          BY <1>1, <2>1, <4>1
        <4> QED
          BY <4>1, <4>2, <4>3
      <3>3. CASE i # 1
        <4>1. PICK j \in 1 .. i - 1 : LedTo(order[j], order[i])
          BY <2>1, <3>3 DEF IsOrder
        <4>2. j \in 1 .. Len(order) /\ j <= k + 1
          BY <1>2, <2>1, <4>1
        <4>3. PICK e \in dGraph : /\ e[1] = order[j] /\ e[2] = order[i]
                                  /\ dDistance[order[j]] + e[3] <= dDistance[order[i]]
          BY <4>1 DEF LedTo
        <4>4. len[k][order[j]] <= dDistance[order[j]]
          BY <3>1, <4>2
        <4>5. len[k + 1][order[i]] <= len[k][order[j]] + e[3]
          <5>1. order[i] \in DNode
            BY <1>2
          <5>2. \A f \in dGraph : f[2] = order[i] =>
                    len[k + 1][order[i]] <= len[k][f[1]] + f[3]
            BY <1>1, <2>1, <5>1
          <5> QED
            BY <4>3, <5>2
        <4>6. /\ e[3] \in Nat /\ dDistance[order[j]] \in Nat /\ dDistance[order[i]] \in Nat
              /\ order[j] \in DNode /\ order[i] \in DNode
          BY <4>3, EdgeParts
        <4>7. len[k][order[j]] \in Nat /\ len[k + 1][order[i]] \in Nat
          <5>1. k \in 0 .. n /\ k + 1 \in 0 .. n
            BY <2>1
          <5>2. len[k] \in [DNode -> Nat] /\ len[k + 1] \in [DNode -> Nat]
            BY <1>1, <5>1
          <5> QED
            BY <4>6, <5>2
        <4>8. \A a, b, c, d, w \in Nat : a <= b /\ c <= a + w /\ b + w <= d => c <= d
          OBVIOUS
        <4> QED
          BY <4>3, <4>4, <4>5, <4>6, <4>7, <4>8
      <3> QED
        BY <3>2, <3>3
    <2> QED
      BY <2>1
  <1> HIDE DEF S
  <1>6. n \in S
    BY <1>4, <1>5, SetInduction
  <1>7. PICK i \in 1 .. Len(order) : order[i] = m
    BY DEF Settled
  <1>8. i <= n + 1
    BY <1>2, <1>7
  <1> QED
    BY <1>6, <1>7, <1>8 DEF S

(* build_path from n: the list of nodes from n back.                             *)
BackHome(back, k, n) ==
    IF k = 0 THEN <<n>>
    ELSE IF back[k - 1] = <<>> THEN <<>> ELSE dPrevious[back[k - 1][1]]

IsBack(back, m, n) == back = [k \in 0 .. m |-> BackHome(back, k, n)]

BackOf(n, m) == CHOOSE back : IsBack(back, m, n)

LEMMA BackExists ==
    ASSUME NEW n, NEW steps \in Nat
    PROVE  IsBack(BackOf(n, steps), steps, n)
  <1> DEFINE S == {m \in Nat : \E back : IsBack(back, m, n)}
  <1>1. 0 \in S
    <2> DEFINE back == [k \in 0 .. 0 |-> BackHome(<<>>, 0, n)]
    <2>1. \A k \in 0 .. 0 : BackHome(back, k, n) = BackHome(<<>>, 0, n)
      BY DEF BackHome
    <2>2. IsBack(back, 0, n)
      BY <2>1 DEF IsBack
    <2> QED
      BY <2>2
  <1>2. ASSUME NEW m \in Nat, m \in S PROVE m + 1 \in S
    <2>1. PICK old : IsBack(old, m, n)
      BY <1>2
    <2> DEFINE new == [k \in 0 .. m + 1 |-> IF k <= m THEN old[k] ELSE BackHome(old, k, n)]
    <2>2. \A k \in 0 .. m : new[k] = old[k] /\ old[k] = BackHome(old, k, n)
      BY <2>1 DEF IsBack
    <2>3. \A k \in 0 .. m + 1 : k # 0 => k - 1 \in 0 .. m
      OBVIOUS
    <2>4. new[m + 1] = BackHome(old, m + 1, n)
      OBVIOUS
    <2>5. new = [k \in 0 .. m + 1 |-> new[k]]
      OBVIOUS
    <2> HIDE DEF new
    <2>6. \A k \in 0 .. m + 1 : BackHome(new, k, n) = BackHome(old, k, n)
      <3>1. ASSUME NEW k \in 0 .. m + 1, k # 0 PROVE new[k - 1] = old[k - 1]
        BY <2>2, <2>3, <3>1
      <3> QED
        BY <3>1, Zenon DEF BackHome
    <2>7. \A k \in 0 .. m + 1 : k \in 0 .. m \/ k = m + 1
      OBVIOUS
    <2>8. \A k \in 0 .. m + 1 : new[k] = BackHome(old, k, n)
      BY <2>2, <2>4, <2>7
    <2>9. IsBack(new, m + 1, n)
      BY <2>5, <2>6, <2>8 DEF IsBack
    <2> QED
      BY <2>9
  <1> HIDE DEF S
  <1>3. steps \in S
    BY <1>1, <1>2, SetInduction
  <1>4. \E back : IsBack(back, steps, n)
    BY <1>3 DEF S
  <1> QED
    BY <1>4 DEF BackOf

LEMMA BackIs ==
    ASSUME NEW n
    PROVE  BackFrom(n) = BackOf(n, Steps)
  BY Zenon DEF BackFrom, BackOf, IsBack, BackHome, Steps

(* The predecessors of a node in an order lead back through the order.           *)
LEMMA BackReaches ==
    ASSUME NEW order, IsOrder(order), NEW i \in 1 .. Len(order)
    PROVE  \E k \in DOMAIN BackFrom(order[i]) : BackFrom(order[i])[k] = <<dSource>>
  <1> DEFINE back == BackFrom(order[i])
  <1>1. Steps \in Nat /\ Len(order) \in Nat /\ Len(order) <= Steps
    BY StepsType, OrderFits
  <1>2. back = [k \in 0 .. Steps |-> BackHome(back, k, order[i])]
    BY <1>1, BackExists, BackIs DEF IsBack
  <1> HIDE DEF back
  <1>3. DOMAIN back = 0 .. Steps /\ \A k \in 0 .. Steps : back[k] = BackHome(back, k, order[i])
    BY <1>2
  <1> DEFINE Found(k) == \E x \in 0 .. k : back[x] = <<dSource>>
             S == {k \in Nat : k <= i - 1 =>
                      Found(k) \/ \E j \in 1 .. i - k : back[k] = <<order[j]>>}
  <1>4. 0 \in S
    <2>1. back[0] = <<order[i]>> /\ i \in 1 .. i - 0
      BY <1>1, <1>3 DEF BackHome
    <2> QED
      BY <2>1
  <1>5. ASSUME NEW k \in Nat, k \in S PROVE k + 1 \in S
    <2> SUFFICES ASSUME k + 1 <= i - 1
                 PROVE  Found(k + 1) \/ \E j \in 1 .. i - (k + 1) : back[k + 1] = <<order[j]>>
      OBVIOUS
    <2>1. Found(k) \/ \E j \in 1 .. i - k : back[k] = <<order[j]>>
      BY <1>1, <1>5
    <2>2. CASE Found(k)
      <3>1. PICK x \in 0 .. k : back[x] = <<dSource>>
        BY <2>2
      <3>2. x \in 0 .. k + 1
        BY <3>1
      <3> QED
        BY <3>1, <3>2
    <2>3. ASSUME NEW j \in 1 .. i - k, back[k] = <<order[j]>>
          PROVE  Found(k + 1) \/ \E x \in 1 .. i - (k + 1) : back[k + 1] = <<order[x]>>
      <3>1. j \in 1 .. Len(order)
        BY <1>1, <2>3
      <3>2. CASE j = 1
        <4>1. order[j] = dSource
          BY <3>1, <3>2 DEF IsOrder
        <4>2. k \in 0 .. k + 1
          OBVIOUS
        <4> QED
          BY <2>3, <4>1, <4>2
      <3>3. CASE j # 1
        <4>1. PICK x \in 1 .. j - 1 : LedTo(order[x], order[j])
          BY <3>1, <3>3 DEF IsOrder
        <4>2. k + 1 \in 0 .. Steps /\ k + 1 # 0 /\ (k + 1) - 1 = k
          BY <1>1
        <4>3. back[k + 1] = BackHome(back, k + 1, order[i])
          BY <1>3, <4>2
        <4>4. back[k] # <<>> /\ back[k][1] = order[j]
          BY <2>3
        <4>5. back[k + 1] = dPrevious[order[j]]
          BY <4>2, <4>3, <4>4 DEF BackHome
        <4>6. back[k + 1] = <<order[x]>> /\ x \in 1 .. i - (k + 1)
          BY <1>1, <2>3, <4>1, <4>5 DEF LedTo
        <4> QED
          BY <4>6
      <3> QED
        BY <3>2, <3>3
    <2> QED
      BY <2>1, <2>2, <2>3
  <1> HIDE DEF S
  <1>6. i - 1 \in S
    BY <1>1, <1>4, <1>5, SetInduction
  <1>7. Found(i - 1) \/ \E j \in 1 .. i - (i - 1) : back[i - 1] = <<order[j]>>
    <2>1. i - 1 <= i - 1
      BY <1>1
    <2> HIDE DEF Found
    <2> QED
      BY <1>6, <2>1 DEF S
  <1>8. \A j \in 1 .. i - (i - 1) : order[j] = dSource
    BY <1>1 DEF IsOrder
  <1>9. Found(i - 1)
    <2>1. i - 1 \in 0 .. i - 1
      BY <1>1
    <2> QED
      BY <1>7, <1>8, <2>1
  <1>10. 0 .. i - 1 \subseteq 0 .. Steps
    BY <1>1
  <1> QED
    BY <1>3, <1>9, <1>10 DEF back

(* Dijkstra, for every finite graph, source and range of int, ties in any order   *)
(* and weights of zero included: as long as no sum overflows, the loop ends with   *)
(* the lengths of the shortest ways, a router is printed as unreachable only if   *)
(* it is not reached or an eighth of the range away, and build_path always comes   *)
(* back to the source (LAB13/35 main.cpp:66-126).                               *)
THEOREM ShortestAlways == DijkstraSpec => []PathsAreShortest
  <1>1. DijkstraIInv => PathsAreShortest
    <2> SUFFICES ASSUME DijkstraIInv PROVE PathsAreShortest
      OBVIOUS
    <2>1. DijkstraTypes
      BY DEF DijkstraIInv
    <2>2. PICK order : Orders(order)
      BY DEF DijkstraIInv
    <2>3. IsOrder(order) /\ NotQueued(order) /\ ReachedBySettled(order)
      BY <2>2 DEF Orders
    <2>4. ASSUME DijkstraDone, NEW n \in DNode
          PROVE  /\ PrintedReachable(n) <=> ShortestFrom(n) < IntMax \div 8
                 /\ PrintedReachable(n) => dDistance[n] = ShortestFrom(n)
      <3> DEFINE len == LengthsOf(Steps)
                 short == len[Steps][n]
      <3>1. IsLength(len, Steps) /\ Steps \in Nat
        BY StepsType, LengthsExist
      <3>2. ShortestFrom(n) = short
        BY ShortestIs
      <3>3. dQueue = {} /\ dEdges = {}
        BY <2>4 DEF DijkstraDone
      <3> HIDE DEF len
      <3>4. dDistance[n] <= short \/ kInfinity <= short
        BY <2>1, <2>2, <2>4, <3>1, <3>3, NoneShorter
      <3>5. short \in Nat /\ dDistance[n] \in Nat
        <4>1. len[Steps] \in [DNode -> Nat]
          BY <2>1, <3>1, LengthSteps
        <4> QED
          BY <2>1, <2>4, <4>1 DEF DijkstraTypes
      <3>6. ASSUME PrintedReachable(n) PROVE short <= dDistance[n]
        <4>1. dDistance[n] < kInfinity
          BY <3>5, <3>6, Infinities DEF PrintedReachable
        <4>2. n \in Settled(order)
          BY <2>3, <2>4, <3>3, <4>1 DEF NotQueued, Reached
        <4>3. Len(order) <= Steps
          BY <2>3, OrderFits
        <4> QED
          BY <2>1, <2>3, <3>1, <4>2, <4>3, DistancesAreWays
      <3> HIDE DEF short
      <3> QED
        BY <3>2, <3>4, <3>5, <3>6, Infinities DEF PrintedReachable
    <2>5. ASSUME NEW n \in DNode, dDistance[n] < kInfinity
          PROVE  \E k \in DOMAIN BackFrom(n) : BackFrom(n)[k] = <<dSource>>
      <3>1. Reached(n)
        BY <2>5 DEF Reached
      <3>2. CASE n \in Settled(order)
        <4>1. PICK i \in 1 .. Len(order) : order[i] = n
          BY <3>2 DEF Settled
        <4> QED
          BY <2>3, <4>1, BackReaches
      <3>3. CASE n \notin Settled(order) /\ n # dSource
        <4> DEFINE longer == Append(order, n)
        <4>1. \E m \in Settled(order) : LedTo(m, n)
          BY <2>3, <3>1, <3>3 DEF ReachedBySettled
        <4>2. IsOrder(longer)
          BY <2>3, <2>5, <3>3, <4>1, OrderGrows
        <4>3. Len(order) + 1 \in 1 .. Len(longer) /\ longer[Len(order) + 1] = n
          BY <2>3, <2>5 DEF IsOrder
        <4> HIDE DEF longer
        <4> QED
          BY <4>2, <4>3, BackReaches
      <3>4. CASE n = dSource
        <4>1. IsOrder(<<n>>)
          BY <2>5, <3>4 DEF IsOrder
        <4>2. 1 \in 1 .. Len(<<n>>) /\ <<n>>[1] = n
          OBVIOUS
        <4> QED
          BY <4>1, <4>2, BackReaches
      <3> QED
        BY <3>2, <3>3, <3>4
    <2> QED
      BY <2>4, <2>5 DEF PathsAreShortest
  <1> QED
    BY <1>1, DijkstraBegins, DijkstraKeeps, PTL DEF DijkstraSpec

-------------------------------------------------------------------------------
(* The colour channel.  What is in view is the background or a colour of the      *)
(* palette; a mixture c of x parts of b and y parts of a palette colour p is near   *)
(* another palette colour d only if b is.  Seen from d, b and p lie in one octant,  *)
(* so that the square of the way from d to the mixture is at least what it would be *)
(* at a right angle, x^2 |b - d|^2 + y^2 |p - d|^2, and |p - d| is White or more.    *)
LEMMA PaletteParts ==
    /\ \A m \in 0 .. 7, i \in 1 .. 3 : Palette[m + 1][i] \in {0, White}
    /\ \A m, n \in 0 .. 7 :
          (\A i \in 1 .. 3 : Palette[m + 1][i] = Palette[n + 1][i]) => m = n
  <1>1. \A m \in 0 .. 7 : m \in {0, 1, 2, 3, 4, 5, 6, 7}
    OBVIOUS
  <1>2. \A i \in 1 .. 3 : i \in {1, 2, 3}
    OBVIOUS
  <1>3. ASSUME NEW m \in 0 .. 7
        PROVE  /\ Palette[m + 1][1] = IF m \in {1, 3, 5, 7} THEN 17 ELSE 0
               /\ Palette[m + 1][2] = IF m \in {1, 4, 6, 7} THEN 17 ELSE 0
               /\ Palette[m + 1][3] = IF m \in {1, 2, 5, 6} THEN 17 ELSE 0
    BY <1>1 DEF Palette, White
  <1>4. ASSUME NEW m \in 0 .. 7, NEW i \in 1 .. 3 PROVE Palette[m + 1][i] \in {0, White}
    BY <1>2, <1>3 DEF White
  <1>5. ASSUME NEW m \in 0 .. 7, NEW n \in 0 .. 7,
               \A i \in 1 .. 3 : Palette[m + 1][i] = Palette[n + 1][i]
        PROVE  m = n
    <2>1. /\ Palette[m + 1][1] = Palette[n + 1][1]
          /\ Palette[m + 1][2] = Palette[n + 1][2]
          /\ Palette[m + 1][3] = Palette[n + 1][3]
      BY <1>5
    <2>2. /\ m \in {1, 3, 5, 7} <=> n \in {1, 3, 5, 7}
          /\ m \in {1, 4, 6, 7} <=> n \in {1, 4, 6, 7}
          /\ m \in {1, 2, 5, 6} <=> n \in {1, 2, 5, 6}
      BY <1>3, <2>1
    <2> QED
      BY <1>1, <2>2
  <1> QED
    BY <1>4, <1>5

LEMMA SquareType == \A x \in Int : Square(x) \in Nat
  BY DEF Square

(* A square of a sum of two products that do not pull in different directions.     *)
LEMMA SquareOfSum ==
    ASSUME NEW x \in Nat, NEW y \in Nat, NEW u \in Int, NEW v \in Int, u * v >= 0
    PROVE  Square(x * u + y * v) >= Square(x) * Square(u) + Square(y) * Square(v)
  <1> DEFINE A == x * u
             B == y * v
  <1>1. A \in Int /\ B \in Int /\ x * y \in Nat
    OBVIOUS
  <1>2. A * B = (x * y) * (u * v)
    OBVIOUS
  <1>3. A * B >= 0
    <2>1. \A k \in Nat, l \in Int : l >= 0 => k * l >= 0
      OBVIOUS
    <2>2. u * v \in Int
      OBVIOUS
    <2>3. (x * y) * (u * v) >= 0
      BY <1>1, <2>1, <2>2
    <2> QED
      BY <1>2, <2>3
  <1>4. A * A = Square(x) * Square(u) /\ B * B = Square(y) * Square(v)
    BY DEF Square
  <1> HIDE DEF A, B
  <1>5. Square(A + B) = A * A + 2 * (A * B) + B * B
    BY <1>1 DEF Square
  <1>6. Square(A + B) >= A * A + B * B
    <2>1. A * A \in Int /\ A * B \in Int /\ B * B \in Int
      BY <1>1
    <2> HIDE DEF Square
    <2> QED
      BY <1>3, <1>5, <2>1
  <1> QED
    BY <1>4, <1>6 DEF A, B

(* The bound: 225 = 17^2 - 8^2, and 136 is 8 times 17, in units of 15 and of 1.     *)
LEMMA OctantBound ==
    ASSUME NEW x \in Nat, NEW y \in Nat, x + y > 0, NEW U \in Nat, NEW V \in Nat,
           V >= 289, Square(x) * U + Square(y) * V <= Square(8 * (x + y))
    PROVE  225 * U <= Square(136)
  <1> DEFINE X == x * x
             Y == y * y
             Z == x * y
  <1>1. X \in Nat /\ Y \in Nat /\ Z \in Nat
    OBVIOUS
  <1>2. Square(x) = X /\ Square(y) = Y /\ Square(136) = 18496
    BY DEF Square
  <1>3. Square(8 * (x + y)) = 64 * X + 128 * Z + 64 * Y
    BY DEF Square
  <1>4. 4096 * X - 28800 * Z + 50625 * Y >= 0
    <2>1. Square(64 * x - 225 * y) = 4096 * X - 28800 * Z + 50625 * Y
      BY DEF Square
    <2>2. Square(64 * x - 225 * y) \in Nat
      BY SquareType
    <2> QED
      BY <2>1, <2>2
  <1>5. X >= 1 \/ (x = 0 /\ y >= 1 /\ X = 0 /\ Z = 0 /\ Y >= 1)
    <2>1. \A k \in Nat : k >= 1 => k * k >= 1
      OBVIOUS
    <2>2. CASE x >= 1
      BY <2>1, <2>2
    <2>3. CASE x = 0
      BY <2>1, <2>3
    <2> QED
      BY <2>2, <2>3
  <1> HIDE DEF X, Y, Z
  <1>6. Y * V >= 289 * Y
    <2>1. \A k, l \in Nat : l >= 289 => k * l >= 289 * k
      OBVIOUS
    <2> QED
      BY <1>1, <2>1
  <1>7. X * U \in Nat /\ Y * V \in Nat
    BY <1>1
  <1>8. X * U + 289 * Y <= 64 * X + 128 * Z + 64 * Y
    BY <1>1, <1>2, <1>3, <1>6, <1>7
  <1>9. 225 * (X * U) <= 18496 * X
    BY <1>1, <1>4, <1>7, <1>8
  <1>10. X >= 1
    BY <1>1, <1>5, <1>7, <1>8
  <1>11. 225 * U <= 18496
    <2>1. \A k, l \in Nat : k >= 1 /\ l > 18496 => k * l > 18496 * k
      OBVIOUS
    <2>2. X * (225 * U) = 225 * (X * U)
      BY <1>1
    <2> QED
      BY <1>1, <1>7, <1>9, <1>10, <2>1, <2>2
  <1> QED
    BY <1>2, <1>11

(* One component: the background part and the two palette parts of it.            *)
LEMMA OctantParts ==
    ASSUME NEW b \in 0 .. 17, NEW p \in {0, 17}, NEW d \in {0, 17}
    PROVE  /\ b - d \in Int /\ p - d \in Int /\ (b - d) * (p - d) >= 0
           /\ Square(p - d) \in Nat
           /\ p # d => Square(p - d) = 289
  <1>1. b - d \in Int /\ p - d \in Int
    OBVIOUS
  <1>2. Square(p - d) \in Nat
    BY <1>1, SquareType
  <1>3. CASE p = 17 /\ d = 0
    <2>1. p - d = 17 /\ b - d >= 0 /\ b - d \in Int
      BY <1>3
    <2> QED
      BY <1>1, <1>2, <2>1 DEF Square
  <1>4. CASE p = 0 /\ d = 17
    <2>1. p - d = -17 /\ b - d <= 0 /\ b - d \in Int
      BY <1>4
    <2> QED
      BY <1>1, <1>2, <2>1 DEF Square
  <1>5. CASE p = d
    <2>1. p - d = 0
      BY <1>5
    <2> QED
      BY <1>1, <1>2, <1>5, <2>1
  <1> QED
    BY <1>3, <1>4, <1>5

LEMMA MixtureSeen ==
    ASSUME NEW x \in Nat, NEW y \in Nat, NEW b \in Int, NEW p \in Int, NEW d \in Int
    PROVE  (x * b + y * p) - (x + y) * d = x * (b - d) + y * (p - d)
  OBVIOUS

(* How far c is from palette colour m, squared.                                  *)
Far2(c, m) ==
    Square(c[1] - Palette[m + 1][1]) + Square(c[2] - Palette[m + 1][2])
        + Square(c[3] - Palette[m + 1][3])

Components(b) == \A i \in 1 .. 3 : b[i] \in 0 .. White
Mixed(c, x, b, y, p) == \A i \in 1 .. 3 : c[i] = x * b[i] + y * p[i]

LEMMA NoThirdColour ==
    ASSUME NEW x \in Nat, NEW y \in Nat, x + y = Parts,
           NEW b, Components(b), NEW a \in 0 .. 7, NEW m \in 0 .. 7, a # m,
           NEW c, Mixed(c, x, b, y, Palette[a + 1]), NearEnough(c, m)
    PROVE  225 * Far2(b, m) <= Square(136)
  <1> DEFINE p == Palette[a + 1]
             d == Palette[m + 1]
             u(i) == b[i] - d[i]
             v(i) == p[i] - d[i]
             U == Square(u(1)) + Square(u(2)) + Square(u(3))
             V == Square(v(1)) + Square(v(2)) + Square(v(3))
  <1>0. Parts \in Nat /\ Parts > 0
    BY ColourAssumption DEF ColourAssumption
  <1>1. 1 \in 1 .. 3 /\ 2 \in 1 .. 3 /\ 3 \in 1 .. 3 /\ \A i \in 1 .. 3 : i \in {1, 2, 3}
    OBVIOUS
  <1>2. \A i \in 1 .. 3 : p[i] \in {0, White} /\ d[i] \in {0, White}
    BY PaletteParts
  <1>3. \E i \in 1 .. 3 : p[i] # d[i]
    BY PaletteParts
  <1>4. \A i \in 1 .. 3 : b[i] \in 0 .. White /\ c[i] = x * b[i] + y * p[i]
    BY DEF Components, Mixed
  <1>5. Far2(b, m) = U
    BY DEF Far2
  <1>6. Square(c[1] - Parts * d[1]) + Square(c[2] - Parts * d[2])
            + Square(c[3] - Parts * d[3]) <= Square(8 * Parts)
    BY DEF NearEnough, Away2
  <1> HIDE DEF p, d
  <1>7. ASSUME NEW i \in 1 .. 3
        PROVE  /\ u(i) \in Int /\ v(i) \in Int /\ u(i) * v(i) >= 0
               /\ Square(v(i)) \in Nat
               /\ p[i] # d[i] => Square(v(i)) = 289
               /\ c[i] - Parts * d[i] = x * u(i) + y * v(i)
    <2>1. /\ b[i] \in 0 .. 17 /\ p[i] \in {0, 17} /\ d[i] \in {0, 17}
          /\ c[i] = x * b[i] + y * p[i]
      BY <1>2, <1>4 DEF White
    <2>2. /\ u(i) \in Int /\ v(i) \in Int /\ u(i) * v(i) >= 0
          /\ Square(v(i)) \in Nat
          /\ p[i] # d[i] => Square(v(i)) = 289
      <3>1. PICK k \in 0 .. 17 : k = b[i]
        BY <2>1
      <3>2. PICK l \in {0, 17} : l = p[i]
        BY <2>1
      <3>3. PICK n \in {0, 17} : n = d[i]
        BY <2>1
      <3>4. /\ k - n \in Int /\ l - n \in Int /\ (k - n) * (l - n) >= 0
            /\ Square(l - n) \in Nat
            /\ l # n => Square(l - n) = 289
        BY OctantParts
      <3>5. u(i) = k - n /\ v(i) = l - n
        BY <3>1, <3>2, <3>3
      <3> HIDE DEF u, v
      <3> QED
        BY <3>2, <3>3, <3>4, <3>5
    <2>3. c[i] - Parts * d[i] = x * u(i) + y * v(i)
      <3>1. b[i] \in Int /\ p[i] \in Int /\ d[i] \in Int
        BY <2>1
      <3>2. (x * b[i] + y * p[i]) - (x + y) * d[i] = x * u(i) + y * v(i)
        BY <3>1, MixtureSeen
      <3> QED
        BY <2>1, <3>2
    <2> QED
      BY <2>2, <2>3
  <1>8. V \in Nat /\ V >= 289
    BY <1>1, <1>3, <1>7
  <1>9. U \in Nat /\ \A i \in 1 .. 3 : Square(u(i)) \in Nat
    BY <1>1, <1>7, SquareType
  <1>10. ASSUME NEW i \in 1 .. 3
         PROVE  Square(c[i] - Parts * d[i])
                    >= Square(x) * Square(u(i)) + Square(y) * Square(v(i))
    <2>1. u(i) \in Int /\ v(i) \in Int /\ u(i) * v(i) >= 0
          /\ c[i] - Parts * d[i] = x * u(i) + y * v(i)
      BY <1>7
    <2> HIDE DEF u, v
    <2> QED
      BY <2>1, SquareOfSum
  <1>11. Square(x) * U + Square(y) * V <= Square(8 * (x + y))
    <2> DEFINE Su(i) == Square(u(i))
               Sv(i) == Square(v(i))
    <2>1. /\ Su(1) \in Nat /\ Su(2) \in Nat /\ Su(3) \in Nat
          /\ Sv(1) \in Nat /\ Sv(2) \in Nat /\ Sv(3) \in Nat
          /\ Square(x) \in Nat /\ Square(y) \in Nat
      BY <1>1, <1>7, <1>9, SquareType
    <2>2. U = Su(1) + Su(2) + Su(3) /\ V = Sv(1) + Sv(2) + Sv(3)
      OBVIOUS
    <2>3. /\ Square(c[1] - Parts * d[1]) >= Square(x) * Su(1) + Square(y) * Sv(1)
          /\ Square(c[2] - Parts * d[2]) >= Square(x) * Su(2) + Square(y) * Sv(2)
          /\ Square(c[3] - Parts * d[3]) >= Square(x) * Su(3) + Square(y) * Sv(3)
      BY <1>1, <1>10
    <2>4. \A i \in 1 .. 3 : Square(c[i] - Parts * d[i]) \in Nat
      <3>1. \A i \in 1 .. 3 : c[i] - Parts * d[i] \in Int
        BY <1>0, <1>2, <1>4 DEF White
      <3> QED
        BY <3>1, SquareType
    <2> HIDE DEF U, V, Su, Sv
    <2>5. /\ Square(x) * U = Square(x) * Su(1) + Square(x) * Su(2) + Square(x) * Su(3)
          /\ Square(y) * V = Square(y) * Sv(1) + Square(y) * Sv(2) + Square(y) * Sv(3)
      BY <2>1, <2>2
    <2>6. /\ Square(x) * Su(1) \in Nat /\ Square(x) * Su(2) \in Nat
          /\ Square(x) * Su(3) \in Nat /\ Square(y) * Sv(1) \in Nat
          /\ Square(y) * Sv(2) \in Nat /\ Square(y) * Sv(3) \in Nat
          /\ Square(8 * Parts) \in Nat
      BY <1>0, <2>1, SquareType
    <2> QED
      BY <1>1, <1>6, <2>3, <2>4, <2>5, <2>6
  <1> HIDE DEF U, V
  <1>12. 225 * U <= Square(136)
    BY <1>0, <1>8, <1>9, <1>11, OctantBound
  <1> QED
    BY <1>5, <1>12

LEMMA ColoursAreFar ==
    ASSUME NEW a \in 0 .. 7, NEW m \in 0 .. 7, a # m
    PROVE  Far2(Palette[a + 1], m) \in Int /\ Far2(Palette[a + 1], m) >= 289
  <1> DEFINE p == Palette[a + 1]
             d == Palette[m + 1]
  <1>1. \A i \in 1 .. 3 : p[i] \in {0, White} /\ d[i] \in {0, White}
    BY PaletteParts
  <1>2. \E i \in 1 .. 3 : p[i] # d[i]
    BY PaletteParts
  <1>3. Far2(p, m) = Square(p[1] - d[1]) + Square(p[2] - d[2]) + Square(p[3] - d[3])
    BY DEF Far2
  <1> HIDE DEF p, d
  <1>4. ASSUME NEW i \in 1 .. 3
        PROVE  /\ Square(p[i] - d[i]) \in Nat
               /\ p[i] # d[i] => Square(p[i] - d[i]) = 289
    <2>1. /\ p[i] - d[i] \in Int
          /\ p[i] # d[i] => p[i] - d[i] = 17 \/ p[i] - d[i] = -17
      BY <1>1 DEF White
    <2>2. Square(17) = 289 /\ Square(-17) = 289
      BY DEF Square
    <2> QED
      BY <2>1, <2>2, SquareType
  <1>5. 1 \in 1 .. 3 /\ 2 \in 1 .. 3 /\ 3 \in 1 .. 3 /\ \A i \in 1 .. 3 : i \in {1, 2, 3}
    OBVIOUS
  <1>6. Far2(p, m) \in Int /\ Far2(p, m) >= 289
    BY <1>2, <1>3, <1>4, <1>5
  <1> QED
    BY <1>6 DEF p

LEMMA NearestType == \A c : (\A i \in 1 .. 3 : c[i] \in Int) => Nearest(c) \in 0 .. 7
  <1> SUFFICES ASSUME NEW c, \A i \in 1 .. 3 : c[i] \in Int PROVE Nearest(c) \in 0 .. 7
    OBVIOUS
  <1> DEFINE away == [m \in 0 .. 7 |-> Away2(c, m)]
             all == {away[m] : m \in 0 .. 7}
             best == {m \in 0 .. 7 : away[m] = Min(all)}
  <1>1. \A m \in 0 .. 7 : away[m] \in Nat
    <2>1. 1 \in 1 .. 3 /\ 2 \in 1 .. 3 /\ 3 \in 1 .. 3 /\ Parts \in Nat
      BY ColourAssumption DEF ColourAssumption
    <2>2. ASSUME NEW m \in 0 .. 7 PROVE Away2(c, m) \in Nat
      <3> DEFINE d == Palette[m + 1]
      <3>1. \A i \in 1 .. 3 : d[i] \in Int
        BY PaletteParts DEF White
      <3>2. Away2(c, m) = Square(c[1] - Parts * d[1]) + Square(c[2] - Parts * d[2])
                              + Square(c[3] - Parts * d[3])
        BY DEF Away2
      <3> HIDE DEF d
      <3>3. \A i \in 1 .. 3 : c[i] - Parts * d[i] \in Int
        BY <2>1, <3>1
      <3>4. /\ Square(c[1] - Parts * d[1]) \in Nat /\ Square(c[2] - Parts * d[2]) \in Nat
            /\ Square(c[3] - Parts * d[3]) \in Nat
        BY <2>1, <3>3, SquareType
      <3> QED
        BY <3>2, <3>4
    <2> QED
      BY <2>2
  <1>2. Nearest(c) = Min(best)
    BY Zenon DEF Nearest
  <1> HIDE DEF away
  <1>3. all \in SUBSET Nat /\ away[0] \in all
    BY <1>1
  <1>4. Min(all) \in all
    <2> HIDE DEF all
    <2> QED
      BY <1>3, MinIsLeast
  <1>5. best \in SUBSET Nat /\ best \subseteq 0 .. 7 /\ \E m \in best : TRUE
    <2>1. PICK m \in 0 .. 7 : away[m] = Min(all)
      BY <1>4
    <2> HIDE DEF all
    <2>2. m \in best
      BY <2>1
    <2> QED
      BY <2>2
  <1> HIDE DEF best
  <1>6. Min(best) \in best
    BY <1>5, MinIsLeast
  <1> QED
    BY <1>2, <1>5, <1>6

(* What the screen can hold: at most one symbol at a time, the background between. *)
Shown == Symbol(colourScheme) \cup {Idle}
PanelOK ==
    /\ panel \in Shown \X Shown
    /\ panel[1] = panel[2] \/ Idle \in {panel[1], panel[2]}

(* As many of the last frames as are counted may be read as the symbol that is     *)
(* counted.                                                                        *)
Counted ==
    /\ stableCount <= Len(seen)
    /\ lastDecoded \in 0 .. 7 =>
          \A i \in Len(seen) - stableCount + 1 .. Len(seen) : lastDecoded \in seen[i]

ColourIInv ==
    /\ colourScheme \in ColourScheme /\ background \in Backgrounds
    /\ PanelOK
    /\ seen \in Seq(SUBSET Nat) /\ Len(seen) <= StableFrames
    /\ stableCount \in Nat
    /\ Counted
    /\ ReadWasShown

LEMMA BackgroundParts ==
    ASSUME background \in Backgrounds
    PROVE  \A i \in 1 .. 3 : background[i] \in 0 .. White
  <1>1. \A i \in 1 .. 3 : i \in {1, 2, 3}
    OBVIOUS
  <1> QED
    BY <1>1, ColourAssumption DEF ColourAssumption

LEMMA InViewParts ==
    ASSUME background \in Backgrounds, colourScheme \in ColourScheme, NEW k \in Shown
    PROVE  \A i \in 1 .. 3 : InView(k)[i] \in 0 .. White
  <1>1. CASE k = Idle
    BY <1>1, BackgroundParts DEF InView
  <1>2. CASE k # Idle
    <2>1. PICK j \in 0 .. 7 : InView(k) = Palette[j + 1]
      <3>1. CASE colourScheme = "octal"
        BY <1>2, <3>1 DEF InView, ColourOf, Shown, Symbol
      <3>2. CASE colourScheme # "octal"
        <4>1. InView(k) = Palette[IF k = 1 THEN 1 ELSE 2]
          BY <1>2, <3>2 DEF InView, ColourOf
        <4>2. InView(k) = Palette[0 + 1] \/ InView(k) = Palette[1 + 1]
          BY <4>1
        <4> QED
          BY <4>2
      <3> QED
        BY <3>1, <3>2
    <2>2. \A i \in 1 .. 3 : Palette[j + 1][i] \in {0, White}
      BY PaletteParts
    <2> QED
      BY <2>1, <2>2 DEF White
  <1> QED
    BY <1>1, <1>2

LEMMA MixtureParts ==
    ASSUME background \in Backgrounds, colourScheme \in ColourScheme, PanelOK,
           NEW w \in 0 .. Parts
    PROVE  \A i \in 1 .. 3 :
              /\ Mixture(w)[i] = w * InView(panel[1])[i] + (Parts - w) * InView(panel[2])[i]
              /\ Mixture(w)[i] \in Int
  <1>1. panel[1] \in Shown /\ panel[2] \in Shown
    BY DEF PanelOK
  <1>2. \A i \in 1 .. 3 : InView(panel[1])[i] \in 0 .. White /\ InView(panel[2])[i] \in 0 .. White
    BY <1>1, InViewParts
  <1>3. Parts \in Nat
    BY ColourAssumption DEF ColourAssumption
  <1>4. \A i \in 1 .. 3 :
           Mixture(w)[i] = w * InView(panel[1])[i] + (Parts - w) * InView(panel[2])[i]
    BY DEF Mixture
  <1>5. \A k \in 0 .. Parts, l, n \in 0 .. 17 : k * l + (Parts - k) * n \in Int
    BY <1>3
  <1>6. ASSUME NEW i \in 1 .. 3 PROVE Mixture(w)[i] \in Int
    <2>1. InView(panel[1])[i] \in 0 .. 17 /\ InView(panel[2])[i] \in 0 .. 17
      BY <1>2 DEF White
    <2> QED
      BY <1>4, <1>5, <2>1
  <1> QED
    BY <1>4, <1>6

(* Binary: the luminance of a mixture is on the side of one of the two.            *)
Dark(c) == 15 * Luminance(c) < 128 * 1000

LEMMA LuminanceType ==
    ASSUME NEW c, c[1] \in 0 .. 17, c[2] \in 0 .. 17, c[3] \in 0 .. 17
    PROVE  15 * Luminance(c) \in Nat
  <1>1. PICK k \in 0 .. 17 : k = c[1]
    OBVIOUS
  <1>2. PICK l \in 0 .. 17 : l = c[2]
    OBVIOUS
  <1>3. PICK n \in 0 .. 17 : n = c[3]
    OBVIOUS
  <1>4. 15 * (114 * k + 587 * l + 299 * n) \in Nat
    OBVIOUS
  <1> QED
    BY <1>1, <1>2, <1>3, <1>4 DEF Luminance

LEMMA OneOfTheTwo ==
    ASSUME NEW x \in Nat, NEW y \in Nat, x + y = Parts, Parts > 0,
           NEW a, Components(a), NEW b, Components(b), NEW c, Mixed(c, x, a, y, b)
    PROVE  /\ DecodeBinary(c) = 1 => Dark(a) \/ Dark(b)
           /\ DecodeBinary(c) = 0 => ~Dark(a) \/ ~Dark(b)
  <1> DEFINE A == 15 * Luminance(a)
             B == 15 * Luminance(b)
             C == 15 * Luminance(c)
             T == 128 * 1000
  <1>1. 1 \in 1 .. 3 /\ 2 \in 1 .. 3 /\ 3 \in 1 .. 3
    OBVIOUS
  <1>2. /\ a[1] \in 0 .. 17 /\ a[2] \in 0 .. 17 /\ a[3] \in 0 .. 17
        /\ b[1] \in 0 .. 17 /\ b[2] \in 0 .. 17 /\ b[3] \in 0 .. 17
        /\ A \in Nat /\ B \in Nat
    <2>1. /\ a[1] \in 0 .. 17 /\ a[2] \in 0 .. 17 /\ a[3] \in 0 .. 17
      BY <1>1 DEF White, Components
    <2>2. /\ b[1] \in 0 .. 17 /\ b[2] \in 0 .. 17 /\ b[3] \in 0 .. 17
      BY <1>1 DEF White, Components
    <2>4. A \in Nat
      BY <2>1, LuminanceType
    <2>5. B \in Nat
      BY <2>2, LuminanceType
    <2> HIDE DEF A, B
    <2> QED
      BY <2>1, <2>2, <2>4, <2>5
  <1>3. C = x * A + y * B
    <2>1. /\ a[1] \in Int /\ a[2] \in Int /\ a[3] \in Int
          /\ b[1] \in Int /\ b[2] \in Int /\ b[3] \in Int
      BY <1>2
    <2>2. \A a1, a2, a3, b1, b2, b3 \in Int :
             15 * (114 * (x * a1 + y * b1) + 587 * (x * a2 + y * b2) + 299 * (x * a3 + y * b3))
               = x * (15 * (114 * a1 + 587 * a2 + 299 * a3))
                   + y * (15 * (114 * b1 + 587 * b2 + 299 * b3))
      OBVIOUS
    <2>3. c[1] = x * a[1] + y * b[1] /\ c[2] = x * a[2] + y * b[2] /\ c[3] = x * a[3] + y * b[3]
      BY <1>1 DEF Mixed
    <2> QED
      BY <2>1, <2>2, <2>3 DEF Luminance
  <1>4. /\ DecodeBinary(c) = IF C < Parts * T THEN 1 ELSE 0
        /\ Dark(a) <=> A < T
        /\ Dark(b) <=> B < T
    BY DEF DecodeBinary, Dark
  <1>5. Parts * T = x * T + y * T /\ T \in Nat
    OBVIOUS
  <1> HIDE DEF A, B, C, T
  <1>6. A >= T /\ B >= T => C >= Parts * T
    <2>1. \A k, l \in Nat : l >= T => k * l >= k * T
      BY <1>5
    <2>2. A >= T /\ B >= T => x * A >= x * T /\ y * B >= y * T
      BY <1>2, <2>1
    <2>3. x * A \in Int /\ y * B \in Int /\ x * T \in Int /\ y * T \in Int
      BY <1>2, <1>5
    <2> QED
      BY <1>3, <1>5, <2>2, <2>3
  <1>7. A < T /\ B < T => C < Parts * T
    <2> SUFFICES ASSUME A < T, B < T PROVE C < Parts * T
      OBVIOUS
    <2>1. \A k, l \in Nat : l < T => k * l <= k * T
      BY <1>5
    <2>2. \A k, l \in Nat : l < T /\ k > 0 => k * l < k * T
      BY <1>5
    <2>3. x * A <= x * T /\ y * B <= y * T
      BY <1>2, <2>1
    <2>4. x * A \in Int /\ y * B \in Int /\ x * T \in Int /\ y * T \in Int
      BY <1>2, <1>5
    <2>5. CASE x > 0
      <3>1. x * A < x * T
        BY <1>2, <2>2, <2>5
      <3> QED
        BY <1>3, <1>5, <2>3, <2>4, <3>1
    <2>6. CASE y > 0
      <3>1. y * B < y * T
        BY <1>2, <2>2, <2>6
      <3> QED
        BY <1>3, <1>5, <2>3, <2>4, <3>1
    <2> QED
      BY <2>5, <2>6
  <1>8. C \in Int /\ Parts * T \in Int
    BY <1>2, <1>3, <1>5
  <1> QED
    BY <1>2, <1>4, <1>5, <1>6, <1>7, <1>8

(* A frame that is read as a symbol has this symbol in it, or the background that   *)
(* passes for it.                                                                *)
LEMMA FrameShowsIt ==
    ASSUME colourScheme \in ColourScheme, background \in Backgrounds, PanelOK,
           NEW w \in 0 .. Parts, NEW m \in 0 .. 7, m = DecodeColour(Mixture(w))
    PROVE  m \in OnShow
  <1> DEFINE c == Mixture(w)
             a == InView(panel[1])
             b == InView(panel[2])
  <1>1. /\ Parts \in Nat /\ Parts > 0 /\ Parts - w \in Nat /\ w \in Nat
        /\ w + (Parts - w) = Parts
    BY ColourAssumption DEF ColourAssumption
  <1>2. panel[1] \in Shown /\ panel[2] \in Shown
    BY DEF PanelOK
  <1>3. Components(a) /\ Components(b) /\ Mixed(c, w, a, Parts - w, b)
    BY <1>2, InViewParts, MixtureParts DEF Components, Mixed
  <1>4. CASE colourScheme # "octal"
    <2>1. m = DecodeBinary(c) /\ m \in {0, 1}
      BY <1>4 DEF DecodeColour, DecodeBinary
    <2> HIDE DEF c, a, b
    <2>2. /\ m = 1 => Dark(a) \/ Dark(b)
          /\ m = 0 => ~Dark(a) \/ ~Dark(b)
      BY <1>1, <1>3, <2>1, OneOfTheTwo
    <2>3. ASSUME NEW k \in Shown, m = 1 <=> Dark(InView(k)), k \in {panel[1], panel[2]}
          PROVE  m \in OnShow
      <3>1. CASE k = Idle
        <4>1. m = 1 <=> Dark(background)
          BY <2>3, <3>1 DEF InView
        <4>2. Resembles(m)
          BY <1>4, <2>1, <4>1 DEF Resembles, Dark
        <4> QED
          BY <1>4, <2>1, <2>3, <3>1, <4>2 DEF OnShow, Symbol
      <3>2. CASE k # Idle
        <4>1. k \in {0, 1}
          BY <1>4, <3>2 DEF Shown, Symbol
        <4>2. InView(k) = IF k = 1 THEN <<0, 0, 0>> ELSE <<17, 17, 17>>
          BY <1>4, <3>2 DEF InView, ColourOf, Palette, White
        <4>3. Dark(InView(k)) <=> k = 1
          <5>1. CASE k = 1
            <6>1. InView(k)[1] = 0 /\ InView(k)[2] = 0 /\ InView(k)[3] = 0
              BY <4>2, <5>1
            <6> QED
              BY <5>1, <6>1 DEF Dark, Luminance
          <5>2. CASE k = 0
            <6>1. InView(k)[1] = 17 /\ InView(k)[2] = 17 /\ InView(k)[3] = 17
              BY <4>2, <5>2
            <6> QED
              BY <5>2, <6>1 DEF Dark, Luminance
          <5> QED
            BY <4>1, <5>1, <5>2
        <4>4. m = k
          BY <2>1, <2>3, <4>1, <4>3
        <4> QED
          BY <1>4, <2>1, <2>3, <4>4 DEF OnShow, Symbol
      <3> QED
        BY <3>1, <3>2
    <2>4. (m = 1 <=> Dark(a)) \/ (m = 1 <=> Dark(b))
      BY <2>1, <2>2
    <2> QED
      BY <1>2, <2>3, <2>4 DEF a, b
  <1>5. CASE colourScheme = "octal"
    <2>1. /\ Symbol("octal") = 0 .. 7
          /\ \A k \in 0 .. 7 : InView(k) = Palette[k + 1]
          /\ InView(Idle) = background
      BY <1>5 DEF Symbol, InView, ColourOf, Idle
    <2>2. NearEnough(c, m)
      <3>1. m = DecodeOctal(c)
        BY <1>5 DEF DecodeColour
      <3> QED
        BY <3>1 DEF DecodeOctal, NotRead
    <2>3. m \in Symbol(colourScheme)
      BY <1>5, <2>1
    <2>4. ASSUME NEW x \in Nat, NEW y \in Nat, x + y = Parts, NEW e \in Shown, NEW k \in 0 .. 7,
                 k # m, Mixed(c, x, InView(e), y, Palette[k + 1])
          PROVE  225 * Far2(InView(e), m) <= Square(136)
      <3>1. Components(InView(e))
        BY InViewParts DEF Components
      <3> QED
        BY <2>2, <2>4, <3>1, NoThirdColour
    <2>5. ASSUME 225 * Far2(background, m) <= Square(136)
          PROVE  Resembles(m)
      BY <1>5, <2>5 DEF Resembles, Far2
    <2>6. CASE m \in {panel[1], panel[2]}
      BY <2>3, <2>6 DEF OnShow
    <2>7. CASE m \notin {panel[1], panel[2]} /\ Idle \in {panel[1], panel[2]}
      <3>1. 225 * Far2(InView(Idle), m) <= Square(136)
        <4>1. Idle \in Shown
          BY DEF Shown
        <4>2. CASE panel[1] # Idle
          <5>1. panel[1] \in 0 .. 7 /\ panel[1] # m /\ panel[2] = Idle
            BY <1>2, <1>5, <2>1, <2>7, <4>2 DEF Shown
          <5>2. Mixed(c, Parts - w, InView(Idle), w, Palette[panel[1] + 1])
            <6>1. a = Palette[panel[1] + 1] /\ b = InView(Idle)
              BY <2>1, <5>1
            <6> HIDE DEF c, a, b
            <6>2. ASSUME NEW i \in 1 .. 3
                  PROVE  c[i] = (Parts - w) * b[i] + w * a[i]
              <7>1. a[i] \in 0 .. 17 /\ b[i] \in 0 .. 17 /\ c[i] = w * a[i] + (Parts - w) * b[i]
                BY <1>3 DEF Components, Mixed, White
              <7> QED
                BY <1>1, <7>1
            <6> QED
              BY <6>1, <6>2 DEF Mixed
          <5>3. (Parts - w) + w = Parts
            BY <1>1
          <5> HIDE DEF c
          <5> QED
            BY <1>1, <2>4, <4>1, <5>1, <5>2, <5>3
        <4>3. CASE panel[1] = Idle /\ panel[2] # Idle
          <5>1. panel[2] \in 0 .. 7 /\ panel[2] # m
            BY <1>2, <1>5, <2>1, <2>7, <4>3 DEF Shown
          <5>2. Mixed(c, w, InView(Idle), Parts - w, Palette[panel[2] + 1])
            <6>1. b = Palette[panel[2] + 1] /\ a = InView(Idle)
              BY <2>1, <4>3, <5>1
            <6> HIDE DEF c, a, b
            <6> QED
              BY <1>3, <6>1
          <5> HIDE DEF c
          <5> QED
            BY <1>1, <2>4, <4>1, <5>1, <5>2
        <4>4. CASE panel[1] = Idle /\ panel[2] = Idle
          <5>1. PICK k \in 0 .. 7 : k # m
            <6>1. 0 \in 0 .. 7 /\ 1 \in 0 .. 7
              OBVIOUS
            <6> QED
              BY <6>1
          <5>2. Mixed(c, Parts, InView(Idle), 0, Palette[k + 1])
            <6>1. a = InView(Idle) /\ b = InView(Idle)
              BY <4>4
            <6> HIDE DEF c, a, b
            <6>2. ASSUME NEW i \in 1 .. 3
                  PROVE  c[i] = Parts * a[i] + 0 * Palette[k + 1][i]
              <7>1. a[i] \in 0 .. 17 /\ c[i] = w * a[i] + (Parts - w) * a[i]
                BY <1>3, <6>1 DEF Components, Mixed, White
              <7>2. Palette[k + 1][i] \in Int
                BY PaletteParts DEF White
              <7>3. c[i] = Parts * a[i]
                BY <1>1, <7>1
              <7>4. \A l \in Int : 0 * l = 0
                OBVIOUS
              <7> QED
                BY <1>1, <7>1, <7>2, <7>3, <7>4
            <6> QED
              BY <6>1, <6>2 DEF Mixed
          <5>3. 0 \in Nat /\ Parts + 0 = Parts
            BY <1>1
          <5> HIDE DEF c
          <5> QED
            BY <1>1, <2>4, <4>1, <5>1, <5>2, <5>3
        <4> QED
          BY <4>2, <4>3, <4>4
      <3>2. Resembles(m)
        BY <2>1, <2>5, <3>1
      <3> QED
        BY <2>3, <2>7, <3>2 DEF OnShow
    <2>8. CASE m \notin {panel[1], panel[2]} /\ Idle \notin {panel[1], panel[2]}
      <3>1. panel[1] = panel[2] /\ panel[1] \in 0 .. 7 /\ panel[1] # m
        BY <1>2, <1>5, <2>1, <2>8 DEF PanelOK, Shown
      <3>2. Mixed(c, w, InView(panel[1]), Parts - w, Palette[panel[1] + 1])
        <4>1. b = Palette[panel[1] + 1]
          BY <2>1, <3>1
        <4> HIDE DEF c
        <4> QED
          BY <1>3, <4>1
      <3>3. 225 * Far2(InView(panel[1]), m) <= Square(136)
        BY <1>1, <1>2, <2>4, <3>1, <3>2
      <3>4. Far2(Palette[panel[1] + 1], m) >= 289
        BY <3>1, ColoursAreFar
      <3>5. InView(panel[1]) = Palette[panel[1] + 1]
        BY <2>1, <3>1
      <3>6. Far2(Palette[panel[1] + 1], m) \in Int
        BY <3>1, ColoursAreFar
      <3>7. Square(136) = 18496
        BY DEF Square
      <3> QED
        BY <3>3, <3>4, <3>5, <3>6, <3>7
    <2> QED
      BY <2>6, <2>7, <2>8
  <1> QED
    BY <1>4, <1>5

LEMMA DecodedType ==
    ASSUME colourScheme \in ColourScheme, background \in Backgrounds, PanelOK,
           NEW w \in 0 .. Parts
    PROVE  DecodeColour(Mixture(w)) \in 0 .. 7 \cup {NotRead}
  <1>1. CASE colourScheme # "octal"
    BY <1>1 DEF DecodeColour, DecodeBinary
  <1>2. CASE colourScheme = "octal"
    <2>1. \A i \in 1 .. 3 : Mixture(w)[i] \in Int
      BY MixtureParts
    <2> HIDE DEF Mixture
    <2>2. Nearest(Mixture(w)) \in 0 .. 7
      BY <2>1, NearestType
    <2> QED
      BY <1>2, <2>2, Zenon DEF DecodeColour, DecodeOctal
  <1> QED
    BY <1>1, <1>2

(* The list of the last frames after one more: the new one, and of the others as    *)
(* many as there is room for.                                                   *)
OneMore(s, x, new) ==
    /\ Len(new) \in Nat
    /\ Len(new) = IF Len(s) = StableFrames THEN Len(s) ELSE Len(s) + 1
    /\ new[Len(new)] = x
    /\ \A i \in 1 .. Len(new) - 1 : new[i] = s[i + Len(s) + 1 - Len(new)]

LEMMA LastOnesParts ==
    ASSUME NEW T, NEW s \in Seq(T), NEW x \in T, Len(s) <= StableFrames
    PROVE  /\ LastOnes(Append(s, x)) \in Seq(T)
           /\ OneMore(s, x, LastOnes(Append(s, x)))
  <1> DEFINE longer == Append(s, x)
             first == IF Len(longer) > StableFrames THEN 2 ELSE 1
             new == LastOnes(longer)
  <1>1. StableFrames \in Nat /\ StableFrames > 0 /\ Len(s) \in Nat
    BY ColourAssumption DEF ColourAssumption
  <1>2. /\ longer \in Seq(T) /\ Len(longer) = Len(s) + 1 /\ longer[Len(s) + 1] = x
        /\ \A i \in 1 .. Len(s) : longer[i] = s[i]
    OBVIOUS
  <1> HIDE DEF longer
  <1>3. first = IF Len(s) = StableFrames THEN 2 ELSE 1
    BY <1>1, <1>2
  <1>4. first \in 1 .. 2 /\ first <= Len(s) + 1
    BY <1>1, <1>3
  <1> HIDE DEF first
  <1>5. new = SubSeq(longer, first, Len(longer))
    BY DEF LastOnes, first
  <1> HIDE DEF new
  <1>6. /\ new \in Seq(T) /\ Len(new) = Len(s) + 2 - first
        /\ \A i \in 1 .. Len(s) + 2 - first : new[i] = longer[i + first - 1]
    BY <1>1, <1>2, <1>4, <1>5
  <1>7. /\ Len(new) \in Nat
        /\ Len(new) = IF Len(s) = StableFrames THEN Len(s) ELSE Len(s) + 1
    BY <1>1, <1>3, <1>6
  <1>8. new[Len(new)] = x
    <2>1. Len(new) \in 1 .. Len(s) + 2 - first /\ Len(new) + first - 1 = Len(s) + 1
      BY <1>1, <1>4, <1>6
    <2> QED
      BY <1>2, <1>6, <2>1
  <1>9. ASSUME NEW i \in 1 .. Len(new) - 1
        PROVE  new[i] = s[i + Len(s) + 1 - Len(new)]
    <2>1. /\ i \in 1 .. Len(s) + 2 - first /\ i + first - 1 \in 1 .. Len(s)
          /\ i + first - 1 = i + Len(s) + 1 - Len(new)
      BY <1>1, <1>4, <1>6
    <2> QED
      BY <1>2, <1>6, <2>1
  <1> QED
    BY <1>6, <1>7, <1>8, <1>9 DEF OneMore, new, longer

LEMMA ColourBegins == ColourInit => ColourIInv
  <1> SUFFICES ASSUME NEW scheme \in ColourScheme, NEW behind \in Backgrounds,
                      ColourStart(scheme, behind)
               PROVE  ColourIInv
    BY DEF ColourInit
  <1>1. /\ colourScheme = scheme /\ background = behind /\ panel = <<Idle, Idle>>
        /\ seen = <<>> /\ lastDecoded = Unread /\ stableCount = 0 /\ colourRead = Unread
    BY DEF ColourStart
  <1>2. PanelOK
    BY <1>1 DEF PanelOK, Shown
  <1>3. Unread \notin 0 .. 7
    BY DEF Unread
  <1>4. StableFrames \in Nat
    BY ColourAssumption DEF ColourAssumption
  <1> QED
    BY <1>1, <1>2, <1>3, <1>4 DEF ColourIInv, Counted, ReadWasShown

LEMMA FrameKeeps ==
    ASSUME ColourIInv, NEW w \in Weights, TakeFrame(w)
    PROVE  ColourIInv'
  <1> DEFINE decoded == DecodeColour(Mixture(w))
             count == IF decoded = lastDecoded THEN stableCount + 1 ELSE 1
  <1>1. /\ lastDecoded' = decoded
        /\ stableCount' = IF count > StableFrames THEN StableFrames ELSE count
        /\ colourRead' = IF decoded # NotRead /\ count >= StableFrames
                         THEN decoded ELSE Unread
        /\ seen' = LastOnes(Append(seen, OnShow))
        /\ panel' \in {panel, <<panel[2], panel[2]>>}
        /\ colourScheme' = colourScheme /\ background' = background
    BY DEF TakeFrame
  <1>2. /\ colourScheme \in ColourScheme /\ background \in Backgrounds /\ PanelOK
        /\ seen \in Seq(SUBSET Nat) /\ Len(seen) <= StableFrames /\ Len(seen) \in Nat
        /\ stableCount \in Nat /\ Counted
    BY DEF ColourIInv
  <1>3. w \in 0 .. Parts /\ StableFrames \in Nat /\ StableFrames > 0
    BY ColourAssumption DEF ColourAssumption
  <1>4. decoded \in 0 .. 7 \cup {NotRead} /\ (decoded \in 0 .. 7 => decoded \in OnShow)
    BY <1>2, <1>3, DecodedType, FrameShowsIt
  <1>5. OnShow \in SUBSET Nat
    BY DEF OnShow, Symbol
  <1> HIDE DEF decoded
  <1>6. /\ count \in Nat /\ count >= 1
        /\ stableCount' \in Nat /\ stableCount' >= 1 /\ stableCount' <= count
        /\ stableCount' <= StableFrames
        /\ stableCount' > 1 => lastDecoded = decoded /\ stableCount' <= stableCount + 1
    BY <1>1, <1>2, <1>3
  <1>7. /\ seen' \in Seq(SUBSET Nat) /\ Len(seen') \in Nat
        /\ Len(seen') = IF Len(seen) = StableFrames THEN Len(seen) ELSE Len(seen) + 1
        /\ seen'[Len(seen')] = OnShow
        /\ \A i \in 1 .. Len(seen') - 1 : seen'[i] = seen[i + Len(seen) + 1 - Len(seen')]
    <2>1. /\ LastOnes(Append(seen, OnShow)) \in Seq(SUBSET Nat)
          /\ OneMore(seen, OnShow, LastOnes(Append(seen, OnShow)))
      BY <1>2, <1>5, LastOnesParts
    <2>2. seen' \in Seq(SUBSET Nat) /\ OneMore(seen, OnShow, seen')
      BY <1>1, <2>1
    <2> QED
      BY <2>2 DEF OneMore
  <1>8. Counted'
    <2>1. stableCount' <= Len(seen')
      BY <1>2, <1>3, <1>6, <1>7 DEF Counted
    <2>2. ASSUME decoded \in 0 .. 7,
                 NEW i \in Len(seen') - stableCount' + 1 .. Len(seen')
          PROVE  decoded \in seen'[i]
      <3>1. CASE i = Len(seen')
        BY <1>4, <1>7, <2>2, <3>1
      <3>2. CASE i # Len(seen')
        <4>1. i <= Len(seen') - 1 /\ i >= Len(seen') - stableCount' + 1 /\ i \in Int
          BY <1>6, <1>7, <2>2, <3>2
        <4>2. stableCount' > 1 /\ i \in 1 .. Len(seen') - 1
          BY <1>6, <1>7, <2>1, <4>1
        <4>3. stableCount' <= stableCount + 1 /\ lastDecoded = decoded
          BY <1>6, <4>2
        <4> DEFINE j == i + Len(seen) + 1 - Len(seen')
        <4>4. j \in Len(seen) - stableCount + 1 .. Len(seen)
          <5>1. \A k, n, x, y, z \in Int :
                   k <= n - 1 /\ k >= n - z + 1 /\ z <= y + 1 /\ (n = x \/ n = x + 1)
                     => k + x + 1 - n \in x - y + 1 .. x
            OBVIOUS
          <5>2. /\ Len(seen) \in Int /\ Len(seen') \in Int /\ stableCount \in Int
                /\ stableCount' \in Int
                /\ Len(seen') = Len(seen) \/ Len(seen') = Len(seen) + 1
            BY <1>2, <1>6, <1>7
          <5> QED
            BY <4>1, <4>3, <5>1, <5>2
        <4>5. seen'[i] = seen[j]
          BY <1>7, <4>2
        <4> HIDE DEF j
        <4>6. decoded \in seen[j]
          BY <1>2, <2>2, <4>3, <4>4 DEF Counted
        <4> QED
          BY <4>5, <4>6
      <3> QED
        BY <3>1, <3>2
    <2> QED
      BY <1>1, <2>1, <2>2 DEF Counted
  <1>9. ReadWasShown'
    <2> SUFFICES ASSUME colourRead' \in 0 .. 7
                 PROVE  /\ Len(seen') = StableFrames
                        /\ \A i \in DOMAIN seen' : colourRead' \in seen'[i]
      BY DEF ReadWasShown
    <2>1. colourRead' = decoded /\ decoded \in 0 .. 7 /\ count >= StableFrames
      BY <1>1 DEF Unread
    <2>2. stableCount' = StableFrames
      BY <1>1, <1>3, <1>6, <2>1
    <2>3. Len(seen') = StableFrames
      BY <1>2, <1>3, <1>7, <1>8, <2>2 DEF Counted
    <2>4. DOMAIN seen' = Len(seen') - stableCount' + 1 .. Len(seen')
      BY <1>3, <1>7, <2>2, <2>3
    <2> QED
      BY <1>1, <1>8, <2>1, <2>3, <2>4 DEF Counted
  <1>10. PanelOK'
    <2>1. Shown' = Shown
      BY <1>1 DEF Shown
    <2> QED
      BY <1>1, <1>2, <2>1 DEF PanelOK
  <1>11. Len(seen') <= StableFrames
    BY <1>2, <1>3, <1>7
  <1> QED
    BY <1>1, <1>2, <1>6, <1>7, <1>8, <1>9, <1>10, <1>11 DEF ColourIInv

LEMMA ColourKeeps ==
    ASSUME ColourIInv, [ColourNext]_colourVars
    PROVE  ColourIInv'
  <1>1. ASSUME NEW k \in Shown, Change(k), panel[2] = Idle \/ k = Idle PROVE ColourIInv'
    <2>1. /\ panel' = <<panel[2], k>>
          /\ UNCHANGED <<colourScheme, background, seen, lastDecoded, stableCount, colourRead>>
      BY <1>1 DEF Change
    <2>2. PanelOK'
      BY <1>1, <2>1 DEF ColourIInv, PanelOK, Shown
    <2> QED
      BY <2>1, <2>2 DEF ColourIInv, Counted, ReadWasShown
  <1>2. ASSUME NEW msg \in Symbol(colourScheme), ShowColour(msg) PROVE ColourIInv'
    BY <1>1, <1>2 DEF ShowColour, Shown
  <1>3. CASE HideColour
    BY <1>1, <1>3 DEF HideColour, Shown
  <1>4. ASSUME NEW w \in Weights, TakeFrame(w) PROVE ColourIInv'
    BY <1>4, FrameKeeps
  <1>5. CASE PressEsc
    <2>1. colourRead' \notin 0 .. 7
      BY <1>5 DEF PressEsc, NotRead
    <2> QED
      BY <1>5, <2>1 DEF ColourIInv, PressEsc, PanelOK, Shown, Counted, ReadWasShown
  <1>6. CASE UNCHANGED colourVars
    BY <1>6 DEF ColourIInv, colourVars, PanelOK, Shown, Counted, ReadWasShown
  <1> QED
    BY <1>2, <1>3, <1>4, <1>5, <1>6 DEF ColourNext

(* The colour channel, for any background, any number of frames that have to agree, *)
(* any order of sends and any parts of a mixture: what is read was on the screen in *)
(* each of these frames, or what is behind it was in view and is of the bit, or      *)
(* within 136 of the colour (LAB1 color_channel.cpp:59-66, 101-185, 311-326).        *)
THEOREM ReadIsShown == ColourSpec => []ReadWasShown
  <1>1. ColourIInv /\ [ColourNext]_colourVars => ColourIInv'
    BY ColourKeeps
  <1>2. ColourIInv => ReadWasShown
    BY DEF ColourIInv
  <1> QED
    BY <1>1, <1>2, ColourBegins, PTL DEF ColourSpec

-------------------------------------------------------------------------------
(* Access points.  The plan that the stage of channels is given is one of        *)
(* candidates, fallbacks among them.                                             *)
WithFallbacks(plan) ==
    Len(apChosen) + Cardinality(FloorsWithout5(apChosen)) <= MaxApCount =>
        /\ FloorsWithout5(plan) = {}
        /\ \A i \in DOMAIN apChosen :
              i \in DOMAIN plan /\ [plan[i] EXCEPT !.channel = 0] = apChosen[i]

ApIInv ==
    /\ apStage \in {"select", "bands", "channels", "done"}
    /\ Len(apPlan) <= MaxApCount
    /\ apStage # "done" => apPlan \in Seq(Candidates)
    /\ apStage = "bands" => apChosen = apPlan
    /\ apStage = "channels" => apChosen \in Seq(Candidates) /\ WithFallbacks(apPlan)
    /\ apStage = "done" => PlanIsSound

(* A finite set of numbers in ascending order.                                  *)
Ascending(f) == \A i, j \in DOMAIN f : i < j => f[i] < f[j]

LEMMA AscendingExists ==
    ASSUME NEW n \in Nat, NEW S \in SUBSET (0 .. n - 1)
    PROVE  \E f \in [1 .. Cardinality(S) -> S] : Ascending(f)
  <1> DEFINE T == {m \in Nat : \A R \in SUBSET (0 .. m - 1) :
                                   \E f \in [1 .. Cardinality(R) -> R] : Ascending(f)}
  <1>1. 0 \in T
    <2> SUFFICES ASSUME NEW R \in SUBSET (0 .. 0 - 1)
                 PROVE  \E f \in [1 .. Cardinality(R) -> R] : Ascending(f)
      OBVIOUS
    <2>1. R = {}
      OBVIOUS
    <2>2. Cardinality(R) = 0
      BY <2>1, FS_EmptySet
    <2>3. 1 .. Cardinality(R) = {}
      BY <2>2
    <2> DEFINE f == [i \in 1 .. Cardinality(R) |-> i]
    <2>4. f \in [1 .. Cardinality(R) -> R] /\ Ascending(f)
      BY <2>3 DEF Ascending
    <2> QED
      BY <2>4
  <1>2. ASSUME NEW m \in Nat, m \in T PROVE m + 1 \in T
    <2> SUFFICES ASSUME NEW R \in SUBSET (0 .. (m + 1) - 1)
                 PROVE  \E f \in [1 .. Cardinality(R) -> R] : Ascending(f)
      OBVIOUS
    <2> DEFINE Q == R \ {m}
    <2>1. Q \in SUBSET (0 .. m - 1)
      OBVIOUS
    <2>2. PICK f \in [1 .. Cardinality(Q) -> Q] : Ascending(f)
      BY <1>2, <2>1
    <2>3. IsFiniteSet(Q) /\ Cardinality(Q) \in Nat
      BY <2>1, FS_Interval, FS_Subset, FS_CardinalityType, 0 \in Int, m - 1 \in Int
    <2>4. CASE m \notin R
      BY <2>2, <2>4, Q = R
    <2>5. CASE m \in R
      <3> DEFINE k == Cardinality(Q)
                 g == [i \in 1 .. k + 1 |-> IF i \in 1 .. k THEN f[i] ELSE m]
      <3>1. R = Q \cup {m} /\ m \notin Q
        BY <2>5
      <3>2. Cardinality(R) = k + 1
        BY <2>3, <3>1, FS_AddElement
      <3>3. \A i \in 1 .. k : f[i] \in Q /\ f[i] \in 0 .. m - 1
        BY <2>1, <2>2
      <3> HIDE DEF k, Q
      <3>4. k \in Nat
        BY <2>3 DEF k
      <3>5. g \in [1 .. k + 1 -> R]
        BY <2>5, <3>1, <3>3
      <3>6. \A i, j \in 1 .. k : i < j => f[i] < f[j]
        BY <2>2 DEF Ascending, k
      <3>7. \A i, j \in 1 .. k + 1 : i < j => i \in 1 .. k /\ (j \in 1 .. k \/ j = k + 1)
        BY <3>4
      <3>8. Ascending(g)
        BY <3>3, <3>4, <3>6, <3>7 DEF Ascending
      <3> QED
        BY <3>2, <3>5, <3>8
    <2> QED
      BY <2>4, <2>5
  <1> HIDE DEF T
  <1>3. n \in T
    BY <1>1, <1>2, SetInduction
  <1> QED
    BY <1>3 DEF T

LEMMA AscendingAll ==
    ASSUME NEW n \in Nat, NEW S \in SUBSET (0 .. n - 1),
           NEW f \in [1 .. Cardinality(S) -> S], Ascending(f)
    PROVE  \A s \in S : \E i \in 1 .. Cardinality(S) : f[i] = s
  <1>1. IsFiniteSet(S) /\ Cardinality(S) \in Nat
    BY FS_Interval, FS_Subset, FS_CardinalityType, 0 \in Int, n - 1 \in Int
  <1> DEFINE D == 1 .. Cardinality(S)
  <1>2. \A i, j \in D : f[i] = f[j] => i = j
    <2> SUFFICES ASSUME NEW i \in D, NEW j \in D, i # j PROVE f[i] # f[j]
      OBVIOUS
    <2>1. i < j \/ j < i
      BY <1>1
    <2>2. f[i] \in S /\ f[j] \in S
      OBVIOUS
    <2>3. f[i] < f[j] \/ f[j] < f[i]
      BY <2>1 DEF Ascending
    <2>4. S \subseteq Int
      OBVIOUS
    <2>5. f[i] \in Int /\ f[j] \in Int
      BY <2>2, <2>4, Zenon
    <2> QED
      BY <2>3, <2>5
  <1>3. f \in Injection(D, S)
    BY <1>2, Zenon DEF Injection, IsInjective
  <1>4. IsFiniteSet(D) /\ Cardinality(D) = Cardinality(S)
    BY <1>1, FS_Interval
  <1>5. f \in Surjection(D, S)
    BY <1>1, <1>3, <1>4, FS_Injection
  <1> QED
    BY <1>5 DEF Surjection

(* One access point of 5 GHz for each floor that has none.                      *)
LEMMA FallbackParts ==
    /\ Fallbacks \in Seq(Candidates)
    /\ Len(Fallbacks) = Cardinality(FloorsWithout5(apPlan))
    /\ \A f \in FloorsWithout5(apPlan) : \E i \in DOMAIN Fallbacks :
          Fallbacks[i].floor = f
    /\ \A i \in DOMAIN Fallbacks : Fallbacks[i].band = "5GHz"
  <1> DEFINE without == FloorsWithout5(apPlan)
             n == Cardinality(without)
             floors == CHOOSE f \in [1 .. n -> without] :
                          \A i, j \in DOMAIN f : i < j => f[i] < f[j]
  <1>1. without \in SUBSET (0 .. Floors - 1) /\ Floors \in Nat
    BY ApAssumption DEF FloorsWithout5, ApAssumption
  <1>2. n \in Nat
    BY <1>1, FS_Interval, FS_Subset, FS_CardinalityType, 0 \in Int, Floors - 1 \in Int
  <1>3. floors \in [1 .. n -> without] /\ Ascending(floors)
    BY <1>1, AscendingExists DEF Ascending
  <1>4. \A f \in without : \E i \in 1 .. n : floors[i] = f
    BY <1>1, <1>3, AscendingAll
  <1>5. Fallbacks = [i \in DOMAIN floors |-> [floor |-> floors[i], place |-> Middle,
                                              band |-> "5GHz", channel |-> 0]]
    BY DEF Fallbacks
  <1> HIDE DEF floors, n, without
  <1>6. DOMAIN Fallbacks = 1 .. n
    BY <1>3, <1>5
  <1>7. \A i \in 1 .. n : /\ Fallbacks[i] = [floor |-> floors[i], place |-> Middle,
                                             band |-> "5GHz", channel |-> 0]
                          /\ floors[i] \in 0 .. Floors - 1
    BY <1>1, <1>3, <1>5
  <1>8. \A i \in 1 .. n : Fallbacks[i] \in Candidates
    <2>1. Middle \in Place
      BY ApAssumption DEF ApAssumption
    <2>2. ASSUME NEW f \in 0 .. Floors - 1
          PROVE  [floor |-> f, place |-> Middle, band |-> "5GHz", channel |-> 0]
                     \in Candidates
      BY <2>1 DEF Candidates
    <2> QED
      BY <1>7, <2>2, Zenon
  <1>9. Fallbacks \in Seq(Candidates) /\ Len(Fallbacks) = n
    <2>1. Fallbacks = [i \in 1 .. n |-> Fallbacks[i]]
      BY <1>3, <1>5
    <2>2. Fallbacks \in [1 .. n -> Candidates]
      BY <1>8, <2>1, Zenon
    <2> QED
      BY <1>2, <2>2
  <1>10. \A f \in without : \E i \in DOMAIN Fallbacks : Fallbacks[i].floor = f
    BY <1>4, <1>6, <1>7
  <1> QED
    BY <1>6, <1>7, <1>9, <1>10 DEF n, without

(* What is left of a plan that leaves room, and that every floor gets 5 GHz.     *)
LEMMA EnsuredParts ==
    ASSUME ApIInv, EnsureDualBand
    PROVE  /\ apPlan' \in Seq(Candidates) /\ Len(apPlan') <= MaxApCount
           /\ apChosen \in Seq(Candidates) /\ WithFallbacks(apPlan')
  <1> DEFINE n == Len(Fallbacks)
             k == Len(apPlan)
             room == Min({n, MaxApCount - k})
             added == apPlan \o SubSeq(Fallbacks, 1, room)
  <1>1. apPlan \in Seq(Candidates) /\ apChosen = apPlan /\ k <= MaxApCount
    BY DEF ApIInv, EnsureDualBand
  <1>2. k \in Nat /\ n \in Nat /\ MaxApCount \in Nat
    BY <1>1, FallbackParts, ApAssumption DEF ApAssumption
  <1>3. room \in Nat /\ room <= n /\ room <= MaxApCount - k
        /\ (n <= MaxApCount - k => room = n)
    <2> DEFINE S == {n, MaxApCount - k}
    <2>1. S \in SUBSET Nat /\ n \in S /\ MaxApCount - k \in S
      BY <1>1, <1>2
    <2>2. Min(S) \in S /\ Min(S) <= n /\ Min(S) <= MaxApCount - k
      BY <2>1, MinIsLeast
    <2> QED
      BY <1>2, <2>1, <2>2
  <1>4. apPlan' = IF Fallbacks # <<>> /\ Len(added) = MaxApCount
                  THEN Replaced(added) ELSE added
    BY DEF EnsureDualBand
  <1> HIDE DEF room, n, k
  <1>5. /\ added \in Seq(Candidates) /\ Len(added) = k + room
        /\ \A i \in 1 .. k : added[i] = apPlan[i]
        /\ \A i \in k + 1 .. k + room : added[i] = Fallbacks[i - k]
    BY <1>1, <1>2, <1>3, FallbackParts DEF n, k
  <1> HIDE DEF added
  <1>6. /\ Replaced(added) \in Seq(Candidates) /\ Len(Replaced(added)) = Len(added)
        /\ \A i \in 1 .. Len(added) :
              Replaced(added)[i] = IF Len(added) - i < n THEN Fallbacks[Len(added) - i + 1]
                                   ELSE added[i]
    <2>1. DOMAIN added = 1 .. Len(added) /\ Len(added) \in Nat
      BY <1>5
    <2>2. \A i \in 1 .. Len(added) :
             Replaced(added)[i] = IF Len(added) - i < n THEN Fallbacks[Len(added) - i + 1]
                                  ELSE added[i]
      BY <2>1 DEF Replaced, n
    <2>3. ASSUME NEW i \in 1 .. Len(added) PROVE Replaced(added)[i] \in Candidates
      <3>1. added[i] \in Candidates
        BY <1>5
      <3>2. Len(added) - i < n => Fallbacks[Len(added) - i + 1] \in Candidates
        BY <2>1, <1>2, FallbackParts DEF n
      <3> QED
        BY <2>2, <3>1, <3>2
    <2>4. Replaced(added) = [i \in 1 .. Len(added) |-> Replaced(added)[i]]
      BY <2>1 DEF Replaced
    <2>5. Replaced(added) \in [1 .. Len(added) -> Candidates]
      BY <2>3, <2>4, Zenon
    <2> QED
      BY <2>1, <2>2, <2>5
  <1>7. apPlan' \in Seq(Candidates) /\ Len(apPlan') = k + room
    BY <1>4, <1>5, <1>6
  <1>8. Len(apPlan') <= MaxApCount
    BY <1>2, <1>3, <1>7
  <1>9. ASSUME k + n <= MaxApCount
        PROVE  /\ \A i \in 1 .. k : apPlan'[i] = apPlan[i]
               /\ \A j \in 1 .. n : \E i \in 1 .. k + n : apPlan'[i] = Fallbacks[j]
               /\ Len(apPlan') = k + n
    <2>1. room = n /\ Len(added) = k + n
      BY <1>2, <1>3, <1>5, <1>9
    <2>2. CASE apPlan' = added
      <3>1. \A j \in 1 .. n : k + j \in k + 1 .. k + n /\ k + j \in 1 .. k + n /\ (k + j) - k = j
        BY <1>2
      <3> QED
        BY <1>5, <2>1, <2>2, <3>1
    <2>3. CASE apPlan' = Replaced(added)
      <3>1. \A j \in 1 .. n : /\ (k + n) - j + 1 \in 1 .. k + n
                              /\ (k + n) - ((k + n) - j + 1) < n
                              /\ (k + n) - ((k + n) - j + 1) + 1 = j
        BY <1>2
      <3>2. \A i \in 1 .. k : i \in 1 .. k + n /\ ~ ((k + n) - i < n)
        BY <1>2
      <3> QED
        BY <1>5, <1>6, <2>1, <2>3, <3>1, <3>2
    <2> QED
      BY <1>4, <2>1, <2>2, <2>3
  <1>10. ASSUME Len(apChosen) + Cardinality(FloorsWithout5(apChosen)) <= MaxApCount
         PROVE  /\ FloorsWithout5(apPlan') = {}
                /\ \A i \in DOMAIN apChosen :
                      i \in DOMAIN apPlan' /\ [apPlan'[i] EXCEPT !.channel = 0] = apChosen[i]
    <2>1. n = Cardinality(FloorsWithout5(apPlan)) /\ k + n <= MaxApCount
      BY <1>1, <1>10, FallbackParts DEF n, k
    <2>2. /\ \A i \in 1 .. k : apPlan'[i] = apPlan[i]
          /\ \A j \in 1 .. n : \E i \in 1 .. k + n : apPlan'[i] = Fallbacks[j]
          /\ DOMAIN apPlan' = 1 .. k + n
      BY <1>7, <1>9, <2>1
    <2>3. DOMAIN apPlan = 1 .. k /\ DOMAIN Fallbacks = 1 .. n /\ 1 .. k \subseteq 1 .. k + n
      BY <1>1, <1>2, FallbackParts DEF n, k
    <2>4. ASSUME NEW f \in 0 .. Floors - 1
          PROVE  \E i \in DOMAIN apPlan' : apPlan'[i].band = "5GHz" /\ apPlan'[i].floor = f
      <3>1. CASE f \in FloorsWithout5(apPlan)
        <4>1. PICK j \in 1 .. n : Fallbacks[j].floor = f /\ Fallbacks[j].band = "5GHz"
          BY <2>3, <3>1, FallbackParts
        <4> QED
          BY <2>2, <4>1
      <3>2. CASE f \notin FloorsWithout5(apPlan)
        <4>1. PICK i \in 1 .. k : apPlan[i].band = "5GHz" /\ apPlan[i].floor = f
          BY <2>3, <3>2 DEF FloorsWithout5
        <4> QED
          BY <2>2, <2>3, <4>1
      <3> QED
        BY <3>1, <3>2
    <2>5. \A i \in 1 .. k : [apPlan[i] EXCEPT !.channel = 0] = apPlan[i]
      <3>1. \A i \in 1 .. k : apPlan[i] \in Candidates
        BY <1>1 DEF k
      <3> QED
        BY <3>1 DEF Candidates
    <2> QED
      BY <1>1, <2>2, <2>3, <2>4, <2>5 DEF FloorsWithout5
  <1> QED
    BY <1>1, <1>7, <1>8, <1>10 DEF WithFallbacks

(* The plan with channels, and the fold that assigns them written out: iter[s]   *)
(* is the plan after the access points at the places in s got their channels.    *)
WithChannels(plan, ch) ==
    [i \in DOMAIN plan |-> [floor |-> plan[i].floor, place |-> plan[i].place,
                            band |-> plan[i].band, channel |-> ch[i]]]

GiveChannel(before, i) == [before EXCEPT ![i].channel = BestChannel(before, i)]

AssignStep(plan, iter, s) ==
    LET i == [j \in DOMAIN plan |-> j][Max(s)]
    IN  IF s = {} THEN plan ELSE GiveChannel(iter[s \ {Max(s)}], i)

Assigns(plan, iter, n) ==
    iter = [s \in SUBSET (1 .. n) |-> AssignStep(plan, iter, s)]

LEMMA LastIsMax ==
    ASSUME NEW n \in Nat, NEW s \in SUBSET (1 .. n + 1), n + 1 \in s
    PROVE  Max(s) = n + 1
  <1>1. \A x \in s : x \in Int /\ x <= n + 1
    OBVIOUS
  <1>2. \A x \in s : (\A y \in s : x >= y) => x = n + 1
    BY <1>1
  <1>3. \A y \in s : n + 1 >= y
    BY <1>1
  <1> QED
    BY <1>2, <1>3, Zenon DEF Max

LEMMA AssignsExists ==
    ASSUME NEW plan, NEW n \in Nat
    PROVE  \E iter : Assigns(plan, iter, n)
  <1> DEFINE S == {m \in Nat : \E iter : Assigns(plan, iter, m)}
  <1>1. 0 \in S
    <2> DEFINE iter == [s \in SUBSET (1 .. 0) |-> plan]
    <2>1. \A s \in SUBSET (1 .. 0) : s = {}
      OBVIOUS
    <2>2. \A s \in SUBSET (1 .. 0) : AssignStep(plan, iter, s) = plan
      BY <2>1, Zenon DEF AssignStep
    <2>3. Assigns(plan, iter, 0)
      BY <2>2, Zenon DEF Assigns
    <2> QED
      BY <2>3
  <1>2. ASSUME NEW m \in Nat, m \in S PROVE m + 1 \in S
    <2>1. PICK old : Assigns(plan, old, m)
      BY <1>2
    <2> DEFINE step(f, s) == AssignStep(plan, f, s)
               new == [s \in SUBSET (1 .. m + 1) |->
                          IF s \in SUBSET (1 .. m) THEN old[s] ELSE step(old, s)]
    <2>2. \A s \in SUBSET (1 .. m) :
             s \in SUBSET (1 .. m + 1) /\ s \ {Max(s)} \in SUBSET (1 .. m)
      <3>1. 1 .. m \subseteq 1 .. m + 1
        OBVIOUS
      <3> QED
        BY <3>1, Zenon
    <2>3. \A s \in SUBSET (1 .. m + 1) :
             s \notin SUBSET (1 .. m) => s \ {Max(s)} \in SUBSET (1 .. m)
      <3> SUFFICES ASSUME NEW s \in SUBSET (1 .. m + 1), s \notin SUBSET (1 .. m)
                   PROVE  s \ {Max(s)} \in SUBSET (1 .. m)
        OBVIOUS
      <3>1. \A i \in 1 .. m + 1 : i \in 1 .. m \/ i = m + 1
        OBVIOUS
      <3>2. m + 1 \in s
        BY <3>1
      <3>3. Max(s) = m + 1
        BY <3>2, LastIsMax
      <3> QED
        BY <3>1, <3>3
    <2> HIDE DEF step
    <2>4. \A s \in SUBSET (1 .. m) : new[s] = old[s]
      BY <2>2, Zenon
    <2>5. \A s \in SUBSET (1 .. m + 1) : s \notin SUBSET (1 .. m) => new[s] = step(old, s)
      BY Zenon
    <2>6. new = [s \in SUBSET (1 .. m + 1) |-> new[s]]
      OBVIOUS
    <2>7. \A s \in SUBSET (1 .. m) : old[s] = step(old, s)
      BY <2>1, Zenon DEF Assigns, step
    <2> HIDE DEF new
    <2>8. \A s \in SUBSET (1 .. m + 1) : new[s \ {Max(s)}] = old[s \ {Max(s)}]
      BY <2>2, <2>3, <2>4, Zenon
    <2>9. \A s \in SUBSET (1 .. m + 1) : step(new, s) = step(old, s)
      <3> SUFFICES ASSUME NEW s \in SUBSET (1 .. m + 1)
                   PROVE  step(new, s) = step(old, s)
        OBVIOUS
      <3>1. new[s \ {Max(s)}] = old[s \ {Max(s)}]
        BY <2>8
      <3> QED
        BY <3>1 DEF step, AssignStep
    <2>10. \A s \in SUBSET (1 .. m + 1) : new[s] = step(new, s)
      BY <2>4, <2>5, <2>7, <2>9, Zenon
    <2>11. new = [s \in SUBSET (1 .. m + 1) |-> step(new, s)]
      BY <2>6, <2>10, Zenon
    <2>12. Assigns(plan, new, m + 1)
      BY <2>11 DEF Assigns, step
    <2> QED
      BY <2>12
  <1> HIDE DEF S
  <1>3. n \in S
    BY <1>1, <1>2, SetInduction
  <1> QED
    BY <1>3 DEF S

LEMMA AssignedIs ==
    ASSUME NEW plan, NEW n \in Nat, DOMAIN plan = 1 .. n
    PROVE  \E iter : Assigns(plan, iter, n) /\ Assigned(plan) = iter[1 .. n]
  <1> DEFINE numbers == [i \in DOMAIN plan |-> i]
             iter == CHOOSE iter : Assigns(plan, iter, n)
  <1>1. Assigns(plan, iter, n)
    BY AssignsExists
  <1>2. DOMAIN numbers = 1 .. n
    OBVIOUS
  <1>3. Assigned(plan) = iter[1 .. n]
    BY <1>2, Zenon DEF Assigned, FoldLeft, MapThenFoldSet, Assigns, AssignStep, GiveChannel
  <1> QED
    BY <1>1, <1>3

LEMMA SameNeighbours ==
    ASSUME NEW plan, NEW ch, NEW i \in DOMAIN plan
    PROVE  Neighbours(WithChannels(plan, ch), i) = Neighbours(plan, i)
  BY DEF Neighbours, WithChannels

(* With fewer neighbours than channels there is one that no neighbour has, and    *)
(* the first of the channels that disturb the fewest is such a one.              *)
LEMMA BestIsFree ==
    ASSUME NEW n \in Nat, NEW plan, DOMAIN plan = 1 .. n, NEW i \in 1 .. n, NEW ch,
           Cardinality(Neighbours(plan, i)) < Cardinality(Pool(plan[i].band)),
           NEW q, q = WithChannels(plan, ch)
    PROVE  \A j \in Neighbours(plan, i) : j < i => ch[j] # BestChannel(q, i)
  <1> DEFINE before == {j \in Neighbours(plan, i) : j < i}
             used == {ch[j] : j \in before}
             pool == Pool(plan[i].band)
             free == pool \ used
             with(c) == {j \in before : ch[j] = c}
  <1>1. IsFiniteSet(Neighbours(plan, i)) /\ Neighbours(plan, i) \subseteq 1 .. n
    <2>1. Neighbours(plan, i) \in SUBSET (1 .. n)
      BY DEF Neighbours
    <2>2. IsFiniteSet(1 .. n)
      BY FS_Interval, 1 \in Int, n \in Int
    <2> QED
      BY <2>1, <2>2, FS_Subset
  <1>2. IsFiniteSet(before) /\ Cardinality(before) <= Cardinality(Neighbours(plan, i))
    BY <1>1, FS_Subset
  <1>3. IsFiniteSet(used) /\ Cardinality(used) <= Cardinality(before)
    <2> DEFINE f == [j \in before |-> ch[j]]
    <2>1. f \in Surjection(before, used)
      BY DEF Surjection
    <2> QED
      BY <1>2, <2>1, FS_Surjection
  <1>4. pool \subseteq Nat
    <2>1. Channels24 \in Nat /\ Channels5 \in Nat
      BY ApAssumption DEF ApAssumption
    <2> QED
      BY <2>1 DEF Pool
  <1>5. free # {}
    <2> SUFFICES ASSUME free = {} PROVE FALSE
      OBVIOUS
    <2>1. pool \in SUBSET used
      OBVIOUS
    <2> HIDE DEF used, pool, before
    <2>2. Cardinality(pool) <= Cardinality(used)
      BY <1>3, <2>1, FS_Subset
    <2>3. IsFiniteSet(pool)
      BY <1>3, <2>1, FS_Subset
    <2>4. /\ Cardinality(pool) \in Nat /\ Cardinality(used) \in Nat
          /\ Cardinality(before) \in Nat /\ Cardinality(Neighbours(plan, i)) \in Nat
      BY <1>1, <1>2, <1>3, <2>3, FS_CardinalityType
    <2>5. Cardinality(Neighbours(plan, i)) < Cardinality(pool)
      BY DEF pool
    <2> QED
      BY <1>2, <1>3, <2>2, <2>4, <2>5
  <1>6. \A c : Disturbed(q, i, c) = Cardinality(with(c))
    <2>1. Neighbours(q, i) = Neighbours(plan, i)
      BY SameNeighbours
    <2>2. \A j \in 1 .. n : q[j].channel = ch[j]
      BY DEF WithChannels
    <2>3. \A c : {j \in Neighbours(q, i) : j < i /\ q[j].channel = c} = with(c)
      BY <1>1, <2>1, <2>2
    <2> QED
      BY <2>3, Zenon DEF Disturbed
  <1>7. \A c : /\ Disturbed(q, i, c) \in Nat
               /\ Disturbed(q, i, c) = 0 <=> c \notin used
    <2> SUFFICES ASSUME NEW c
                 PROVE  /\ Cardinality(with(c)) \in Nat
                        /\ Cardinality(with(c)) = 0 <=> c \notin used
      BY <1>6
    <2>1. IsFiniteSet(with(c))
      BY <1>2, FS_Subset
    <2>2. with(c) = {} <=> c \notin used
      OBVIOUS
    <2> QED
      BY <2>1, <2>2, FS_CardinalityType, FS_EmptySet
  <1>8. q[i].band = plan[i].band
    BY DEF WithChannels
  <1> DEFINE least == Min(free)
             Fewest(c) == \A d \in pool :
                             \/ Disturbed(q, i, c) < Disturbed(q, i, d)
                             \/ Disturbed(q, i, c) = Disturbed(q, i, d) /\ c <= d
  <1>9. BestChannel(q, i) = CHOOSE c \in pool : Fewest(c)
    BY <1>8 DEF BestChannel
  <1>10. least \in free /\ \A c \in free : least <= c
    <2>1. free \in SUBSET Nat
      BY <1>4
    <2> HIDE DEF free
    <2> QED
      BY <1>5, <2>1, MinIsLeast
  <1> HIDE DEF used, pool, before, with, least
  <1>11. least \in pool /\ Disturbed(q, i, least) = 0
    BY <1>7, <1>10
  <1>12. Fewest(least)
    <2> SUFFICES ASSUME NEW d \in pool
                 PROVE  \/ Disturbed(q, i, least) < Disturbed(q, i, d)
                        \/ /\ Disturbed(q, i, least) = Disturbed(q, i, d)
                           /\ least <= d
      OBVIOUS
    <2>1. CASE d \in used
      BY <1>7, <1>11, <2>1
    <2>2. CASE d \notin used
      BY <1>7, <1>10, <1>11, <2>2
    <2> QED
      BY <2>1, <2>2
  <1> DEFINE best == CHOOSE c \in pool : Fewest(c)
  <1>13. Fewest(best)
    <2> HIDE DEF Fewest
    <2> QED
      BY <1>11, <1>12, Zenon
  <1> HIDE DEF best
  <1>14. \/ Disturbed(q, i, best) < Disturbed(q, i, least)
         \/ Disturbed(q, i, best) = Disturbed(q, i, least)
    BY <1>11, <1>13
  <1>15. best \notin used
    BY <1>7, <1>11, <1>14
  <1> QED
    BY <1>9, <1>15 DEF best, used, before

Few(plan) == \A i \in DOMAIN plan :
                Cardinality(Neighbours(plan, i)) < Cardinality(Pool(plan[i].band))

LEMMA AssignedParts ==
    ASSUME NEW plan \in Seq(Candidates)
    PROVE  \E ch : /\ Assigned(plan) = WithChannels(plan, ch)
                   /\ Few(plan) =>
                         \A i \in DOMAIN plan : \A j \in Neighbours(plan, i) :
                            j < i => ch[j] # ch[i]
  <1> DEFINE n == Len(plan)
  <1>1. n \in Nat /\ DOMAIN plan = 1 .. n
    OBVIOUS
  <1>2. \A i \in 1 .. n : plan[i] = [floor |-> plan[i].floor, place |-> plan[i].place,
                                     band |-> plan[i].band, channel |-> plan[i].channel]
    <2>1. \A i \in 1 .. n : plan[i] \in Candidates
      OBVIOUS
    <2> QED
      BY <2>1 DEF Candidates
  <1>3. plan = [i \in 1 .. n |-> plan[i]]
    OBVIOUS
  <1>4. PICK iter : Assigns(plan, iter, n) /\ Assigned(plan) = iter[1 .. n]
    BY <1>1, AssignedIs
  <1> HIDE DEF n
  <1> DEFINE Right(k) ==
               \E ch : /\ iter[1 .. k] = WithChannels(plan, ch)
                       /\ Few(plan) => \A i \in 1 .. k : \A j \in Neighbours(plan, i) :
                                         j < i => ch[j] # ch[i]
             S == {k \in Nat : k <= n => Right(k)}
  <1>5. \A s \in SUBSET (1 .. n) : iter[s] = AssignStep(plan, iter, s)
    BY <1>4, Zenon DEF Assigns
  <1>6. 0 \in S
    <2> DEFINE ch == [i \in 1 .. n |-> plan[i].channel]
    <2>1. 1 .. 0 = {}
      OBVIOUS
    <2>2. iter[1 .. 0] = plan
      BY <1>5, <2>1, Zenon DEF AssignStep
    <2>3. plan = WithChannels(plan, ch)
      <3>1. WithChannels(plan, ch) = [i \in 1 .. n |-> WithChannels(plan, ch)[i]]
        BY <1>1 DEF WithChannels
      <3>2. \A i \in 1 .. n : WithChannels(plan, ch)[i] = plan[i]
        BY <1>1, <1>2 DEF WithChannels
      <3> QED
        BY <1>3, <3>1, <3>2, Zenon
    <2> HIDE DEF ch
    <2>4. Right(0)
      BY <2>1, <2>2, <2>3
    <2> QED
      BY <2>4
  <1>7. ASSUME NEW k \in Nat, k \in S PROVE k + 1 \in S
    <2> SUFFICES ASSUME k + 1 <= n PROVE Right(k + 1)
      OBVIOUS
    <2>1. Right(k) /\ k + 1 \in 1 .. n
      BY <1>1, <1>7
    <2>2. PICK ch : /\ iter[1 .. k] = WithChannels(plan, ch)
                    /\ Few(plan) => \A i \in 1 .. k : \A j \in Neighbours(plan, i) :
                                      j < i => ch[j] # ch[i]
      BY <2>1
    <2> DEFINE q == WithChannels(plan, ch)
               c == BestChannel(q, k + 1)
               new == [i \in 1 .. n |-> IF i = k + 1 THEN c ELSE ch[i]]
    <2>3. iter[1 .. k + 1] = GiveChannel(q, k + 1)
      <3>1. /\ 1 .. k + 1 \in SUBSET (1 .. n) /\ 1 .. k + 1 # {}
            /\ (1 .. k + 1) \ {k + 1} = 1 .. k
        <4>1. \A i \in 1 .. k + 1 : i \in 1 .. n
          BY <1>1, <2>1
        <4>2. \A i : i \in 1 .. k <=> i \in 1 .. k + 1 /\ i # k + 1
          OBVIOUS
        <4>3. k + 1 \in 1 .. k + 1
          OBVIOUS
        <4> QED
          BY <4>1, <4>2, <4>3, Zenon
      <3>2. Max(1 .. k + 1) = k + 1
        BY LastIsMax
      <3>3. [i \in DOMAIN plan |-> i][k + 1] = k + 1
        BY <1>1, <2>1
      <3>4. iter[1 .. k + 1] = AssignStep(plan, iter, 1 .. k + 1)
        BY <1>5, <3>1, Zenon
      <3> HIDE DEF q
      <3>5. AssignStep(plan, iter, 1 .. k + 1) =
                GiveChannel(iter[(1 .. k + 1) \ {k + 1}], k + 1)
        BY <3>1, <3>2, <3>3, Zenon DEF AssignStep
      <3> QED
        BY <2>2, <3>1, <3>4, <3>5, Zenon DEF q
    <2> HIDE DEF c
    <2>4. GiveChannel(q, k + 1) = WithChannels(plan, new)
      <3>1. q[k + 1] = [floor |-> plan[k + 1].floor, place |-> plan[k + 1].place,
                        band |-> plan[k + 1].band, channel |-> ch[k + 1]]
        BY <1>1, <2>1 DEF WithChannels
      <3>2. [q[k + 1] EXCEPT !.channel = c] =
                [floor |-> plan[k + 1].floor, place |-> plan[k + 1].place,
                 band |-> plan[k + 1].band, channel |-> c]
        BY <3>1
      <3>3. GiveChannel(q, k + 1) =
                [i \in 1 .. n |-> IF i = k + 1 THEN [q[k + 1] EXCEPT !.channel = c]
                                 ELSE q[i]]
        BY <1>1, <2>1 DEF GiveChannel, WithChannels, c
      <3>4. \A i \in 1 .. n : q[i] = [floor |-> plan[i].floor, place |-> plan[i].place,
                                      band |-> plan[i].band, channel |-> ch[i]]
        BY <1>1 DEF WithChannels
      <3>5. \A i \in 1 .. n : new[i] = IF i = k + 1 THEN c ELSE ch[i]
        OBVIOUS
      <3>6. WithChannels(plan, new) =
                [i \in 1 .. n |-> [floor |-> plan[i].floor, place |-> plan[i].place,
                                  band |-> plan[i].band, channel |-> new[i]]]
        BY <1>1 DEF WithChannels
      <3> HIDE DEF q, new
      <3>7. \A i \in 1 .. n :
               [floor |-> plan[i].floor, place |-> plan[i].place,
                band |-> plan[i].band, channel |-> new[i]] =
               IF i = k + 1 THEN [q[k + 1] EXCEPT !.channel = c] ELSE q[i]
        BY <3>2, <3>4, <3>5
      <3> QED
        BY <3>3, <3>6, <3>7
    <2>5. ASSUME Few(plan), NEW i \in 1 .. k + 1, NEW j \in Neighbours(plan, i), j < i
          PROVE  new[j] # new[i]
      <3>1. j \in 1 .. n /\ j \in Int /\ i \in 1 .. n
        BY <1>1, <2>1, <2>5 DEF Neighbours
      <3>2. CASE i = k + 1
        <4>1. Cardinality(Neighbours(plan, i)) < Cardinality(Pool(plan[i].band))
          BY <1>1, <2>5, <3>1 DEF Few
        <4>2. ch[j] # BestChannel(q, i)
          BY <1>1, <2>5, <3>1, <4>1, BestIsFree
        <4>3. new[j] = ch[j] /\ new[i] = c
          BY <2>5, <3>1, <3>2
        <4> QED
          BY <3>2, <4>2, <4>3 DEF c
      <3>3. CASE i # k + 1
        <4>1. i \in 1 .. k
          BY <3>3
        <4>2. new[j] = ch[j] /\ new[i] = ch[i]
          BY <2>5, <3>1, <3>3, <4>1
        <4> QED
          BY <2>2, <2>5, <4>1, <4>2
      <3> QED
        BY <3>2, <3>3
    <2> HIDE DEF new, q
    <2>6. iter[1 .. k + 1] = WithChannels(plan, new)
      BY <2>3, <2>4
    <2> QED
      BY <2>5, <2>6
  <1> HIDE DEF S
  <1>8. n \in S
    BY <1>1, <1>6, <1>7, SetInduction
  <1>9. n <= n
    BY <1>1
  <1>10. Right(n)
    BY <1>8, <1>9 DEF S
  <1> QED
    BY <1>1, <1>4, <1>10

LEMMA AssignedSound ==
    ASSUME ApIInv, AssignChannels
    PROVE  PlanIsSound'
  <1>1. apPlan \in Seq(Candidates) /\ apChosen \in Seq(Candidates)
        /\ Len(apPlan) <= MaxApCount /\ WithFallbacks(apPlan)
    BY DEF ApIInv, AssignChannels
  <1>2. PICK ch : /\ Assigned(apPlan) = WithChannels(apPlan, ch)
                  /\ Few(apPlan) =>
                        \A i \in DOMAIN apPlan : \A j \in Neighbours(apPlan, i) :
                           j < i => ch[j] # ch[i]
    BY <1>1, AssignedParts
  <1> DEFINE n == Len(apPlan)
  <1>3. /\ n \in Nat /\ DOMAIN apPlan = 1 .. n
        /\ \A i \in 1 .. n : apPlan[i] \in Candidates
    BY <1>1
  <1>4. apPlan' = WithChannels(apPlan, ch) /\ apChosen' = apChosen
    BY <1>2 DEF AssignChannels
  <1> HIDE DEF n
  <1>5. /\ apPlan' = [i \in 1 .. n |-> apPlan'[i]]
        /\ \A i \in 1 .. n :
              apPlan'[i] = [floor |-> apPlan[i].floor, place |-> apPlan[i].place,
                            band |-> apPlan[i].band, channel |-> ch[i]]
    BY <1>3, <1>4 DEF WithChannels
  <1>6. DOMAIN apPlan' = 1 .. n /\ Len(apPlan') = n
    BY <1>3, <1>5
  <1>7. \A i \in 1 .. n : /\ apPlan'[i].floor = apPlan[i].floor
                          /\ apPlan'[i].band = apPlan[i].band
                          /\ apPlan'[i].channel = ch[i]
    BY <1>5
  <1>8. \A i \in 1 .. n : [apPlan'[i] EXCEPT !.channel = 0] =
                          [apPlan[i] EXCEPT !.channel = 0]
    BY <1>3, <1>5 DEF Candidates
  <1>9. FloorsWithout5(apPlan') = FloorsWithout5(apPlan)
    BY <1>3, <1>6, <1>7 DEF FloorsWithout5
  <1>10. \A i \in 1 .. n : Neighbours(apPlan', i) = Neighbours(apPlan, i)
    BY <1>3, <1>4, SameNeighbours
  <1>11. \A i \in 1 .. n : \A j \in Neighbours(apPlan, i) :
            j \in 1 .. n /\ j # i /\ i \in Neighbours(apPlan, j)
    <2> SUFFICES ASSUME NEW i \in 1 .. n, NEW j \in Neighbours(apPlan, i)
                 PROVE  j \in 1 .. n /\ j # i /\ i \in Neighbours(apPlan, j)
      OBVIOUS
    <2> DEFINE b == apPlan[i].band
    <2>1. /\ j \in 1 .. n /\ j # i /\ apPlan[j].band = b
          /\ apPlan[j].floor = apPlan[i].floor
          /\ <<apPlan[j].place, apPlan[i].place>> \in ApNear[b]
      BY <1>3 DEF Neighbours
    <2>2. b \in {"2.4GHz", "5GHz"}
      BY <1>3 DEF Candidates
    <2>3. \A q \in ApNear[b] : <<q[2], q[1]>> \in ApNear[b]
      BY <2>2, ApAssumption DEF ApAssumption
    <2> HIDE DEF b
    <2>4. <<apPlan[i].place, apPlan[j].place>> \in ApNear[b]
      BY <2>1, <2>3
    <2> QED
      BY <1>3, <2>1, <2>4 DEF Neighbours, b
  <1>12. WithFallbacks(apPlan')
    BY <1>1, <1>3, <1>6, <1>8, <1>9 DEF WithFallbacks
  <1>13. ASSUME \A i \in DOMAIN apPlan' :
                   Cardinality(Neighbours(apPlan', i)) < Cardinality(Pool(apPlan'[i].band))
         PROVE  \A i \in DOMAIN apPlan' : \A j \in Neighbours(apPlan', i) :
                   apPlan'[i].channel # apPlan'[j].channel
    <2>1. Few(apPlan)
      BY <1>3, <1>6, <1>7, <1>10, <1>13 DEF Few
    <2>2. \A i \in 1 .. n : \A j \in Neighbours(apPlan, i) : j < i => ch[j] # ch[i]
      BY <1>2, <1>3, <2>1
    <2>3. \A i \in 1 .. n : \A j \in Neighbours(apPlan, i) : ch[j] # ch[i]
      <3> SUFFICES ASSUME NEW i \in 1 .. n, NEW j \in Neighbours(apPlan, i)
                   PROVE  ch[j] # ch[i]
        OBVIOUS
      <3>1. j \in 1 .. n /\ j # i /\ i \in Neighbours(apPlan, j)
        BY <1>11
      <3>2. j < i \/ i < j
        BY <3>1
      <3> QED
        BY <2>2, <3>1, <3>2
    <2> QED
      BY <1>6, <1>7, <1>10, <1>11, <2>3
  <1> QED
    BY <1>1, <1>4, <1>6, <1>12, <1>13 DEF PlanIsSound, WithFallbacks, n

LEMMA ApKeeps == ApIInv /\ [ApNext]_apVars => ApIInv'
  <1> SUFFICES ASSUME ApIInv, [ApNext]_apVars PROVE ApIInv'
    OBVIOUS
  <1>1. ASSUME NEW c \in Candidates, SelectCandidate(c) PROVE ApIInv'
    <2>1. apPlan \in Seq(Candidates)
      BY <1>1 DEF ApIInv, SelectCandidate
    <2>2. apPlan' \in Seq(Candidates) /\ Len(apPlan') = Len(apPlan) + 1
      BY <1>1, <2>1 DEF SelectCandidate
    <2>3. Len(apPlan') <= MaxApCount
      BY <1>1, <2>1, <2>2, ApAssumption DEF SelectCandidate, ApAssumption
    <2> QED
      BY <1>1, <2>2, <2>3 DEF ApIInv, SelectCandidate
  <1>2. CASE EndSelection
    BY <1>2 DEF ApIInv, EndSelection
  <1>3. CASE EnsureDualBand
    <2>1. /\ apPlan' \in Seq(Candidates) /\ Len(apPlan') <= MaxApCount
          /\ apChosen \in Seq(Candidates) /\ WithFallbacks(apPlan')
      BY <1>3, EnsuredParts
    <2>2. apStage' = "channels" /\ apChosen' = apChosen
      BY <1>3 DEF EnsureDualBand
    <2> QED
      BY <2>1, <2>2 DEF ApIInv, WithFallbacks
  <1>4. CASE AssignChannels
    <2>1. PlanIsSound'
      BY <1>4, AssignedSound
    <2>2. apStage' = "done"
      BY <1>4 DEF AssignChannels
    <2> QED
      BY <2>1, <2>2 DEF ApIInv, PlanIsSound
  <1>5. CASE UNCHANGED apVars
    <2>1. apStage' = apStage /\ apPlan' = apPlan /\ apChosen' = apChosen
      BY <1>5 DEF apVars
    <2>2. WithFallbacks(apPlan)' <=> WithFallbacks(apPlan)
      BY <2>1 DEF WithFallbacks
    <2>3. PlanIsSound' <=> PlanIsSound
      BY <2>1 DEF PlanIsSound
    <2> QED
      BY <2>1, <2>2, <2>3 DEF ApIInv
  <1> QED
    BY <1>1, <1>2, <1>3, <1>4, <1>5 DEF ApNext

(* The plan of access points, for any number of floors and candidates chosen in    *)
(* any order: no more than allowed; if those chosen left room, they stay and every  *)
(* floor gets 5 GHz; and two that are near get different channels wherever no        *)
(* access point has as many neighbours as there are channels (LAB6/2 main.cpp:302-423). *)
THEOREM PlanAlwaysSound == ApSpec => []PlanIsSound
  <1>1. ApInit => ApIInv
    BY ApAssumption DEF ApInit, ApIInv, ApAssumption
  <1>2. ApIInv /\ [ApNext]_apVars => ApIInv'
    BY ApKeeps
  <1>3. ApIInv => PlanIsSound
    BY DEF ApIInv, PlanIsSound
  <1> QED
    BY <1>1, <1>2, <1>3, PTL DEF ApSpec

-------------------------------------------------------------------------------
(* Words on a line, for all strings, characters of any number of bits and any    *)
(* damage.  What is defined by recursion exists: x and what becomes of it in n   *)
(* steps.                                                                       *)
AreSteps(step, n, T) == step \in [1 .. n -> [T -> T]]
Iterates(f, x, step, n, T) ==
    f \in [0 .. n -> T] /\ f[0] = x /\ \A i \in 1 .. n : f[i] = step[i][f[i - 1]]

LEMMA IterationExists ==
    ASSUME NEW T, NEW n \in Nat, NEW x \in T, NEW step, AreSteps(step, n, T)
    PROVE  \E f : Iterates(f, x, step, n, T)
  <1> USE DEF AreSteps, Iterates
  <1> DEFINE StepsTo(f, m) == f \in [0 .. m -> T] /\ f[0] = x
                               /\ \A i \in 1 .. m : f[i] = step[i][f[i - 1]]
             S == {m \in Nat : m <= n => \E f : StepsTo(f, m)}
  <1>1. 0 \in S
    <2>1. StepsTo([i \in 0 .. 0 |-> x], 0)
      OBVIOUS
    <2> QED
      BY <2>1
  <1>2. ASSUME NEW m \in Nat, m \in S PROVE m + 1 \in S
    <2> SUFFICES ASSUME m + 1 <= n PROVE \E f : StepsTo(f, m + 1)
      OBVIOUS
    <2>1. PICK old : StepsTo(old, m)
      BY <1>2
    <2> DEFINE y == step[m + 1][old[m]]
               new == [i \in 0 .. m + 1 |-> IF i = m + 1 THEN y ELSE old[i]]
    <2>2. m \in 0 .. m /\ m + 1 \in 1 .. n
      OBVIOUS
    <2>3. step[m + 1] \in [T -> T] /\ old[m] \in T
      BY <2>1, <2>2
    <2>4. y \in T
      BY <2>3
    <2>5. new \in [0 .. m + 1 -> T]
      BY <2>1, <2>4
    <2>6. new[m + 1] = y /\ \A i \in 0 .. m : new[i] = old[i]
      OBVIOUS
    <2> HIDE DEF new
    <2>7. \A i \in 1 .. m + 1 : i - 1 \in 0 .. m /\ (i \in 1 .. m \/ i = m + 1)
      OBVIOUS
    <2>8. \A i \in 1 .. m : i \in 0 .. m
      OBVIOUS
    <2>9. ASSUME NEW i \in 1 .. m + 1 PROVE new[i] = step[i][new[i - 1]]
      <3>1. new[i - 1] = old[i - 1]
        BY <2>6, <2>7
      <3>2. CASE i \in 1 .. m
        BY <2>1, <2>6, <2>8, <3>1, <3>2
      <3>3. CASE i = m + 1
        <4>1. i - 1 = m
          BY <3>3
        <4> QED
          BY <2>6, <3>1, <3>3, <4>1
      <3> QED
        BY <2>7, <3>2, <3>3
    <2>10. new[0] = x
      BY <2>1, <2>6
    <2> QED
      BY <2>5, <2>9, <2>10
  <1> HIDE DEF S
  <1>3. n \in S
    BY <1>1, <1>2, SetInduction
  <1> QED
    BY <1>3 DEF S

(* The frame of a character: ten symbols in the code.                           *)
LEMMA FrameParts ==
    /\ CharBits \in Nat /\ CharBits > 0
    /\ kFrameWidth \in Nat /\ kFrameWidth = CharBits + 3 /\ kFrameWidth > 3
  BY CodeAssumption DEF CodeAssumption, kFrameWidth

LEMMA Halves ==
    ASSUME NEW n \in Nat
    PROVE  n \div 2 \in Nat /\ n % 2 \in {0, 1} /\ n = 2 * (n \div 2) + (n % 2)
  <1>1. n \div 2 \in Nat
    OBVIOUS
  <1>2. n % 2 \in {0, 1}
    OBVIOUS
  <1>3. n = 2 * (n \div 2) + (n % 2)
    OBVIOUS
  <1> QED
    BY <1>1, <1>2, <1>3

LEMMA HalfOf ==
    ASSUME NEW n \in Nat, NEW b \in {0, 1}
    PROVE  (2 * n + b) \div 2 = n /\ (2 * n + b) % 2 = b
  OBVIOUS

IsShifted(c, f) == f = [j \in 0 .. CharBits |-> IF j = 0 THEN c ELSE f[j - 1] \div 2]

LEMMA ShiftedIs ==
    ASSUME NEW c \in Nat
    PROVE  /\ Shifted(c) \in [0 .. CharBits -> Nat] /\ Shifted(c)[0] = c
           /\ \A j \in 1 .. CharBits : Shifted(c)[j] = Shifted(c)[j - 1] \div 2
  <1> DEFINE n == CharBits
             half == [x \in Nat |-> x \div 2]
             step == [j \in 1 .. n |-> half]
  <1>1. n \in Nat
    BY FrameParts
  <1>2. half \in [Nat -> Nat] /\ \A x \in Nat : half[x] = x \div 2
    BY Halves
  <1> HIDE DEF half
  <1>3. step \in [1 .. n -> [Nat -> Nat]] /\ \A j \in 1 .. n : step[j] = half
    BY <1>2
  <1> HIDE DEF step
  <1>4. PICK f \in [0 .. n -> Nat] : f[0] = c /\ \A j \in 1 .. n : f[j] = step[j][f[j - 1]]
    <2>1. AreSteps(step, n, Nat)
      BY <1>3 DEF AreSteps
    <2>2. \E f : Iterates(f, c, step, n, Nat)
      BY <1>1, <2>1, IterationExists
    <2> QED
      BY <2>2 DEF Iterates
  <1>5. \A j \in 0 .. n : j # 0 => j \in 1 .. n /\ j - 1 \in 0 .. n
    BY <1>1
  <1>6. \A j \in 1 .. n : f[j] = f[j - 1] \div 2
    <2>1. \A j \in 1 .. n : j - 1 \in 0 .. n
      BY <1>1
    <2> QED
      BY <1>2, <1>3, <1>4, <2>1
  <1>7. \A j \in 0 .. n : f[j] = IF j = 0 THEN c ELSE f[j - 1] \div 2
    BY <1>4, <1>5, <1>6
  <1>8. IsShifted(c, f)
    BY <1>4, <1>7, Zenon DEF IsShifted
  <1>9. IsShifted(c, Shifted(c))
    BY <1>8, Zenon DEF IsShifted, Shifted
  <1> DEFINE g == Shifted(c)
  <1> HIDE DEF g
  <1>10. g = [j \in 0 .. CharBits |-> IF j = 0 THEN c ELSE g[j - 1] \div 2]
    BY <1>9, Zenon DEF IsShifted, g
  <1>11. \A j \in 0 .. n : g[j] = IF j = 0 THEN c ELSE g[j - 1] \div 2
    BY <1>10
  <1>12. g[0] = c /\ \A j \in 1 .. n : g[j] = g[j - 1] \div 2
    BY <1>1, <1>11
  <1>13. \A j \in 0 .. n : g[j] \in Nat
    <2> DEFINE S == {j \in Nat : j <= n => g[j] \in Nat}
    <2>1. 0 \in S
      BY <1>12
    <2>2. ASSUME NEW j \in Nat, j \in S PROVE j + 1 \in S
      <3> SUFFICES ASSUME j + 1 <= n PROVE g[j + 1] \in Nat
        OBVIOUS
      <3>1. j + 1 \in 1 .. n /\ (j + 1) - 1 = j /\ g[j] \in Nat
        BY <1>1, <2>2
      <3> QED
        BY <1>12, <3>1, Halves
    <2> HIDE DEF S
    <2>3. \A j \in Nat : j \in S
      BY <2>1, <2>2, SetInduction
    <2> QED
      BY <1>1, <2>3 DEF S
  <1> QED
    BY <1>10, <1>12, <1>13 DEF g

IsUpper(bits, f) ==
    f = [j \in 0 .. CharBits |->
            IF j = 0 THEN 0 ELSE 2 * f[j - 1] + bits[kFrameWidth - j]]

LEMMA CharacterIs ==
    ASSUME NEW bits \in [1 .. kFrameWidth -> {0, 1}]
    PROVE  \E f \in [0 .. CharBits -> Nat] :
              /\ f[0] = 0 /\ Character(bits) = f[CharBits]
              /\ \A j \in 1 .. CharBits : f[j] = 2 * f[j - 1] + bits[kFrameWidth - j]
  <1> DEFINE n == CharBits
             step == [j \in 1 .. n |-> [x \in Nat |-> 2 * x + bits[kFrameWidth - j]]]
  <1>1. n \in Nat /\ \A j \in 1 .. n : kFrameWidth - j \in 1 .. kFrameWidth
    BY FrameParts
  <1>2. \A j \in 1 .. n : bits[kFrameWidth - j] \in {0, 1}
    BY <1>1
  <1>3. \A j \in 1 .. n, x \in Nat : 2 * x + bits[kFrameWidth - j] \in Nat
    BY <1>2
  <1>4. step \in [1 .. n -> [Nat -> Nat]]
    BY <1>3
  <1>5. \A j \in 1 .. n, x \in Nat : step[j][x] = 2 * x + bits[kFrameWidth - j]
    OBVIOUS
  <1> HIDE DEF step
  <1>6. PICK f \in [0 .. n -> Nat] : f[0] = 0 /\ \A j \in 1 .. n : f[j] = step[j][f[j - 1]]
    <2>1. AreSteps(step, n, Nat) /\ 0 \in Nat
      BY <1>4 DEF AreSteps
    <2>2. \E f : Iterates(f, 0, step, n, Nat)
      BY <1>1, <2>1, IterationExists
    <2> QED
      BY <2>2 DEF Iterates
  <1>7. \A j \in 1 .. n : f[j] = 2 * f[j - 1] + bits[kFrameWidth - j]
    <2>1. \A j \in 1 .. n : j - 1 \in 0 .. n
      BY <1>1
    <2> QED
      BY <1>5, <1>6, <2>1
  <1>8. \A j \in 0 .. n : j # 0 => j \in 1 .. n
    BY <1>1
  <1>9. \A j \in 0 .. n :
           f[j] = IF j = 0 THEN 0 ELSE 2 * f[j - 1] + bits[kFrameWidth - j]
    BY <1>6, <1>7, <1>8
  <1>10. IsUpper(bits, f)
    BY <1>6, <1>9, Zenon DEF IsUpper
  <1> DEFINE g == CHOOSE g : IsUpper(bits, g)
  <1>11. IsUpper(bits, g) /\ Character(bits) = g[CharBits]
    BY <1>10, Zenon DEF IsUpper, Character
  <1> HIDE DEF g
  <1>12. \A j \in 0 .. n :
            g[j] = IF j = 0 THEN 0 ELSE 2 * g[j - 1] + bits[kFrameWidth - j]
    BY <1>11 DEF IsUpper
  <1>13. g[0] = 0 /\ \A j \in 1 .. n : g[j] = 2 * g[j - 1] + bits[kFrameWidth - j]
    BY <1>1, <1>12
  <1>14. \A j \in 0 .. n : g[j] \in Nat
    <2> DEFINE S == {j \in Nat : j <= n => g[j] \in Nat}
    <2>1. 0 \in S
      BY <1>13
    <2>2. ASSUME NEW j \in Nat, j \in S PROVE j + 1 \in S
      <3> SUFFICES ASSUME j + 1 <= n PROVE g[j + 1] \in Nat
        OBVIOUS
      <3>1. j + 1 \in 1 .. n /\ (j + 1) - 1 = j /\ g[j] \in Nat
        BY <1>1, <2>2
      <3> DEFINE bit == bits[kFrameWidth - (j + 1)]
      <3>2. bit \in {0, 1}
        BY <1>2, <3>1
      <3>3. g[j + 1] = 2 * g[j] + bit
        BY <1>13, <3>1
      <3> HIDE DEF bit
      <3> QED
        BY <3>1, <3>2, <3>3
    <2> HIDE DEF S
    <2>3. \A j \in Nat : j \in S
      BY <2>1, <2>2, SetInduction
    <2> QED
      BY <1>1, <2>3 DEF S
  <1>15. g \in [0 .. n -> Nat]
    BY <1>11, <1>14 DEF IsUpper
  <1> QED
    BY <1>11, <1>13, <1>15

(* The bits of the frame of a character are 0 or 1.                             *)
LEMMA FrameBits ==
    ASSUME NEW c \in Nat, NEW j \in 1 .. kFrameWidth
    PROVE  /\ FrameBit(c, j) \in {0, 1}
           /\ j = 1 \/ j = kFrameWidth => FrameBit(c, j) = 1
           /\ j = 2 => FrameBit(c, j) = 0
           /\ j > 2 /\ j < kFrameWidth =>
                 /\ j - 3 \in 0 .. CharBits
                 /\ FrameBit(c, j) = Shifted(c)[j - 3] % 2
  <1>1. j > 2 /\ j < kFrameWidth => j - 3 \in 0 .. CharBits
    BY FrameParts
  <1>2. j > 2 /\ j < kFrameWidth =>
           FrameBit(c, j) = Shifted(c)[j - 3] % 2 /\ Shifted(c)[j - 3] % 2 \in {0, 1}
    <2> SUFFICES ASSUME j > 2, j < kFrameWidth
                 PROVE  /\ FrameBit(c, j) = Shifted(c)[j - 3] % 2
                        /\ Shifted(c)[j - 3] % 2 \in {0, 1}
      OBVIOUS
    <2>1. Shifted(c)[j - 3] \in Nat
      BY <1>1, ShiftedIs
    <2>2. j # 2 /\ j \notin {1, kFrameWidth}
      BY FrameParts
    <2> QED
      BY <2>1, <2>2, Halves DEF FrameBit
  <1>3. j = 1 \/ j = kFrameWidth => FrameBit(c, j) = 1
    BY FrameParts DEF FrameBit
  <1>4. j = 2 => FrameBit(c, j) = 0
    BY DEF FrameBit
  <1>5. j = 1 \/ j = 2 \/ j = kFrameWidth \/ (j > 2 /\ j < kFrameWidth)
    BY FrameParts
  <1> QED
    BY <1>1, <1>2, <1>3, <1>4, <1>5

(* What is put into a frame is read from it.                                    *)
LEMMA FrameIsRead ==
    ASSUME NEW c \in Nat, Shifted(c)[CharBits] = 0,
           NEW bits \in [1 .. kFrameWidth -> {0, 1}],
           \A j \in 1 .. kFrameWidth : bits[j] = FrameBit(c, j)
    PROVE  WellFormed(bits) /\ Character(bits) = c
  <1>1. WellFormed(bits)
    BY FrameParts, FrameBits DEF WellFormed
  <1>2. PICK f \in [0 .. CharBits -> Nat] :
              /\ f[0] = 0 /\ Character(bits) = f[CharBits]
              /\ \A j \in 1 .. CharBits : f[j] = 2 * f[j - 1] + bits[kFrameWidth - j]
    BY CharacterIs
  <1> DEFINE h == Shifted(c)
             n == CharBits
             S == {j \in Nat : j <= n => f[j] = h[n - j]}
  <1>3. /\ h \in [0 .. n -> Nat] /\ h[0] = c /\ h[n] = 0
        /\ \A j \in 1 .. n : h[j] = h[j - 1] \div 2
    BY ShiftedIs
  <1>4. \A j \in 1 .. n : bits[kFrameWidth - j] = h[n - j] % 2
    <2> SUFFICES ASSUME NEW j \in 1 .. n PROVE bits[kFrameWidth - j] = h[n - j] % 2
      OBVIOUS
    <2>1. /\ kFrameWidth - j \in 1 .. kFrameWidth /\ kFrameWidth - j > 2
          /\ kFrameWidth - j < kFrameWidth /\ (kFrameWidth - j) - 3 = n - j
      BY FrameParts
    <2> DEFINE k == kFrameWidth - j
    <2> HIDE DEF k
    <2>2. k \in 1 .. kFrameWidth /\ k > 2 /\ k < kFrameWidth /\ k - 3 = n - j
      BY <2>1 DEF k
    <2>3. bits[k] = Shifted(c)[k - 3] % 2
      BY <2>2, FrameBits
    <2> QED
      BY <2>2, <2>3 DEF k
  <1> HIDE DEF h
  <1>5. 0 \in S
    BY <1>2, <1>3, FrameParts
  <1>6. ASSUME NEW j \in Nat, j \in S PROVE j + 1 \in S
    <2> SUFFICES ASSUME j + 1 <= n PROVE f[j + 1] = h[n - (j + 1)]
      OBVIOUS
    <2> DEFINE i == n - (j + 1)
    <2>1. /\ i \in 0 .. n /\ i + 1 \in 1 .. n /\ (i + 1) - 1 = i /\ n - j = i + 1
          /\ j + 1 \in 1 .. n /\ (j + 1) - 1 = j /\ i \in Nat
      BY FrameParts
    <2>2. f[j] = h[n - j]
      BY <1>6, FrameParts
    <2> HIDE DEF i
    <2>3. h[i + 1] = h[i] \div 2 /\ h[i] \in Nat
      BY <1>3, <2>1
    <2>4. f[j + 1] = 2 * f[j] + bits[kFrameWidth - (j + 1)]
      BY <1>2, <2>1
    <2>5. bits[kFrameWidth - (j + 1)] = h[i] % 2
      BY <1>4, <2>1 DEF i
    <2>6. f[j + 1] = 2 * (h[i] \div 2) + (h[i] % 2)
      BY <2>1, <2>2, <2>3, <2>4, <2>5
    <2>7. f[j + 1] = h[i]
      BY <2>3, <2>6, Halves
    <2> QED
      BY <2>7 DEF i
  <1> HIDE DEF S
  <1>7. n \in S
    BY <1>5, <1>6, SetInduction, FrameParts
  <1>8. f[n] = h[n - n] /\ n - n = 0
    BY <1>7, FrameParts DEF S
  <1> QED
    BY <1>1, <1>2, <1>3, <1>8

(* What is read from a frame gives the same frame again.                        *)
LEMMA FrameIsWritten ==
    ASSUME NEW bits \in [1 .. kFrameWidth -> {0, 1}], WellFormed(bits)
    PROVE  /\ Character(bits) \in Nat
           /\ \A j \in 1 .. kFrameWidth : FrameBit(Character(bits), j) = bits[j]
  <1>1. PICK f \in [0 .. CharBits -> Nat] :
              /\ f[0] = 0 /\ Character(bits) = f[CharBits]
              /\ \A j \in 1 .. CharBits : f[j] = 2 * f[j - 1] + bits[kFrameWidth - j]
    BY CharacterIs
  <1> DEFINE c == Character(bits)
             n == CharBits
             h == Shifted(c)
             S == {j \in Nat : j <= n => h[j] = f[n - j]}
  <1>2. n \in Nat /\ n > 0
    BY FrameParts
  <1>3. c \in Nat /\ c = f[n]
    BY <1>1, <1>2
  <1> HIDE DEF c
  <1>4. h[0] = c /\ \A j \in 1 .. n : h[j] = h[j - 1] \div 2
    BY <1>3, ShiftedIs
  <1> HIDE DEF h
  <1>5. \A k \in 1 .. n : /\ f[k] \div 2 = f[k - 1]
                          /\ f[k] % 2 = bits[kFrameWidth - k]
    <2> SUFFICES ASSUME NEW k \in 1 .. n
                 PROVE  f[k] \div 2 = f[k - 1] /\ f[k] % 2 = bits[kFrameWidth - k]
      OBVIOUS
    <2>1. k - 1 \in 0 .. n /\ kFrameWidth - k \in 1 .. kFrameWidth
      BY FrameParts
    <2>2. f[k - 1] \in Nat /\ bits[kFrameWidth - k] \in {0, 1}
      BY <2>1
    <2>3. f[k] = 2 * f[k - 1] + bits[kFrameWidth - k]
      BY <1>1
    <2> QED
      BY <2>2, <2>3, HalfOf
  <1>6. 0 \in S
    BY <1>2, <1>3, <1>4
  <1>7. ASSUME NEW j \in Nat, j \in S PROVE j + 1 \in S
    <2> SUFFICES ASSUME j + 1 <= n PROVE h[j + 1] = f[n - (j + 1)]
      OBVIOUS
    <2>1. j + 1 \in 1 .. n /\ (j + 1) - 1 = j /\ n - j \in 1 .. n
          /\ (n - j) - 1 = n - (j + 1)
      BY <1>2
    <2>2. h[j] = f[n - j]
      BY <1>2, <1>7
    <2>3. h[j + 1] = h[j] \div 2
      BY <1>4, <2>1
    <2> QED
      BY <1>5, <2>1, <2>2, <2>3
  <1> HIDE DEF S
  <1>8. \A j \in Nat : j \in S
    BY <1>6, <1>7, SetInduction
  <1>9. ASSUME NEW j \in 1 .. kFrameWidth PROVE FrameBit(c, j) = bits[j]
    <2>1. CASE j > 2 /\ j < kFrameWidth
      <3> DEFINE i == j - 3
                 k == n - i
      <3>1. i \in Nat /\ i <= n /\ k \in 1 .. n /\ kFrameWidth - k = j
        BY <2>1, FrameParts
      <3>2. FrameBit(c, j) = h[i] % 2
        BY <1>3, <2>1, FrameBits DEF h
      <3> HIDE DEF i
      <3>3. h[i] = f[k]
        BY <1>8, <3>1 DEF S
      <3> HIDE DEF k
      <3> QED
        BY <1>5, <3>1, <3>2, <3>3
    <2>2. CASE j = 1 \/ j = kFrameWidth
      BY <1>3, <2>2, FrameBits DEF WellFormed
    <2>3. CASE j = 2
      BY <1>3, <2>3, FrameBits DEF WellFormed
    <2>4. j = 1 \/ j = 2 \/ j = kFrameWidth \/ (j > 2 /\ j < kFrameWidth)
      BY FrameParts
    <2> QED
      BY <2>1, <2>2, <2>3, <2>4
  <1> QED
    BY <1>3, <1>9 DEF c

LEMMA QuotientIs ==
    ASSUME NEW b \in Nat, b > 0, NEW q \in Nat
    PROVE  (b * q) \div b = q /\ (b * q) % b = 0
  <1> DEFINE a == b * q
             d == a \div b
  <1>1. a \in Nat
    OBVIOUS
  <1>2. a % b = 0
    <2>1. a = b * q + 0 /\ 0 \in 0 .. b - 1 /\ q \in Int
      OBVIOUS
    <2> HIDE DEF a
    <2> QED
      BY <1>1, <2>1, RemainderIs
  <1>3. a \div b \in Int /\ a = b * (a \div b) + (a % b)
    <2> HIDE DEF a
    <2> QED
      BY <1>1, DivisionParts
  <1>4. d \in Int /\ b * d = b * q
    BY <1>2, <1>3
  <1> HIDE DEF d
  <1>5. b * (d - q) = 0
    BY <1>4
  <1>6. d - q = 0
    BY <1>4, <1>5, SmallMultiple
  <1> QED
    BY <1>2, <1>4, <1>6 DEF d

(* Places in a word of n parts of the same width.                               *)
LEMMA PlaceInWord ==
    ASSUME NEW w \in Nat, NEW n \in Nat, NEW i \in 1 .. n, NEW j \in 1 .. w
    PROVE  w * (i - 1) + j \in 1 .. w * n
  <1>1. w * (i - 1) >= 0 /\ w * (i - 1) \in Nat
    OBVIOUS
  <1>2. w * (i - 1) + w = w * i
    OBVIOUS
  <1>3. w * (n - i) \in Nat
    OBVIOUS
  <1>4. w * n = w * i + w * (n - i)
    OBVIOUS
  <1>5. w * i \in Nat /\ w * n \in Nat
    OBVIOUS
  <1> QED
    BY <1>1, <1>2, <1>3, <1>4, <1>5

LEMMA PlacesCover ==
    ASSUME NEW w \in Nat, NEW n \in Nat, NEW k \in 1 .. w * n
    PROVE  \E i \in 1 .. n, j \in 1 .. w : k = w * (i - 1) + j
  <1> DEFINE Placed(x, m) == \E i \in 1 .. m, j \in 1 .. w : x = w * (i - 1) + j
             S == {m \in Nat : \A x \in 1 .. w * m : Placed(x, m)}
  <1>1. 0 \in S
    <2>1. w * 0 = 0
      OBVIOUS
    <2> QED
      BY <2>1
  <1>2. ASSUME NEW m \in Nat, m \in S PROVE m + 1 \in S
    <2> SUFFICES ASSUME NEW x \in 1 .. w * (m + 1)
                 PROVE  Placed(x, m + 1)
      OBVIOUS
    <2> DEFINE p == w * m
    <2>1. p \in Nat /\ w * (m + 1) = p + w
      OBVIOUS
    <2>2. CASE x <= p
      <3>1. PICK i \in 1 .. m, j \in 1 .. w : x = w * (i - 1) + j
        <4>1. x \in 1 .. p
          BY <2>1, <2>2
        <4> HIDE DEF Placed
        <4>2. Placed(x, m)
          BY <1>2, <4>1
        <4> QED
          BY <4>2 DEF Placed
      <3>2. i \in 1 .. m + 1
        OBVIOUS
      <3> QED
        BY <3>1, <3>2
    <2>3. CASE x > p
      <3>1. x - p \in 1 .. w /\ m + 1 \in 1 .. m + 1 /\ (m + 1) - 1 = m
        BY <2>1, <2>3
      <3>2. x = p + (x - p)
        BY <2>1
      <3> DEFINE j == x - p
      <3> HIDE DEF j, p
      <3>3. j \in 1 .. w /\ x = p + j
        BY <3>1, <3>2 DEF j
      <3>4. p = w * ((m + 1) - 1)
        BY <3>1 DEF p
      <3>5. x = w * ((m + 1) - 1) + j
        BY <3>3, <3>4
      <3> QED
        BY <3>1, <3>3, <3>5
    <2> QED
      BY <2>1, <2>2, <2>3
  <1> HIDE DEF S
  <1>3. n \in S
    BY <1>1, <1>2, SetInduction
  <1>4. Placed(k, n)
    <2> HIDE DEF Placed
    <2> QED
      BY <1>3 DEF S
  <1> QED
    BY <1>4

(* A word of n parts of width w, and the parts put one behind the other.         *)
AreParts(parts, n, w) ==
    /\ parts \in Seq(Seq(Int)) /\ Len(parts) = n
    /\ \A i \in 1 .. n : parts[i] \in Seq(Int) /\ Len(parts[i]) = w
HasParts(word, parts, n, w) ==
    /\ word \in Seq(Int) /\ Len(word) = w * n
    /\ \A i \in 1 .. n, j \in 1 .. w : word[w * (i - 1) + j] = parts[i][j]

LEMMA JoinParts ==
    ASSUME NEW x \in Seq(Int), NEW y \in Seq(Int)
    PROVE  /\ x \o y \in Seq(Int) /\ Len(x \o y) = Len(x) + Len(y)
           /\ \A k \in 1 .. Len(x) : (x \o y)[k] = x[k]
           /\ \A k \in 1 .. Len(y) : (x \o y)[Len(x) + k] = y[k]
  OBVIOUS

LEMMA PartAdded ==
    ASSUME NEW w \in Nat, NEW n \in Nat, NEW parts, AreParts(parts, n, w),
           NEW m \in Nat, m + 1 <= n, NEW word, HasParts(word, parts, m, w)
    PROVE  HasParts(word \o parts[m + 1], parts, m + 1, w)
  <1> DEFINE part == parts[m + 1]
             p == w * m
             new == word \o part
  <1>1. part \in Seq(Int) /\ Len(part) = w
    BY DEF AreParts
  <1>2. word \in Seq(Int) /\ Len(word) = p /\ p \in Nat
    BY DEF HasParts
  <1>3. w * (m + 1) = p + w
    OBVIOUS
  <1> HIDE DEF part
  <1>4. /\ new \in Seq(Int) /\ Len(new) = Len(word) + Len(part)
        /\ \A k \in 1 .. Len(word) : new[k] = word[k]
        /\ \A j \in 1 .. Len(part) : new[Len(word) + j] = part[j]
    BY <1>1, <1>2, JoinParts
  <1> HIDE DEF new
  <1>5. /\ new \in Seq(Int) /\ Len(new) = p + w
        /\ \A k \in 1 .. p : new[k] = word[k]
        /\ \A j \in 1 .. w : new[p + j] = part[j]
    <2> HIDE DEF p
    <2> QED
      BY <1>1, <1>2, <1>4
  <1>6. ASSUME NEW i \in 1 .. m + 1, NEW j \in 1 .. w
        PROVE  new[w * (i - 1) + j] = parts[i][j]
    <2>1. CASE i \in 1 .. m
      <3> DEFINE k == w * (i - 1) + j
      <3>1. k \in 1 .. p
        BY <2>1, PlaceInWord
      <3>2. word[k] = parts[i][j]
        BY <2>1 DEF HasParts
      <3> HIDE DEF k, p
      <3>3. new[k] = parts[i][j]
        BY <1>5, <3>1, <3>2
      <3> QED
        BY <3>3 DEF k
    <2>2. CASE i = m + 1
      <3>1. i - 1 = m
        BY <2>2
      <3>2. w * (i - 1) + j = p + j
        BY <3>1
      <3> HIDE DEF p
      <3> QED
        BY <1>5, <2>2, <3>2 DEF part
    <2>3. i \in 1 .. m \/ i = m + 1
      OBVIOUS
    <2> QED
      BY <2>1, <2>2, <2>3
  <1> QED
    BY <1>3, <1>5, <1>6 DEF HasParts, new, part

LEMMA WordHasParts ==
    ASSUME NEW w \in Nat, NEW n \in Nat, NEW parts, AreParts(parts, n, w)
    PROVE  HasParts(FlattenSeq(parts), parts, n, w)
  <1>1. Len(parts) = n /\ parts \in Seq(Seq(Int))
    BY DEF AreParts
  <1>2. CASE n = 0
    <2>1. FlattenSeq(parts) = parts
      BY <1>1, <1>2, Zenon DEF FlattenSeq
    <2>2. parts = <<>>
      BY <1>1, <1>2
    <2>3. w * n = 0
      BY <1>2
    <2> QED
      BY <1>2, <2>1, <2>2, <2>3 DEF HasParts
  <1>3. CASE n # 0
    <2>1. PICK flatten : Flattened(parts, flatten, n) /\ FlattenSeq(parts) = flatten[n]
      <3>1. Len(parts) \in Nat /\ Len(parts) # 0
        BY <1>1, <1>3
      <3> QED
        BY <1>1, <3>1, FlattenIs
    <2>2. \A i \in 1 .. n : flatten[i] = NextFlat(parts, flatten, i)
      BY <2>1 DEF Flattened
    <2> DEFINE S == {m \in Nat : m + 1 <= n => HasParts(flatten[m + 1], parts, m + 1, w)}
    <2>3. 0 \in S
      <3>1. 0 + 1 \in 1 .. n /\ 1 \in 1 .. n
        BY <1>3
      <3>2. flatten[1] = parts[1]
        BY <2>2, <3>1 DEF NextFlat
      <3>3. parts[1] \in Seq(Int) /\ Len(parts[1]) = w
        BY <3>1 DEF AreParts
      <3>4. w * 1 = w /\ \A i \in 1 .. 1 : i = 1 /\ w * (i - 1) = 0
        OBVIOUS
      <3>5. \A i \in 1 .. 1, j \in 1 .. w : parts[1][w * (i - 1) + j] = parts[i][j]
        <4> SUFFICES ASSUME NEW i \in 1 .. 1, NEW j \in 1 .. w
                     PROVE  parts[1][w * (i - 1) + j] = parts[i][j]
          OBVIOUS
        <4>1. i = 1 /\ w * (i - 1) + j = j
          BY <3>4
        <4> QED
          BY <4>1
      <3>6. HasParts(flatten[1], parts, 1, w)
        BY <3>2, <3>3, <3>4, <3>5 DEF HasParts
      <3> QED
        BY <3>6
    <2>4. ASSUME NEW m \in Nat, m \in S PROVE m + 1 \in S
      <3> SUFFICES ASSUME (m + 1) + 1 <= n
                   PROVE  HasParts(flatten[(m + 1) + 1], parts, (m + 1) + 1, w)
        OBVIOUS
      <3>1. HasParts(flatten[m + 1], parts, m + 1, w)
        BY <2>4
      <3> DEFINE k == m + 1
      <3>2. k \in Nat /\ k + 1 \in 1 .. n /\ k + 1 # 1 /\ (k + 1) - 1 = k /\ k + 1 <= n
        OBVIOUS
      <3> HIDE DEF k
      <3>3. flatten[k + 1] = flatten[k] \o parts[k + 1]
        BY <2>2, <3>2 DEF NextFlat
      <3>4. HasParts(flatten[k], parts, k, w)
        BY <3>1 DEF k
      <3>5. HasParts(flatten[k] \o parts[k + 1], parts, k + 1, w)
        BY <3>2, <3>4, PartAdded
      <3> QED
        BY <3>3, <3>5 DEF k
    <2> HIDE DEF S
    <2>5. \A m \in Nat : m \in S
      BY <2>3, <2>4, SetInduction
    <2>6. n - 1 \in Nat /\ (n - 1) + 1 = n
      BY <1>3
    <2>7. HasParts(flatten[n], parts, n, w)
      BY <2>5, <2>6 DEF S
    <2> QED
      BY <2>1, <2>7
  <1> QED
    BY <1>2, <1>3

LEMMA SamePartsSameWord ==
    ASSUME NEW w \in Nat, NEW n \in Nat, NEW parts, NEW x, NEW y,
           HasParts(x, parts, n, w), HasParts(y, parts, n, w)
    PROVE  x = y
  <1>1. x \in Seq(Int) /\ y \in Seq(Int) /\ Len(x) = w * n /\ Len(y) = w * n
    BY DEF HasParts
  <1>2. ASSUME NEW k \in 1 .. w * n PROVE x[k] = y[k]
    <2>1. PICK i \in 1 .. n, j \in 1 .. w : k = w * (i - 1) + j
      BY PlacesCover
    <2> QED
      BY <2>1 DEF HasParts
  <1> DEFINE l == w * n
  <1> HIDE DEF l
  <1>3. Len(x) = l /\ Len(y) = l /\ \A k \in 1 .. l : x[k] = y[k]
    BY <1>1, <1>2 DEF l
  <1> QED
    BY <1>1, <1>3

(* A message is coded frame by frame.                                           *)
LEMMA EncodeIs ==
    ASSUME NEW msg \in Seq(Nat)
    PROVE  /\ Encode(msg) \in Seq(Int) /\ Len(Encode(msg)) = kFrameWidth * Len(msg)
           /\ \A i \in 1 .. Len(msg), j \in 1 .. kFrameWidth :
                 Encode(msg)[kFrameWidth * (i - 1) + j] = Voltage(FrameBit(msg[i], j))
  <1> DEFINE n == Len(msg)
             w == kFrameWidth
             parts == [i \in DOMAIN msg |-> Frame(msg[i])]
  <1>1. n \in Nat /\ DOMAIN msg = 1 .. n /\ w \in Nat /\ \A i \in 1 .. n : msg[i] \in Nat
    BY FrameParts
  <1>2. \A b : Voltage(b) \in Int
    BY DEF Voltage
  <1>3. ASSUME NEW c
        PROVE  /\ Frame(c) \in Seq(Int) /\ Len(Frame(c)) = w
               /\ \A j \in 1 .. w : Frame(c)[j] = Voltage(FrameBit(c, j))
    BY <1>1, <1>2 DEF Frame
  <1>4. AreParts(parts, n, w)
    <2>1. \A i \in 1 .. n : parts[i] = Frame(msg[i])
      BY <1>1
    <2>2. Len(parts) = n /\ parts \in Seq(Seq(Int))
      BY <1>1, <1>3
    <2> HIDE DEF parts
    <2> QED
      BY <1>3, <2>1, <2>2 DEF AreParts
  <1>5. \A i \in 1 .. n : parts[i] = Frame(msg[i])
    BY <1>1
  <1>6. Encode(msg) = FlattenSeq(parts)
    BY Zenon DEF Encode
  <1> HIDE DEF parts, n, w
  <1>7. HasParts(Encode(msg), parts, n, w)
    BY <1>1, <1>4, <1>6, WordHasParts
  <1>8. /\ Encode(msg) \in Seq(Int) /\ Len(Encode(msg)) = w * n
        /\ \A i \in 1 .. n, j \in 1 .. w : Encode(msg)[w * (i - 1) + j] = Frame(msg[i])[j]
    BY <1>5, <1>7 DEF HasParts
  <1> QED
    BY <1>3, <1>8 DEF n, w

(* What decoding returns, and when.                                             *)
LEMMA BitsAre ==
    ASSUME NEW volts, NEW i
    PROVE  /\ BitsOf(volts, i) \in [1 .. kFrameWidth -> {0, 1}]
           /\ \A j \in 1 .. kFrameWidth :
                 BitsOf(volts, i)[j] =
                 IF volts[kFrameWidth * (i - 1) + j] < 0 THEN 1 ELSE 0
  BY DEF BitsOf

LEMMA DecodeIs ==
    ASSUME NEW volts \in Seq(Int), NEW out \in Decode(volts)
    PROVE  \E n \in Nat :
              /\ Len(volts) = kFrameWidth * n
              /\ \A i \in 1 .. n : WellFormed(BitsOf(volts, i))
              /\ out = <<[i \in 1 .. n |-> Character(BitsOf(volts, i))], <<>>>>
  <1> DEFINE l == Len(volts)
             n == l \div kFrameWidth
  <1>1. l \in Nat
    OBVIOUS
  <1>2. /\ l % kFrameWidth = 0
        /\ \A i \in 1 .. n : WellFormed(BitsOf(volts, i))
        /\ out = <<[i \in 1 .. n |-> Character(BitsOf(volts, i))], <<>>>>
    BY Zenon DEF Decode
  <1> HIDE DEF l
  <1>3. n \in Nat /\ l = kFrameWidth * n + (l % kFrameWidth)
    BY <1>1, FrameParts, DivisionParts, QuotientParts
  <1> HIDE DEF n
  <1>4. l = kFrameWidth * n
    BY <1>2, <1>3, FrameParts
  <1> QED
    BY <1>2, <1>3, <1>4 DEF l

LEMMA DecodeAccepts ==
    ASSUME NEW volts, NEW n \in Nat, Len(volts) = kFrameWidth * n,
           \A i \in 1 .. n : WellFormed(BitsOf(volts, i))
    PROVE  Decode(volts) = {<<[i \in 1 .. n |-> Character(BitsOf(volts, i))], <<>>>>}
  <1>1. Len(volts) \div kFrameWidth = n /\ Len(volts) % kFrameWidth = 0
    BY FrameParts, QuotientIs
  <1> QED
    BY <1>1, Zenon DEF Decode

LEMMA VoltageSign == \A b \in {0, 1} : Voltage(b) < 0 <=> b = 1
  BY DEF Voltage

(* The two round trips of rs232: what is accepted is the word of what is read,   *)
(* and the word of a message is read as this message.                           *)
LEMMA RsAcceptsOnlyWords ==
    ASSUME NEW volts \in Seq(Int), NEW out \in Decode(volts)
    PROVE  SameSigns(Encode(out[1]), volts) /\ out[2] = <<>>
  <1>1. PICK n \in Nat :
              /\ Len(volts) = kFrameWidth * n
              /\ \A i \in 1 .. n : WellFormed(BitsOf(volts, i))
              /\ out = <<[i \in 1 .. n |-> Character(BitsOf(volts, i))], <<>>>>
    BY DecodeIs
  <1> DEFINE msg == out[1]
             w == kFrameWidth
             e == Encode(msg)
  <1>2. \A i \in 1 .. n : Character(BitsOf(volts, i)) \in Nat
    BY <1>1, BitsAre, FrameIsWritten
  <1>3. /\ msg \in Seq(Nat) /\ Len(msg) = n
        /\ \A i \in 1 .. n : msg[i] = Character(BitsOf(volts, i))
    BY <1>1, <1>2
  <1> HIDE DEF msg
  <1>4. /\ e \in Seq(Int) /\ Len(e) = w * n
        /\ \A i \in 1 .. n, j \in 1 .. w : e[w * (i - 1) + j] = Voltage(FrameBit(msg[i], j))
    BY <1>3, EncodeIs
  <1> HIDE DEF e
  <1>5. ASSUME NEW i \in 1 .. n, NEW j \in 1 .. w
        PROVE  e[w * (i - 1) + j] < 0 <=> volts[w * (i - 1) + j] < 0
    <2> DEFINE b == BitsOf(volts, i)[j]
               k == w * (i - 1) + j
    <2>1. FrameBit(msg[i], j) = b
      BY <1>1, <1>3, BitsAre, FrameIsWritten
    <2>2. b \in {0, 1} /\ (b = 1 <=> volts[k] < 0)
      <3>1. b \in {0, 1} /\ b = IF volts[k] < 0 THEN 1 ELSE 0
        BY BitsAre
      <3> QED
        BY <3>1
    <2>3. e[k] = Voltage(b)
      BY <1>4, <2>1
    <2> HIDE DEF b, k
    <2>4. e[k] < 0 <=> volts[k] < 0
      BY <2>2, <2>3, VoltageSign
    <2> QED
      BY <2>4 DEF k
  <1>6. ASSUME NEW k \in 1 .. w * n PROVE e[k] < 0 <=> volts[k] < 0
    <2>1. PICK i \in 1 .. n, j \in 1 .. w : k = w * (i - 1) + j
      BY PlacesCover, FrameParts
    <2> QED
      BY <1>5, <2>1
  <1>7. SameSigns(e, volts)
    <2>1. Len(e) = Len(volts) /\ DOMAIN e = 1 .. w * n
      BY <1>1, <1>4
    <2> QED
      BY <1>6, <2>1 DEF SameSigns
  <1> QED
    BY <1>1, <1>7 DEF e, msg

LEMMA RsWordIsRead ==
    ASSUME NEW msg \in Seq(Nat), \A i \in 1 .. Len(msg) : Shifted(msg[i])[CharBits] = 0
    PROVE  Decode(Encode(msg)) = {<<msg, <<>>>>}
  <1> DEFINE n == Len(msg)
             w == kFrameWidth
             e == Encode(msg)
  <1>1. /\ e \in Seq(Int) /\ Len(e) = w * n /\ n \in Nat
        /\ \A i \in 1 .. n, j \in 1 .. w : e[w * (i - 1) + j] = Voltage(FrameBit(msg[i], j))
    BY EncodeIs
  <1> HIDE DEF e
  <1>2. ASSUME NEW i \in 1 .. n
        PROVE  WellFormed(BitsOf(e, i)) /\ Character(BitsOf(e, i)) = msg[i]
    <2> DEFINE c == msg[i]
    <2>1. c \in Nat /\ Shifted(c)[CharBits] = 0
      OBVIOUS
    <2>2. ASSUME NEW j \in 1 .. w PROVE BitsOf(e, i)[j] = FrameBit(c, j)
      <3> DEFINE k == w * (i - 1) + j
      <3>1. BitsOf(e, i)[j] = IF e[k] < 0 THEN 1 ELSE 0
        BY BitsAre
      <3>2. FrameBit(c, j) \in {0, 1}
        BY <2>1, FrameBits
      <3>3. e[k] = Voltage(FrameBit(c, j))
        BY <1>1
      <3> HIDE DEF k, c
      <3> QED
        BY <3>1, <3>2, <3>3, VoltageSign
    <2> HIDE DEF c
    <2>3. WellFormed(BitsOf(e, i)) /\ Character(BitsOf(e, i)) = c
      BY <2>1, <2>2, BitsAre, FrameIsRead
    <2> QED
      BY <2>3 DEF c
  <1>3. Decode(e) = {<<[i \in 1 .. n |-> Character(BitsOf(e, i))], <<>>>>}
    BY <1>1, <1>2, DecodeAccepts
  <1>4. [i \in 1 .. n |-> Character(BitsOf(e, i))] = msg
    <2>1. msg = [i \in 1 .. n |-> msg[i]]
      OBVIOUS
    <2>2. \A i \in 1 .. n : Character(BitsOf(e, i)) = msg[i]
      BY <1>2
    <2> HIDE DEF n
    <2> QED
      BY <2>1, <2>2
  <1> QED
    BY <1>3, <1>4 DEF e

(* The schemes with slots: what is put into a slot, and what is read from one.   *)
SlotSchemes == {"tdm_sync", "fdm", "cdm"}
Heard(scheme, x) == IF scheme = "fdm" /\ x = Silent THEN 0 ELSE x
OneOf3 == {0, 1, Silent}

LEMMA SmallParts ==
    /\ 0 % 2 = 0 /\ 1 % 2 = 1 /\ 2 % 2 = 0 /\ 3 % 2 = 1 /\ 4 % 2 = 0
    /\ 0 \div 2 = 0 /\ 1 \div 2 = 0 /\ 2 \div 2 = 1 /\ 3 \div 2 = 1
    /\ (-2) % 2 = 0 /\ (-1) % 2 = 1
  <1>1. \A x \in Int : (x = -2 => x % 2 = 0) /\ (x = -1 => x % 2 = 1)
    OBVIOUS
  <1>2. (-2) % 2 = 0 /\ (-1) % 2 = 1
    BY <1>1, -2 \in Int, -1 \in Int
  <1> QED
    BY <1>2

LEMMA SlotIs ==
    ASSUME NEW scheme \in SlotSchemes, NEW x \in OneOf3, NEW y \in OneOf3
    PROVE  /\ Slot(scheme, x, y) \in Seq(Nat)
           /\ Len(Slot(scheme, x, y)) = Width(scheme)
           /\ SlotBits(scheme, Slot(scheme, x, y)[1], Slot(scheme, x, y)[Width(scheme)]) =
                 {<<Heard(scheme, x), Heard(scheme, y)>>}
  <1> USE SmallParts DEF Slot, SlotBits, Width, Heard, Silent, OneOf3
  <1>1. CASE scheme = "tdm_sync"
    BY <1>1
  <1>2. CASE scheme = "fdm"
    BY <1>2
  <1>3. CASE scheme = "cdm"
    BY <1>3 DEF Amplitude, Sign
  <1> QED
    BY <1>1, <1>2, <1>3 DEF SlotSchemes

LEMMA SlotBack ==
    ASSUME NEW scheme \in SlotSchemes, NEW u \in Nat, NEW v \in Nat,
           scheme = "fdm" => u = v, NEW p, p \in SlotBits(scheme, u, v)
    PROVE  /\ p = <<p[1], p[2]>> /\ p[1] \in OneOf3 /\ p[2] \in OneOf3
           /\ scheme = "fdm" => p[1] \in {0, 1} /\ p[2] \in {0, 1}
           /\ Slot(scheme, p[1], p[2])[1] = u
           /\ Slot(scheme, p[1], p[2])[Width(scheme)] = v
  <1> USE SmallParts DEF Slot, SlotBits, Width, Silent, OneOf3
  <1>1. CASE scheme = "tdm_sync"
    BY <1>1
  <1>2. CASE scheme = "fdm"
    BY <1>2
  <1>3. CASE scheme = "cdm"
    BY <1>3 DEF Amplitude, Sign
  <1> QED
    BY <1>1, <1>2, <1>3 DEF SlotSchemes

(* A string of bits, turn after turn.                                           *)
LEMMA BitAtIs ==
    ASSUME NEW s \in Seq(Nat), NEW i \in Nat, i > 0
    PROVE  /\ BitAt(s, i) \in OneOf3
           /\ i <= Len(s) => BitAt(s, i) \in {0, 1} /\ BitAt(s, i) = Normalized(s)[i]
                             /\ i \in DOMAIN Normalized(s) /\ BitAt(s, i) = NormalizeBit(s[i])
           /\ i > Len(s) => BitAt(s, i) = Silent
  BY DEF BitAt, OneOf3, Silent, Normalized, NormalizeBit

LEMMA NormalizedIs ==
    ASSUME NEW s \in Seq(Nat)
    PROVE  /\ Normalized(s) \in Seq(Nat) /\ Len(Normalized(s)) = Len(s)
           /\ \A i \in 1 .. Len(s) : Normalized(s)[i] = NormalizeBit(s[i])
           /\ (\A i \in 1 .. Len(s) : s[i] \in {0, 1}) => Normalized(s) = s
  <1>1. /\ Normalized(s) \in Seq(Nat) /\ Len(Normalized(s)) = Len(s)
        /\ \A i \in 1 .. Len(s) : Normalized(s)[i] = NormalizeBit(s[i])
    BY DEF Normalized, NormalizeBit
  <1>2. ASSUME \A i \in 1 .. Len(s) : s[i] \in {0, 1} PROVE Normalized(s) = s
    <2>1. \A i \in 1 .. Len(s) : NormalizeBit(s[i]) = s[i]
      BY <1>2 DEF NormalizeBit
    <2> QED
      BY <1>1, <2>1
  <1> QED
    BY <1>1, <1>2

LEMMA SameStrings ==
    ASSUME NEW s \in Seq(Nat), NEW t \in Seq(Nat), Len(s) = Len(t),
           \A i \in 1 .. Len(s) : s[i] = t[i]
    PROVE  s = t
  OBVIOUS

LEMMA RoundsIs ==
    ASSUME NEW m \in Nat, NEW n \in Nat
    PROVE  /\ Rounds(m, n) \in Nat /\ m <= Rounds(m, n) /\ n <= Rounds(m, n)
           /\ Rounds(m, n) \in {m, n}
  BY DEF Rounds

LEMMA StringOf ==
    ASSUME NEW T, NEW n \in Nat, NEW s, s = [i \in 1 .. n |-> s[i]],
           \A i \in 1 .. n : s[i] \in T
    PROVE  s \in Seq(T) /\ Len(s) = n
  <1>1. s \in [1 .. n -> T]
    OBVIOUS
  <1>2. s \in Seq(T)
    BY <1>1
  <1>3. DOMAIN s = 1 .. n
    BY <1>1
  <1> QED
    BY <1>2, <1>3

LEMMA WidthOf ==
    ASSUME NEW scheme \in SlotSchemes
    PROVE  Width(scheme) \in {1, 2} /\ Width(scheme) \in Nat /\ Width(scheme) > 0
           /\ (Width(scheme) = 1 <=> scheme = "fdm")
  BY DEF Width, SlotSchemes

Slots(scheme, a, b) ==
    [i \in 1 .. Rounds(Len(a), Len(b)) |-> Slot(scheme, BitAt(a, i), BitAt(b, i))]

LEMMA MultiplexIs ==
    ASSUME NEW scheme \in SlotSchemes, NEW a \in Seq(Nat), NEW b \in Seq(Nat)
    PROVE  /\ Multiplex(scheme, a, b) \in Seq(Nat)
           /\ HasParts(Multiplex(scheme, a, b), Slots(scheme, a, b),
                       Rounds(Len(a), Len(b)), Width(scheme))
  <1> DEFINE n == Rounds(Len(a), Len(b))
             w == Width(scheme)
             parts == Slots(scheme, a, b)
             word == Multiplex(scheme, a, b)
  <1>1. n \in Nat /\ w \in Nat
    BY RoundsIs, WidthOf
  <1>2. ASSUME NEW i \in 1 .. n PROVE parts[i] \in Seq(Nat) /\ Len(parts[i]) = w
    <2>1. parts[i] = Slot(scheme, BitAt(a, i), BitAt(b, i))
      BY DEF Slots
    <2>2. BitAt(a, i) \in OneOf3 /\ BitAt(b, i) \in OneOf3
      BY <1>1, BitAtIs
    <2> QED
      BY <2>1, <2>2, SlotIs
  <1>3. parts = [i \in 1 .. n |-> parts[i]]
    BY DEF Slots
  <1>4. word = FlattenSeq(parts)
    BY Zenon DEF Multiplex, Slots
  <1> HIDE DEF n, w, parts, word
  <1>5. \A i \in 1 .. n : parts[i] \in Seq(Int) /\ Len(parts[i]) = w
    BY <1>2
  <1>6. AreParts(parts, n, w)
    <2>1. parts \in Seq(Seq(Int)) /\ Len(parts) = n
      BY <1>1, <1>3, <1>5, StringOf
    <2> QED
      BY <1>5, <2>1 DEF AreParts
  <1>7. HasParts(word, parts, n, w)
    BY <1>1, <1>4, <1>6, WordHasParts
  <1>8. word \in Seq(Nat)
    <2> DEFINE l == w * n
    <2>1. word \in Seq(Int) /\ Len(word) = l
      BY <1>7 DEF HasParts
    <2>2. ASSUME NEW k \in 1 .. l PROVE word[k] \in Nat
      <3>1. PICK i \in 1 .. n, j \in 1 .. w : k = w * (i - 1) + j
        BY <1>1, PlacesCover
      <3>2. word[k] = parts[i][j]
        BY <1>7, <3>1 DEF HasParts
      <3> QED
        BY <1>2, <3>2
    <2>3. l \in Nat
      BY <1>1
    <2> HIDE DEF l
    <2>4. DOMAIN word = 1 .. l /\ word = [k \in 1 .. l |-> word[k]]
      BY <2>1, <2>3
    <2> QED
      BY <2>2, <2>3, <2>4, StringOf
  <1> QED
    BY <1>7, <1>8 DEF n, w, parts, word

(* The first and the last symbol of a slot.                                     *)
LEMMA SlotPlaces ==
    ASSUME NEW scheme \in SlotSchemes, NEW n \in Nat, NEW i \in 1 .. n
    PROVE  LET w == Width(scheme)
           IN  /\ w * (i - 1) + 1 \in 1 .. w * n /\ w * i \in 1 .. w * n
               /\ w * i = w * (i - 1) + w /\ 1 \in 1 .. w /\ w \in 1 .. w
               /\ scheme = "fdm" => w * (i - 1) + 1 = w * i
               /\ \A j \in 1 .. w : j = 1 \/ j = w
  <1> DEFINE w == Width(scheme)
  <1>1. w \in {1, 2} /\ w \in Nat /\ w > 0 /\ (w = 1 <=> scheme = "fdm")
    BY WidthOf
  <1> HIDE DEF w
  <1>2. 1 \in 1 .. w /\ w \in 1 .. w /\ \A j \in 1 .. w : j = 1 \/ j = w
    BY <1>1
  <1>3. w * i = w * (i - 1) + w
    BY <1>1
  <1>4. w * (i - 1) + 1 \in 1 .. w * n /\ w * (i - 1) + w \in 1 .. w * n
    BY <1>1, <1>2, PlaceInWord
  <1>5. scheme = "fdm" => w * (i - 1) + 1 = w * i
    BY <1>1, <1>3
  <1> QED
    BY <1>2, <1>3, <1>4, <1>5 DEF w

LEMMA TurnIs ==
    ASSUME NEW scheme, NEW m, NEW n, NEW word, NEW p \in Turns(scheme, m, n, word)
    PROVE  /\ p \in [1 .. Rounds(m, n) -> OneOf3 \X OneOf3]
           /\ \A i \in 1 .. Rounds(m, n) :
                 /\ p[i] \in SlotBits(scheme, word[Width(scheme) * (i - 1) + 1],
                                              word[Width(scheme) * i])
                 /\ Expected(scheme, m, i, p[i][1])
                 /\ Expected(scheme, n, i, p[i][2])
  BY DEF Turns, OneOf3

(* A word of slots is only accepted if it is the word of what is read.           *)
LEMMA HeardSlot ==
    ASSUME NEW scheme \in SlotSchemes, NEW x \in OneOf3, NEW y \in OneOf3
    PROVE  Slot(scheme, Heard(scheme, x), Heard(scheme, y)) = Slot(scheme, x, y)
  BY SmallParts DEF Slot, Heard, SlotSchemes, Silent, OneOf3

LEMMA ExpectedBit ==
    ASSUME NEW scheme \in SlotSchemes, NEW m \in Nat, NEW i \in Nat, i > 0,
           NEW x \in OneOf3, NEW s \in Seq(Nat), Len(s) = m,
           i <= m => s[i] = x, Expected(scheme, m, i, x)
    PROVE  x = Heard(scheme, BitAt(s, i)) /\ (i <= m => x \in {0, 1})
  <1>1. CASE i <= m
    <2>1. x \in {0, 1}
      BY <1>1 DEF Expected, OneOf3
    <2>2. BitAt(s, i) = x
      BY <1>1, <2>1 DEF BitAt, NormalizeBit
    <2> QED
      BY <2>1, <2>2 DEF Heard, Silent
  <1>2. CASE i > m
    <2>1. BitAt(s, i) = Silent
      BY <1>2, BitAtIs
    <2>2. x = IF scheme = "fdm" THEN 0 ELSE Silent
      BY <1>2 DEF Expected
    <2> QED
      BY <1>2, <2>1, <2>2 DEF Heard
  <1> QED
    BY <1>1, <1>2

(* Do the symbols of a word have, in each turn, the bits read from them?         *)
LEMMA SlotsAcceptOnlyWords ==
    ASSUME NEW scheme \in SlotSchemes, NEW m \in Nat, NEW n \in Nat, NEW word \in Seq(Nat),
           NEW out \in FromSlots(scheme, m, n, word)
    PROVE  /\ out[1] \in Seq(Nat) /\ out[2] \in Seq(Nat)
           /\ Len(out[1]) = m /\ Len(out[2]) = n
           /\ Multiplex(scheme, out[1], out[2]) = word
  <1> DEFINE w == Width(scheme)
             rounds == Rounds(m, n)
             a == out[1]
             b == out[2]
  <1>1. Len(word) = w * rounds
    BY DEF FromSlots
  <1>2. PICK p \in Turns(scheme, m, n, word) :
              out = <<[i \in 1 .. m |-> p[i][1]], [i \in 1 .. n |-> p[i][2]]>>
    BY <1>1 DEF FromSlots
  <1>3. rounds \in Nat /\ m <= rounds /\ n <= rounds /\ w \in Nat
    BY RoundsIs, WidthOf
  <1>4. /\ a = [i \in 1 .. m |-> p[i][1]]
        /\ b = [i \in 1 .. n |-> p[i][2]]
    BY <1>2
  <1> HIDE DEF a, b, rounds, w
  <1>5. ASSUME NEW i \in 1 .. rounds
        PROVE  /\ p[i][1] \in OneOf3 /\ p[i][2] \in OneOf3
               /\ p[i] \in SlotBits(scheme, word[w * (i - 1) + 1], word[w * i])
               /\ Expected(scheme, m, i, p[i][1]) /\ Expected(scheme, n, i, p[i][2])
    <2>1. p[i] \in OneOf3 \X OneOf3
      <3>1. p \in [1 .. rounds -> OneOf3 \X OneOf3]
        BY TurnIs DEF rounds
      <3> QED
        BY <3>1
    <2>2. p[i][1] \in OneOf3 /\ p[i][2] \in OneOf3
      BY <2>1
    <2> QED
      BY <2>2, TurnIs DEF rounds, w
  <1>6. /\ a \in Seq(Nat) /\ Len(a) = m /\ b \in Seq(Nat) /\ Len(b) = n
        /\ \A i \in 1 .. m : a[i] = p[i][1]
        /\ \A i \in 1 .. n : b[i] = p[i][2]
    <2>1. /\ \A i \in 1 .. m : a[i] = p[i][1] /\ a[i] \in Nat
          /\ \A i \in 1 .. n : b[i] = p[i][2] /\ b[i] \in Nat
      <3>1. \A x \in OneOf3 : x \in Nat
        BY DEF OneOf3, Silent
      <3>2. \A i \in 1 .. m : i \in 1 .. rounds
        BY <1>3
      <3>3. \A i \in 1 .. n : i \in 1 .. rounds
        BY <1>3
      <3>4. \A i \in 1 .. rounds : p[i][1] \in Nat /\ p[i][2] \in Nat
        BY <1>5, <3>1
      <3>5. /\ \A i \in 1 .. m : a[i] = p[i][1]
            /\ \A i \in 1 .. n : b[i] = p[i][2]
        BY <1>4
      <3> QED
        BY <3>2, <3>3, <3>4, <3>5
    <2>2. a = [i \in 1 .. m |-> a[i]] /\ b = [i \in 1 .. n |-> b[i]]
      BY <1>4
    <2> QED
      BY <2>1, <2>2, StringOf
  <1>7. ASSUME NEW i \in 1 .. rounds
        PROVE  /\ Slots(scheme, a, b)[i][1] = word[w * (i - 1) + 1]
               /\ Slots(scheme, a, b)[i][w] = word[w * i]
    <2> DEFINE x == BitAt(a, i)
               y == BitAt(b, i)
               u == word[w * (i - 1) + 1]
               v == word[w * i]
    <2>1. x \in OneOf3 /\ y \in OneOf3
      <3>1. i \in Nat /\ i > 0 /\ a \in Seq(Nat) /\ b \in Seq(Nat)
        BY <1>3, <1>6
      <3> QED
        BY <3>1, BitAtIs
    <2>2. Slots(scheme, a, b)[i] = Slot(scheme, x, y)
      BY <1>6 DEF Slots, rounds
    <2>3. /\ w * (i - 1) + 1 \in 1 .. w * rounds /\ w * i \in 1 .. w * rounds
          /\ scheme = "fdm" => w * (i - 1) + 1 = w * i
      BY <1>3, SlotPlaces DEF w
    <2>4. u \in Nat /\ v \in Nat /\ (scheme = "fdm" => u = v)
      <3> DEFINE l == w * rounds
      <3>1. \A k \in 1 .. l : word[k] \in Nat
        <4>1. Len(word) = l
          BY <1>1
        <4> HIDE DEF l
        <4> QED
          BY <4>1
      <3> QED
        BY <2>3, <3>1
    <2>5. p[i][1] = Heard(scheme, x) /\ p[i][2] = Heard(scheme, y)
      <3>1. i \in Nat /\ i > 0 /\ (i <= m => a[i] = p[i][1]) /\ (i <= n => b[i] = p[i][2])
        BY <1>3, <1>6
      <3>2. p[i][1] \in OneOf3 /\ Expected(scheme, m, i, p[i][1])
        BY <1>5
      <3>3. p[i][2] \in OneOf3 /\ Expected(scheme, n, i, p[i][2])
        BY <1>5
      <3>4. p[i][1] = Heard(scheme, x)
        BY <1>6, <3>1, <3>2, ExpectedBit
      <3>5. p[i][2] = Heard(scheme, y)
        BY <1>6, <3>1, <3>3, ExpectedBit
      <3> QED
        BY <3>4, <3>5
    <2> HIDE DEF x, y, u, v
    <2>6. p[i] \in SlotBits(scheme, u, v)
      BY <1>5 DEF u, v
    <2>7. Slot(scheme, p[i][1], p[i][2])[1] = u /\ Slot(scheme, p[i][1], p[i][2])[w] = v
      BY <2>4, <2>6, SlotBack DEF w
    <2>8. Slot(scheme, p[i][1], p[i][2]) = Slot(scheme, x, y)
      BY <2>1, <2>5, HeardSlot
    <2> QED
      BY <2>2, <2>7, <2>8 DEF u, v
  <1>8. HasParts(word, Slots(scheme, a, b), rounds, w)
    <2>1. ASSUME NEW i \in 1 .. rounds, NEW j \in 1 .. w
          PROVE  word[w * (i - 1) + j] = Slots(scheme, a, b)[i][j]
      <3>1. w * i = w * (i - 1) + w /\ (j = 1 \/ j = w)
        BY <1>3, SlotPlaces DEF w
      <3> QED
        BY <1>7, <3>1
    <2>2. word \in Seq(Int)
      OBVIOUS
    <2> QED
      BY <1>1, <2>1, <2>2 DEF HasParts
  <1>9. HasParts(Multiplex(scheme, a, b), Slots(scheme, a, b), rounds, w)
    BY <1>6, MultiplexIs DEF rounds, w
  <1>10. Multiplex(scheme, a, b) = word
    BY <1>3, <1>8, <1>9, SamePartsSameWord
  <1> QED
    BY <1>6, <1>10 DEF a, b

(* The word of two strings is read as these strings, bit by bit.                *)
LEMMA HeardIsExpected ==
    ASSUME NEW scheme \in SlotSchemes, NEW s \in Seq(Nat), NEW i \in Nat, i > 0
    PROVE  /\ Expected(scheme, Len(s), i, Heard(scheme, BitAt(s, i)))
           /\ Heard(scheme, BitAt(s, i)) \in OneOf3
           /\ i <= Len(s) => Heard(scheme, BitAt(s, i)) = NormalizeBit(s[i])
  <1>1. i <= Len(s) \/ i > Len(s)
    OBVIOUS
  <1>2. CASE i <= Len(s)
    <2>1. BitAt(s, i) \in {0, 1} /\ BitAt(s, i) = NormalizeBit(s[i])
      BY <1>2, BitAtIs
    <2> QED
      BY <1>2, <2>1 DEF Expected, Heard, Silent, OneOf3
  <1>3. CASE i > Len(s)
    <2>1. BitAt(s, i) = Silent
      BY <1>3, BitAtIs
    <2> QED
      BY <1>3, <2>1 DEF Expected, Heard, Silent, OneOf3
  <1> QED
    BY <1>1, <1>2, <1>3

LEMMA SlotWordIsRead ==
    ASSUME NEW scheme \in SlotSchemes, NEW a \in Seq(Nat), NEW b \in Seq(Nat)
    PROVE  FromSlots(scheme, Len(a), Len(b), Multiplex(scheme, a, b)) =
              {<<Normalized(a), Normalized(b)>>}
  <1> DEFINE w == Width(scheme)
             m == Len(a)
             n == Len(b)
             rounds == Rounds(m, n)
             word == Multiplex(scheme, a, b)
             x(i) == Heard(scheme, BitAt(a, i))
             y(i) == Heard(scheme, BitAt(b, i))
             heard == [i \in 1 .. rounds |-> <<x(i), y(i)>>]
  <1>1. rounds \in Nat /\ m \in Nat /\ n \in Nat /\ m <= rounds /\ n <= rounds /\ w \in Nat
    BY RoundsIs, WidthOf
  <1>2. HasParts(word, Slots(scheme, a, b), rounds, w)
    BY MultiplexIs
  <1>3. ASSUME NEW i \in 1 .. rounds
        PROVE  SlotBits(scheme, word[w * (i - 1) + 1], word[w * i]) = {<<x(i), y(i)>>}
    <2>1. BitAt(a, i) \in OneOf3 /\ BitAt(b, i) \in OneOf3
      BY <1>1, BitAtIs
    <2>2. Slots(scheme, a, b)[i] = Slot(scheme, BitAt(a, i), BitAt(b, i))
      BY DEF Slots
    <2> HIDE DEF rounds, w, word, m, n
    <2>3. w * i = w * (i - 1) + w /\ 1 \in 1 .. w /\ w \in 1 .. w
      BY <1>1, SlotPlaces DEF w
    <2>4. /\ word[w * (i - 1) + 1] = Slots(scheme, a, b)[i][1]
          /\ word[w * (i - 1) + w] = Slots(scheme, a, b)[i][w]
      BY <1>2, <2>3 DEF HasParts
    <2>5. /\ word[w * (i - 1) + 1] = Slot(scheme, BitAt(a, i), BitAt(b, i))[1]
          /\ word[w * i] = Slot(scheme, BitAt(a, i), BitAt(b, i))[w]
      BY <2>2, <2>3, <2>4
    <2> QED
      BY <2>1, <2>5, SlotIs DEF w
  <1>4. ASSUME NEW i \in 1 .. rounds
        PROVE  /\ Expected(scheme, m, i, x(i)) /\ Expected(scheme, n, i, y(i))
               /\ x(i) \in OneOf3 /\ y(i) \in OneOf3
    BY <1>1, HeardIsExpected
  <1>5. /\ \A i \in 1 .. m : x(i) = NormalizeBit(a[i])
        /\ \A i \in 1 .. n : y(i) = NormalizeBit(b[i])
    BY HeardIsExpected
  <1>6. Len(word) = w * rounds
    BY <1>2 DEF HasParts
  <1> HIDE DEF word, w, rounds, x, y
  <1>7. heard \in Turns(scheme, m, n, word)
    <2>1. heard \in [1 .. rounds -> {0, 1, Silent} \X {0, 1, Silent}]
      BY <1>4 DEF OneOf3
    <2>2. \A i \in 1 .. rounds : heard[i] = <<x(i), y(i)>>
      OBVIOUS
    <2>3. DOMAIN heard = 1 .. rounds
      OBVIOUS
    <2>4. \A i \in 1 .. rounds : heard[i][1] = x(i) /\ heard[i][2] = y(i)
      BY <2>2
    <2> HIDE DEF heard
    <2>5. \A i \in DOMAIN heard :
             /\ heard[i] \in SlotBits(scheme, word[w * (i - 1) + 1], word[w * i])
             /\ Expected(scheme, m, i, heard[i][1])
             /\ Expected(scheme, n, i, heard[i][2])
      BY <1>3, <1>4, <2>2, <2>3, <2>4
    <2> QED
      BY <2>1, <2>5 DEF Turns, w, rounds
  <1>8. ASSUME NEW p \in Turns(scheme, m, n, word) PROVE p = heard
    <2>1. p \in [1 .. rounds -> OneOf3 \X OneOf3]
      BY TurnIs DEF rounds
    <2>2. \A i \in 1 .. rounds :
             p[i] \in SlotBits(scheme, word[w * (i - 1) + 1], word[w * i])
      BY TurnIs DEF rounds, w
    <2>3. \A i \in 1 .. rounds : p[i] = <<x(i), y(i)>>
      BY <1>3, <2>2
    <2> QED
      BY <2>1, <2>3
  <1>9. Turns(scheme, m, n, word) = {heard}
    BY <1>7, <1>8
  <1>10. /\ [i \in 1 .. m |-> heard[i][1]] = Normalized(a)
         /\ [i \in 1 .. n |-> heard[i][2]] = Normalized(b)
    <2>1. /\ \A i \in 1 .. m : heard[i][1] = NormalizeBit(a[i])
          /\ \A i \in 1 .. n : heard[i][2] = NormalizeBit(b[i])
      BY <1>1, <1>5
    <2>2. DOMAIN a = 1 .. m /\ DOMAIN b = 1 .. n
      OBVIOUS
    <2> HIDE DEF m, n, heard
    <2> QED
      BY <2>1, <2>2 DEF Normalized
  <1> HIDE DEF heard
  <1>11. FromSlots(scheme, m, n, word) =
            {<<[i \in 1 .. m |-> p[i][1]], [i \in 1 .. n |-> p[i][2]]>> : p \in {heard}}
    <2>1. Len(word) = Width(scheme) * Rounds(m, n)
      BY <1>6 DEF w, rounds
    <2> QED
      BY <1>9, <2>1, Zenon DEF FromSlots
  <1>12. FromSlots(scheme, m, n, word) =
            {<<[i \in 1 .. m |-> heard[i][1]], [i \in 1 .. n |-> heard[i][2]]>>}
    BY <1>11, Zenon
  <1> QED
    BY <1>10, <1>12 DEF word

(* tdm_async: the symbols with one tag, in the order of the word.                *)
OfTag(S, first) == {x \in S : (x < 2) = first}
IsTagged(word, first, f) ==
    f = [i \in 0 .. Len(word) |->
            IF i = 0 THEN <<>>
            ELSE IF (word[i] < 2) = first THEN Append(f[i - 1], word[i])
            ELSE f[i - 1]]

TagSteps(f, S, word, first) ==
    /\ f[0] = <<>> /\ Tagged(word, first) = f[Len(word)]
    /\ \A i \in 0 .. Len(word) : f[i] \in Seq(OfTag(S, first))
    /\ \A i \in 1 .. Len(word) :
          f[i] = IF (word[i] < 2) = first THEN Append(f[i - 1], word[i]) ELSE f[i - 1]

LEMMA TaggedIs ==
    ASSUME NEW S, S \subseteq Nat, NEW word \in Seq(S), NEW first \in BOOLEAN
    PROVE  \E f : TagSteps(f, S, word, first)
  <1> DEFINE n == Len(word)
             T == OfTag(S, first)
             Q == Seq(T)
             step == [i \in 1 .. n |-> [s \in Q |-> IF (word[i] < 2) = first
                                                    THEN Append(s, word[i]) ELSE s]]
  <1>1. n \in Nat /\ \A i \in 1 .. n : word[i] \in S
    OBVIOUS
  <1>2. \A i \in 1 .. n : (word[i] < 2) = first => word[i] \in T
    BY <1>1 DEF OfTag
  <1>3. \A s \in Q, x \in T : Append(s, x) \in Q
    OBVIOUS
  <1>4. <<>> \in Q
    OBVIOUS
  <1> HIDE DEF T, Q, n
  <1>5. \A i \in 1 .. n, s \in Q :
           (IF (word[i] < 2) = first THEN Append(s, word[i]) ELSE s) \in Q
    BY <1>2, <1>3
  <1>6. step \in [1 .. n -> [Q -> Q]]
    BY <1>5
  <1>7. \A i \in 1 .. n, s \in Q :
           step[i][s] = IF (word[i] < 2) = first THEN Append(s, word[i]) ELSE s
    OBVIOUS
  <1> HIDE DEF step
  <1>8. PICK f : Iterates(f, <<>>, step, n, Q)
    <2>1. AreSteps(step, n, Q)
      BY <1>6 DEF AreSteps
    <2> QED
      BY <1>1, <1>4, <2>1, IterationExists
  <1>9. /\ f \in [0 .. n -> Q] /\ f[0] = <<>>
        /\ \A i \in 1 .. n : f[i] = step[i][f[i - 1]]
    BY <1>8 DEF Iterates
  <1>10. \A i \in 1 .. n : f[i] = IF (word[i] < 2) = first THEN Append(f[i - 1], word[i])
                                  ELSE f[i - 1]
    <2>1. \A i \in 1 .. n : i - 1 \in 0 .. n
      BY <1>1
    <2> QED
      BY <1>7, <1>9, <2>1
  <1>11. \A i \in 0 .. n : i # 0 => i \in 1 .. n
    BY <1>1
  <1>12. IsTagged(word, first, f)
    <2>1. \A i \in 0 .. n :
             f[i] = IF i = 0 THEN <<>>
                    ELSE IF (word[i] < 2) = first THEN Append(f[i - 1], word[i])
                    ELSE f[i - 1]
      BY <1>9, <1>10, <1>11
    <2> QED
      BY <1>9, <2>1, Zenon DEF IsTagged, n
  <1> DEFINE g == CHOOSE g : IsTagged(word, first, g)
  <1>13. IsTagged(word, first, g) /\ Tagged(word, first) = g[n]
    BY <1>12, Zenon DEF IsTagged, Tagged, n
  <1> HIDE DEF g
  <1>14. \A i \in 0 .. n : g[i] = IF i = 0 THEN <<>>
                    ELSE IF (word[i] < 2) = first THEN Append(g[i - 1], word[i])
                    ELSE g[i - 1]
    BY <1>13, Zenon DEF IsTagged, n
  <1>15. g[0] = <<>> /\ \A i \in 1 .. n :
            g[i] = IF (word[i] < 2) = first THEN Append(g[i - 1], word[i]) ELSE g[i - 1]
    <2>1. 0 \in 0 .. n /\ \A i \in 1 .. n : i \in 0 .. n /\ i # 0
      BY <1>1
    <2> QED
      BY <1>14, <2>1, Zenon
  <1>16. \A i \in 0 .. n : g[i] \in Q
    <2> DEFINE R == {i \in Nat : i <= n => g[i] \in Q}
    <2>1. 0 \in R
      BY <1>4, <1>15
    <2>2. ASSUME NEW i \in Nat, i \in R PROVE i + 1 \in R
      <3> SUFFICES ASSUME i + 1 <= n PROVE g[i + 1] \in Q
        OBVIOUS
      <3>1. i + 1 \in 1 .. n /\ (i + 1) - 1 = i /\ g[i] \in Q
        BY <1>1, <2>2
      <3> QED
        BY <1>5, <1>15, <3>1
    <2> HIDE DEF R
    <2>3. \A i \in Nat : i \in R
      BY <2>1, <2>2, SetInduction
    <2> QED
      BY <1>1, <2>3 DEF R
  <1> QED
    BY <1>13, <1>15, <1>16 DEF n, Q, T, TagSteps

LEMMA TaggedEmpty ==
    ASSUME NEW word \in Seq(Nat), NEW first \in BOOLEAN
    PROVE  Len(word) = 0 => Tagged(word, first) = <<>>
  <1>1. PICK f : TagSteps(f, Nat, word, first)
    BY TaggedIs
  <1> QED
    BY <1>1 DEF TagSteps

LEMMA TaggedNothing == \A first \in BOOLEAN : Tagged(<<>>, first) = <<>>
  <1>1. <<>> \in Seq(Nat) /\ Len(<<>>) = 0
    OBVIOUS
  <1> QED
    BY <1>1, TaggedEmpty, Zenon

LEMMA TaggedAppend ==
    ASSUME NEW word \in Seq(Nat), NEW x \in Nat, NEW first \in BOOLEAN
    PROVE  /\ Append(word, x) \in Seq(Nat)
           /\ (x < 2) = first => Tagged(Append(word, x), first) = Append(Tagged(word, first), x)
           /\ (x < 2) # first => Tagged(Append(word, x), first) = Tagged(word, first)
  <1> DEFINE n == Len(word)
             new == Append(word, x)
  <1>1. /\ n \in Nat /\ new \in Seq(Nat) /\ Len(new) = n + 1 /\ new[n + 1] = x
        /\ \A i \in 1 .. n : new[i] = word[i]
    OBVIOUS
  <1> HIDE DEF new
  <1>2. PICK f : TagSteps(f, Nat, word, first)
    BY TaggedIs
  <1>3. PICK g : TagSteps(g, Nat, new, first)
    BY <1>1, TaggedIs
  <1>8. /\ f[0] = <<>> /\ Tagged(word, first) = f[n]
        /\ \A i \in 1 .. n :
              f[i] = IF (word[i] < 2) = first THEN Append(f[i - 1], word[i]) ELSE f[i - 1]
    BY <1>2 DEF TagSteps
  <1>9. /\ g[0] = <<>> /\ Tagged(new, first) = g[n + 1]
        /\ \A i \in 1 .. n + 1 :
              g[i] = IF (new[i] < 2) = first THEN Append(g[i - 1], new[i]) ELSE g[i - 1]
    BY <1>1, <1>3 DEF TagSteps
  <1> HIDE DEF n
  <1> DEFINE R == {i \in Nat : i <= n => g[i] = f[i]}
  <1>4. 0 \in R
    BY <1>8, <1>9
  <1>5. ASSUME NEW i \in Nat, i \in R PROVE i + 1 \in R
    <2> SUFFICES ASSUME i + 1 <= n PROVE g[i + 1] = f[i + 1]
      OBVIOUS
    <2> DEFINE k == i + 1
    <2>1. k \in 1 .. n /\ k \in 1 .. n + 1 /\ k - 1 = i /\ g[i] = f[i]
      BY <1>1, <1>5
    <2> HIDE DEF k
    <2>2. g[k] = f[k]
      BY <1>1, <1>8, <1>9, <2>1
    <2> QED
      BY <2>2 DEF k
  <1> HIDE DEF R
  <1>6. g[n] = f[n]
    <2>1. \A i \in Nat : i \in R
      BY <1>4, <1>5, SetInduction
    <2>2. n \in Nat /\ n <= n
      BY <1>1
    <2> QED
      BY <2>1, <2>2 DEF R
  <1>7. g[n + 1] = IF (x < 2) = first THEN Append(g[n], x) ELSE g[n]
    <2>1. n + 1 \in 1 .. n + 1 /\ (n + 1) - 1 = n
      BY <1>1
    <2> QED
      BY <1>1, <1>9, <2>1
  <1> QED
    BY <1>1, <1>8, <1>9, <1>6, <1>7 DEF new

LEMMA TagOf ==
    ASSUME NEW z \in Nat
    PROVE  /\ z < 2 => (z < 2) = TRUE /\ (z < 2) # FALSE
           /\ ~ (z < 2) => (z < 2) = FALSE /\ (z < 2) # TRUE
  <1>1. ASSUME z < 2 PROVE (z < 2) = TRUE
    BY <1>1
  <1>2. ASSUME z < 2 PROVE (z < 2) # FALSE
    BY <1>2
  <1>3. ASSUME ~ (z < 2) PROVE (z < 2) = FALSE
    <2>1. FALSE = (z < 2)
      BY <1>3
    <2> QED
      BY <2>1, Zenon
  <1>4. ASSUME ~ (z < 2) PROVE (z < 2) # TRUE
    BY <1>4
  <1> QED
    BY <1>1, <1>2, <1>3, <1>4, Zenon

LEMMA TurnTagged ==
    ASSUME NEW word \in Seq(0 .. 3), NEW x \in OneOf3, NEW y \in OneOf3
    PROVE  LET s == word \o Slot("tdm_async", x, y)
           IN  /\ s \in Seq(0 .. 3)
               /\ Tagged(s, TRUE) = IF x = Silent THEN Tagged(word, TRUE)
                                    ELSE Append(Tagged(word, TRUE), x)
               /\ Tagged(s, FALSE) = IF y = Silent THEN Tagged(word, FALSE)
                                     ELSE Append(Tagged(word, FALSE), 2 + y)
  <1> DEFINE slot == Slot("tdm_async", x, y)
             first == IF x = Silent THEN word ELSE Append(word, x)
             both == IF y = Silent THEN first ELSE Append(first, 2 + y)
  <1>1. slot = (IF x = Silent THEN <<>> ELSE <<x>>) \o (IF y = Silent THEN <<>> ELSE <<2 + y>>)
    BY DEF Slot
  <1>2. /\ x # Silent => x \in 0 .. 1 /\ x < 2
        /\ y # Silent => 2 + y \in 2 .. 3 /\ ~ (2 + y < 2)
    BY DEF OneOf3, Silent
  <1>3. first \in Seq(0 .. 3)
    BY <1>2
  <1> HIDE DEF first
  <1>4. both \in Seq(0 .. 3)
    BY <1>2, <1>3
  <1>5. word \o slot = both
    <2>1. CASE x = Silent /\ y = Silent
      <3>1. slot = <<>> /\ both = word
        BY <1>1, <2>1 DEF first
      <3> QED
        BY <3>1
    <2>2. CASE x # Silent /\ y = Silent
      <3>1. slot = <<x>> /\ both = Append(word, x)
        BY <1>1, <2>2 DEF first
      <3> HIDE DEF slot, both
      <3> QED
        BY <3>1
    <2>3. CASE x = Silent /\ y # Silent
      <3>1. slot = <<2 + y>> /\ both = Append(word, 2 + y)
        BY <1>1, <2>3 DEF first
      <3> HIDE DEF slot, both
      <3> QED
        BY <3>1
    <2>4. CASE x # Silent /\ y # Silent
      <3>1. slot = <<x, 2 + y>> /\ both = Append(Append(word, x), 2 + y)
        BY <1>1, <2>4 DEF first
      <3> HIDE DEF slot, both
      <3> QED
        BY <3>1
    <2> QED
      BY <2>1, <2>2, <2>3, <2>4
  <1>6. word \in Seq(Nat) /\ first \in Seq(Nat)
    BY <1>3
  <1>7. /\ Tagged(first, TRUE) = IF x = Silent THEN Tagged(word, TRUE)
                                 ELSE Append(Tagged(word, TRUE), x)
        /\ Tagged(first, FALSE) = Tagged(word, FALSE)
    <2>1. CASE x = Silent
      BY <2>1 DEF first
    <2>2. CASE x # Silent
      <3>1. first = Append(word, x) /\ x \in Nat /\ x < 2
        BY <1>2, <2>2 DEF first
      <3>2. (x < 2) = TRUE /\ (x < 2) # FALSE
        BY <3>1, TagOf
      <3> QED
        BY <1>6, <2>2, <3>1, <3>2, TaggedAppend
    <2> QED
      BY <2>1, <2>2
  <1>8. /\ Tagged(both, TRUE) = Tagged(first, TRUE)
        /\ Tagged(both, FALSE) = IF y = Silent THEN Tagged(first, FALSE)
                                 ELSE Append(Tagged(first, FALSE), 2 + y)
    <2>1. CASE y = Silent
      BY <2>1
    <2>2. CASE y # Silent
      <3> DEFINE z == 2 + y
      <3>1. both = Append(first, z) /\ z \in Nat /\ ~ (z < 2)
        BY <1>2, <2>2
      <3> HIDE DEF z, both
      <3>2. (z < 2) = FALSE /\ (z < 2) # TRUE
        BY <3>1, TagOf
      <3>3. Tagged(both, TRUE) = Tagged(first, TRUE)
            /\ Tagged(both, FALSE) = Append(Tagged(first, FALSE), z)
        BY <1>6, <3>1, <3>2, TaggedAppend
      <3> QED
        BY <2>2, <3>3 DEF z
    <2> QED
      BY <2>1, <2>2
  <1> QED
    BY <1>4, <1>5, <1>7, <1>8

(* The first k bits of string a, with a tag added to each.                       *)
Upto(k, n) == IF k <= n THEN k ELSE n
FirstBits(s, a, k, tag) ==
    /\ s \in Seq(Nat) /\ Len(s) = Upto(k, Len(a))
    /\ \A i \in 1 .. Len(s) : s[i] = tag + NormalizeBit(a[i])

LEMMA BitsGrow ==
    ASSUME NEW a \in Seq(Nat), NEW k \in Nat, NEW tag \in Nat, NEW s, FirstBits(s, a, k, tag),
           NEW t, t = IF BitAt(a, k + 1) = Silent THEN s ELSE Append(s, tag + BitAt(a, k + 1))
    PROVE  FirstBits(t, a, k + 1, tag)
  <1> DEFINE n == Len(a)
             x == BitAt(a, k + 1)
  <1>1. s \in Seq(Nat) /\ Len(s) = Upto(k, n) /\ n \in Nat
        /\ \A i \in 1 .. Len(s) : s[i] = tag + NormalizeBit(a[i])
    BY DEF FirstBits
  <1>2. /\ k + 1 <= n => x \in {0, 1} /\ x = NormalizeBit(a[k + 1])
        /\ k + 1 > n => x = Silent
    BY BitAtIs
  <1> HIDE DEF x, n
  <1>3. CASE k + 1 <= n
    <2>1. x # Silent /\ x \in Nat
      BY <1>2, <1>3 DEF Silent
    <2>2. t = Append(s, tag + x) /\ tag + x \in Nat
      BY <2>1 DEF x
    <2>3. Len(s) = k /\ Upto(k + 1, n) = k + 1
      BY <1>1, <1>3 DEF Upto
    <2>4. t \in Seq(Nat) /\ Len(t) = k + 1 /\ t[k + 1] = tag + x
          /\ \A i \in 1 .. k : t[i] = s[i]
      BY <1>1, <2>2, <2>3
    <2>5. \A i \in 1 .. k + 1 : i \in 1 .. k \/ i = k + 1
      OBVIOUS
    <2>6. \A i \in 1 .. k + 1 : t[i] = tag + NormalizeBit(a[i])
      BY <1>1, <1>2, <1>3, <2>3, <2>4, <2>5
    <2> QED
      BY <2>3, <2>4, <2>6 DEF FirstBits, n
  <1>4. CASE k + 1 > n
    <2>1. t = s
      BY <1>2, <1>4 DEF x
    <2>2. Upto(k + 1, n) = Upto(k, n)
      BY <1>1, <1>4 DEF Upto
    <2> QED
      BY <1>1, <2>1, <2>2 DEF FirstBits, n
  <1> QED
    BY <1>1, <1>3, <1>4

AsyncUpTo(word, a, b, k) ==
    /\ word \in Seq(0 .. 3)
    /\ FirstBits(Tagged(word, TRUE), a, k, 0)
    /\ FirstBits(Tagged(word, FALSE), b, k, 2)

LEMMA AsyncTurn ==
    ASSUME NEW a \in Seq(Nat), NEW b \in Seq(Nat), NEW k \in Nat, NEW word,
           AsyncUpTo(word, a, b, k)
    PROVE  AsyncUpTo(word \o Slot("tdm_async", BitAt(a, k + 1), BitAt(b, k + 1)), a, b, k + 1)
  <1> DEFINE x == BitAt(a, k + 1)
             y == BitAt(b, k + 1)
             new == word \o Slot("tdm_async", x, y)
  <1>1. x \in OneOf3 /\ y \in OneOf3
    BY BitAtIs
  <1>2. word \in Seq(0 .. 3)
    BY DEF AsyncUpTo
  <1>3. /\ new \in Seq(0 .. 3)
        /\ Tagged(new, TRUE) = IF x = Silent THEN Tagged(word, TRUE)
                               ELSE Append(Tagged(word, TRUE), x)
        /\ Tagged(new, FALSE) = IF y = Silent THEN Tagged(word, FALSE)
                                ELSE Append(Tagged(word, FALSE), 2 + y)
    <2> HIDE DEF x, y
    <2> QED
      BY <1>1, <1>2, TurnTagged
  <1>4. 0 + x = x
    BY <1>1 DEF OneOf3, Silent
  <1>5. Tagged(new, TRUE) = IF x = Silent THEN Tagged(word, TRUE)
                            ELSE Append(Tagged(word, TRUE), 0 + x)
    BY <1>3, <1>4
  <1> HIDE DEF new
  <1>6. FirstBits(Tagged(new, TRUE), a, k + 1, 0)
    <2>1. FirstBits(Tagged(word, TRUE), a, k, 0) /\ 0 \in Nat
      BY DEF AsyncUpTo
    <2> QED
      BY <1>5, <2>1, BitsGrow
  <1>7. FirstBits(Tagged(new, FALSE), b, k + 1, 2)
    <2>1. FirstBits(Tagged(word, FALSE), b, k, 2) /\ 2 \in Nat
      BY DEF AsyncUpTo
    <2> QED
      BY <1>3, <2>1, BitsGrow
  <1>8. AsyncUpTo(new, a, b, k + 1)
    BY <1>3, <1>6, <1>7 DEF AsyncUpTo
  <1> QED
    BY <1>8 DEF new

LEMMA AsyncWord ==
    ASSUME NEW a \in Seq(Nat), NEW b \in Seq(Nat)
    PROVE  AsyncUpTo(Multiplex("tdm_async", a, b), a, b, Rounds(Len(a), Len(b)))
  <1> DEFINE n == Rounds(Len(a), Len(b))
             slot(i) == Slot("tdm_async", BitAt(a, i), BitAt(b, i))
             slots == [i \in 1 .. n |-> slot(i)]
             word == Multiplex("tdm_async", a, b)
  <1>1. n \in Nat /\ Len(slots) = n
    <2>1. n \in Nat
      BY RoundsIs
    <2> HIDE DEF n
    <2> QED
      BY <2>1
  <1>2. word = FlattenSeq(slots)
    BY Zenon DEF Multiplex
  <1>3. AsyncUpTo(<<>>, a, b, 0)
    <2>1. FirstBits(<<>>, a, 0, 0) /\ FirstBits(<<>>, b, 0, 2)
      BY DEF FirstBits, Upto
    <2>2. Tagged(<<>>, TRUE) = <<>> /\ Tagged(<<>>, FALSE) = <<>>
      BY TaggedNothing, TRUE \in BOOLEAN, FALSE \in BOOLEAN, Zenon
    <2>3. <<>> \in Seq(0 .. 3)
      OBVIOUS
    <2> QED
      BY <2>1, <2>2, <2>3 DEF AsyncUpTo
  <1>4. \A i \in 1 .. n : slots[i] = slot(i)
    OBVIOUS
  <1>5. n = 0 => slots = <<>>
    <2> HIDE DEF n, slot
    <2> QED
      OBVIOUS
  <1>6. \A k \in Nat : \A s :
           AsyncUpTo(s, a, b, k) => AsyncUpTo(s \o slot(k + 1), a, b, k + 1)
    BY AsyncTurn
  <1> HIDE DEF n, slots, word, slot
  <1>7. CASE n = 0
    <2>1. FlattenSeq(slots) = slots
      BY <1>1, <1>7, Zenon DEF FlattenSeq
    <2> QED
      BY <1>2, <1>3, <1>5, <1>7, <2>1 DEF n, word
  <1>8. CASE n # 0
    <2>1. PICK flatten : Flattened(slots, flatten, n) /\ FlattenSeq(slots) = flatten[n]
      <3>1. Len(slots) \in Nat /\ Len(slots) # 0
        BY <1>1, <1>8
      <3> QED
        BY <1>1, <3>1, FlattenIs
    <2>2. \A i \in 1 .. n : flatten[i] = NextFlat(slots, flatten, i)
      BY <2>1 DEF Flattened
    <2> DEFINE S == {m \in Nat : m + 1 <= n => AsyncUpTo(flatten[m + 1], a, b, m + 1)}
    <2>3. 0 \in S
      <3>1. 1 \in 1 .. n /\ 0 + 1 = 1
        BY <1>1, <1>8
      <3>2. flatten[1] = slot(1)
        BY <1>4, <2>2, <3>1 DEF NextFlat
      <3>3. AsyncUpTo(<<>> \o slot(1), a, b, 1)
        <4>1. AsyncUpTo(<<>> \o slot(0 + 1), a, b, 0 + 1)
          BY <1>3, <1>6
        <4> QED
          BY <3>1, <4>1
      <3>4. <<>> \o slot(1) = slot(1)
        <4>1. slot(1) \in Seq(Nat)
          <5>1. BitAt(a, 1) \in OneOf3 /\ BitAt(b, 1) \in OneOf3
            BY BitAtIs
          <5>2. \A x \in OneOf3, y \in OneOf3 : Slot("tdm_async", x, y) \in Seq(Nat)
            BY DEF Slot, OneOf3, Silent
          <5> QED
            BY <5>1, <5>2 DEF slot
        <4> QED
          BY <4>1
      <3> QED
        BY <3>1, <3>2, <3>3, <3>4
    <2>4. ASSUME NEW m \in Nat, m \in S PROVE m + 1 \in S
      <3> SUFFICES ASSUME (m + 1) + 1 <= n
                   PROVE  AsyncUpTo(flatten[(m + 1) + 1], a, b, (m + 1) + 1)
        OBVIOUS
      <3> DEFINE k == m + 1
      <3>1. /\ k \in Nat /\ k + 1 \in 1 .. n /\ k + 1 # 1 /\ (k + 1) - 1 = k
            /\ AsyncUpTo(flatten[k], a, b, k)
        BY <1>1, <2>4
      <3> HIDE DEF k
      <3>2. flatten[k + 1] = flatten[k] \o slot(k + 1)
        BY <1>4, <2>2, <3>1 DEF NextFlat
      <3>3. AsyncUpTo(flatten[k + 1], a, b, k + 1)
        BY <1>6, <3>1, <3>2
      <3> QED
        BY <3>3 DEF k
    <2> HIDE DEF S
    <2>5. \A m \in Nat : m \in S
      BY <2>3, <2>4, SetInduction
    <2>6. n - 1 \in Nat /\ (n - 1) + 1 = n
      BY <1>1, <1>8
    <2>7. AsyncUpTo(flatten[n], a, b, n)
      BY <2>5, <2>6 DEF S
    <2> QED
      BY <1>2, <2>1, <2>7 DEF n, word
  <1> QED
    BY <1>7, <1>8

(* The two round trips of tdm_async.                                            *)
TagsAre(word, a, b) ==
    /\ word \in Seq(0 .. 3) /\ Tagged(word, TRUE) = Normalized(a)
    /\ Tagged(word, FALSE) \in Seq(Nat) /\ Len(Tagged(word, FALSE)) = Len(b)
    /\ \A i \in 1 .. Len(b) : Tagged(word, FALSE)[i] = 2 + NormalizeBit(b[i])

LEMMA AsyncTags ==
    ASSUME NEW a \in Seq(Nat), NEW b \in Seq(Nat)
    PROVE  TagsAre(Multiplex("tdm_async", a, b), a, b)
  <1> DEFINE word == Multiplex("tdm_async", a, b)
             n == Rounds(Len(a), Len(b))
             s == Tagged(word, TRUE)
             t == Tagged(word, FALSE)
  <1>1. word \in Seq(0 .. 3) /\ FirstBits(s, a, n, 0) /\ FirstBits(t, b, n, 2)
    BY AsyncWord DEF AsyncUpTo
  <1>2. Upto(n, Len(a)) = Len(a) /\ Upto(n, Len(b)) = Len(b)
    <2>1. Len(a) \in Nat /\ Len(b) \in Nat /\ n \in Nat /\ Len(a) <= n /\ Len(b) <= n
      BY RoundsIs
    <2> HIDE DEF n
    <2> QED
      BY <2>1 DEF Upto
  <1> HIDE DEF n, s, t, word
  <1>3. /\ s \in Seq(Nat) /\ Len(s) = Len(a)
        /\ \A i \in 1 .. Len(a) : s[i] = 0 + NormalizeBit(a[i])
    BY <1>1, <1>2 DEF FirstBits
  <1>4. /\ t \in Seq(Nat) /\ Len(t) = Len(b)
        /\ \A i \in 1 .. Len(b) : t[i] = 2 + NormalizeBit(b[i])
    BY <1>1, <1>2 DEF FirstBits
  <1>5. s = Normalized(a)
    <2>1. \A i \in 1 .. Len(a) : s[i] = NormalizeBit(a[i])
      BY <1>3 DEF NormalizeBit
    <2>2. /\ Normalized(a) \in Seq(Nat) /\ Len(Normalized(a)) = Len(s)
          /\ \A i \in 1 .. Len(s) : s[i] = Normalized(a)[i]
      BY <1>3, <2>1, NormalizedIs
    <2> QED
      BY <1>3, <2>2, SameStrings
  <1> QED
    BY <1>1, <1>4, <1>5 DEF s, t, word, TagsAre

LEMMA TaggedSet ==
    ASSUME NEW S, S \subseteq Nat, NEW word \in Seq(S), NEW first \in BOOLEAN
    PROVE  Tagged(word, first) \in Seq(OfTag(S, first))
  <1>1. PICK f : TagSteps(f, S, word, first)
    BY TaggedIs
  <1>2. Len(word) \in 0 .. Len(word)
    OBVIOUS
  <1> QED
    BY <1>1, <1>2 DEF TagSteps

LEMMA TaggedSymbols ==
    ASSUME NEW word \in Seq(0 .. 3), NEW first \in BOOLEAN
    PROVE  /\ Tagged(word, first) \in Seq(Nat)
           /\ \A i \in 1 .. Len(Tagged(word, first)) :
                 /\ Tagged(word, first)[i] \in 0 .. 3
                 /\ (Tagged(word, first)[i] < 2) = first
  <1> DEFINE S == 0 .. 3
             t == Tagged(word, first)
             n == Len(word)
  <1>1. n \in Nat /\ n \in 0 .. n
    OBVIOUS
  <1>0. S \subseteq Nat /\ word \in Seq(S)
    OBVIOUS
  <1> HIDE DEF S, n
  <1>2. t \in Seq(OfTag(S, first))
    BY <1>0, TaggedSet
  <1>3. \A x \in OfTag(S, first) : x \in S /\ x \in Nat /\ (x < 2) = first
    BY <1>0 DEF OfTag
  <1> HIDE DEF t
  <1>4. \A i \in 1 .. Len(t) : t[i] \in OfTag(S, first)
    BY <1>2
  <1>5. t \in Seq(Nat)
    <2>1. OfTag(S, first) \subseteq Nat
      BY <1>3
    <2> QED
      BY <1>2, <2>1
  <1> QED
    BY <1>3, <1>4, <1>5 DEF t, S

LEMMA TagValue ==
    ASSUME NEW z \in 0 .. 3
    PROVE  ((z < 2) = TRUE => z \in {0, 1}) /\ ((z < 2) = FALSE => z \in {2, 3})
  <1>1. ASSUME (z < 2) = TRUE PROVE z \in {0, 1}
    BY <1>1
  <1>2. ASSUME (z < 2) = FALSE PROVE z \in {2, 3}
    <2>1. ~ (z < 2)
      BY <1>2, Zenon
    <2> QED
      BY <2>1
  <1> QED
    BY <1>1, <1>2, Zenon

LEMMA AsyncWordIsRead ==
    ASSUME NEW a \in Seq(Nat), NEW b \in Seq(Nat)
    PROVE  FromTagged(Len(a), Len(b), Multiplex("tdm_async", a, b)) =
              {<<Normalized(a), Normalized(b)>>}
  <1> DEFINE word == Multiplex("tdm_async", a, b)
             s == Tagged(word, TRUE)
             t == Tagged(word, FALSE)
             n == Len(b)
             back == [i \in 1 .. n |-> t[i] - 2]
  <1>1. /\ word \in Seq(0 .. 3) /\ s = Normalized(a) /\ t \in Seq(Nat) /\ Len(t) = n
        /\ \A i \in 1 .. n : t[i] = 2 + NormalizeBit(b[i])
    BY AsyncTags DEF TagsAre
  <1>2. Len(s) = Len(a) /\ \A i \in DOMAIN word : word[i] <= 3
    <2> HIDE DEF word, s
    <2>1. Len(s) = Len(a)
      BY <1>1, NormalizedIs
    <2>2. \A i \in DOMAIN word : word[i] \in 0 .. 3
      BY <1>1
    <2> QED
      BY <2>1, <2>2
  <1>3. back = Normalized(b)
    <2>1. /\ Normalized(b) \in Seq(Nat) /\ Len(Normalized(b)) = n
          /\ \A i \in 1 .. n : Normalized(b)[i] = NormalizeBit(b[i])
      BY NormalizedIs
    <2>2. n \in Nat /\ \A i \in 1 .. n : NormalizeBit(b[i]) \in Nat
      BY DEF NormalizeBit
    <2> HIDE DEF n, t
    <2>3. ASSUME NEW i \in 1 .. n PROVE back[i] = Normalized(b)[i] /\ back[i] \in Nat
      <3>1. back[i] = t[i] - 2 /\ t[i] = 2 + NormalizeBit(b[i])
        BY <1>1
      <3>2. NormalizeBit(b[i]) \in Nat /\ Normalized(b)[i] = NormalizeBit(b[i])
        BY <2>1, <2>2
      <3> QED
        BY <3>1, <3>2
    <2>4. back = [i \in 1 .. n |-> back[i]]
      OBVIOUS
    <2> HIDE DEF back
    <2>5. back \in Seq(Nat) /\ Len(back) = n
      BY <2>2, <2>3, <2>4, StringOf
    <2> QED
      BY <2>1, <2>3, <2>5, SameStrings
  <1>4. FromTagged(Len(a), n, word) = {<<s, back>>}
    <2>1. Len(s) = Len(a) /\ Len(t) = n /\ \A i \in DOMAIN word : word[i] <= 3
      BY <1>1, <1>2
    <2> QED
      BY <2>1, Zenon DEF FromTagged
  <1> QED
    BY <1>1, <1>3, <1>4

LEMMA AsyncAcceptsOnlyWords ==
    ASSUME NEW m \in Nat, NEW n \in Nat, NEW word \in Seq(Nat),
           NEW out \in FromTagged(m, n, word)
    PROVE  /\ out[1] \in Seq(Nat) /\ out[2] \in Seq(Nat)
           /\ Len(out[1]) = m /\ Len(out[2]) = n
           /\ \A first \in BOOLEAN :
                 Tagged(Multiplex("tdm_async", out[1], out[2]), first) = Tagged(word, first)
  <1> DEFINE s == Tagged(word, TRUE)
             t == Tagged(word, FALSE)
             a == out[1]
             b == out[2]
             new == Multiplex("tdm_async", a, b)
  <1>1. /\ Len(s) = m /\ Len(t) = n /\ \A i \in DOMAIN word : word[i] <= 3
        /\ out = <<s, [i \in 1 .. n |-> t[i] - 2]>>
    BY Zenon DEF FromTagged
  <1>2. word \in Seq(0 .. 3)
    <2>1. \A i \in 1 .. Len(word) : word[i] \in 0 .. 3
      BY <1>1
    <2>2. word = [i \in 1 .. Len(word) |-> word[i]] /\ Len(word) \in Nat
      OBVIOUS
    <2> DEFINE l == Len(word)
    <2> HIDE DEF l
    <2>3. l \in Nat /\ word = [i \in 1 .. l |-> word[i]]
          /\ \A i \in 1 .. l : word[i] \in 0 .. 3
      BY <2>1, <2>2 DEF l
    <2> QED
      BY <2>3, StringOf
  <1>3. /\ s \in Seq(Nat) /\ t \in Seq(Nat)
        /\ \A i \in 1 .. Len(s) : s[i] \in 0 .. 3 /\ (s[i] < 2) = TRUE
        /\ \A i \in 1 .. Len(t) : t[i] \in 0 .. 3 /\ (t[i] < 2) = FALSE
    BY <1>2, TaggedSymbols, TRUE \in BOOLEAN, FALSE \in BOOLEAN, Zenon
  <1>4. a = s /\ b = [i \in 1 .. n |-> t[i] - 2]
    BY <1>1
  <1> HIDE DEF s, t, a, b
  <1>5. \A i \in 1 .. m : a[i] \in {0, 1}
    BY <1>1, <1>3, <1>4, TagValue
  <1>6. \A i \in 1 .. n : t[i] \in {2, 3}
    BY <1>1, <1>3, TagValue
  <1>7. \A i \in 1 .. n : b[i] = t[i] - 2 /\ b[i] \in {0, 1} /\ b[i] \in Nat
    BY <1>4, <1>6
  <1>8. b \in Seq(Nat) /\ Len(b) = n /\ a \in Seq(Nat) /\ Len(a) = m
    <2>1. b = [i \in 1 .. n |-> b[i]]
      BY <1>4
    <2>2. b \in Seq(Nat) /\ Len(b) = n
      BY <1>7, <2>1, StringOf
    <2> QED
      BY <1>1, <1>3, <1>4, <2>2
  <1>9. /\ Tagged(new, TRUE) = Normalized(a)
        /\ Tagged(new, FALSE) \in Seq(Nat) /\ Len(Tagged(new, FALSE)) = n
        /\ \A i \in 1 .. n : Tagged(new, FALSE)[i] = 2 + NormalizeBit(b[i])
    <2>1. TagsAre(new, a, b)
      BY <1>8, AsyncTags
    <2> HIDE DEF new
    <2> QED
      BY <1>8, <2>1 DEF TagsAre
  <1> HIDE DEF new
  <1>10. Tagged(new, TRUE) = s
    BY <1>4, <1>5, <1>8, <1>9, NormalizedIs
  <1>11. Tagged(new, FALSE) = t
    <2>1. \A i \in 1 .. n : NormalizeBit(b[i]) = b[i]
      BY <1>7 DEF NormalizeBit
    <2> DEFINE u == Tagged(new, FALSE)
    <2>3. u \in Seq(Nat) /\ Len(u) = n /\ \A i \in 1 .. n : u[i] = 2 + NormalizeBit(b[i])
      BY <1>9
    <2> HIDE DEF u
    <2>4. ASSUME NEW i \in 1 .. n PROVE u[i] = t[i]
      <3>1. b[i] = t[i] - 2 /\ t[i] \in {2, 3}
        BY <1>6, <1>7
      <3>2. u[i] = 2 + b[i]
        BY <2>1, <2>3
      <3> QED
        BY <3>1, <3>2
    <2>2. \A i \in 1 .. n : Tagged(new, FALSE)[i] = t[i]
      BY <2>4 DEF u
    <2> QED
      BY <1>1, <1>3, <1>9, <2>2, SameStrings
  <1>12. \A first \in BOOLEAN : first = TRUE \/ first = FALSE
    OBVIOUS
  <1>13. \A first \in BOOLEAN : Tagged(new, first) = Tagged(word, first)
    BY <1>10, <1>11, <1>12, Zenon DEF s, t
  <1> QED
    BY <1>8, <1>13 DEF a, b, new

(* The inductive invariant.  What is on the line is the word of the input as     *)
(* long as nothing was damaged, and what was returned is what decoding says of   *)
(* the word that is still on the line, for some expected lengths.  WordsAreExact *)
(* follows from it: the word of any strings is read as these strings, and a word *)
(* that is read at all is the word of what is read.                             *)
WordOfInput ==
    IF codeScheme = "rs232"
    THEN /\ codeWord = Encode(codeInput[1])
         /\ \A i \in 1 .. Len(codeInput[1]) : Shifted(codeInput[1][i])[CharBits] = 0
    ELSE codeWord = Multiplex(codeScheme, codeInput[1], codeInput[2])

CodeIInv ==
    /\ codeScheme \in Schemes
    /\ codeInput[1] \in Seq(Nat) /\ codeInput[2] \in Seq(Nat)
    /\ codeScheme = "rs232" => codeInput[2] = <<>>
    /\ codeWord \in Seq(Int) /\ (codeScheme # "rs232" => codeWord \in Seq(Nat))
    /\ codeDamaged \in Nat
    /\ codeWord = <<>> => codeDamaged = 0 /\ codeOutput = {}
    /\ codeDamaged = 0 /\ codeWord # <<>> => WordOfInput
    /\ \A out \in codeOutput : \E m, n \in Nat : out \in Decoded(m, n)

LEMMA DecodedIs ==
    ASSUME CodeIInv, NEW m, NEW n
    PROVE  /\ codeScheme = "rs232" => Decoded(m, n) = Decode(codeWord)
           /\ codeScheme = "tdm_async" => Decoded(m, n) = FromTagged(m, n, codeWord)
           /\ codeScheme \in SlotSchemes =>
                 Decoded(m, n) = FromSlots(codeScheme, m, n, codeWord)
           /\ codeScheme = "rs232" \/ codeScheme = "tdm_async" \/ codeScheme \in SlotSchemes
           /\ codeScheme \in SlotSchemes => codeScheme # "rs232" /\ codeScheme # "tdm_async"
  BY DEF Decoded, SlotSchemes, CodeIInv, Schemes

LEMMA WordIsRead ==
    ASSUME CodeIInv, codeWord # <<>>, codeDamaged = 0
    PROVE  Decoded(Len(codeInput[1]), Len(codeInput[2])) = {WordSent}
  <1> DEFINE a == codeInput[1]
             b == codeInput[2]
  <1>1. a \in Seq(Nat) /\ b \in Seq(Nat) /\ WordOfInput
    BY DEF CodeIInv
  <1>2. CASE codeScheme = "rs232"
    <2>1. Decoded(Len(a), Len(b)) = Decode(Encode(a))
      BY <1>1, <1>2, DecodedIs DEF WordOfInput
    <2>2. Decode(Encode(a)) = {<<a, <<>>>>}
      BY <1>1, <1>2, RsWordIsRead DEF WordOfInput
    <2>3. WordSent = <<a, <<>>>>
      <3>1. Normalized(b) = <<>>
        <4>1. b = <<>>
          BY <1>2 DEF CodeIInv
        <4>2. Normalized(b) \in Seq(Nat) /\ Len(Normalized(b)) = 0
          BY <1>1, <4>1, NormalizedIs
        <4> QED
          BY <4>2
      <3> QED
        BY <1>2, <3>1 DEF WordSent
    <2> QED
      BY <2>1, <2>2, <2>3
  <1>3. CASE codeScheme = "tdm_async"
    <2>1. codeWord = Multiplex("tdm_async", a, b) /\ WordSent = <<Normalized(a), Normalized(b)>>
      BY <1>1, <1>3 DEF WordOfInput, WordSent
    <2>2. Decoded(Len(a), Len(b)) = FromTagged(Len(a), Len(b), codeWord)
      BY <1>3, DecodedIs
    <2> HIDE DEF a, b
    <2> QED
      BY <1>1, <2>1, <2>2, AsyncWordIsRead DEF a, b
  <1>4. CASE codeScheme \in SlotSchemes
    <2>1. codeWord = Multiplex(codeScheme, a, b)
          /\ WordSent = <<Normalized(a), Normalized(b)>>
      BY <1>1, <1>4, DecodedIs DEF WordOfInput, WordSent
    <2>2. Decoded(Len(a), Len(b)) = FromSlots(codeScheme, Len(a), Len(b), codeWord)
      BY <1>4, DecodedIs
    <2>3. FromSlots(codeScheme, Len(a), Len(b), Multiplex(codeScheme, a, b)) =
             {<<Normalized(a), Normalized(b)>>}
      BY <1>1, <1>4, SlotWordIsRead
    <2> QED
      BY <2>1, <2>2, <2>3
  <1> QED
    BY <1>2, <1>3, <1>4, DecodedIs

\* Third conjunct of WordsAreExact, for one result.
IsWordOf(out) ==
    CASE codeScheme = "rs232" -> SameSigns(Encode(out[1]), codeWord)
      [] codeScheme = "tdm_async" ->
           \A first \in BOOLEAN :
               Tagged(Multiplex(codeScheme, out[1], out[2]), first) = Tagged(codeWord, first)
      [] OTHER -> Multiplex(codeScheme, out[1], out[2]) = codeWord

LEMMA WhatIsReadIsTheWord ==
    ASSUME CodeIInv, NEW m \in Nat, NEW n \in Nat, NEW out \in Decoded(m, n)
    PROVE  /\ IsWordOf(out)
           /\ codeScheme # "rs232" => Len(out[1]) = m /\ Len(out[2]) = n
  <1>1. codeWord \in Seq(Int) /\ (codeScheme # "rs232" => codeWord \in Seq(Nat))
    BY DEF CodeIInv
  <1>2. CASE codeScheme = "rs232"
    <2>1. out \in Decode(codeWord)
      BY <1>2, DecodedIs
    <2>2. SameSigns(Encode(out[1]), codeWord)
      BY <1>1, <2>1, RsAcceptsOnlyWords
    <2> QED
      BY <1>2, <2>2 DEF IsWordOf
  <1>3. CASE codeScheme = "tdm_async"
    <2>1. out \in FromTagged(m, n, codeWord) /\ codeWord \in Seq(Nat)
      BY <1>1, <1>3, DecodedIs
    <2>2. /\ Len(out[1]) = m /\ Len(out[2]) = n
          /\ \A first \in BOOLEAN :
                Tagged(Multiplex("tdm_async", out[1], out[2]), first) = Tagged(codeWord, first)
      BY <2>1, AsyncAcceptsOnlyWords
    <2> QED
      BY <1>3, <2>2 DEF IsWordOf
  <1>4. CASE codeScheme \in SlotSchemes
    <2>1. out \in FromSlots(codeScheme, m, n, codeWord) /\ codeWord \in Seq(Nat)
      BY <1>1, <1>4, DecodedIs
    <2>2. /\ Len(out[1]) = m /\ Len(out[2]) = n
          /\ Multiplex(codeScheme, out[1], out[2]) = codeWord
      BY <1>4, <2>1, SlotsAcceptOnlyWords
    <2>3. codeScheme # "rs232" /\ codeScheme # "tdm_async"
      BY <1>4, DecodedIs
    <2> QED
      BY <2>2, <2>3 DEF IsWordOf
  <1> QED
    BY <1>2, <1>3, <1>4, DecodedIs

LEMMA ExactFromInvariant == CodeIInv => WordsAreExact
  <1> SUFFICES ASSUME CodeIInv PROVE WordsAreExact
    OBVIOUS
  <1> DEFINE a == codeInput[1]
             b == codeInput[2]
  <1>1. codeWord # <<>> /\ codeDamaged = 0 => Decoded(Len(a), Len(b)) = {WordSent}
    BY WordIsRead
  <1>2. ASSUME NEW out \in codeOutput
        PROVE  /\ IsWordOf(out)
               /\ codeDamaged = 0 /\ Len(out[1]) = Len(a) /\ Len(out[2]) = Len(b)
                     => out = WordSent
    <2>1. PICK m \in Nat, n \in Nat : out \in Decoded(m, n)
      BY DEF CodeIInv
    <2>2. IsWordOf(out) /\ (codeScheme # "rs232" => Len(out[1]) = m /\ Len(out[2]) = n)
      BY <2>1, WhatIsReadIsTheWord
    <2>3. ASSUME codeDamaged = 0, Len(out[1]) = Len(a), Len(out[2]) = Len(b)
          PROVE  out = WordSent
      <3>1. codeWord # <<>>
        BY DEF CodeIInv
      <3>2. Decoded(Len(a), Len(b)) = {WordSent}
        BY <1>1, <2>3, <3>1
      <3>3. out \in Decoded(Len(a), Len(b))
        <4>1. CASE codeScheme = "rs232"
          BY <2>1, <4>1, DecodedIs
        <4>2. CASE codeScheme # "rs232"
          <5>1. m = Len(a) /\ n = Len(b)
            BY <2>2, <2>3, <4>2
          <5> QED
            BY <2>1, <5>1
        <4> QED
          BY <4>1, <4>2
      <3> QED
        BY <3>2, <3>3
    <2> QED
      BY <2>2, <2>3
  <1> QED
    BY <1>1, <1>2 DEF WordsAreExact, IsWordOf

LEMMA SymbolReplaced ==
    ASSUME NEW T, NEW s \in Seq(T), NEW i \in DOMAIN s, NEW v \in T
    PROVE  [s EXCEPT ![i] = v] \in Seq(T) /\ Len([s EXCEPT ![i] = v]) = Len(s)
  <1> DEFINE n == Len(s)
             t == [s EXCEPT ![i] = v]
  <1>1. n \in Nat /\ DOMAIN s = 1 .. n /\ \A k \in 1 .. n : s[k] \in T
    OBVIOUS
  <1> HIDE DEF n
  <1>2. \A k \in 1 .. n : t[k] \in T
    BY <1>1
  <1>3. t = [k \in 1 .. n |-> t[k]]
    BY <1>1
  <1> HIDE DEF t
  <1>4. t \in Seq(T) /\ Len(t) = n
    BY <1>1, <1>2, <1>3, StringOf
  <1> QED
    BY <1>4 DEF t, n

LEMMA CodeInitIInv == CodeInit => CodeIInv
  <1> SUFFICES ASSUME CodeInit PROVE CodeIInv
    OBVIOUS
  <1>1. PICK scheme \in Scheme, a \in Strings(CodeLength), b \in Strings(CodeLength) :
              /\ scheme = "rs232" => b = <<>>
              /\ CodeStart(scheme, <<a, b>>)
    BY DEF CodeInit
  <1>2. \A s \in Strings(CodeLength) : s \in Seq(Nat)
    <2> SUFFICES ASSUME NEW s \in Strings(CodeLength) PROVE s \in Seq(Nat)
      OBVIOUS
    <2>1. PICK k \in 0 .. CodeLength : s \in [1 .. k -> CodeByte]
      BY DEF Strings
    <2>2. k \in Nat
      BY CodeAssumption DEF CodeAssumption
    <2>3. s \in [1 .. k -> Nat]
      BY <2>1, CodeAssumption DEF CodeAssumption
    <2> QED
      BY <2>2, <2>3
  <1>3. /\ codeScheme \in Schemes /\ codeInput[1] = a /\ codeInput[2] = b
        /\ codeScheme = scheme /\ codeWord = <<>> /\ codeDamaged = 0 /\ codeOutput = {}
    BY <1>1, CodeAssumption DEF CodeStart, CodeAssumption
  <1>4. codeWord \in Seq(Int) /\ codeWord \in Seq(Nat)
    BY <1>3
  <1> QED
    BY <1>1, <1>2, <1>3, <1>4 DEF CodeIInv

LEMMA CodeStepIInv == CodeIInv /\ [CodeNext]_codeVars => CodeIInv'
  <1> SUFFICES ASSUME CodeIInv, [CodeNext]_codeVars PROVE CodeIInv'
    OBVIOUS
  <1>0. /\ codeScheme \in Schemes
        /\ codeInput[1] \in Seq(Nat) /\ codeInput[2] \in Seq(Nat)
        /\ codeScheme = "rs232" => codeInput[2] = <<>>
        /\ codeWord \in Seq(Int) /\ (codeScheme # "rs232" => codeWord \in Seq(Nat))
        /\ codeDamaged \in Nat
        /\ codeWord = <<>> => codeDamaged = 0 /\ codeOutput = {}
        /\ codeDamaged = 0 /\ codeWord # <<>> => WordOfInput
        /\ \A out \in codeOutput : \E m, n \in Nat : out \in Decoded(m, n)
    BY DEF CodeIInv
  <1>1. ASSUME CodeSend PROVE CodeIInv'
    <2>1. /\ codeWord = <<>> /\ codeScheme' = codeScheme /\ codeInput' = codeInput
          /\ codeDamaged' = codeDamaged /\ codeOutput' = codeOutput
      BY <1>1 DEF CodeSend
    <2>2. codeDamaged = 0 /\ codeOutput = {}
      BY <1>0, <2>1
    <2>3. WordOfInput'
      <3>1. DOMAIN codeInput[1] = 1 .. Len(codeInput[1])
        BY <1>0
      <3> QED
        BY <1>1, <2>1, <3>1 DEF CodeSend, WordOfInput
    <2>4. codeWord' \in Seq(Int) /\ (codeScheme # "rs232" => codeWord' \in Seq(Nat))
      <3>1. CASE codeScheme = "rs232"
        <4>1. codeWord' = Encode(codeInput[1])
          BY <1>1, <3>1 DEF CodeSend
        <4> QED
          BY <1>0, <3>1, <4>1, EncodeIs
      <3>2. CASE codeScheme # "rs232"
        <4>1. codeWord' = Multiplex(codeScheme, codeInput[1], codeInput[2])
          BY <1>1, <3>2 DEF CodeSend
        <4>2. CASE codeScheme = "tdm_async"
          <5>1. codeWord' \in Seq(0 .. 3)
            BY <1>0, <4>1, <4>2, AsyncTags DEF TagsAre
          <5> QED
            BY <5>1
        <4>3. CASE codeScheme \in SlotSchemes
          <5>1. codeWord' \in Seq(Nat)
            BY <1>0, <4>1, <4>3, MultiplexIs
          <5> QED
            BY <5>1
        <4> QED
          BY <3>2, <4>2, <4>3, DecodedIs
      <3> QED
        BY <3>1, <3>2
    <2> QED
      BY <1>0, <2>1, <2>2, <2>3, <2>4 DEF CodeIInv
  <1>2. ASSUME NEW i \in DOMAIN codeWord, NEW v \in LineSymbol, CodeDamage(i, v)
        PROVE  CodeIInv'
    <2>1. /\ codeScheme' = codeScheme /\ codeInput' = codeInput /\ codeOutput' = {}
          /\ codeDamaged' = codeDamaged + 1 /\ codeWord' = [codeWord EXCEPT ![i] = v]
          /\ codeScheme # "rs232" => v >= 0
      BY <1>2 DEF CodeDamage
    <2>2. v \in Int
      BY CodeAssumption DEF CodeAssumption
    <2>3. /\ codeWord' \in Seq(Int) /\ codeWord' # <<>>
          /\ (codeScheme # "rs232" => codeWord' \in Seq(Nat))
      <3>1. codeWord' \in Seq(Int) /\ Len(codeWord') = Len(codeWord)
        BY <1>0, <2>1, <2>2, SymbolReplaced
      <3>2. codeWord' # <<>>
        <4>1. Len(codeWord) # 0
          BY <1>0
        <4> QED
          BY <3>1, <4>1
      <3>3. codeScheme # "rs232" => codeWord' \in Seq(Nat)
        <4> SUFFICES ASSUME codeScheme # "rs232" PROVE codeWord' \in Seq(Nat)
          OBVIOUS
        <4>1. codeWord \in Seq(Nat) /\ v \in Nat
          BY <1>0, <2>1, <2>2
        <4> QED
          BY <2>1, <4>1, SymbolReplaced
      <3> QED
        BY <3>1, <3>2, <3>3
    <2>4. codeDamaged' \in Nat /\ codeDamaged' # 0
      <3>1. codeDamaged \in Nat /\ codeDamaged' = codeDamaged + 1
        BY <1>0, <2>1, Zenon
      <3> QED
        BY <3>1
    <2> QED
      BY <1>0, <2>1, <2>3, <2>4 DEF CodeIInv
  <1>3. ASSUME NEW m \in 0 .. CodeLength, NEW n \in 0 .. CodeLength, CodeReceive(m, n)
        PROVE  CodeIInv'
    <2>1. /\ codeWord # <<>> /\ codeOutput' = Decoded(m, n)
          /\ codeScheme' = codeScheme /\ codeInput' = codeInput /\ codeWord' = codeWord
          /\ codeDamaged' = codeDamaged
      BY <1>3 DEF CodeReceive
    <2>2. m \in Nat /\ n \in Nat
      BY CodeAssumption DEF CodeAssumption
    <2>3. WordOfInput' <=> WordOfInput
      BY <2>1 DEF WordOfInput
    <2>4. \A k, l \in Nat : Decoded(k, l)' = Decoded(k, l)
      BY <2>1 DEF Decoded
    <2> QED
      BY <1>0, <2>1, <2>2, <2>3, <2>4 DEF CodeIInv
  <1>4. ASSUME UNCHANGED codeVars PROVE CodeIInv'
    BY <1>4 DEF codeVars, CodeIInv, WordOfInput, Decoded
  <1> QED
    BY <1>1, <1>2, <1>3, <1>4 DEF CodeNext

(* WordsAreExact: a word that was not damaged is accepted and read as what was   *)
(* sent, and a damaged one is accepted only if it is the word of what is read,   *)
(* in each of the four ways to share a line and in the frames of LAB2, for        *)
(* strings of any length and characters of any number of bits                   *)
(* (multiplex.cpp:33-367, rs232c.cpp:40-139).                                   *)
THEOREM WordsAlwaysExact == CodeSpec => []WordsAreExact
  <1>1. CodeInit => CodeIInv
    BY CodeInitIInv
  <1>2. CodeIInv /\ [CodeNext]_codeVars => CodeIInv'
    BY CodeStepIInv
  <1>3. CodeIInv => WordsAreExact
    BY ExactFromInvariant
  <1> QED
    BY <1>1, <1>2, <1>3, PTL DEF CodeSpec
===============================================================================
