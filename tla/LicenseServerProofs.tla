------------------------ MODULE LicenseServerProofs -------------------------
(***************************************************************************)
(* Proofs about LicenseServer, for every set of serials and clients, every *)
(* timeout and every combination of save faults: the variables keep their  *)
(* types, no licence exceeds its limit, in memory or in the file, and      *)
(* nobody is evicted without cause.  With saves that succeed the server    *)
(* implements the promise of LicenseSeats, in which nothing crashes.       *)
(*                                                                         *)
(* The argument: call a database Good when it is well typed and within its *)
(* limits.  What save() is given is Good whenever the memory is (one lemma *)
(* per command), what load() makes of a cut file is Good whenever the      *)
(* database written was, and however a command ends, memory and file are   *)
(* among these (ExecuteKeepsGood).  The file has to be part of the         *)
(* invariant because Start makes it the memory without counting.           *)
(***************************************************************************)
EXTENDS LicenseServer, FiniteSetTheorems, TLAPS

USE StoreAssumption, ServerAssumption DEF StoreAssumption, ServerAssumption

Good(db) == db \in Database /\ WithinLimit(db)

GoodWrites(w) == w \in Seq(Database) /\ \A k \in 1..Len(w) : Good(w[k])

IInv == Good(store) /\ Good(disk) /\ TypeOK

-----------------------------------------------------------------------------
(* Databases.                                                              *)

(* The sessions of a licence are finitely many.                            *)
LEMMA SessionsFinite ==
    ASSUME NEW db, NEW s \in Serial
    PROVE  /\ IsFiniteSet(Sessions(db, s))
           /\ Cardinality(Sessions(db, s)) \in Nat
  <1>1. Sessions(db, s) \in SUBSET Client
    BY DEF Sessions
  <1>2. IsFiniteSet(Sessions(db, s))
    BY <1>1, FS_Subset
  <1> QED
    BY <1>2, FS_CardinalityType

(* The components of a database have their types.                          *)
LEMMA DatabaseParts ==
    ASSUME NEW db \in Database
    PROVE  /\ db = [limit |-> db.limit, seen |-> db.seen]
           /\ db.limit \in [Serial -> 0..MaxLimit]
           /\ db.seen \in [Serial -> [Client -> Nat \cup {Absent}]]
           /\ \A s \in Serial : db.limit[s] \in Nat
  <1>1. db.limit \in [Serial -> 0..MaxLimit]
    BY DEF Database
  <1>2. db.seen \in [Serial -> [Client -> Nat \cup {Absent}]]
    BY DEF Database
  <1>3. \A s \in Serial : db.limit[s] \in Nat
    <2>1. 0..MaxLimit \subseteq Nat
      BY DEF MaxLimit
    <2> QED
      BY <1>1, <2>1
  <1>4. db = [limit |-> db.limit, seen |-> db.seen]
    BY DEF Database
  <1> QED
    BY <1>1, <1>2, <1>3, <1>4

(* What the commands make of a database is a database.                     *)
LEMMA MutationsAreDatabases ==
    ASSUME NEW db \in Database, NEW s \in Serial, NEW c \in Client, NEW now \in Nat
    PROVE  /\ Sweep(db, now) \in Database
           /\ Touch(db, s, c, now) \in Database
           /\ Erase(db, s, c) \in Database
           /\ \A limit \in Limits :
                 [db EXCEPT !.limit[s] = limit, !.seen[s] = NoSessions] \in Database
  <1>1. Sweep(db, now) \in Database
    BY DatabaseParts DEF Sweep, Database
  <1>2. Touch(db, s, c, now) \in Database
    BY DatabaseParts DEF Touch, Database
  <1>3. Erase(db, s, c) \in Database
    BY DatabaseParts DEF Erase, Database
  <1>4. ASSUME NEW limit \in Limits
        PROVE  [db EXCEPT !.limit[s] = limit, !.seen[s] = NoSessions] \in Database
    <2>1. NoSessions \in [Client -> Nat \cup {Absent}]
      BY DEF NoSessions
    <2>2. limit \in 0..MaxLimit
      BY DEF MaxLimit
    <2> QED
      BY <2>1, <2>2, DatabaseParts DEF Database
  <1> QED
    BY <1>1, <1>2, <1>3, <1>4

(* A licence that keeps its limit and gains no session stays in its limit; *)
(* a licence without sessions is in any limit.                             *)
LEMMA FewerSessions ==
    ASSUME NEW db, Good(db), NEW e \in Database,
           \A s \in Serial :
              \/ Sessions(e, s) = {}
              \/ /\ Sessions(e, s) \subseteq Sessions(db, s)
                 /\ e.limit[s] = db.limit[s]
    PROVE  Good(e)
  <1>1. SUFFICES ASSUME NEW s \in Serial
                 PROVE  Cardinality(Sessions(e, s)) <= e.limit[s]
    BY DEF Good, WithinLimit
  <1>2. CASE Sessions(e, s) = {}
    BY <1>2, FS_EmptySet, DatabaseParts
  <1>3. CASE /\ Sessions(e, s) \subseteq Sessions(db, s)
             /\ e.limit[s] = db.limit[s]
    <2>1. Cardinality(Sessions(e, s)) <= Cardinality(Sessions(db, s))
      BY <1>3, SessionsFinite, FS_Subset
    <2>2. Cardinality(Sessions(db, s)) <= db.limit[s]
      BY DEF Good, WithinLimit
    <2>3. db.limit[s] \in Nat
      BY DatabaseParts DEF Good
    <2> QED
      BY <1>3, <2>1, <2>2, <2>3, SessionsFinite
  <1> QED
    BY <1>2, <1>3

(* The database of a server that starts without a file is Good.            *)
LEMMA EmptyIsGood == Good(EmptyDatabase)
  <1>1. EmptyDatabase \in Database
    BY DEF EmptyDatabase, Database, NoSessions, MaxLimit
  <1>2. \A s \in Serial : Sessions(EmptyDatabase, s) = {}
    BY DEF EmptyDatabase, Sessions, NoSessions
  <1>3. ASSUME NEW s \in Serial
        PROVE  Cardinality(Sessions(EmptyDatabase, s)) <= EmptyDatabase.limit[s]
    <2>1. Cardinality(Sessions(EmptyDatabase, s)) = 0
      BY <1>2, FS_EmptySet
    <2>2. EmptyDatabase.limit[s] = 0
      BY DEF EmptyDatabase
    <2> QED
      BY <2>1, <2>2
  <1> QED
    BY <1>1, <1>3 DEF Good, WithinLimit

(* cleanup() only removes sessions.                                        *)
LEMMA SweepIsGood ==
    ASSUME NEW db, Good(db), NEW now \in Nat
    PROVE  Good(Sweep(db, now))
  <1>1. db \in Database
    BY DEF Good
  <1>2. Sweep(db, now) \in Database
    BY <1>1, DatabaseParts DEF Sweep, Database
  <1>3. ASSUME NEW s \in Serial
        PROVE  /\ Sessions(Sweep(db, now), s) \subseteq Sessions(db, s)
               /\ Sweep(db, now).limit[s] = db.limit[s]
    BY <1>1, DatabaseParts DEF Sweep, Sessions
  <1> QED
    BY <1>2, <1>3, FewerSessions

(* release() only removes a session.                                       *)
LEMMA EraseIsGood ==
    ASSUME NEW db, Good(db), NEW s \in Serial, NEW c \in Client
    PROVE  Good(Erase(db, s, c))
  <1>1. db \in Database
    BY DEF Good
  <1>2. Erase(db, s, c) \in Database
    BY <1>1, DatabaseParts DEF Erase, Database
  <1>3. ASSUME NEW t \in Serial
        PROVE  /\ Sessions(Erase(db, s, c), t) \subseteq Sessions(db, t)
               /\ Erase(db, s, c).limit[t] = db.limit[t]
    BY <1>1, DatabaseParts DEF Erase, Sessions
  <1> QED
    BY <1>2, <1>3, FewerSessions

(* Recording a client that has a session, or for whom there is room, keeps *)
(* the licence within its limit.                                           *)
LEMMA TouchIsGood ==
    ASSUME NEW db, Good(db), NEW s \in Serial, NEW c \in Client, NEW now \in Nat,
           c \in Sessions(db, s) \/ ~Full(db, s)
    PROVE  Good(Touch(db, s, c, now))
  <1> DEFINE e == Touch(db, s, c, now)
  <1>1. db \in Database
    BY DEF Good
  <1>2. e \in Database
    BY <1>1, DatabaseParts DEF Touch, Database
  <1>3. SUFFICES ASSUME NEW t \in Serial
                 PROVE  Cardinality(Sessions(e, t)) <= e.limit[t]
    BY <1>2 DEF Good, WithinLimit
  <1>4. e.limit[t] = db.limit[t] /\ db.limit[t] \in Nat
    BY <1>1, DatabaseParts DEF Touch
  <1>5. Cardinality(Sessions(db, t)) <= db.limit[t]
    BY DEF Good, WithinLimit
  <1>6. CASE t # s
    <2>1. Sessions(e, t) = Sessions(db, t)
      BY <1>1, <1>6, DatabaseParts DEF Touch, Sessions
    <2> QED
      BY <1>4, <1>5, <2>1
  <1>7. CASE t = s
    <2>1. Sessions(e, s) = Sessions(db, s) \cup {c}
      BY <1>1, DatabaseParts DEF Touch, Sessions, Absent
    <2>2. Cardinality(Sessions(e, s)) =
            IF c \in Sessions(db, s) THEN Cardinality(Sessions(db, s))
                                     ELSE Cardinality(Sessions(db, s)) + 1
      BY <2>1, SessionsFinite, FS_AddElement
    <2> QED
      BY <1>4, <1>5, <1>7, <2>2, SessionsFinite DEF Full
  <1> QED
    BY <1>6, <1>7

LEMMA NoLimitIsALimit == 0 \in 0..MaxLimit
  BY DEF MaxLimit

(* A file cut anywhere loads as a well-formed database.                    *)
LEMMA PrefixIsDatabase ==
    ASSUME NEW db \in Database, NEW e \in FilePrefixes(db)
    PROVE  e \in Database
  <1>1. ASSUME NEW s \in Serial, e = CutBefore(db, s)
        PROVE  e \in Database
    <2>1. e.limit \in [Serial -> 0..MaxLimit]
      <3>1. /\ db.limit \in [Serial -> 0..MaxLimit]
            /\ e.limit = [t \in Serial |-> IF t < s THEN db.limit[t] ELSE 0]
        BY <1>1, DatabaseParts DEF CutBefore
      <3> QED
        BY <3>1, NoLimitIsALimit
    <2>2. e.seen \in [Serial -> [Client -> Nat \cup {Absent}]]
      BY <1>1, DatabaseParts DEF CutBefore, NoSessions
    <2>3. e = [limit |-> e.limit, seen |-> e.seen]
      BY <1>1 DEF CutBefore
    <2> QED
      BY <2>1, <2>2, <2>3 DEF Database
  <1>2. ASSUME NEW s \in Serial, NEW c \in Client, NEW x \in {Absent, Ancient},
               e = CutAtSession(db, s, c, x)
        PROVE  e \in Database
    <2> DEFINE cut == SessionsCutAt(db.seen[s], c, x)
    <2>1. cut \in [Client -> Nat \cup {Absent}]
      BY DatabaseParts DEF SessionsCutAt, Absent, Ancient
    <2>2. /\ e.limit = [t \in Serial |-> IF t <= s THEN db.limit[t] ELSE 0]
          /\ db.limit \in [Serial -> 0..MaxLimit]
      BY <1>2, DatabaseParts DEF CutAtSession
    <2>3. e.seen = [t \in Serial |-> IF t < s THEN db.seen[t]
                                     ELSE IF t = s THEN cut ELSE NoSessions]
      BY <1>2 DEF CutAtSession
    <2> HIDE DEF cut
    <2>4. e.limit \in [Serial -> 0..MaxLimit]
      BY <2>2, NoLimitIsALimit
    <2>5. e.seen \in [Serial -> [Client -> Nat \cup {Absent}]]
      BY <2>1, <2>3, DatabaseParts DEF NoSessions
    <2>6. e = [limit |-> e.limit, seen |-> e.seen]
      BY <1>2 DEF CutAtSession
    <2> QED
      BY <2>4, <2>5, <2>6 DEF Database
  <1> QED
    BY <1>1, <1>2 DEF FilePrefixes

(* And as a Good database if the database was Good.                        *)
LEMMA PrefixIsGood ==
    ASSUME NEW db, Good(db), NEW e \in FilePrefixes(db)
    PROVE  Good(e)
  <1>1. db \in Database /\ e \in Database
    BY PrefixIsDatabase DEF Good
  <1>2. ASSUME NEW s \in Serial, e = CutBefore(db, s)
        PROVE  Good(e)
    <2>1. ASSUME NEW t \in Serial
          PROVE  \/ Sessions(e, t) = {}
                 \/ /\ Sessions(e, t) \subseteq Sessions(db, t)
                    /\ e.limit[t] = db.limit[t]
      BY <1>1, <1>2, DatabaseParts DEF CutBefore, Sessions, NoSessions
    <2> QED
      BY <1>1, <2>1, FewerSessions
  <1>3. ASSUME NEW s \in Serial, NEW c \in Client, NEW x \in {Absent, Ancient},
               e = CutAtSession(db, s, c, x)
        PROVE  Good(e)
    <2> DEFINE cut == SessionsCutAt(db.seen[s], c, x)
    <2>1. \A d \in Client : cut[d] # Absent => db.seen[s][d] # Absent
      BY <1>1, <1>3 DEF SessionsCutAt
    <2>2. e.limit = [t \in Serial |-> IF t <= s THEN db.limit[t] ELSE 0]
      BY <1>3 DEF CutAtSession
    <2>3. e.seen = [t \in Serial |-> IF t < s THEN db.seen[t]
                                     ELSE IF t = s THEN cut ELSE NoSessions]
      BY <1>3 DEF CutAtSession
    <2> HIDE DEF cut
    <2>4. ASSUME NEW t \in Serial
          PROVE  \/ Sessions(e, t) = {}
                 \/ /\ Sessions(e, t) \subseteq Sessions(db, t)
                    /\ e.limit[t] = db.limit[t]
      <3>0. s \in Int /\ t \in Int
        OBVIOUS
      <3>1. CASE t < s
        <4>1. e.seen[t] = db.seen[t] /\ e.limit[t] = db.limit[t]
          BY <2>2, <2>3, <3>0, <3>1
        <4> QED
          BY <4>1 DEF Sessions
      <3>2. CASE t = s
        <4>1. e.seen[t] = cut /\ e.limit[t] = db.limit[t]
          BY <2>2, <2>3, <3>0, <3>2
        <4> QED
          BY <2>1, <3>2, <4>1 DEF Sessions
      <3>3. CASE ~(t < s) /\ t # s
        <4>1. e.seen[t] = NoSessions
          BY <2>3, <3>3
        <4> QED
          BY <4>1 DEF Sessions, NoSessions
      <3> QED
        BY <3>1, <3>2, <3>3
    <2> QED
      BY <1>1, <2>4, FewerSessions
  <1> QED
    BY <1>2, <1>3 DEF FilePrefixes

-----------------------------------------------------------------------------
(* What the commands write.                                                *)

(* One more Good database keeps a sequence of writes Good.                 *)
LEMMA AppendIsGood ==
    ASSUME NEW w, GoodWrites(w), NEW db, Good(db)
    PROVE  GoodWrites(Append(w, db))
  <1>1. w \in Seq(Database) /\ db \in Database
    BY DEF GoodWrites, Good
  <1>2. /\ Append(w, db) \in Seq(Database)
        /\ Len(Append(w, db)) = Len(w) + 1
        /\ Len(w) \in Nat
    BY <1>1
  <1>3. ASSUME NEW k \in 1..Len(Append(w, db))
        PROVE  Good(Append(w, db)[k])
    <2>1. CASE k = Len(w) + 1
      BY <1>1, <2>1
    <2>2. CASE k \in 1..Len(w)
      <3>1. Append(w, db)[k] = w[k]
        BY <1>1, <2>2
      <3> QED
        BY <2>2, <3>1 DEF GoodWrites
    <2> QED
      BY <1>2, <2>1, <2>2
  <1> QED
    BY <1>2, <1>3 DEF GoodWrites

(* A single Good database, or none, is a Good sequence of writes.          *)
LEMMA ShortWritesAreGood ==
    /\ GoodWrites(<<>>)
    /\ \A db : Good(db) => GoodWrites(<<db>>)
  BY DEF GoodWrites, Good

LEMMA CleanupWritesAreGood ==
    ASSUME NEW db, Good(db), NEW now \in Nat
    PROVE  GoodWrites(CleanupWrites(db, now))
  BY SweepIsGood, ShortWritesAreGood DEF CleanupWrites

(* ISSUE: the new licence has no sessions and a limit from parse_license_limit. *)
LEMMA IssueIsGood ==
    ASSUME NEW db, Good(db), NEW s \in Serial, NEW limit \in Limits
    PROVE  GoodWrites(IssueResult(db, s, limit).writes)
  <1> DEFINE e == [db EXCEPT !.limit[s] = limit, !.seen[s] = NoSessions]
  <1>1. db \in Database
    BY DEF Good
  <1>2. NoSessions \in [Client -> Nat \cup {Absent}]
    BY DEF NoSessions
  <1>3. limit \in 0..MaxLimit
    BY DEF MaxLimit
  <1>4. e \in Database
    BY <1>1, <1>2, <1>3, DatabaseParts DEF Database
  <1>5. ASSUME NEW t \in Serial
        PROVE  \/ Sessions(e, t) = {}
               \/ /\ Sessions(e, t) \subseteq Sessions(db, t)
                  /\ e.limit[t] = db.limit[t]
    BY <1>1, DatabaseParts DEF Sessions, NoSessions
  <1>6. Good(e)
    BY <1>4, <1>5, FewerSessions
  <1> QED
    BY <1>6, ShortWritesAreGood DEF IssueResult, Result

(* VERIFY: the session is added only after the limit has been compared     *)
(* with the sessions that the cleanup left.                                *)
LEMMA VerifyIsGood ==
    ASSUME NEW db, Good(db), NEW s \in Serial, NEW c \in Client, NEW now \in Nat
    PROVE  GoodWrites(VerifyResult(db, s, c, now).writes)
  <1> DEFINE clean  == Sweep(db, now)
             writes == CleanupWrites(db, now)
  <1>1. Good(clean) /\ GoodWrites(writes)
    BY SweepIsGood, CleanupWritesAreGood
  <1>2. CASE ~Known(clean, s)
    BY <1>1, <1>2 DEF VerifyResult, Result
  <1>3. CASE Known(clean, s) /\ c \notin Sessions(clean, s) /\ Full(clean, s)
    BY <1>1, <1>3 DEF VerifyResult, Result
  <1>4. CASE Known(clean, s) /\ (c \in Sessions(clean, s) \/ ~Full(clean, s))
    <2>1. GoodWrites(Append(writes, Touch(clean, s, c, now)))
      BY <1>1, <1>4, TouchIsGood, AppendIsGood
    <2> QED
      BY <1>4, <2>1 DEF VerifyResult, Result
  <1> QED
    BY <1>2, <1>3, <1>4

(* HEARTBEAT: only a session that is there is refreshed.                   *)
LEMMA HeartbeatIsGood ==
    ASSUME NEW db, Good(db), NEW s \in Serial, NEW c \in Client, NEW now \in Nat
    PROVE  GoodWrites(HeartbeatResult(db, s, c, now).writes)
  <1> DEFINE clean  == Sweep(db, now)
             writes == CleanupWrites(db, now)
  <1>1. Good(clean) /\ GoodWrites(writes)
    BY SweepIsGood, CleanupWritesAreGood
  <1>2. CASE ~Known(clean, s)
    BY <1>1, <1>2 DEF HeartbeatResult, Result
  <1>3. CASE Known(clean, s) /\ c \notin Sessions(clean, s)
    BY <1>1, <1>3 DEF HeartbeatResult, Result
  <1>4. CASE Known(clean, s) /\ c \in Sessions(clean, s)
    <2>1. GoodWrites(Append(writes, Touch(clean, s, c, now)))
      BY <1>1, <1>4, TouchIsGood, AppendIsGood
    <2> QED
      BY <1>4, <2>1 DEF HeartbeatResult, Result
  <1> QED
    BY <1>2, <1>3, <1>4

LEMMA ReleaseIsGood ==
    ASSUME NEW db, Good(db), NEW s \in Serial, NEW c \in Client
    PROVE  GoodWrites(ReleaseResult(db, s, c).writes)
  BY EraseIsGood, ShortWritesAreGood DEF ReleaseResult, Result

LEMMA StatusIsGood ==
    ASSUME NEW db, Good(db), NEW now \in Nat
    PROVE  GoodWrites(StatusResult(db, now).writes)
  BY CleanupWritesAreGood DEF StatusResult, Result

-----------------------------------------------------------------------------
(* However a command ends, memory and file are Good if what it writes is.  *)

LEMMA FileAfterIsGood ==
    ASSUME Good(disk), NEW w, GoodWrites(w), NEW k \in 0..Len(w),
           NEW file \in FileAfter(w, k)
    PROVE  Good(file)
  <1>0. Len(w) \in Nat
    BY DEF GoodWrites
  <1>1. CASE k = 0
    BY <1>1 DEF FileAfter
  <1>2. CASE k # 0
    <2>1. Good(w[k])
      BY <1>0, <1>2 DEF GoodWrites
    <2>2. file \in Written(w[k])
      BY <1>2 DEF FileAfter
    <2> QED
      BY <2>1, <2>2, PrefixIsGood DEF Written
  <1> QED
    BY <1>1, <1>2

LEMMA ContinueIsGood ==
    ASSUME IInv, NEW db, Good(db), Continue(db)
    PROVE  Good(store') /\ mode' \in {"up", "stopping", "down"}
  BY EmptyIsGood DEF Continue, IInv, TypeOK

LEMMA ExecuteKeepsGood ==
    ASSUME IInv, NEW result, GoodWrites(result.writes), NEW reply,
           Execute(result, reply)
    PROVE  IInv'
  <1> DEFINE w == result.writes
  <1>0. Len(w) \in Nat
    BY DEF GoodWrites
  <1>1. clock' \in Nat
    BY DEF Execute, IInv, TypeOK
  <1>2. SUFFICES Good(store') /\ Good(disk') /\ mode' \in {"up", "stopping", "down"}
    BY <1>1 DEF IInv, TypeOK, Good, WithinLimit
  <1>3. Good(store) /\ Good(disk)
    BY DEF IInv
  <1>4. CASE Completes(w)
    <2>1. Good(AfterSaves(w, Len(w)))
      BY <1>0, <1>3 DEF AfterSaves, GoodWrites
    <2>2. Good(disk')
      BY <1>0, <1>3, <1>4, FileAfterIsGood DEF Completes
    <2> QED
      BY <1>4, <2>1, <2>2, ContinueIsGood DEF Completes
  <1>5. CASE SaveThrows(w)
    <2>1. PICK k \in 1..Len(w) : Continue(w[k]) /\ disk' \in FileAfter(w, k - 1)
      BY <1>5 DEF SaveThrows
    <2>2. Good(w[k])
      BY DEF GoodWrites
    <2>3. k - 1 \in 0..Len(w)
      BY <1>0
    <2>4. Good(disk')
      BY <1>3, <2>1, <2>3, FileAfterIsGood
    <2> QED
      BY <2>1, <2>2, <2>4, ContinueIsGood
  <1>6. CASE Dies(w)
    <2>1. Good(store') /\ mode' = "down"
      BY <1>6, EmptyIsGood DEF Dies
    <2>2. PICK k \in 0..Len(w) :
             \/ disk' \in FileAfter(w, k)
             \/ k < Len(w) /\ disk' \in FilePrefixes(w[k + 1])
      BY <1>6 DEF Dies
    <2>3. CASE disk' \in FileAfter(w, k)
      BY <1>3, <2>1, <2>3, FileAfterIsGood
    <2>4. CASE k < Len(w) /\ disk' \in FilePrefixes(w[k + 1])
      <3>1. k + 1 \in 1..Len(w)
        BY <1>0, <2>4
      <3>2. Good(w[k + 1])
        BY <3>1 DEF GoodWrites
      <3> QED
        BY <2>1, <2>4, <3>2, PrefixIsGood
    <2> QED
      BY <2>2, <2>3, <2>4
  <1> QED
    BY <1>4, <1>5, <1>6 DEF Execute

-----------------------------------------------------------------------------

(* It holds before the server has ever run.                                *)
LEMMA InitIsGood == Init => IInv
  BY EmptyIsGood DEF Init, IInv, TypeOK, Good, Epoch

(* Every step of the server keeps the invariant.                           *)
LEMMA NextKeepsGood ==
    ASSUME IInv, [Next]_vars
    PROVE  IInv'
  <1>0. Good(store) /\ Good(disk) /\ TypeOK /\ clock \in Nat
    BY DEF IInv, TypeOK
  <1>1. ASSUME NEW reply \in Replies, NEW s \in Serial, NEW limit \in Limits,
               Issue(s, limit, reply)
        PROVE  IInv'
    BY <1>0, <1>1, IssueIsGood, ExecuteKeepsGood DEF Issue
  <1>2. ASSUME NEW reply \in Replies, NEW s \in Serial, NEW c \in Client,
               Verify(s, c, reply)
        PROVE  IInv'
    BY <1>0, <1>2, VerifyIsGood, ExecuteKeepsGood DEF Verify
  <1>3. ASSUME NEW reply \in Replies, NEW s \in Serial, NEW c \in Client,
               Heartbeat(s, c, reply)
        PROVE  IInv'
    BY <1>0, <1>3, HeartbeatIsGood, ExecuteKeepsGood DEF Heartbeat
  <1>4. ASSUME NEW reply \in Replies, NEW s \in Serial, NEW c \in Client,
               Release(s, c, reply)
        PROVE  IInv'
    BY <1>0, <1>4, ReleaseIsGood, ExecuteKeepsGood DEF Release
  <1>5. ASSUME NEW reply \in Replies, Status(reply)
        PROVE  IInv'
    BY <1>0, <1>5, StatusIsGood, ExecuteKeepsGood DEF Status
  <1>6. CASE Start
    BY <1>0, <1>6 DEF Start, IInv, TypeOK, Good, WithinLimit
  <1>7. CASE Signal
    BY <1>0, <1>7 DEF Signal, IInv, TypeOK, Good, WithinLimit
  <1>8. CASE Crash
    BY <1>0, <1>8, EmptyIsGood DEF Crash, IInv, TypeOK, Good, WithinLimit
  <1>9. CASE Tick
    BY <1>0, <1>9 DEF Tick, IInv, TypeOK, Good, WithinLimit
  <1>10. CASE UNCHANGED vars
    BY <1>0, <1>10 DEF vars, IInv, TypeOK, Good, WithinLimit
  <1> QED
    BY <1>1, <1>2, <1>3, <1>4, <1>5, <1>6, <1>7, <1>8, <1>9, <1>10
       DEF Next, Command

(* The invariant: types, and limits in memory and in the file.             *)
THEOREM Invariance == Spec => []IInv
  <1>1. IInv /\ [Next]_vars => IInv'
    BY NextKeepsGood
  <1> QED
    BY <1>1, InitIsGood, PTL DEF Spec

(* The variables of the server keep their types: what load() rebuilds from *)
(* any file, cut or whole, is a well-formed database.                      *)
THEOREM TypeCorrect == Spec => []TypeOK
  <1>1. IInv => TypeOK
    BY DEF IInv
  <1> QED
    BY <1>1, Invariance, PTL

(* No licence ever has more sessions than it sold, in memory or on file.   *)
THEOREM LimitHolds == Spec => []SeatsWithinLimit
  <1>1. IInv => SeatsWithinLimit
    BY DEF IInv, Good, SeatsWithinLimit
  <1> QED
    BY <1>1, Invariance, PTL

-----------------------------------------------------------------------------
(* Who loses a session.                                                    *)

(* A session of db that is missing in e has timed out.                     *)
LostByTimeout(db, e, now) ==
    \A s \in Serial, c \in Client :
        c \in Sessions(db, s) /\ c \notin Sessions(e, s)
            => now - db.seen[s][c] > Timeout

(* So it is in each of the databases that a command writes.                *)
WritesLose(db, w, now) == \A k \in 1..Len(w) : LostByTimeout(db, w[k], now)

LEMMA NothingLost ==
    ASSUME NEW db, NEW now
    PROVE  LostByTimeout(db, db, now)
  BY DEF LostByTimeout

LEMMA SweepLoses ==
    ASSUME NEW db \in Database, NEW now
    PROVE  LostByTimeout(db, Sweep(db, now), now)
  BY DatabaseParts DEF LostByTimeout, Sessions, Sweep, Expired

LEMMA TouchLoses ==
    ASSUME NEW db, NEW e \in Database, NEW now \in Nat, LostByTimeout(db, e, now),
           NEW s \in Serial, NEW c \in Client
    PROVE  LostByTimeout(db, Touch(e, s, c, now), now)
  <1>1. \A t \in Serial : Sessions(e, t) \subseteq Sessions(Touch(e, s, c, now), t)
    BY DatabaseParts DEF Sessions, Touch, Absent
  <1> QED
    BY <1>1 DEF LostByTimeout

LEMMA CleanupLoses ==
    ASSUME NEW db \in Database, NEW now \in Nat
    PROVE  WritesLose(db, CleanupWrites(db, now), now)
  BY SweepLoses DEF WritesLose, CleanupWrites

LEMMA AppendLoses ==
    ASSUME NEW db, NEW w \in Seq(Database), NEW now, WritesLose(db, w, now),
           NEW e \in Database, LostByTimeout(db, e, now)
    PROVE  WritesLose(db, Append(w, e), now)
  <1>1. Len(Append(w, e)) = Len(w) + 1 /\ Len(w) \in Nat
    OBVIOUS
  <1>2. ASSUME NEW k \in 1..Len(Append(w, e))
        PROVE  LostByTimeout(db, Append(w, e)[k], now)
    <2>1. CASE k = Len(w) + 1
      <3>1. Append(w, e)[k] = e
        BY <2>1
      <3> QED
        BY <3>1
    <2>2. CASE k \in 1..Len(w)
      <3>1. Append(w, e)[k] = w[k]
        BY <2>2
      <3> QED
        BY <2>2, <3>1 DEF WritesLose
    <2> QED
      BY <1>1, <2>1, <2>2
  <1> QED
    BY <1>2 DEF WritesLose

(* VERIFY and HEARTBEAT write what the cleanup leaves, then the same with  *)
(* one client recorded.                                                    *)
LEMMA TouchingLoses ==
    ASSUME NEW db, Good(db), NEW s \in Serial, NEW c \in Client, NEW now \in Nat,
           NEW result \in {VerifyResult(db, s, c, now), HeartbeatResult(db, s, c, now)}
    PROVE  WritesLose(db, result.writes, now)
  <1> DEFINE clean  == Sweep(db, now)
             writes == CleanupWrites(db, now)
  <1>1. /\ db \in Database /\ clean \in Database /\ writes \in Seq(Database)
        /\ WritesLose(db, writes, now)
    BY SweepIsGood, CleanupWritesAreGood, CleanupLoses DEF Good, GoodWrites
  <1>2. Touch(clean, s, c, now) \in Database
    BY <1>1, DatabaseParts DEF Touch, Database
  <1>3. LostByTimeout(db, Touch(clean, s, c, now), now)
    BY <1>1, SweepLoses, TouchLoses
  <1>4. WritesLose(db, Append(writes, Touch(clean, s, c, now)), now)
    BY <1>1, <1>2, <1>3, AppendLoses
  <1> HIDE DEF clean, writes
  <1>5. result.writes \in {writes, Append(writes, Touch(clean, s, c, now))}
    BY DEF VerifyResult, HeartbeatResult, Result, clean, writes
  <1> QED
    BY <1>1, <1>4, <1>5

(* A command of a process that lives on takes sessions from the memory     *)
(* only as its writes do.                                                  *)
LEMMA MemoryAfter ==
    ASSUME NEW w, Len(w) \in Nat, mode = "up", mode' = "up",
           Completes(w) \/ SaveThrows(w) \/ Dies(w)
    PROVE  store' = store \/ \E k \in 1..Len(w) : store' = w[k]
  BY DEF Completes, SaveThrows, Dies, Continue, AfterSaves

LEMMA ExecuteLoses ==
    ASSUME IInv, mode = "up", mode' = "up", NEW result, GoodWrites(result.writes),
           WritesLose(store, result.writes, clock), NEW reply, Execute(result, reply)
    PROVE  LostByTimeout(store, store', clock)
  <1>1. Len(result.writes) \in Nat
    BY DEF GoodWrites
  <1>2. Completes(result.writes) \/ SaveThrows(result.writes) \/ Dies(result.writes)
    BY DEF Execute
  <1>3. store' = store \/ \E k \in 1..Len(result.writes) : store' = result.writes[k]
    BY <1>1, <1>2, MemoryAfter
  <1> QED
    BY <1>3, NothingLost DEF WritesLose

(* A licence that is not known has no session to lose: its limit is 0.     *)
LEMMA UnknownIsEmpty ==
    ASSUME NEW db, Good(db), NEW s \in Serial, ~Known(db, s)
    PROVE  Sessions(db, s) = {}
  <1>1. Cardinality(Sessions(db, s)) = 0
    BY SessionsFinite DEF Good, WithinLimit, Known
  <1> QED
    BY <1>1, SessionsFinite, FS_EmptySet

LEMMA IssueLoses ==
    ASSUME NEW db, Good(db), NEW s \in Serial, ~Known(db, s), NEW limit, NEW now
    PROVE  WritesLose(db, IssueResult(db, s, limit).writes, now)
  <1> DEFINE e == [db EXCEPT !.limit[s] = limit, !.seen[s] = NoSessions]
  <1>1. db \in Database
    BY DEF Good
  <1>2. \A t \in Serial : t # s => Sessions(e, t) = Sessions(db, t)
    BY <1>1, DatabaseParts DEF Sessions
  <1>3. LostByTimeout(db, e, now)
    BY <1>2, UnknownIsEmpty DEF LostByTimeout
  <1> QED
    BY <1>3 DEF IssueResult, Result, WritesLose


(* RELEASE takes nobody else's session.                                    *)
LEMMA ReleaseLoses ==
    ASSUME IInv, mode = "up", mode' = "up", NEW t \in Serial, NEW d \in Client,
           NEW reply, Release(t, d, reply),
           NEW s \in Serial, NEW c \in Client,
           c \in Sessions(store, s), c \notin Sessions(store', s)
    PROVE  s = t /\ c = d
  <1> DEFINE w == ReleaseResult(store, t, d).writes
  <1>1. w \in {<<>>, <<Erase(store, t, d)>>}
    BY DEF ReleaseResult, Result
  <1>2. Completes(w) \/ SaveThrows(w) \/ Dies(w)
    BY DEF Release, Execute
  <1> HIDE DEF w
  <1>3. store' = store \/ \E k \in 1..Len(w) : store' = w[k]
    BY <1>1, <1>2, MemoryAfter
  <1>4. store' \in {store, Erase(store, t, d)}
    BY <1>1, <1>3
  <1>5. store \in Database
    BY DEF IInv, Good
  <1> QED
    BY <1>4, <1>5, DatabaseParts DEF Erase, Sessions

(* While the process lives, only its own release or the timeout takes a    *)
(* session away from a client.                                             *)
THEOREM EvictionsAreFair == Spec => OnlyOwnReleaseOrTimeoutEvicts
  <1>1. ASSUME IInv, [Next]_vars, mode = "up", mode' = "up",
               NEW s \in Serial, NEW c \in Client,
               c \in Sessions(store, s), c \notin Sessions(store', s)
        PROVE  \/ clock - store.seen[s][c] > Timeout
               \/ \E reply \in Replies : Release(s, c, reply)
    <2>0. Good(store) /\ clock \in Nat
      BY <1>1 DEF IInv, TypeOK
    <2>1. CASE LostByTimeout(store, store', clock)
      BY <1>1, <2>1 DEF LostByTimeout
    <2>2. ASSUME NEW reply \in Replies, NEW t \in Serial, NEW limit \in Limits,
                 Issue(t, limit, reply)
          PROVE  LostByTimeout(store, store', clock)
      BY <1>1, <2>0, <2>2, IssueIsGood, IssueLoses, ExecuteLoses DEF Issue
    <2>3. ASSUME NEW reply \in Replies, NEW t \in Serial, NEW d \in Client,
                 Verify(t, d, reply)
          PROVE  LostByTimeout(store, store', clock)
      BY <1>1, <2>0, <2>3, VerifyIsGood, TouchingLoses, ExecuteLoses DEF Verify
    <2>4. ASSUME NEW reply \in Replies, NEW t \in Serial, NEW d \in Client,
                 Heartbeat(t, d, reply)
          PROVE  LostByTimeout(store, store', clock)
      BY <1>1, <2>0, <2>4, HeartbeatIsGood, TouchingLoses, ExecuteLoses DEF Heartbeat
    <2>5. ASSUME NEW reply \in Replies, NEW t \in Serial, NEW d \in Client,
                 Release(t, d, reply)
          PROVE  \E r \in Replies : Release(s, c, r)
      BY <1>1, <2>5, ReleaseLoses
    <2>6. ASSUME NEW reply \in Replies, Status(reply)
          PROVE  LostByTimeout(store, store', clock)
      <3>1. WritesLose(store, StatusResult(store, clock).writes, clock)
        BY <2>0, CleanupLoses DEF Good, StatusResult, Result
      <3> QED
        BY <1>1, <2>0, <2>6, <3>1, StatusIsGood, ExecuteLoses DEF Status
    <2>7. CASE Start \/ Signal \/ Crash
      BY <1>1, <2>7 DEF Start, Signal, Crash
    <2>8. CASE Tick \/ UNCHANGED vars
      BY <1>1, <2>8 DEF Tick, vars
    <2> QED
      BY <1>1, <2>1, <2>2, <2>3, <2>4, <2>5, <2>6, <2>7, <2>8 DEF Next, Command
  <1>2. IInv /\ [Next]_vars =>
          [\A s \in Serial, c \in Client :
            (/\ mode = "up"
             /\ mode' = "up"
             /\ c \in Sessions(store, s)
             /\ c \notin Sessions(store', s))
            => \/ clock - store.seen[s][c] > Timeout
               \/ \E reply \in Replies : Release(s, c, reply)]_vars
    BY <1>1
  <1> QED
    BY <1>2, Invariance, PTL DEF Spec, OnlyOwnReleaseOrTimeoutEvicts

-----------------------------------------------------------------------------
(* The server keeps its promise when saves succeed.                        *)
(*                                                                         *)
(* The argument: with no save fault the file is the memory whenever the    *)
(* server runs (SavedIInv), so that the promised database is the file all  *)
(* along.  A command that dies half-way leaves one of its writes in it,    *)
(* and each of them is a step of LicenseSeats by itself: what a cleanup    *)
(* leaves is Expire, the database after it is Hear, Leave or Sell.         *)

InSync == mode # "down" => store = disk

SavedIInv == IInv /\ InSync

(* However a command ends, the file is what it was or one of its writes,   *)
(* and the memory of a server that goes on is the same.                    *)
LEMMA ExecuteSaves ==
    ASSUME Faults = {}, InSync, NEW result, Len(result.writes) \in Nat, NEW reply,
           Execute(result, reply)
    PROVE  /\ InSync'
           /\ disk' = disk \/ \E k \in 1..Len(result.writes) : disk' = result.writes[k]
  <1> DEFINE w == result.writes
  <1> HIDE DEF w
  <1>1. store = disk /\ Len(w) \in Nat
    BY DEF InSync, Execute, w
  <1>2. \A k \in 0..Len(w) : FileAfter(w, k) = {AfterSaves(w, k)}
    BY <1>1 DEF FileAfter, AfterSaves, Written
  <1>3. CASE Completes(w)
    <2>1. disk' = AfterSaves(w, Len(w))
      BY <1>1, <1>2, <1>3 DEF Completes
    <2>2. InSync'
      BY <1>3, <2>1 DEF Completes, Continue, InSync
    <2> QED
      BY <1>1, <2>1, <2>2 DEF AfterSaves, w
  <1>4. CASE Dies(w)
    <2>1. PICK k \in 0..Len(w) : disk' \in FileAfter(w, k)
      BY <1>4 DEF Dies
    <2>2. disk' = AfterSaves(w, k)
      BY <1>2, <2>1
    <2> QED
      BY <1>1, <1>4, <2>2 DEF AfterSaves, Dies, InSync, w
  <1> QED
    BY <1>3, <1>4 DEF Execute, SaveThrows, w

(* The promise as a step of the file.                                      *)
Promised(db, e, now) ==
    \/ e = db
    \/ \E s \in Serial, n \in Limits :
          db.limit[s] = 0 /\ e.limit = [db.limit EXCEPT ![s] = n] /\ e.seen = db.seen
    \/ \E s \in Serial, c \in Client :
          /\ \/ c \in Sessions(Sweep(db, now), s)
             \/ Cardinality(Sessions(Sweep(db, now), s)) < db.limit[s]
          /\ e.limit = db.limit
          /\ e.seen = [Sweep(db, now).seen EXCEPT ![s][c] = now]
    \/ \E s \in Serial, c \in Client :
          e.limit = db.limit /\ e.seen = [db.seen EXCEPT ![s][c] = Absent]
    \/ e.limit = db.limit /\ e.seen = Sweep(db, now).seen

WritesPromised(db, w, now) == \A k \in 1..Len(w) : Promised(db, w[k], now)

(* Who is present is who a cleanup leaves.                                 *)
LEMMA PresentAreSwept ==
    ASSUME NEW db \in Database, NEW now \in Nat, NEW s \in Serial
    PROVE  /\ Sessions(Sweep(db, now), s) =
                 {c \in Client : db.seen[s][c] # Absent /\ now - db.seen[s][c] <= Timeout}
           /\ Sweep(db, now).limit = db.limit
  <1>1. Sweep(db, now).limit = db.limit
    BY DatabaseParts DEF Sweep
  <1>2. ASSUME NEW c \in Client
        PROVE  Sweep(db, now).seen[s][c] # Absent <=>
                  db.seen[s][c] # Absent /\ now - db.seen[s][c] <= Timeout
    <2>1. db.seen[s][c] \in Nat \cup {Absent}
      BY DatabaseParts
    <2>2. Sweep(db, now).seen[s][c] =
            IF Expired(db.seen[s][c], now) THEN Absent ELSE db.seen[s][c]
      BY DatabaseParts DEF Sweep
    <2> QED
      BY <2>1, <2>2 DEF Expired, Absent
  <1> QED
    BY <1>1, <1>2 DEF Sessions

LEMMA CleanupPromised ==
    ASSUME NEW db \in Database, NEW now \in Nat
    PROVE  WritesPromised(db, CleanupWrites(db, now), now)
  <1>1. Promised(db, Sweep(db, now), now)
    <2>1. Sweep(db, now).limit = db.limit
      BY DatabaseParts DEF Sweep
    <2> QED
      BY <2>1 DEF Promised
  <1> QED
    BY <1>1 DEF WritesPromised, CleanupWrites

LEMMA AppendPromised ==
    ASSUME NEW db, NEW w \in Seq(Database), NEW now, WritesPromised(db, w, now),
           NEW e \in Database, Promised(db, e, now)
    PROVE  WritesPromised(db, Append(w, e), now)
  <1>1. Len(Append(w, e)) = Len(w) + 1 /\ Len(w) \in Nat
    OBVIOUS
  <1>2. ASSUME NEW k \in 1..Len(Append(w, e))
        PROVE  Promised(db, Append(w, e)[k], now)
    <2>1. CASE k = Len(w) + 1
      <3>1. Append(w, e)[k] = e
        BY <2>1
      <3> QED
        BY <3>1
    <2>2. CASE k \in 1..Len(w)
      <3>1. Append(w, e)[k] = w[k]
        BY <2>2
      <3> QED
        BY <2>2, <3>1 DEF WritesPromised
    <2> QED
      BY <1>1, <2>1, <2>2
  <1> QED
    BY <1>2 DEF WritesPromised

(* VERIFY hears of a client that is present or finds a seat free, and      *)
(* HEARTBEAT of one that is present.                                       *)
LEMMA TouchingPromised ==
    ASSUME NEW db, Good(db), NEW s \in Serial, NEW c \in Client, NEW now \in Nat,
           NEW result \in {VerifyResult(db, s, c, now), HeartbeatResult(db, s, c, now)}
    PROVE  WritesPromised(db, result.writes, now)
  <1> DEFINE clean  == Sweep(db, now)
             writes == CleanupWrites(db, now)
             room == c \in Sessions(clean, s) \/ ~Full(clean, s)
  <1>1. /\ db \in Database /\ clean \in Database /\ writes \in Seq(Database)
        /\ WritesPromised(db, writes, now)
    BY SweepIsGood, CleanupWritesAreGood, CleanupPromised DEF Good, GoodWrites
  <1>2. Touch(clean, s, c, now) \in Database
    BY <1>1, DatabaseParts DEF Touch, Database
  <1>3. ASSUME room
        PROVE  Promised(db, Touch(clean, s, c, now), now)
    <2>1. clean.limit = db.limit /\ db.limit[s] \in Nat
      BY <1>1, PresentAreSwept, DatabaseParts
    <2>2. /\ Touch(clean, s, c, now).limit = clean.limit
          /\ Touch(clean, s, c, now).seen = [clean.seen EXCEPT ![s][c] = now]
      <3> HIDE DEF clean
      <3> QED
        BY <1>1, DatabaseParts DEF Touch
    <2>3. c \in Sessions(clean, s) \/ Cardinality(Sessions(clean, s)) < db.limit[s]
      <3> HIDE DEF clean
      <3> QED
        BY <1>3, <2>1, SessionsFinite DEF Full
    <2> QED
      BY <2>1, <2>2, <2>3 DEF Promised
  <1>4. room => WritesPromised(db, Append(writes, Touch(clean, s, c, now)), now)
    BY <1>1, <1>2, <1>3, AppendPromised
  <1>5. \/ result.writes = writes
        \/ room /\ result.writes = Append(writes, Touch(clean, s, c, now))
    BY DEF VerifyResult, HeartbeatResult, Result
  <1> HIDE DEF clean, writes, room
  <1> QED
    BY <1>1, <1>4, <1>5

(* ISSUE sells a licence nobody has a session of.                          *)
LEMMA IssuePromised ==
    ASSUME NEW db, Good(db), NEW s \in Serial, ~Known(db, s), NEW limit \in Limits, NEW now
    PROVE  WritesPromised(db, IssueResult(db, s, limit).writes, now)
  <1> DEFINE e == [db EXCEPT !.limit[s] = limit, !.seen[s] = NoSessions]
  <1>1. db \in Database
    BY DEF Good
  <1>2. \A c \in Client : db.seen[s][c] = Absent
    BY UnknownIsEmpty DEF Sessions
  <1>3. db.seen[s] = NoSessions
    BY <1>1, <1>2, DatabaseParts DEF NoSessions
  <1>4. e.limit = [db.limit EXCEPT ![s] = limit] /\ e.seen = [db.seen EXCEPT ![s] = NoSessions]
    BY <1>1, DatabaseParts
  <1>5. e.seen = db.seen
    BY <1>1, <1>3, <1>4, DatabaseParts
  <1>6. Promised(db, e, now)
    BY <1>4, <1>5 DEF Promised, Known
  <1> QED
    BY <1>6 DEF IssueResult, Result, WritesPromised

LEMMA ReleasePromised ==
    ASSUME NEW db \in Database, NEW s \in Serial, NEW c \in Client, NEW now
    PROVE  WritesPromised(db, ReleaseResult(db, s, c).writes, now)
  <1>1. /\ Erase(db, s, c).limit = db.limit
        /\ Erase(db, s, c).seen = [db.seen EXCEPT ![s][c] = Absent]
    BY DatabaseParts DEF Erase
  <1>2. Promised(db, Erase(db, s, c), now)
    BY <1>1 DEF Promised
  <1> QED
    BY <1>2 DEF ReleaseResult, Result, WritesPromised

(* A command moves the promised database by one step of the promise.       *)
LEMMA CommandPromised ==
    ASSUME Faults = {}, SavedIInv, Command
    PROVE  InSync' /\ Promised(disk, disk', clock) /\ clock' = clock
  <1>1. Good(store) /\ clock \in Nat /\ InSync
    BY DEF SavedIInv, IInv, TypeOK
  <1>2. ASSUME NEW result, GoodWrites(result.writes),
               WritesPromised(store, result.writes, clock), NEW reply, Execute(result, reply)
        PROVE  InSync' /\ Promised(disk, disk', clock) /\ clock' = clock
    <2>1. Len(result.writes) \in Nat
      BY <1>2 DEF GoodWrites
    <2>2. store = disk /\ clock' = clock
      BY <1>1, <1>2 DEF Execute, InSync
    <2>3. CASE disk' = disk
      BY <1>1, <1>2, <2>1, <2>2, <2>3, ExecuteSaves DEF Promised
    <2> QED
      BY <1>1, <1>2, <2>1, <2>2, <2>3, ExecuteSaves DEF WritesPromised
  <1>3. ASSUME NEW reply \in Replies, NEW s \in Serial, NEW limit \in Limits,
               Issue(s, limit, reply)
        PROVE  InSync' /\ Promised(disk, disk', clock) /\ clock' = clock
    BY <1>1, <1>2, <1>3, IssueIsGood, IssuePromised DEF Issue
  <1>4. ASSUME NEW reply \in Replies, NEW s \in Serial, NEW c \in Client,
               Verify(s, c, reply)
        PROVE  InSync' /\ Promised(disk, disk', clock) /\ clock' = clock
    BY <1>1, <1>2, <1>4, VerifyIsGood, TouchingPromised DEF Verify
  <1>5. ASSUME NEW reply \in Replies, NEW s \in Serial, NEW c \in Client,
               Heartbeat(s, c, reply)
        PROVE  InSync' /\ Promised(disk, disk', clock) /\ clock' = clock
    BY <1>1, <1>2, <1>5, HeartbeatIsGood, TouchingPromised DEF Heartbeat
  <1>6. ASSUME NEW reply \in Replies, NEW s \in Serial, NEW c \in Client,
               Release(s, c, reply)
        PROVE  InSync' /\ Promised(disk, disk', clock) /\ clock' = clock
    BY <1>1, <1>2, <1>6, ReleaseIsGood, ReleasePromised DEF Release, Good
  <1>7. ASSUME NEW reply \in Replies, Status(reply)
        PROVE  InSync' /\ Promised(disk, disk', clock) /\ clock' = clock
    <2>1. WritesPromised(store, StatusResult(store, clock).writes, clock)
      BY <1>1, CleanupPromised DEF StatusResult, Result, Good
    <2> QED
      BY <1>1, <1>2, <1>7, <2>1, StatusIsGood DEF Status
  <1> QED
    BY <1>3, <1>4, <1>5, <1>6, <1>7 DEF Command

(* Both specifications count alike.                                        *)
LEMMA SameCardinality == \A S : Promise!Cardinality(S) = Cardinality(S)
  BY DEF Promise!Cardinality, Cardinality

(* What is promised of databases is a step of LicenseSeats.                *)
LEMMA PromisedIsSeatsStep ==
    ASSUME live = disk, live' = disk', disk \in Database, clock \in Nat,
           clock' = clock, Promised(disk, disk', clock)
    PROVE  [Promise!Next]_Promise!vars
  <1>1. \A s \in Serial : Promise!Present(s) = Sessions(Sweep(disk, clock), s)
    BY PresentAreSwept DEF Promise!Present
  <1>2. Promise!OnlyPresent = Sweep(disk, clock).seen
    <2>1. Promise!OnlyPresent =
            [s \in Serial |-> [c \in Client |->
                IF disk.seen[s][c] # Absent /\ clock - disk.seen[s][c] <= Timeout
                THEN disk.seen[s][c] ELSE Absent]]
      BY DEF Promise!OnlyPresent, Promise!Present
    <2>2. Sweep(disk, clock).seen =
            [s \in Serial |-> [c \in Client |->
                IF Expired(disk.seen[s][c], clock) THEN Absent ELSE disk.seen[s][c]]]
      BY DatabaseParts DEF Sweep
    <2>3. ASSUME NEW s \in Serial, NEW c \in Client
          PROVE  (IF disk.seen[s][c] # Absent /\ clock - disk.seen[s][c] <= Timeout
                  THEN disk.seen[s][c] ELSE Absent)
                 = IF Expired(disk.seen[s][c], clock) THEN Absent ELSE disk.seen[s][c]
      <3>1. disk.seen[s][c] \in Nat \cup {Absent}
        BY DatabaseParts
      <3> QED
        BY <3>1 DEF Expired, Absent
    <2> QED
      BY <2>1, <2>2, <2>3
  <1>3. CASE disk' = disk
    BY <1>3 DEF Promise!vars
  <1>4. ASSUME NEW s \in Serial, NEW n \in Limits, disk.limit[s] = 0,
               disk'.limit = [disk.limit EXCEPT ![s] = n], disk'.seen = disk.seen
        PROVE  Promise!Next
    <2>1. Promise!Sell(s, n)
      BY <1>4 DEF Promise!Sell
    <2> QED
      BY <2>1 DEF Promise!Next
  <1>5. ASSUME NEW s \in Serial, NEW c \in Client,
               \/ c \in Sessions(Sweep(disk, clock), s)
               \/ Cardinality(Sessions(Sweep(disk, clock), s)) < disk.limit[s],
               disk'.limit = disk.limit,
               disk'.seen = [Sweep(disk, clock).seen EXCEPT ![s][c] = clock]
        PROVE  Promise!Next
    <2>1. \/ c \in Promise!Present(s)
          \/ Promise!Cardinality(Promise!Present(s)) < live.limit[s]
      BY <1>1, <1>5, SameCardinality
    <2>2. /\ live'.seen = [Promise!OnlyPresent EXCEPT ![s][c] = clock]
          /\ live'.limit = live.limit
      BY <1>2, <1>5
    <2>3. Promise!Hear(s, c)
      BY <2>1, <2>2 DEF Promise!Hear
    <2> QED
      BY <2>3 DEF Promise!Next
  <1>6. ASSUME NEW s \in Serial, NEW c \in Client, disk'.limit = disk.limit,
               disk'.seen = [disk.seen EXCEPT ![s][c] = Absent]
        PROVE  Promise!Next
    <2>1. Promise!Leave(s, c)
      BY <1>6 DEF Promise!Leave
    <2> QED
      BY <2>1 DEF Promise!Next
  <1>7. ASSUME disk'.limit = disk.limit, disk'.seen = Sweep(disk, clock).seen
        PROVE  Promise!Next
    <2>1. Promise!Expire
      BY <1>2, <1>7 DEF Promise!Expire
    <2> QED
      BY <2>1 DEF Promise!Next
  <1> QED
    BY <1>3, <1>4, <1>5, <1>6, <1>7 DEF Promised

(* With saves that succeed the server, with its crashes and restarts,      *)
(* implements LicenseSeats: no death between two saves shows.              *)
THEOREM PromiseKept ==
    ASSUME Faults = {}
    PROVE  Spec => ImplementsSeats
  <1>1. Init => SavedIInv /\ Promise!Init
    BY InitIsGood DEF SavedIInv, InSync, Init, Promise!Init, live, EmptyDatabase, NoSessions
  <1>2. ASSUME SavedIInv, [Next]_vars
        PROVE  SavedIInv' /\ [Promise!Next]_Promise!vars
    <2>1. IInv'
      BY <1>2, NextKeepsGood DEF SavedIInv
    <2>2. disk \in Database /\ clock \in Nat /\ live = disk
      BY <1>2 DEF SavedIInv, IInv, Good, TypeOK, InSync, live
    <2>3. InSync' => live' = disk'
      BY DEF InSync, live
    <2>4. CASE Command
      BY <1>2, <2>1, <2>2, <2>3, <2>4, CommandPromised, PromisedIsSeatsStep DEF SavedIInv
    <2>5. CASE Start \/ Signal \/ Crash \/ UNCHANGED vars
      <3>1. InSync' /\ UNCHANGED <<disk, clock>>
        BY <1>2, <2>5 DEF SavedIInv, InSync, Start, Signal, Crash, vars
      <3> QED
        BY <2>1, <2>2, <2>3, <3>1 DEF SavedIInv, Promise!vars
    <2>6. CASE Tick
      <3>1. InSync' /\ disk' = disk
        BY <1>2, <2>6 DEF SavedIInv, InSync, Tick
      <3>2. Promise!Tick
        BY <2>2, <2>3, <2>6, <3>1 DEF Tick, Promise!Tick
      <3> QED
        BY <2>1, <3>1, <3>2 DEF SavedIInv, Promise!Next
    <2> QED
      BY <1>2, <2>4, <2>5, <2>6 DEF Next
  <1> QED
    BY <1>1, <1>2, PTL DEF Spec, ImplementsSeats, Promise!Spec

=============================================================================
