---------------------------- MODULE LicenseStore ----------------------------
(***************************************************************************)
(* The data of class LicenseStore (license_server.cpp): the map of         *)
(* licences, each with its map of sessions, and what each command of the   *)
(* protocol computes from it.  The module has no variables: it says, for a *)
(* database and the current second, which verdict a command returns and    *)
(* which databases it writes to the file on the way.                       *)
(*                                                                         *)
(* Every command mutates licenses_ and calls save() right after, so the    *)
(* sequence of databases written also determines what the memory holds:    *)
(* the last one written or, when nothing was written, what it held before. *)
(***************************************************************************)
EXTENDS Integers, Sequences, FiniteSets

CONSTANTS Serial,     \* serial numbers, as ranks in the order of the std::map
          Client,     \* client identifiers, as ranks in the order of the std::map
          Timeout     \* Options::timeout_seconds

MaxLimit == 1000      \* the largest value parse_license_limit accepts

ASSUME StoreAssumption ==
    /\ Serial \subseteq Nat
    /\ Client \subseteq Nat
    /\ IsFiniteSet(Client)
    /\ Timeout \in Nat \ {0}

Absent == -1    \* the client has no entry in License::sessions
Ancient == 0    \* a last_seen whose digits were cut off: older than any timeout

(***************************************************************************)
(* limit[s] = 0: the serial is not in licenses_.  seen[s][c]: last_seen.   *)
(***************************************************************************)
Database == [limit : [Serial -> 0..MaxLimit],
             seen  : [Serial -> [Client -> Nat \cup {Absent}]]]

NoSessions == [c \in Client |-> Absent]

EmptyDatabase == [limit |-> [s \in Serial |-> 0],
                  seen  |-> [s \in Serial |-> NoSessions]]

Known(db, s) == db.limit[s] # 0

Sessions(db, s) == {c \in Client : db.seen[s][c] # Absent}

Mutant_Full(db, s) == Cardinality(Sessions(db, s)) > db.limit[s]

Full(db, s) == Cardinality(Sessions(db, s)) >= db.limit[s]

-----------------------------------------------------------------------------
(* The mutations of the map.                                               *)

Touch(db, s, c, now) == [db EXCEPT !.seen[s][c] = now]

Erase(db, s, c) == [db EXCEPT !.seen[s][c] = Absent]

Mutant_Expired(t, now) == t # Absent /\ now - t >= Timeout

Expired(t, now) == t # Absent /\ now - t > Timeout

Sweep(db, now) ==
    [db EXCEPT !.seen =
        [s \in Serial |-> [c \in Client |->
            IF Expired(db.seen[s][c], now) THEN Absent ELSE db.seen[s][c]]]]

(* cleanup() saves only when it erased something.                          *)
CleanupWrites(db, now) ==
    IF Sweep(db, now) = db THEN <<>> ELSE <<Sweep(db, now)>>

-----------------------------------------------------------------------------
(* What load() rebuilds from a file that save() did not write to its end:  *)
(* one LICENSE line per serial in map order, each followed by the SESSION  *)
(* lines of that licence in map order.  A line cut before its last field   *)
(* has too few fields and is skipped; a SESSION line cut inside its last   *)
(* field is read with a last_seen far in the past.                         *)

CutBefore(db, s) ==
    [limit |-> [t \in Serial |-> IF t < s THEN db.limit[t] ELSE 0],
     seen  |-> [t \in Serial |-> IF t < s THEN db.seen[t] ELSE NoSessions]]

SessionsCutAt(sessions, c, x) ==
    [d \in Client |-> IF d < c THEN sessions[d]
                      ELSE IF d = c /\ sessions[d] # Absent THEN x ELSE Absent]

CutAtSession(db, s, c, x) ==
    [limit |-> [t \in Serial |-> IF t <= s THEN db.limit[t] ELSE 0],
     seen  |-> [t \in Serial |-> IF t < s THEN db.seen[t]
                                 ELSE IF t = s THEN SessionsCutAt(db.seen[s], c, x)
                                 ELSE NoSessions]]

FilePrefixes(db) ==
    {CutBefore(db, s) : s \in Serial} \cup
    {CutAtSession(db, s, c, x) :
        s \in Serial, c \in Client, x \in {Absent, Ancient}}

-----------------------------------------------------------------------------
(* The commands.  `writes' is the sequence of databases passed to save().  *)

Result(verdict, writes) == [verdict |-> verdict, writes |-> writes]

IssueResult(db, s, limit) ==
    Result("SERIAL", <<[db EXCEPT !.limit[s] = limit, !.seen[s] = NoSessions]>>)

Mutant_VerifyResult(db, s, c, now) ==
    LET clean  == Sweep(db, now)
        writes == CleanupWrites(db, now)
    IN  CASE ~Known(db, s) -> Result("UNKNOWN_SERIAL", writes)
          [] Known(db, s) /\ c \notin Sessions(db, s) /\ Full(db, s) ->
                Result("REJECTED", writes)
          [] OTHER ->
                Result("GRANTED", Append(writes, Touch(clean, s, c, now)))

VerifyResult(db, s, c, now) ==
    LET clean  == Sweep(db, now)
        writes == CleanupWrites(db, now)
    IN  CASE ~Known(clean, s) -> Result("UNKNOWN_SERIAL", writes)
          [] /\ Known(clean, s)
             /\ c \notin Sessions(clean, s)
             /\ Full(clean, s) -> Result("REJECTED", writes)
          [] OTHER -> Result("GRANTED", Append(writes, Touch(clean, s, c, now)))

Mutant_HeartbeatResult(db, s, c, now) ==
    LET clean  == Sweep(db, now)
        writes == CleanupWrites(db, now)
    IN  CASE ~Known(clean, s) -> Result("UNKNOWN_SERIAL", writes)
          [] Known(clean, s) /\ c \notin Sessions(clean, s) ->
                Result("UNKNOWN_SESSION", writes)
          [] OTHER -> Result("ALIVE", writes)

HeartbeatResult(db, s, c, now) ==
    LET clean  == Sweep(db, now)
        writes == CleanupWrites(db, now)
    IN  CASE ~Known(clean, s) -> Result("UNKNOWN_SERIAL", writes)
          [] Known(clean, s) /\ c \notin Sessions(clean, s) ->
                Result("UNKNOWN_SESSION", writes)
          [] OTHER -> Result("ALIVE", Append(writes, Touch(clean, s, c, now)))

(* release() does not call cleanup(), and saves even if nothing was erased. *)
ReleaseResult(db, s, c) ==
    IF Known(db, s) THEN Result("RELEASED", <<Erase(db, s, c)>>)
                    ELSE Result("UNKNOWN_SERIAL", <<>>)

StatusResult(db, now) == Result("STATUS", CleanupWrites(db, now))

Verdicts == {"SERIAL", "GRANTED", "ALIVE", "RELEASED", "STATUS", "REJECTED",
             "UNKNOWN_SERIAL", "UNKNOWN_SESSION", "SERVER_ERROR"}
=============================================================================
