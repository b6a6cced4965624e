---------------------------- MODULE LicenseServer ---------------------------
(***************************************************************************)
(* The licence server process of license_server.cpp: one thread that       *)
(* accepts a connection, runs one command on its LicenseStore, writes the  *)
(* database file and replies (run_server), together with what can happen   *)
(* to it: the process dies at any moment, the operating system refuses or  *)
(* cuts a write of the file, an operator stops and restarts it, and the    *)
(* wall clock advances.                                                    *)
(*                                                                         *)
(* A command is one action.  The moments inside it that the outside can    *)
(* see are its saves, so the ways a command can end are described by how   *)
(* many of its saves were completed (Execute).                             *)
(***************************************************************************)
EXTENDS LicenseStore

CONSTANTS Limits,     \* the limits that ISSUE commands ask for
          Faults,     \* what saves may suffer: a subset of SaveFaults
          MaxClock    \* bound: the clock stops there

(***************************************************************************)
(* "open":  the file cannot be opened, and save() throws;                  *)
(* "short": the device is full, the stream fails in silence and the file   *)
(*          holds a prefix of what was written;                            *)
(* "torn":  the process or the machine dies while the file is rewritten.   *)
(***************************************************************************)
SaveFaults == {"open", "short", "torn"}

Epoch == Timeout + 1   \* the first second: Ancient is out of date already

ASSUME ServerAssumption ==
    /\ Limits \subseteq 1..MaxLimit
    /\ Faults \subseteq SaveFaults
    /\ MaxClock \in Nat

VARIABLES store,   \* licenses_ of the running process
          disk,    \* what load() would read from the database file
          mode,    \* "up", "stopping" (g_stop is set) or "down"
          clock    \* unix_now()

vars == <<store, disk, mode, clock>>

NoReply == "NONE"      \* the server died before it answered

Replies == Verdicts \cup {NoReply}

TypeOK ==
    /\ store \in Database
    /\ disk \in Database
    /\ mode \in {"up", "stopping", "down"}
    /\ clock \in Nat

Init ==
    /\ store = EmptyDatabase
    /\ disk = EmptyDatabase
    /\ mode = "down"
    /\ clock = Epoch

-----------------------------------------------------------------------------
(* How a command ends, given its result.                                   *)

AfterSaves(w, k) == IF k = 0 THEN store ELSE w[k]

Written(db) == {db} \cup (IF "short" \in Faults THEN FilePrefixes(db) ELSE {})

Mutant_FileAfter(w, k) == IF k < 2 THEN {disk} ELSE Written(w[k])

FileAfter(w, k) == IF k = 0 THEN {disk} ELSE Written(w[k])

(* The loop of run_server ends here once g_stop is set; memory is gone.    *)
Continue(db) ==
    IF mode = "stopping" THEN store' = EmptyDatabase /\ mode' = "down"
                         ELSE store' = db /\ mode' = mode

Completes(w) ==
    /\ Continue(AfterSaves(w, Len(w)))
    /\ disk' \in FileAfter(w, Len(w))

(* Save number k throws: the map has been changed, the file has not, and   *)
(* handle_command's exception becomes an ERR SERVER_ERROR reply.           *)
SaveThrows(w) ==
    /\ "open" \in Faults
    /\ \E k \in 1..Len(w) :
        /\ Continue(w[k])
        /\ disk' \in FileAfter(w, k - 1)

Dies(w) ==
    /\ store' = EmptyDatabase
    /\ mode' = "down"
    /\ \E k \in 0..Len(w) :
        \/ disk' \in FileAfter(w, k)
        \/ /\ "torn" \in Faults
           /\ k < Len(w)
           /\ disk' \in FilePrefixes(w[k + 1])

Mutant_Execute(result, reply) ==
    /\ mode # "down"
    /\ \/ reply = result.verdict /\ Completes(result.writes)
       \/ reply = result.verdict /\ SaveThrows(result.writes)
       \/ reply = NoReply /\ Dies(result.writes)
    /\ UNCHANGED clock

Execute(result, reply) ==
    /\ mode # "down"
    /\ \/ reply = result.verdict /\ Completes(result.writes)
       \/ reply = "SERVER_ERROR" /\ SaveThrows(result.writes)
       \/ reply = NoReply /\ Dies(result.writes)
    /\ UNCHANGED clock

-----------------------------------------------------------------------------
(* The commands (handle_command).  A request that is malformed, that has   *)
(* an unsafe token or an invalid licence type, HELP, and an ISSUE that     *)
(* finds no free serial change nothing: they are stuttering steps here.    *)

Issue(s, limit, reply) ==
    ~Known(store, s) /\ Execute(IssueResult(store, s, limit), reply)

Verify(s, c, reply) == Execute(VerifyResult(store, s, c, clock), reply)

Heartbeat(s, c, reply) == Execute(HeartbeatResult(store, s, c, clock), reply)

Release(s, c, reply) == Execute(ReleaseResult(store, s, c), reply)

Status(reply) == Execute(StatusResult(store, clock), reply)

Command ==
    \E reply \in Replies :
        \/ \E s \in Serial, limit \in Limits : Issue(s, limit, reply)
        \/ \E s \in Serial, c \in Client :
            \/ Verify(s, c, reply)
            \/ Heartbeat(s, c, reply)
            \/ Release(s, c, reply)
        \/ Status(reply)

-----------------------------------------------------------------------------
(* The life of the process and the clock.                                  *)

Start ==
    /\ mode = "down"
    /\ store' = disk
    /\ mode' = "up"
    /\ UNCHANGED <<disk, clock>>

(* SIGINT or SIGTERM.  The accept call is restarted after the handler, so  *)
(* the flag is read when the next connection has been served.              *)
Signal ==
    /\ mode = "up"
    /\ mode' = "stopping"
    /\ UNCHANGED <<store, disk, clock>>

(* The process dies while it waits for a connection or for a request.      *)
Crash ==
    /\ mode # "down"
    /\ mode' = "down"
    /\ store' = EmptyDatabase
    /\ UNCHANGED <<disk, clock>>

Tick ==
    /\ clock < MaxClock
    /\ clock' = clock + 1
    /\ UNCHANGED <<store, disk, mode>>

Next == Command \/ Start \/ Signal \/ Crash \/ Tick

Spec == Init /\ [][Next]_vars

-----------------------------------------------------------------------------
(* Properties.                                                             *)

WithinLimit(db) ==
    \A s \in Serial : Cardinality(Sessions(db, s)) <= db.limit[s]

(* No licence ever has more sessions than it sold, in memory or in the     *)
(* file, whatever saves fail, are cut or are interrupted, and although     *)
(* load() takes what it reads without counting: verify() is the only       *)
(* place where the limit is compared, once, with the sessions in memory.   *)
SeatsWithinLimit == WithinLimit(store) /\ WithinLimit(disk)

(* While the process lives, a session leaves the memory only when its own  *)
(* client released it or when more than Timeout seconds have passed since  *)
(* its last VERIFY or HEARTBEAT: no command about another client, another  *)
(* licence or a refused one costs it its seat.                             *)
OnlyOwnReleaseOrTimeoutEvicts ==
    [][\A s \in Serial, c \in Client :
        (/\ mode = "up"
         /\ mode' = "up"
         /\ c \in Sessions(store, s)
         /\ c \notin Sessions(store', s))
        => \/ clock - store.seen[s][c] > Timeout
           \/ \E reply \in Replies : Release(s, c, reply)]_vars

(* The server promises what LicenseSeats says: with saves that succeed, a  *)
(* server that dies between saves and is started again is a server that    *)
(* never stopped, only idle for a while.  The promise is about the memory  *)
(* of a running server and the file of a stopped one.                      *)
live == IF mode = "down" THEN disk ELSE store

Promise == INSTANCE LicenseSeats WITH limit <- live.limit, seen <- live.seen

ImplementsSeats == Promise!Spec
=============================================================================
