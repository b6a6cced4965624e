---------------------------- MODULE LicenseSystem ---------------------------
(***************************************************************************)
(* The licence server with the processes of software_a.cpp that use it.    *)
(*                                                                         *)
(* A process of `software_a run' sends VERIFY, and if the reply is OK      *)
(* GRANTED it works for its hold time, sends a HEARTBEAT now and then and  *)
(* a RELEASE at the end.  Each command has a TCP connection of its own and *)
(* the process waits for the reply with no timeout.  The connections that  *)
(* the server has not accepted yet wait in its backlog, in order.  When    *)
(* the server is not there, or dies before it replies, the exchange ends   *)
(* as ERR NETWORK (or as an empty reply, which is treated the same way).   *)
(***************************************************************************)
EXTENDS LicenseServer

CONSTANTS Proc,       \* processes of software_a run
          SerialOf,   \* the --serial of each process
          IdOf        \* the --client-id of each process

ASSUME SystemAssumption ==
    /\ SerialOf \in [Proc -> Serial]
    /\ IdOf \in [Proc -> Client]

VARIABLES pc,        \* where each process is
          backlog,   \* connections that wait for accept(), oldest first
          stalled,   \* the server reads from a peer that sends nothing
          heard,     \* history: when the server last replied GRANTED or ALIVE
          told       \* history: the last reply a process has got

clientVars == <<pc, heard, told>>
sysVars == <<vars, clientVars, backlog, stalled>>

(***************************************************************************)
(* "off"        not started         "running"  between two commands        *)
(* "verifying"  VERIFY sent         "beating"  HEARTBEAT sent, and working *)
(* "rejected"   told ERR REJECTED   "failed"   any other reply to VERIFY   *)
(* "releasing"  RELEASE sent        "released" told OK RELEASED            *)
(* "exited"     ended otherwise     "killed"   died                        *)
(***************************************************************************)
Waiting == {"verifying", "beating", "releasing"}
States == Waiting \cup {"off", "running", "rejected", "failed", "released",
                        "exited", "killed"}

Request == [proc : Proc, command : {"VERIFY", "HEARTBEAT", "RELEASE"}]

SysTypeOK ==
    /\ TypeOK
    /\ pc \in [Proc -> States]
    /\ backlog \in Seq(Request)
    /\ stalled \in BOOLEAN
    /\ heard \in [Proc -> Nat]
    /\ told \in [Proc -> Replies]

SysInit ==
    /\ Init
    /\ pc = [p \in Proc |-> "off"]
    /\ backlog = <<>>
    /\ stalled = FALSE
    /\ heard = [p \in Proc |-> 0]
    /\ told = [p \in Proc |-> NoReply]

Working(p) == pc[p] \in {"running", "beating"}

-----------------------------------------------------------------------------
(* What a process does with a reply (run_client).                          *)

Mutant_AfterReply(state, reply) ==
    CASE state = "verifying" /\ reply = "GRANTED"   -> "running"
      [] state = "verifying" /\ reply = "REJECTED"  -> "rejected"
      [] state = "verifying"
         /\ reply \notin {"GRANTED", "REJECTED"}    -> "failed"
      [] state = "beating" /\ reply # NoReply       -> "running"
      [] state = "releasing" /\ reply = "RELEASED"  -> "released"
      [] state = "releasing" /\ reply # "RELEASED"  -> "exited"
      [] OTHER                                      -> state

AfterReply(state, reply) ==
    CASE state = "verifying" /\ reply = "GRANTED"   -> "running"
      [] state = "verifying" /\ reply = "REJECTED"  -> "rejected"
      [] state = "verifying"
         /\ reply \notin {"GRANTED", "REJECTED"}    -> "failed"
      [] state = "beating"                          -> "running"
      [] state = "releasing" /\ reply = "RELEASED"  -> "released"
      [] state = "releasing" /\ reply # "RELEASED"  -> "exited"
      [] OTHER                                      -> state

Reset(p) == AfterReply(pc[p], NoReply)

(* connect_tcp: the connection is queued, or it is refused at once.        *)
Exchange(p, command, state) ==
    /\ IF mode = "down"
       THEN /\ pc' = [pc EXCEPT ![p] = AfterReply(state, NoReply)]
            /\ told' = [told EXCEPT ![p] = NoReply]
            /\ UNCHANGED backlog
       ELSE /\ pc' = [pc EXCEPT ![p] = state]
            /\ backlog' = Append(backlog, [proc |-> p, command |-> command])
            /\ UNCHANGED told
    /\ UNCHANGED <<vars, heard, stalled>>

Launch(p) == pc[p] = "off" /\ Exchange(p, "VERIFY", "verifying")

Beat(p) == pc[p] = "running" /\ Exchange(p, "HEARTBEAT", "beating")

(* The hold time is over: RELEASE is sent unless --no-release was given.   *)
Finish(p) == pc[p] = "running" /\ Exchange(p, "RELEASE", "releasing")

FinishSilently(p) ==
    /\ pc[p] = "running"
    /\ pc' = [pc EXCEPT ![p] = "exited"]
    /\ UNCHANGED <<vars, heard, told, backlog, stalled>>

(* A connection that has been made outlives its process: the server will   *)
(* read the request and carry it out.                                      *)
Kill(p) ==
    /\ pc[p] \in Waiting \cup {"running"}
    /\ pc' = [pc EXCEPT ![p] = "killed"]
    /\ UNCHANGED <<vars, heard, told, backlog, stalled>>

-----------------------------------------------------------------------------
(* The server as its clients see it.                                       *)

Perform(p, command, reply) ==
    LET s == SerialOf[p]
        c == IdOf[p]
    IN  CASE command = "VERIFY"    -> Verify(s, c, reply)
          [] command = "HEARTBEAT" -> Heartbeat(s, c, reply)
          [] command = "RELEASE"   -> Release(s, c, reply)

(* The process that is answered, and if the server ends, those in its      *)
(* backlog as well, leave their wait.                                      *)
Serve ==
    /\ ~stalled
    /\ backlog # <<>>
    /\ LET p       == Head(backlog).proc
           command == Head(backlog).command
       IN  \E reply \in Replies :
            /\ Perform(p, command, reply)
            /\ pc' = [q \in Proc |->
                        IF q = p THEN AfterReply(pc[p], reply)
                        ELSE IF mode' = "down" THEN Reset(q) ELSE pc[q]]
            /\ told' = [q \in Proc |->
                          IF q = p THEN IF pc[p] \in Waiting THEN reply ELSE told[p]
                          ELSE IF mode' = "down" /\ pc[q] \in Waiting
                               THEN NoReply ELSE told[q]]
            /\ heard' = IF reply \in {"GRANTED", "ALIVE"}
                        THEN [heard EXCEPT ![p] = clock] ELSE heard
            /\ backlog' = IF mode' = "down" THEN <<>> ELSE Tail(backlog)
    /\ UNCHANGED stalled

(* The server is gone: whoever waits for a reply gets none.                *)
Ended ==
    /\ pc' = [q \in Proc |-> Reset(q)]
    /\ told' = [q \in Proc |-> IF pc[q] \in Waiting THEN NoReply ELSE told[q]]
    /\ backlog' = <<>>

(* Commands of `software_a admin' and `software_a status', which keep no   *)
(* state: the moment they are served is the moment they are made.          *)
Desk ==
    /\ ~stalled
    /\ \E reply \in Replies :
        \/ \E s \in Serial, limit \in Limits : Issue(s, limit, reply)
        \/ Status(reply)
    /\ IF mode' = "down" THEN Ended ELSE UNCHANGED <<pc, told, backlog>>
    /\ UNCHANGED <<heard, stalled>>

(* A peer that connects and sends nothing holds the only thread in         *)
(* read_request; when it goes away the request read is empty.              *)
SilentConnect ==
    /\ mode # "down"
    /\ ~stalled
    /\ stalled' = TRUE
    /\ UNCHANGED <<vars, clientVars, backlog>>

SilentClose ==
    /\ stalled
    /\ stalled' = FALSE
    /\ Continue(store)
    /\ UNCHANGED <<disk, clock, heard>>
    /\ IF mode' = "down" THEN Ended ELSE UNCHANGED <<pc, told, backlog>>

ServerCrash ==
    /\ Crash
    /\ Ended
    /\ stalled' = FALSE
    /\ UNCHANGED heard

ServerStart == Start /\ UNCHANGED <<clientVars, backlog, stalled>>
ServerSignal == Signal /\ UNCHANGED <<clientVars, backlog, stalled>>
Second == Tick /\ UNCHANGED <<clientVars, backlog, stalled>>

Process(p) == Launch(p) \/ Beat(p) \/ Finish(p) \/ FinishSilently(p) \/ Kill(p)

SysNext ==
    \/ \E p \in Proc : Process(p)
    \/ Serve \/ Desk
    \/ SilentConnect \/ SilentClose
    \/ ServerCrash \/ ServerStart \/ ServerSignal \/ Second

SysSpec == SysInit /\ [][SysNext]_sysVars

(***************************************************************************)
(* The server serves a connection that waits, and a silent peer goes away  *)
(* in the end.  Connections are accepted in order, so a silent peer that   *)
(* comes later cannot overtake one that waits: fairness is strong.         *)
(* Nothing else is sure to happen: no operator has to restart the server,  *)
(* and no process has to send anything.                                    *)
(***************************************************************************)
FairSysSpec == SysSpec /\ SF_sysVars(Serve) /\ WF_sysVars(SilentClose)

-----------------------------------------------------------------------------
(* Properties.  Those that speak of the seat of a process are for          *)
(* processes with client identifiers of their own.                         *)

(* A process that the server answered GRANTED or ALIVE in the last Timeout *)
(* seconds has its session, in the memory of a running server and in the   *)
(* file of a stopped one: neither crashes between saves, restarts, saves   *)
(* that throw, commands of others nor a stalled server take it away.       *)
HeardKeepsSeat ==
    \A p \in Proc :
        Working(p) /\ clock - heard[p] <= Timeout
            => IdOf[p] \in Sessions(live, SerialOf[p])

(* Once a process has read OK RELEASED its session is gone for good, from  *)
(* the memory and from the file: no fault of a later save and no restart   *)
(* brings it back to hold a seat that nobody uses.                         *)
ReleasedStaysFree ==
    \A p \in Proc :
        pc[p] = "released" => /\ IdOf[p] \notin Sessions(store, SerialOf[p])
                              /\ IdOf[p] \notin Sessions(disk, SerialOf[p])

(* A process is turned away only if as many clients as the licence has     *)
(* seats have been recorded in the last Timeout seconds, itself not among  *)
(* them: dead clients that timed out never cost a living one its start.    *)
RejectedOnlyWhenFull ==
    [][\A p \in Proc :
        pc[p] = "verifying" /\ pc'[p] = "rejected" /\ mode' = "up" =>
            LET s == SerialOf[p]
                fresh == {c \in Sessions(store', s) :
                            clock - store'.seen[s][c] <= Timeout}
            IN  /\ IdOf[p] \notin fresh
                /\ Cardinality(fresh) >= store'.limit[s]]_sysVars

(* Every process that waits for a reply gets one, or learns that there     *)
(* will be none, although it waits with no timeout: no death or stop of    *)
(* the server leaves a process behind.                                     *)
EveryWaitEnds ==
    \A p \in Proc : (pc[p] \in Waiting) ~> (pc[p] \notin Waiting)
=============================================================================
