------------------------- MODULE LicenseSystemProofs ------------------------
(***************************************************************************)
(* Proofs about LicenseSystem, for all processes, serials, clients and     *)
(* faults: variables keep their types, and whatever the processes do, the  *)
(* server in the system behaves as LicenseServer says it does, so that     *)
(* what is proved of the server alone holds in the system.  When every     *)
(* process has a client id of its own, a process that was heard of keeps   *)
(* its seat and a seat that was released stays free of it.                 *)
(***************************************************************************)
EXTENDS LicenseSystem, LicenseServerProofs, SequenceTheorems

USE StoreAssumption, ServerAssumption, SystemAssumption
    DEF StoreAssumption, ServerAssumption, SystemAssumption

SysIInv == IInv /\ SysTypeOK

-----------------------------------------------------------------------------
(* Clients.                                                                *)

LEMMA StatesAfterReplies ==
    ASSUME NEW state \in States, NEW reply
    PROVE  AfterReply(state, reply) \in States
  BY DEF AfterReply, States, Waiting

(* The exchange of a process keeps types.                                  *)
LEMMA ExchangeKeepsTypes ==
    ASSUME SysIInv, NEW p \in Proc,
           NEW command \in {"VERIFY", "HEARTBEAT", "RELEASE"}, NEW state \in States,
           Exchange(p, command, state)
    PROVE  SysTypeOK' /\ UNCHANGED vars
  <1>1. UNCHANGED vars /\ UNCHANGED <<heard, stalled>>
    BY DEF Exchange
  <1>2. TypeOK'
    BY <1>1 DEF SysIInv, IInv, TypeOK, vars
  <1>3. /\ pc \in [Proc -> States] /\ told \in [Proc -> Replies]
        /\ backlog \in Seq(Request)
    BY DEF SysIInv, SysTypeOK
  <1>4. AfterReply(state, NoReply) \in States
    BY StatesAfterReplies
  <1>5. NoReply \in Replies
    BY DEF Replies
  <1>6. [proc |-> p, command |-> command] \in Request
    BY DEF Request
  <1>7. pc' \in [Proc -> States] /\ told' \in [Proc -> Replies]
    BY <1>3, <1>4, <1>5 DEF Exchange
  <1>8. backlog' \in Seq(Request)
    BY <1>3, <1>6 DEF Exchange
  <1> QED
    BY <1>1, <1>2, <1>7, <1>8 DEF SysIInv, SysTypeOK

(* When the server ends, clients and backlog keep their types.             *)
LEMMA EndedKeepsTypes ==
    ASSUME SysIInv, Ended \/ UNCHANGED <<pc, told, backlog>>
    PROVE  /\ pc' \in [Proc -> States]
           /\ told' \in [Proc -> Replies]
           /\ backlog' \in Seq(Request)
  <1>1. /\ pc \in [Proc -> States] /\ told \in [Proc -> Replies]
        /\ backlog \in Seq(Request)
    BY DEF SysIInv, SysTypeOK
  <1>2. CASE Ended
    <2>1. \A q \in Proc : Reset(q) \in States
      BY <1>1, StatesAfterReplies DEF Reset
    <2> QED
      BY <1>1, <1>2, <2>1 DEF Ended, Replies
  <1> QED
    BY <1>1, <1>2

-----------------------------------------------------------------------------
(* The server.                                                             *)

LEMMA PerformIsCommand ==
    ASSUME NEW p \in Proc, NEW command \in {"VERIFY", "HEARTBEAT", "RELEASE"},
           NEW reply \in Replies, Perform(p, command, reply)
    PROVE  Command
  <1>1. SerialOf[p] \in Serial /\ IdOf[p] \in Client
    OBVIOUS
  <1>2. CASE command = "VERIFY"
    <2>1. Verify(SerialOf[p], IdOf[p], reply)
      BY <1>2 DEF Perform
    <2> QED
      BY <1>1, <2>1 DEF Command
  <1>3. CASE command = "HEARTBEAT"
    <2>1. Heartbeat(SerialOf[p], IdOf[p], reply)
      BY <1>3 DEF Perform
    <2> QED
      BY <1>1, <2>1 DEF Command
  <1>4. CASE command = "RELEASE"
    <2>1. Release(SerialOf[p], IdOf[p], reply)
      BY <1>4 DEF Perform
    <2> QED
      BY <1>1, <2>1 DEF Command
  <1> QED
    BY <1>2, <1>3, <1>4

(* What the oldest connection asks for.                                    *)
LEMMA OldestRequest ==
    ASSUME SysIInv, backlog # <<>>
    PROVE  /\ Head(backlog).proc \in Proc
           /\ Head(backlog).command \in {"VERIFY", "HEARTBEAT", "RELEASE"}
           /\ Tail(backlog) \in Seq(Request)
  <1>1. backlog \in Seq(Request)
    BY DEF SysIInv, SysTypeOK
  <1>2. Head(backlog) \in Request /\ Tail(backlog) \in Seq(Request)
    BY <1>1
  <1> QED
    BY <1>2 DEF Request

LEMMA ServeIsCommand ==
    ASSUME SysIInv, Serve
    PROVE  Command /\ SysTypeOK'
  <1> DEFINE p       == Head(backlog).proc
             command == Head(backlog).command
  <1>1. /\ p \in Proc /\ command \in {"VERIFY", "HEARTBEAT", "RELEASE"}
        /\ Tail(backlog) \in Seq(Request)
    BY OldestRequest DEF Serve
  <1>2. PICK reply \in Replies :
            /\ Perform(p, command, reply)
            /\ pc' = [q \in Proc |->
                        IF q = p THEN AfterReply(pc[p], reply)
                        ELSE IF mode' = "down" THEN Reset(q) ELSE pc[q]]
            /\ told' = [q \in Proc |->
                          IF q = p THEN IF pc[p] \in Waiting THEN reply ELSE told[p]
                          ELSE IF mode' = "down" /\ pc[q] \in Waiting
                               THEN NoReply ELSE told[q]]
            /\ heard' = IF reply \in {"GRANTED", "ALIVE"}
                        THEN [heard EXCEPT ![p] = clock] ELSE heard
            /\ backlog' = IF mode' = "down" THEN <<>> ELSE Tail(backlog)
    BY DEF Serve
  <1> HIDE DEF p, command
  <1>3. Command
    BY <1>1, <1>2, PerformIsCommand
  <1>4. TypeOK'
    BY <1>3, NextKeepsGood DEF SysIInv, IInv, Next
  <1>5. /\ pc \in [Proc -> States] /\ told \in [Proc -> Replies]
        /\ heard \in [Proc -> Nat] /\ clock \in Nat
    BY DEF SysIInv, SysTypeOK, TypeOK
  <1>6. pc' \in [Proc -> States]
    <2>1. \A q \in Proc : AfterReply(pc[q], reply) \in States /\ Reset(q) \in States
      BY <1>5, StatesAfterReplies DEF Reset
    <2> QED
      BY <1>2, <1>5, <2>1
  <1>7. told' \in [Proc -> Replies]
    BY <1>2, <1>5 DEF Replies
  <1>8. heard' \in [Proc -> Nat]
    BY <1>2, <1>5
  <1>9. backlog' \in Seq(Request)
    BY <1>1, <1>2
  <1>10. stalled' \in BOOLEAN
    BY DEF Serve, SysIInv, SysTypeOK
  <1> QED
    BY <1>3, <1>4, <1>6, <1>7, <1>8, <1>9, <1>10 DEF SysTypeOK

(* What a process does leaves the server alone and keeps types.            *)
LEMMA ProcessIsStutter ==
    ASSUME SysIInv, NEW p \in Proc, Process(p)
    PROVE  UNCHANGED vars /\ SysTypeOK'
  <1>1. {"verifying", "beating", "releasing", "exited", "killed"} \subseteq States
    BY DEF States, Waiting
  <1>2. CASE Launch(p)
    BY <1>1, <1>2, ExchangeKeepsTypes DEF Launch
  <1>3. CASE Beat(p)
    BY <1>1, <1>3, ExchangeKeepsTypes DEF Beat
  <1>4. CASE Finish(p)
    BY <1>1, <1>4, ExchangeKeepsTypes DEF Finish
  <1>5. CASE FinishSilently(p) \/ Kill(p)
    <2>1. pc' \in [Proc -> States]
      BY <1>1, <1>5 DEF FinishSilently, Kill, SysIInv, SysTypeOK
    <2>2. UNCHANGED <<vars, heard, told, backlog, stalled>>
      BY <1>5 DEF FinishSilently, Kill
    <2> QED
      BY <2>1, <2>2 DEF SysIInv, SysTypeOK, TypeOK, vars
  <1> QED
    BY <1>2, <1>3, <1>4, <1>5 DEF Process

(* Every step of the system is a step of the server or leaves it alone,    *)
(* and keeps types.                                                        *)
LEMMA SystemStep ==
    ASSUME SysIInv, [SysNext]_sysVars
    PROVE  [Next]_vars /\ SysIInv'
  <1> USE DEF SysIInv
  <1>0. SUFFICES [Next]_vars /\ SysTypeOK'
    BY NextKeepsGood
  <1>1. ASSUME NEW p \in Proc, Process(p)
        PROVE  [Next]_vars /\ SysTypeOK'
    BY <1>1, ProcessIsStutter
  <1>2. CASE Serve
    BY <1>2, ServeIsCommand DEF Next
  <1>3. CASE Desk
    <2>1. Command
      BY <1>3 DEF Desk, Command
    <2>2. Ended \/ UNCHANGED <<pc, told, backlog>>
      BY <1>3 DEF Desk
    <2>3. UNCHANGED <<heard, stalled>>
      BY <1>3 DEF Desk
    <2> QED
      BY <2>1, <2>2, <2>3, EndedKeepsTypes, NextKeepsGood DEF Next, IInv, SysTypeOK
  <1>4. CASE SilentConnect
    BY <1>4 DEF SilentConnect, vars, clientVars, SysTypeOK, TypeOK
  <1>5. CASE SilentClose
    <2>1. Crash \/ UNCHANGED vars
      BY <1>5 DEF SilentClose, Continue, Crash, vars
    <2>2. Ended \/ UNCHANGED <<pc, told, backlog>>
      BY <1>5 DEF SilentClose
    <2>3. heard' = heard /\ stalled' = FALSE
      BY <1>5 DEF SilentClose
    <2> QED
      BY <2>1, <2>2, <2>3, EndedKeepsTypes, NextKeepsGood DEF Next, IInv, SysTypeOK
  <1>6. CASE ServerCrash
    BY <1>6, EndedKeepsTypes, NextKeepsGood DEF ServerCrash, Next, IInv, SysTypeOK
  <1>7. CASE ServerStart \/ ServerSignal \/ Second
    <2>1. Next
      BY <1>7 DEF ServerStart, ServerSignal, Second, Next
    <2>2. UNCHANGED <<clientVars, backlog, stalled>>
      BY <1>7 DEF ServerStart, ServerSignal, Second
    <2> QED
      BY <2>1, <2>2, NextKeepsGood DEF IInv, SysTypeOK, clientVars
  <1>8. CASE UNCHANGED sysVars
    BY <1>8 DEF sysVars, clientVars, vars, SysTypeOK, TypeOK
  <1> QED
    BY <1>1, <1>2, <1>3, <1>4, <1>5, <1>6, <1>7, <1>8 DEF SysNext

-----------------------------------------------------------------------------
THEOREM SysInvariance == SysSpec => []SysIInv
  <1>1. SysInit => SysIInv
    <2>1. SysInit => IInv /\ TypeOK
      BY InitIsGood DEF SysInit, IInv
    <2>2. SysInit => pc \in [Proc -> States] /\ told \in [Proc -> Replies]
      BY DEF SysInit, States, Replies
    <2>3. SysInit => heard \in [Proc -> Nat]
      BY DEF SysInit
    <2>4. SysInit => stalled \in BOOLEAN
      BY DEF SysInit
    <2>5. <<>> \in Seq(Request)
      BY EmptySeq
    <2>6. SysInit => backlog \in Seq(Request)
      BY <2>5 DEF SysInit
    <2> QED
      BY <2>1, <2>2, <2>3, <2>4, <2>6 DEF SysIInv, SysTypeOK
  <1>2. SysIInv /\ [SysNext]_sysVars => SysIInv'
    BY SystemStep
  <1> QED
    BY <1>1, <1>2, PTL DEF SysSpec

(* All variables keep their types: what a process is told is always a      *)
(* reply of the protocol, and the backlog holds requests of processes.     *)
THEOREM SysTypeCorrect == SysSpec => []SysTypeOK
  <1>1. SysIInv => SysTypeOK
    BY DEF SysIInv
  <1> QED
    BY <1>1, SysInvariance, PTL

(* The server in the system is the server of LicenseServer: processes that *)
(* die, backlogs and silent peers make it do nothing that it would not do  *)
(* by itself.                                                              *)
THEOREM ServerInSystem == SysSpec => Spec
  <1>1. SysInit => Init
    BY DEF SysInit
  <1>2. SysIInv /\ [SysNext]_sysVars => [Next]_vars
    BY SystemStep
  <1> QED
    BY <1>1, <1>2, SysInvariance, PTL DEF SysSpec, Spec

(* Hence no licence in the system ever has more sessions than it sold.     *)
THEOREM SysLimitHolds == SysSpec => []SeatsWithinLimit
  BY ServerInSystem, LimitHolds, PTL

-----------------------------------------------------------------------------
(* Who is turned away.                                                     *)

(* A reply of REJECTED ends a command only as verdict of that command.     *)
LEMMA RejectedIsVerdict ==
    ASSUME mode' = "up", NEW result, Execute(result, "REJECTED")
    PROVE  /\ result.verdict = "REJECTED"
           /\ store' = AfterSaves(result.writes, Len(result.writes))
  BY DEF Execute, Completes, Continue, NoReply

(* What VERIFY leaves in memory when it turns a client away.               *)
LEMMA RejectedVerify ==
    ASSUME Good(store), clock \in Nat, mode' = "up",
           NEW s \in Serial, NEW c \in Client, Verify(s, c, "REJECTED")
    PROVE  /\ store' = Sweep(store, clock)
           /\ c \notin Sessions(store', s)
           /\ Full(store', s)
  <1> DEFINE clean  == Sweep(store, clock)
             writes == CleanupWrites(store, clock)
             result == VerifyResult(store, s, c, clock)
  <1>1. /\ result.verdict = "REJECTED"
        /\ store' = AfterSaves(result.writes, Len(result.writes))
    BY RejectedIsVerdict DEF Verify
  <1>2. Known(clean, s) /\ c \notin Sessions(clean, s) /\ Full(clean, s)
    BY <1>1 DEF VerifyResult, Result
  <1>3. result.writes = writes
    BY <1>2 DEF VerifyResult, Result
  <1>4. store' = AfterSaves(writes, Len(writes))
    BY <1>1, <1>3
  <1>5. store' = clean
    BY <1>4 DEF CleanupWrites, AfterSaves
  <1> QED
    BY <1>2, <1>5

(* Who is left by a cleanup has been heard of in the last Timeout seconds. *)
LEMMA SweptAreFresh ==
    ASSUME NEW db \in Database, NEW now \in Nat, NEW s \in Serial,
           NEW c \in Sessions(Sweep(db, now), s)
    PROVE  now - Sweep(db, now).seen[s][c] <= Timeout
  <1>1. c \in Client /\ Sweep(db, now).seen[s][c] # Absent
    BY DEF Sessions
  <1>2. /\ Sweep(db, now).seen[s][c] = db.seen[s][c]
        /\ ~Expired(db.seen[s][c], now)
    BY <1>1, DatabaseParts DEF Sweep
  <1>3. db.seen[s][c] \in Int /\ Timeout \in Int
    BY <1>1, DatabaseParts, StoreAssumption DEF StoreAssumption, Absent
  <1> QED
    BY <1>1, <1>2, <1>3 DEF Expired

(* A process reads REJECTED only in the reply to its own VERIFY.           *)
LEMMA RejectedByVerify ==
    ASSUME SysIInv, [SysNext]_sysVars, NEW p \in Proc,
           pc[p] # "rejected", pc'[p] = "rejected"
    PROVE  Verify(SerialOf[p], IdOf[p], "REJECTED")
  <1>0. pc \in [Proc -> States]
    BY DEF SysIInv, SysTypeOK
  <1>1. \A state : AfterReply(state, NoReply) = "rejected" => state = "rejected"
    BY DEF AfterReply, NoReply
  <1>2. \A q \in Proc : Reset(q) = "rejected" => pc[q] = "rejected"
    BY <1>1 DEF Reset
  <1>3. CASE Serve
    <2> DEFINE q       == Head(backlog).proc
               command == Head(backlog).command
    <2>1. q \in Proc /\ command \in {"VERIFY", "HEARTBEAT", "RELEASE"}
      BY <1>3, OldestRequest DEF Serve
    <2>2. PICK reply \in Replies :
              /\ Perform(q, command, reply)
              /\ pc' = [r \in Proc |->
                          IF r = q THEN AfterReply(pc[q], reply)
                          ELSE IF mode' = "down" THEN Reset(r) ELSE pc[r]]
      BY <1>3 DEF Serve
    <2> HIDE DEF q, command
    <2>3. p = q /\ AfterReply(pc[p], reply) = "rejected"
      BY <1>2, <2>2
    <2>4. reply = "REJECTED"
      BY <2>3 DEF AfterReply
    <2>5. ~Heartbeat(SerialOf[q], IdOf[q], "REJECTED")
      BY DEF Heartbeat, HeartbeatResult, Result, Execute, NoReply
    <2>6. ~Release(SerialOf[q], IdOf[q], "REJECTED")
      BY DEF Release, ReleaseResult, Result, Execute, NoReply
    <2> QED
      BY <2>1, <2>2, <2>3, <2>4, <2>5, <2>6 DEF Perform
  <1>4. ASSUME NEW q \in Proc, Process(q)
        PROVE  FALSE
    <2>1. ASSUME NEW command, NEW state \in {"verifying", "beating", "releasing"},
                 Exchange(q, command, state)
          PROVE  FALSE
      BY <1>0, <1>1, <2>1 DEF Exchange
    <2>2. ~FinishSilently(q) /\ ~Kill(q)
      BY <1>0 DEF FinishSilently, Kill
    <2> QED
      BY <1>4, <2>1, <2>2 DEF Process, Launch, Beat, Finish
  <1>5. pc' # pc
    BY <1>0
  <1>6. ASSUME Ended
        PROVE  FALSE
    BY <1>2, <1>6 DEF Ended
  <1> QED
    BY <1>3, <1>4, <1>5, <1>6
       DEF SysNext, Desk, SilentConnect, SilentClose, ServerCrash, ServerStart,
           ServerSignal, Second, clientVars, sysVars

(* Whoever is turned away finds as many other clients as there are seats,  *)
(* all heard of in the last Timeout seconds.                               *)
THEOREM RejectionsAreFair == SysSpec => RejectedOnlyWhenFull
  <1>1. ASSUME SysIInv, [SysNext]_sysVars, NEW p \in Proc,
               pc[p] = "verifying", pc'[p] = "rejected", mode' = "up"
        PROVE  LET s == SerialOf[p]
                   fresh == {c \in Sessions(store', s) :
                               clock - store'.seen[s][c] <= Timeout}
               IN  /\ IdOf[p] \notin fresh
                   /\ Cardinality(fresh) >= store'.limit[s]
    <2> DEFINE s == SerialOf[p]
    <2>1. Good(store) /\ clock \in Nat /\ s \in Serial /\ IdOf[p] \in Client
      BY <1>1 DEF SysIInv, IInv, TypeOK
    <2>2. Verify(s, IdOf[p], "REJECTED")
      BY <1>1, RejectedByVerify
    <2>3. /\ store' = Sweep(store, clock)
          /\ IdOf[p] \notin Sessions(store', s)
          /\ Full(store', s)
      BY <1>1, <2>1, <2>2, RejectedVerify
    <2>4. \A c \in Sessions(store', s) : clock - store'.seen[s][c] <= Timeout
      BY <2>1, <2>3, SweptAreFresh DEF Good
    <2>5. {c \in Sessions(store', s) : clock - store'.seen[s][c] <= Timeout}
          = Sessions(store', s)
      BY <2>4
    <2> QED
      BY <2>3, <2>5 DEF Full
  <1>2. SysIInv /\ [SysNext]_sysVars =>
          [\A p \in Proc :
            pc[p] = "verifying" /\ pc'[p] = "rejected" /\ mode' = "up" =>
                LET s == SerialOf[p]
                    fresh == {c \in Sessions(store', s) :
                                clock - store'.seen[s][c] <= Timeout}
                IN  /\ IdOf[p] \notin fresh
                    /\ Cardinality(fresh) >= store'.limit[s]]_sysVars
    BY <1>1
  <1> QED
    BY <1>2, SysInvariance, PTL DEF SysSpec, RejectedOnlyWhenFull

-----------------------------------------------------------------------------
(* Seats that are kept and seats that stay free.                           *)
(*                                                                         *)
(* Both properties follow one process through everything that the others,  *)
(* the server and the clock can do.  They need three facts:                *)
(*   - a request in the backlog is the last thing its process has done,    *)
(*     and a process has at most one there (QueueMatches): no old RELEASE  *)
(*     meets a process that works, and no old VERIFY one that has released;*)
(*   - whatever a command writes for one client keeps the session of any   *)
(*     other that is in time (InTime), and gives it none (FreeOf);         *)
(*   - however the command ends, memory and file are among what they were  *)
(*     and what was written (ExecuteWithin).                               *)

(* No two processes speak for the same client of the same licence.         *)
OwnIds == \A p, q \in Proc : p # q => SerialOf[p] # SerialOf[q] \/ IdOf[p] # IdOf[q]

AskState == [VERIFY |-> "verifying", HEARTBEAT |-> "beating", RELEASE |-> "releasing"]

QueueMatches ==
    /\ \A k \in 1..Len(backlog) :
          pc[backlog[k].proc] \in {AskState[backlog[k].command], "killed"}
    /\ \A j, k \in 1..Len(backlog) : backlog[j].proc = backlog[k].proc => j = k

(* Facts about queues.                                                     *)
LEMMA HeadAndTail ==
    ASSUME NEW S, NEW q \in Seq(S), q # <<>>
    PROVE  /\ 1 \in 1..Len(q) /\ Head(q) = q[1]
           /\ Tail(q) \in Seq(S)
           /\ \A k \in 1..Len(Tail(q)) :
                 k + 1 \in 1..Len(q) /\ k + 1 # 1 /\ Tail(q)[k] = q[k + 1]
  OBVIOUS

LEMMA AppendParts ==
    ASSUME NEW S, NEW q \in Seq(S), NEW x \in S
    PROVE  /\ Append(q, x) \in Seq(S) /\ Len(q) \in Nat
           /\ \A k \in 1..Len(Append(q, x)) :
                 \/ k \in 1..Len(q) /\ Append(q, x)[k] = q[k]
                 \/ k = Len(q) + 1 /\ Append(q, x)[k] = x
  OBVIOUS

LEMMA RequestParts ==
    ASSUME SysIInv, NEW k \in 1..Len(backlog)
    PROVE  /\ backlog[k].proc \in Proc
           /\ backlog[k].command \in {"VERIFY", "HEARTBEAT", "RELEASE"}
  <1>1. backlog[k] \in Request
    BY DEF SysIInv, SysTypeOK
  <1> QED
    BY <1>1 DEF Request

(* Only a process that is in no exchange sends, and then it waits.         *)
LEMMA ExchangeMatches ==
    ASSUME SysIInv, QueueMatches, NEW p \in Proc, pc[p] \in {"off", "running"},
           NEW command \in {"VERIFY", "HEARTBEAT", "RELEASE"},
           Exchange(p, command, AskState[command])
    PROVE  QueueMatches'
  <1> DEFINE ask == [proc |-> p, command |-> command]
  <1>1. backlog \in Seq(Request) /\ ask \in Request /\ pc \in [Proc -> States]
    BY DEF SysIInv, SysTypeOK, Request
  <1>2. \A k \in 1..Len(backlog) :
           backlog[k].proc \in Proc /\ backlog[k].command \in {"VERIFY", "HEARTBEAT", "RELEASE"}
    BY RequestParts
  <1>3. \A k \in 1..Len(backlog) : backlog[k].proc # p
    <2>1. \A c \in {"VERIFY", "HEARTBEAT", "RELEASE"} :
             AskState[c] \notin {"off", "running"}
      BY DEF AskState
    <2> QED
      BY <1>2, <2>1 DEF QueueMatches
  <1>4. \A q \in Proc : q # p => pc'[q] = pc[q]
    BY <1>1 DEF Exchange
  <1>5. CASE mode = "down"
    <2>1. backlog' = backlog
      BY <1>5 DEF Exchange
    <2> QED
      BY <1>2, <1>3, <1>4, <2>1 DEF QueueMatches
  <1>6. CASE mode # "down"
    <2>1. backlog' = Append(backlog, ask) /\ pc'[p] = AskState[command]
      BY <1>1, <1>6 DEF Exchange
    <2>2. ask.proc = p /\ ask.command = command
      OBVIOUS
    <2> HIDE DEF ask
    <2>3. /\ \A k \in 1..Len(backlog') :
                \/ k \in 1..Len(backlog) /\ backlog'[k] = backlog[k]
                \/ k = Len(backlog) + 1 /\ backlog'[k] = ask
      BY <1>1, <2>1, AppendParts
    <2>4. ASSUME NEW k \in 1..Len(backlog')
          PROVE  pc'[backlog'[k].proc] \in {AskState[backlog'[k].command], "killed"}
      BY <1>2, <1>3, <1>4, <2>1, <2>2, <2>3 DEF QueueMatches
    <2>5. ASSUME NEW j \in 1..Len(backlog'), NEW k \in 1..Len(backlog'),
                 backlog'[j].proc = backlog'[k].proc
          PROVE  j = k
      BY <1>3, <2>2, <2>3, <2>5 DEF QueueMatches
    <2> QED
      BY <2>4, <2>5 DEF QueueMatches
  <1> QED
    BY <1>5, <1>6

LEMMA ServeMatches ==
    ASSUME SysIInv, QueueMatches, Serve
    PROVE  QueueMatches'
  <1> DEFINE p == Head(backlog).proc
  <1>1. backlog \in Seq(Request) /\ backlog # <<>> /\ p \in Proc
    BY OldestRequest DEF SysIInv, SysTypeOK, Serve
  <1>2. CASE mode' = "down"
    <2>1. backlog' = <<>>
      BY <1>2 DEF Serve
    <2> QED
      BY <2>1 DEF QueueMatches
  <1>3. CASE mode' # "down"
    <2>1. /\ backlog' = Tail(backlog)
          /\ \A q \in Proc : q # p => pc'[q] = pc[q]
      BY <1>3 DEF Serve
    <2>2. \A k \in 1..Len(backlog') :
             /\ k + 1 \in 1..Len(backlog) /\ k + 1 # 1 /\ backlog'[k] = backlog[k + 1]
             /\ 1 \in 1..Len(backlog) /\ Head(backlog) = backlog[1]
      BY <1>1, <2>1, HeadAndTail
    <2>3. \A k \in 1..Len(backlog') : backlog'[k].proc # p /\ backlog'[k].proc \in Proc
      <3>1. \A k \in 1..Len(backlog) : backlog[k].proc \in Proc
        BY RequestParts
      <3> QED
        BY <2>2, <3>1 DEF QueueMatches
    <2>4. ASSUME NEW k \in 1..Len(backlog')
          PROVE  pc'[backlog'[k].proc] \in {AskState[backlog'[k].command], "killed"}
      <3> HIDE DEF p
      <3> QED
        BY <2>1, <2>2, <2>3 DEF QueueMatches
    <2>5. ASSUME NEW j \in 1..Len(backlog'), NEW k \in 1..Len(backlog'),
                 backlog'[j].proc = backlog'[k].proc
          PROVE  j = k
      <3>1. j + 1 = k + 1
        BY <2>2, <2>5 DEF QueueMatches
      <3> QED
        BY <3>1
    <2> QED
      BY <2>4, <2>5 DEF QueueMatches
  <1> QED
    BY <1>2, <1>3

LEMMA QueueStep ==
    ASSUME SysIInv, QueueMatches, [SysNext]_sysVars
    PROVE  QueueMatches'
  <1>0. pc \in [Proc -> States] /\ backlog \in Seq(Request)
    BY DEF SysIInv, SysTypeOK
  <1>1. ASSUME Ended
        PROVE  QueueMatches'
    BY <1>1 DEF Ended, QueueMatches
  <1>2. ASSUME UNCHANGED <<pc, backlog>>
        PROVE  QueueMatches'
    BY <1>2 DEF QueueMatches
  <1>3. ASSUME NEW p \in Proc, Process(p)
        PROVE  QueueMatches'
    <2>1. CASE Launch(p) \/ Beat(p) \/ Finish(p)
      BY <2>1, ExchangeMatches DEF Launch, Beat, Finish, AskState
    <2>2. CASE FinishSilently(p)
      <3>1. backlog' = backlog /\ pc[p] = "running" /\ \A q \in Proc : q # p => pc'[q] = pc[q]
        BY <1>0, <2>2 DEF FinishSilently
      <3>2. \A c \in {"VERIFY", "HEARTBEAT", "RELEASE"} : AskState[c] # "running"
        BY DEF AskState
      <3>3. \A k \in 1..Len(backlog) : backlog[k].proc # p /\ backlog[k].proc \in Proc
        BY <3>1, <3>2, RequestParts DEF QueueMatches
      <3> QED
        BY <3>1, <3>3 DEF QueueMatches
    <2>3. CASE Kill(p)
      <3>1. backlog' = backlog /\ pc' = [pc EXCEPT ![p] = "killed"]
        BY <2>3 DEF Kill
      <3>2. \A k \in 1..Len(backlog) : backlog[k].proc \in Proc
        BY RequestParts
      <3>3. \A q \in Proc : pc'[q] = pc[q] \/ pc'[q] = "killed"
        BY <1>0, <3>1
      <3> QED
        BY <3>1, <3>2, <3>3 DEF QueueMatches
    <2> QED
      BY <1>3, <2>1, <2>2, <2>3 DEF Process
  <1> QED
    BY <1>1, <1>2, <1>3, ServeMatches
       DEF SysNext, Desk, SilentConnect, SilentClose, ServerCrash, ServerStart,
           ServerSignal, Second, clientVars, sysVars

-----------------------------------------------------------------------------
(* What commands do to a set of databases.                                 *)

ResultOf(p, command) ==
    CASE command = "VERIFY"    -> VerifyResult(store, SerialOf[p], IdOf[p], clock)
      [] command = "HEARTBEAT" -> HeartbeatResult(store, SerialOf[p], IdOf[p], clock)
      [] command = "RELEASE"   -> ReleaseResult(store, SerialOf[p], IdOf[p])

WritesIn(w, D) == \A k \in 1..Len(w) : w[k] \in D

(* What a cut of a database in D leaves is in D, if files are cut at all.  *)
CutsStayIn(D) ==
    "short" \in Faults \/ "torn" \in Faults => \A db \in D : FilePrefixes(db) \subseteq D

(* However a command ends, the file is what it was, one of the command's   *)
(* writes or a part of one, and so is the memory of a server that lives.   *)
LEMMA ExecuteWithin ==
    ASSUME NEW D, store \in D, disk \in D, CutsStayIn(D),
           NEW result, GoodWrites(result.writes), WritesIn(result.writes, D),
           NEW reply, Execute(result, reply)
    PROVE  /\ disk' \in D /\ clock' = clock
           /\ IF mode' = "down" THEN store' = EmptyDatabase ELSE store' \in D
  <1> DEFINE w == result.writes
  <1>0. Len(w) \in Nat
    BY DEF GoodWrites
  <1>1. ASSUME NEW k \in 0..Len(w)
        PROVE  AfterSaves(w, k) \in D /\ FileAfter(w, k) \subseteq D
    <2>1. CASE k = 0
      BY <2>1 DEF AfterSaves, FileAfter
    <2>2. CASE k # 0
      <3>1. w[k] \in D
        BY <1>0, <2>2 DEF WritesIn
      <3> HIDE DEF w
      <3> QED
        BY <2>2, <3>1 DEF AfterSaves, FileAfter, Written, CutsStayIn
    <2> QED
      BY <2>1, <2>2
  <1>2. clock' = clock /\ mode # "down"
    BY DEF Execute
  <1>3. CASE Completes(w)
    <2>1. Len(w) \in 0..Len(w)
      BY <1>0
    <2> HIDE DEF w
    <2> QED
      BY <1>1, <1>2, <1>3, <2>1 DEF Completes, Continue
  <1>4. CASE SaveThrows(w)
    <2>1. PICK k \in 1..Len(w) : Continue(w[k]) /\ disk' \in FileAfter(w, k - 1)
      BY <1>4 DEF SaveThrows
    <2>2. w[k] \in D /\ k - 1 \in 0..Len(w)
      BY <1>0 DEF WritesIn
    <2> HIDE DEF w
    <2> QED
      BY <1>1, <1>2, <2>1, <2>2 DEF Continue
  <1>5. CASE Dies(w)
    <2>1. PICK k \in 0..Len(w) :
             \/ disk' \in FileAfter(w, k)
             \/ "torn" \in Faults /\ k < Len(w) /\ disk' \in FilePrefixes(w[k + 1])
      BY <1>5 DEF Dies
    <2>2. k < Len(w) => w[k + 1] \in D
      BY <1>0 DEF WritesIn
    <2>3. mode' = "down" /\ store' = EmptyDatabase
      BY <1>5 DEF Dies
    <2> HIDE DEF w
    <2> QED
      BY <1>1, <1>2, <2>1, <2>2, <2>3 DEF CutsStayIn
  <1> QED
    BY <1>3, <1>4, <1>5 DEF Execute

LEMMA PerformExecutes ==
    ASSUME NEW p, NEW command \in {"VERIFY", "HEARTBEAT", "RELEASE"}, NEW reply,
           Perform(p, command, reply)
    PROVE  Execute(ResultOf(p, command), reply)
  BY DEF Perform, ResultOf, Verify, Heartbeat, Release

(* What VERIFY and HEARTBEAT write: what the cleanup leaves, and that with *)
(* the client recorded.                                                    *)
LEMMA TouchingWrites ==
    ASSUME NEW db, NEW s, NEW c, NEW now,
           NEW result \in {VerifyResult(db, s, c, now), HeartbeatResult(db, s, c, now)}
    PROVE  \/ result.writes = CleanupWrites(db, now)
           \/ result.writes = Append(CleanupWrites(db, now), Touch(Sweep(db, now), s, c, now))
  BY DEF VerifyResult, HeartbeatResult, Result

LEMMA ShortWrites ==
    ASSUME NEW D, NEW a \in D
    PROVE  /\ WritesIn(<<>>, D) /\ WritesIn(<<a>>, D)
           /\ \A b \in D : WritesIn(Append(<<>>, b), D) /\ WritesIn(Append(<<a>>, b), D)
  <1>1. WritesIn(<<>>, D) /\ WritesIn(<<a>>, D)
    BY DEF WritesIn
  <1>2. ASSUME NEW b \in D, NEW w \in {<<>>, <<a>>}
        PROVE  WritesIn(Append(w, b), D)
    <2>1. w \in Seq(D)
      <3>1. <<>> \in Seq(D)
        BY EmptySeq
      <3>2. <<a>> \in Seq(D)
        OBVIOUS
      <3> QED
        BY <3>1, <3>2
    <2>2. \A k \in 1..Len(w) : w[k] \in D
      BY <2>1
    <2> QED
      BY <2>1, <2>2, AppendParts DEF WritesIn
  <1> QED
    BY <1>1, <1>2

LEMMA RequestWritesWithin ==
    ASSUME Good(store), clock \in Nat, NEW D,
           NEW p \in Proc, NEW command \in {"VERIFY", "HEARTBEAT", "RELEASE"},
           Sweep(store, clock) \in D,
           command # "RELEASE" =>
              Touch(Sweep(store, clock), SerialOf[p], IdOf[p], clock) \in D,
           command = "RELEASE" => Erase(store, SerialOf[p], IdOf[p]) \in D
    PROVE  GoodWrites(ResultOf(p, command).writes) /\ WritesIn(ResultOf(p, command).writes, D)
  <1> DEFINE s == SerialOf[p]
             c == IdOf[p]
  <1>1. s \in Serial /\ c \in Client
    OBVIOUS
  <1>2. CASE command = "RELEASE"
    <2>1. ResultOf(p, command) = ReleaseResult(store, s, c)
      BY <1>2 DEF ResultOf
    <2>2. ResultOf(p, command).writes \in {<<>>, <<Erase(store, s, c)>>}
      BY <2>1 DEF ReleaseResult, Result
    <2>3. Erase(store, s, c) \in D
      BY <1>2
    <2> HIDE DEF s, c
    <2> QED
      BY <1>1, <2>1, <2>2, <2>3, ReleaseIsGood, ShortWrites
  <1>3. CASE command # "RELEASE"
    <2>1. ResultOf(p, command) \in
             {VerifyResult(store, s, c, clock), HeartbeatResult(store, s, c, clock)}
      BY <1>3 DEF ResultOf
    <2>2. Touch(Sweep(store, clock), s, c, clock) \in D
      BY <1>3
    <2>3. CleanupWrites(store, clock) \in {<<>>, <<Sweep(store, clock)>>}
      BY DEF CleanupWrites
    <2> HIDE DEF s, c
    <2>4. GoodWrites(ResultOf(p, command).writes)
      BY <1>1, <2>1, VerifyIsGood, HeartbeatIsGood
    <2>5. /\ WritesIn(CleanupWrites(store, clock), D)
          /\ WritesIn(Append(CleanupWrites(store, clock), Touch(Sweep(store, clock), s, c, clock)), D)
      BY <2>2, <2>3, ShortWrites
    <2> QED
      BY <2>1, <2>4, <2>5, TouchingWrites
  <1> QED
    BY <1>2, <1>3

(* The commands of admin and status.                                       *)
LEMMA DeskWithin ==
    ASSUME IInv, Desk, NEW D, store \in D, disk \in D, CutsStayIn(D),
           Sweep(store, clock) \in D,
           \A s \in Serial, limit \in Limits : ~Known(store, s) =>
              [store EXCEPT !.limit[s] = limit, !.seen[s] = NoSessions] \in D
    PROVE  /\ disk' \in D /\ clock' = clock
           /\ IF mode' = "down" THEN store' = EmptyDatabase ELSE store' \in D
  <1>1. Good(store) /\ clock \in Nat
    BY DEF IInv, TypeOK
  <1>2. ASSUME NEW reply \in Replies, NEW s \in Serial, NEW limit \in Limits,
               Issue(s, limit, reply)
        PROVE  /\ disk' \in D /\ clock' = clock
           /\ IF mode' = "down" THEN store' = EmptyDatabase ELSE store' \in D
    <2> DEFINE e == [store EXCEPT !.limit[s] = limit, !.seen[s] = NoSessions]
    <2>1. e \in D /\ IssueResult(store, s, limit).writes = <<e>>
      BY <1>2 DEF Issue, IssueResult, Result
    <2> HIDE DEF e
    <2>2. WritesIn(IssueResult(store, s, limit).writes, D)
      BY <2>1, ShortWrites
    <2> QED
      BY <1>1, <1>2, <2>2, IssueIsGood, ExecuteWithin DEF Issue
  <1>3. ASSUME NEW reply \in Replies, Status(reply)
        PROVE  /\ disk' \in D /\ clock' = clock
           /\ IF mode' = "down" THEN store' = EmptyDatabase ELSE store' \in D
    <2>1. StatusResult(store, clock).writes \in {<<>>, <<Sweep(store, clock)>>}
      BY DEF StatusResult, CleanupWrites, Result
    <2>2. WritesIn(StatusResult(store, clock).writes, D)
      BY <2>1, ShortWrites
    <2> QED
      BY <1>1, <1>3, <2>2, StatusIsGood, ExecuteWithin DEF Status
  <1> QED
    BY <1>2, <1>3 DEF Desk

-----------------------------------------------------------------------------
(* Databases that have seen client c of licence s since h.                 *)

InTime(s, c, h) == {db \in Database : db.seen[s][c] >= h}

LEMMA InTimeIsSession ==
    ASSUME NEW s \in Serial, NEW c \in Client, NEW h \in Nat, NEW db \in InTime(s, c, h)
    PROVE  c \in Sessions(db, s)
  <1>1. db.seen[s][c] >= h
    BY DEF InTime
  <1>2. db.seen[s][c] # -1
    BY <1>1
  <1> QED
    BY <1>2 DEF Sessions, Absent

(* Neither a cleanup within the timeout nor what is written for another    *)
(* client or another licence takes such a session away.                    *)
LEMMA InTimeStays ==
    ASSUME NEW s \in Serial, NEW c \in Client, NEW h \in Nat, NEW now \in Nat,
           NEW db \in InTime(s, c, h), NEW t \in Serial, NEW d \in Client
    PROVE  /\ now - h <= Timeout => Sweep(db, now) \in InTime(s, c, h)
           /\ h <= now => Touch(db, t, d, now) \in InTime(s, c, h)
           /\ t # s \/ d # c => Erase(db, t, d) \in InTime(s, c, h)
           /\ \A limit \in Limits : t # s =>
                 [db EXCEPT !.limit[t] = limit, !.seen[t] = NoSessions] \in InTime(s, c, h)
  <1>1. /\ db \in Database /\ db.seen[s][c] >= h /\ db.seen[s][c] \in Int
        /\ db.seen \in [Serial -> [Client -> Nat \cup {Absent}]]
    BY DatabaseParts DEF InTime, Absent
  <1>2. ASSUME now - h <= Timeout
        PROVE  Sweep(db, now) \in InTime(s, c, h)
    <2>1. Sweep(db, now) \in Database
      BY <1>1, MutationsAreDatabases
    <2>2. ~Expired(db.seen[s][c], now)
      <3>1. now - db.seen[s][c] <= Timeout
        BY <1>1, <1>2
      <3> QED
        BY <1>1, <3>1 DEF Expired
    <2>3. Sweep(db, now).seen[s][c] = db.seen[s][c]
      BY <1>1, <2>2, DatabaseParts DEF Sweep
    <2> QED
      BY <1>1, <2>1, <2>3 DEF InTime
  <1>3. ASSUME h <= now
        PROVE  Touch(db, t, d, now) \in InTime(s, c, h)
    <2>1. Touch(db, t, d, now) \in Database
      BY <1>1, MutationsAreDatabases
    <2>2. Touch(db, t, d, now).seen[s][c] \in {db.seen[s][c], now}
      BY <1>1, DatabaseParts DEF Touch
    <2> QED
      BY <1>1, <1>3, <2>1, <2>2 DEF InTime
  <1>4. ASSUME t # s \/ d # c
        PROVE  Erase(db, t, d) \in InTime(s, c, h)
    <2>1. Erase(db, t, d) \in Database
      BY <1>1, MutationsAreDatabases
    <2>2. Erase(db, t, d).seen[s][c] = db.seen[s][c]
      BY <1>1, <1>4, DatabaseParts DEF Erase
    <2> QED
      BY <1>1, <2>1, <2>2 DEF InTime
  <1>5. ASSUME NEW limit \in Limits, t # s
        PROVE  [db EXCEPT !.limit[t] = limit, !.seen[t] = NoSessions] \in InTime(s, c, h)
    <2> DEFINE e == [db EXCEPT !.limit[t] = limit, !.seen[t] = NoSessions]
    <2>1. e \in Database
      BY <1>1, MutationsAreDatabases
    <2>2. e.seen[s] = db.seen[s]
      BY <1>1, <1>5, DatabaseParts
    <2>3. e \in InTime(s, c, h)
      <3> HIDE DEF e
      <3> QED
        BY <1>1, <2>1, <2>2 DEF InTime
    <2> QED
      BY <2>3
  <1> QED
    BY <1>2, <1>3, <1>4, <1>5

-----------------------------------------------------------------------------
(* Databases without a session of client c of licence s.                   *)

FreeOf(s, c) == {db \in Database : c \notin Sessions(db, s)}

(* A session comes from a VERIFY of its own client and from nothing else:  *)
(* not from a file cut short, not from a licence that is issued.           *)
LEMMA FreeStays ==
    ASSUME NEW s \in Serial, NEW c \in Client, NEW now \in Nat,
           NEW db \in FreeOf(s, c), NEW t \in Serial, NEW d \in Client
    PROVE  /\ Sweep(db, now) \in FreeOf(s, c)
           /\ t # s \/ d # c => Touch(db, t, d, now) \in FreeOf(s, c)
           /\ Erase(db, t, d) \in FreeOf(s, c)
           /\ \A limit \in Limits :
                 [db EXCEPT !.limit[t] = limit, !.seen[t] = NoSessions] \in FreeOf(s, c)
  <1>1. /\ db \in Database /\ db.seen[s][c] = Absent
        /\ db.seen \in [Serial -> [Client -> Nat \cup {Absent}]]
    BY DatabaseParts DEF FreeOf, Sessions
  <1>2. Sweep(db, now) \in FreeOf(s, c)
    <2>1. Sweep(db, now) \in Database
      BY <1>1, MutationsAreDatabases
    <2>2. Sweep(db, now).seen[s][c] = Absent
      BY <1>1, DatabaseParts DEF Sweep
    <2> QED
      BY <2>1, <2>2 DEF FreeOf, Sessions
  <1>3. ASSUME t # s \/ d # c
        PROVE  Touch(db, t, d, now) \in FreeOf(s, c)
    <2>1. Touch(db, t, d, now) \in Database
      BY <1>1, MutationsAreDatabases
    <2>2. Touch(db, t, d, now).seen[s][c] = Absent
      BY <1>1, <1>3, DatabaseParts DEF Touch
    <2> QED
      BY <2>1, <2>2 DEF FreeOf, Sessions
  <1>4. Erase(db, t, d) \in FreeOf(s, c)
    <2>1. Erase(db, t, d) \in Database
      BY <1>1, MutationsAreDatabases
    <2>2. Erase(db, t, d).seen[s][c] = Absent
      BY <1>1, DatabaseParts DEF Erase
    <2> QED
      BY <2>1, <2>2 DEF FreeOf, Sessions
  <1>5. ASSUME NEW limit \in Limits
        PROVE  [db EXCEPT !.limit[t] = limit, !.seen[t] = NoSessions] \in FreeOf(s, c)
    <2> DEFINE e == [db EXCEPT !.limit[t] = limit, !.seen[t] = NoSessions]
    <2>1. e \in Database
      BY <1>1, MutationsAreDatabases
    <2>2. e.seen[s][c] = Absent
      BY <1>1, DatabaseParts DEF NoSessions
    <2>3. e \in FreeOf(s, c)
      <3> HIDE DEF e
      <3> QED
        BY <2>1, <2>2 DEF FreeOf, Sessions
    <2> QED
      BY <2>3
  <1> QED
    BY <1>2, <1>3, <1>4, <1>5

(* What load() reads from a cut file has no session that was not written.  *)
LEMMA CutsAreFree ==
    ASSUME NEW s \in Serial, NEW c \in Client, NEW db \in FreeOf(s, c),
           NEW e \in FilePrefixes(db)
    PROVE  e \in FreeOf(s, c)
  <1>1. e \in Database
    BY PrefixIsDatabase DEF FreeOf
  <1>2. db.seen[s][c] = Absent /\ db \in Database
    BY DEF FreeOf, Sessions
  <1>3. ASSUME NEW t \in Serial, e = CutBefore(db, t)
        PROVE  e.seen[s][c] = Absent
    BY <1>2, <1>3, DatabaseParts DEF CutBefore, NoSessions
  <1>4. ASSUME NEW t \in Serial, NEW d \in Client, NEW x \in {Absent, Ancient},
               e = CutAtSession(db, t, d, x)
        PROVE  e.seen[s][c] = Absent
    <2>1. SessionsCutAt(db.seen[t], d, x)[c] \in {db.seen[t][c], Absent, x}
      BY DEF SessionsCutAt
    <2>2. db.seen[t][c] = Absent => SessionsCutAt(db.seen[t], d, x)[c] = Absent
      BY DEF SessionsCutAt
    <2>3. e.seen[s] \in {db.seen[s], NoSessions} \/ (s = t /\ e.seen[s] = SessionsCutAt(db.seen[t], d, x))
      BY <1>4 DEF CutAtSession
    <2> QED
      BY <1>2, <2>2, <2>3 DEF NoSessions
  <1>5. e.seen[s][c] = Absent
    BY <1>3, <1>4 DEF FilePrefixes
  <1> QED
    BY <1>1, <1>5 DEF FreeOf, Sessions

-----------------------------------------------------------------------------
(* A process that is heard of keeps its seat.                              *)

HeldBy(p) ==
    /\ heard[p] <= clock
    /\ Working(p) /\ clock - heard[p] <= Timeout =>
          /\ disk \in InTime(SerialOf[p], IdOf[p], heard[p])
          /\ mode # "down" => store \in InTime(SerialOf[p], IdOf[p], heard[p])

SeatsHeld == \A p \in Proc : HeldBy(p)

(* With no cut and no torn file, a client that is told GRANTED or ALIVE is *)
(* recorded, now, in the file and in the memory.                           *)
LEMMA GrantedIsRecorded ==
    ASSUME Faults \subseteq {"open"}, Good(store), clock \in Nat, NEW p \in Proc,
           NEW command \in {"VERIFY", "HEARTBEAT", "RELEASE"},
           NEW reply \in {"GRANTED", "ALIVE"}, Execute(ResultOf(p, command), reply)
    PROVE  /\ disk' \in InTime(SerialOf[p], IdOf[p], clock)
           /\ mode' # "down" => store' \in InTime(SerialOf[p], IdOf[p], clock)
  <1> DEFINE s == SerialOf[p]
             c == IdOf[p]
             clean == Sweep(store, clock)
             e == Touch(clean, s, c, clock)
             w == ResultOf(p, command).writes
  <1>1. s \in Serial /\ c \in Client /\ store \in Database
    BY DEF Good
  <1>2. ResultOf(p, command).verdict = reply /\ Completes(w)
    BY DEF Execute, NoReply
  <1>3. CleanupWrites(store, clock) \in Seq(Database) /\ e \in Database /\ clean \in Database
    BY <1>1, CleanupWritesAreGood, MutationsAreDatabases DEF GoodWrites
  <1>4. w = Append(CleanupWrites(store, clock), e)
    BY <1>2 DEF ResultOf, VerifyResult, HeartbeatResult, ReleaseResult, Result
  <1>5. e.seen[s][c] = clock
    <2> HIDE DEF clean, s, c
    <2> QED
      BY <1>1, <1>3, DatabaseParts DEF Touch
  <1>6. e \in InTime(s, c, clock)
    BY <1>3, <1>5 DEF InTime
  <1> HIDE DEF e, s, c, w
  <1>7. Len(w) \in Nat /\ Len(w) # 0 /\ w[Len(w)] = e
    <2> HIDE DEF clean
    <2> QED
      BY <1>3, <1>4
  <1>8. AfterSaves(w, Len(w)) = e /\ FileAfter(w, Len(w)) = {e}
    BY <1>7 DEF AfterSaves, FileAfter, Written
  <1>9. disk' = e /\ (mode' # "down" => store' = e)
    BY <1>2, <1>8 DEF Completes, Continue
  <1> QED
    BY <1>6, <1>9 DEF s, c

(* Who works after a reply worked before, or was granted a seat.           *)
LEMMA WorkingAfter ==
    ASSUME NEW state, NEW reply, AfterReply(state, reply) \in {"running", "beating"}
    PROVE  state \in {"running", "beating"} \/ reply = "GRANTED"
  BY DEF AfterReply

LEMMA ServeHolds ==
    ASSUME Faults \subseteq {"open"}, OwnIds, SysIInv, QueueMatches, Serve,
           NEW p \in Proc, HeldBy(p)
    PROVE  HeldBy(p)'
  <1> DEFINE q       == Head(backlog).proc
             command == Head(backlog).command
             D       == InTime(SerialOf[p], IdOf[p], heard[p])
  <1>1. /\ q \in Proc /\ command \in {"VERIFY", "HEARTBEAT", "RELEASE"}
        /\ backlog \in Seq(Request) /\ backlog # <<>>
    BY OldestRequest DEF Serve, SysIInv, SysTypeOK
  <1>2. pc[q] \in {AskState[command], "killed"}
    BY <1>1, HeadAndTail DEF QueueMatches
  <1>3. PICK reply \in Replies :
            /\ Perform(q, command, reply)
            /\ pc' = [r \in Proc |->
                        IF r = q THEN AfterReply(pc[q], reply)
                        ELSE IF mode' = "down" THEN Reset(r) ELSE pc[r]]
            /\ heard' = IF reply \in {"GRANTED", "ALIVE"}
                        THEN [heard EXCEPT ![q] = clock] ELSE heard
    BY DEF Serve
  <1>4. /\ Good(store) /\ clock \in Nat /\ heard \in [Proc -> Nat]
        /\ SerialOf[p] \in Serial /\ IdOf[p] \in Client
        /\ SerialOf[q] \in Serial /\ IdOf[q] \in Client
    BY <1>1 DEF SysIInv, IInv, TypeOK, SysTypeOK
  <1> HIDE DEF q, command
  <1>5. Execute(ResultOf(q, command), reply)
    BY <1>1, <1>3, PerformExecutes
  <1>6. clock' = clock /\ mode # "down"
    BY <1>5 DEF Execute
  <1>7. CASE q = p /\ reply \in {"GRANTED", "ALIVE"}
    <2>1. heard'[p] = clock
      BY <1>3, <1>4, <1>7
    <2>2. /\ disk' \in InTime(SerialOf[p], IdOf[p], clock)
          /\ mode' # "down" => store' \in InTime(SerialOf[p], IdOf[p], clock)
      BY <1>1, <1>4, <1>5, <1>7, GrantedIsRecorded
    <2> QED
      BY <1>4, <1>6, <2>1, <2>2 DEF HeldBy
  <1>8. CASE ~(q = p /\ reply \in {"GRANTED", "ALIVE"})
    <2>1. heard'[p] = heard[p]
      BY <1>3, <1>4, <1>8
    <2>2. SUFFICES ASSUME Working(p)', clock - heard[p] <= Timeout
                   PROVE  disk' \in D /\ (mode' # "down" => store' \in D)
      BY <1>6, <2>1 DEF HeldBy
    <2>3. pc'[p] \in {pc[p], Reset(p)} \/ (q = p /\ pc'[p] = AfterReply(pc[p], reply))
      BY <1>3
    <2>4. pc[p] \in {"running", "beating"}
      BY <1>8, <2>2, <2>3, WorkingAfter DEF Working, Reset, NoReply
    <2>5. store \in D /\ disk \in D
      BY <1>6, <2>2, <2>4 DEF HeldBy, Working
    <2>6. heard[p] \in Nat /\ heard[p] <= clock
      BY <1>4 DEF HeldBy
    <2>7. Sweep(store, clock) \in D
      BY <1>4, <2>2, <2>5, <2>6, InTimeStays
    <2>8. Touch(Sweep(store, clock), SerialOf[q], IdOf[q], clock) \in D
      BY <1>4, <2>6, <2>7, InTimeStays
    <2>9. command = "RELEASE" => Erase(store, SerialOf[q], IdOf[q]) \in D
      <3>1. command = "RELEASE" => q # p
        BY <1>2, <2>4 DEF AskState
      <3>2. q # p => SerialOf[q] # SerialOf[p] \/ IdOf[q] # IdOf[p]
        BY <1>1 DEF OwnIds
      <3> QED
        BY <1>4, <2>5, <2>6, <3>1, <3>2, InTimeStays
    <2>10. CutsStayIn(D)
      BY DEF CutsStayIn
    <2> HIDE DEF D
    <2>11. GoodWrites(ResultOf(q, command).writes) /\ WritesIn(ResultOf(q, command).writes, D)
      BY <1>1, <1>4, <2>7, <2>8, <2>9, RequestWritesWithin
    <2> QED
      BY <1>5, <2>5, <2>10, <2>11, ExecuteWithin
  <1> QED
    BY <1>7, <1>8

LEMMA DeskHolds ==
    ASSUME Faults \subseteq {"open"}, SysIInv, Desk, NEW p \in Proc, HeldBy(p)
    PROVE  HeldBy(p)'
  <1> DEFINE D == InTime(SerialOf[p], IdOf[p], heard[p])
  <1>1. /\ IInv /\ Good(store) /\ clock \in Nat /\ heard[p] \in Nat /\ heard' = heard
        /\ SerialOf[p] \in Serial /\ IdOf[p] \in Client
        /\ pc \in [Proc -> States]
    BY DEF SysIInv, IInv, TypeOK, SysTypeOK, Desk
  <1>2. mode # "down" /\ clock' = clock
    BY DEF Desk, Issue, Status, Execute
  <1>3. SUFFICES ASSUME Working(p)', clock - heard[p] <= Timeout
                 PROVE  disk' \in D /\ (mode' # "down" => store' \in D)
    BY <1>1, <1>2 DEF HeldBy
  <1>4. pc'[p] \in {pc[p], Reset(p)}
    BY <1>1 DEF Desk, Ended
  <1>5. Working(p)
    BY <1>3, <1>4, WorkingAfter DEF Working, Reset, NoReply
  <1>6. store \in D /\ disk \in D
    BY <1>2, <1>3, <1>5 DEF HeldBy
  <1>7. Sweep(store, clock) \in D
    BY <1>1, <1>3, <1>6, InTimeStays
  <1>8. ASSUME NEW s \in Serial, NEW limit \in Limits, ~Known(store, s)
        PROVE  [store EXCEPT !.limit[s] = limit, !.seen[s] = NoSessions] \in D
    <2>1. s # SerialOf[p]
      BY <1>1, <1>6, <1>8, InTimeIsSession, UnknownIsEmpty
    <2> QED
      BY <1>1, <1>6, <2>1, InTimeStays
  <1>9. CutsStayIn(D)
    BY DEF CutsStayIn
  <1> HIDE DEF D
  <1> QED
    BY <1>1, <1>6, <1>7, <1>8, <1>9, DeskWithin

LEMMA HeldStep ==
    ASSUME Faults \subseteq {"open"}, OwnIds, SysIInv, QueueMatches, SeatsHeld,
           [SysNext]_sysVars
    PROVE  SeatsHeld'
  <1> SUFFICES ASSUME NEW p \in Proc PROVE HeldBy(p)'
    BY DEF SeatsHeld
  <1>0. /\ HeldBy(p) /\ pc \in [Proc -> States] /\ clock \in Nat /\ heard[p] \in Nat
    BY DEF SeatsHeld, SysIInv, SysTypeOK, TypeOK
  <1>1. ASSUME UNCHANGED <<disk, clock, heard>>, Working(p)' => Working(p),
               mode' # "down" => store' = store /\ mode # "down"
        PROVE  HeldBy(p)'
    BY <1>0, <1>1 DEF HeldBy
  <1>2. ASSUME Ended
        PROVE  Working(p)' => Working(p)
    BY <1>2, WorkingAfter DEF Ended, Working, Reset, NoReply
  <1>3. ASSUME NEW q \in Proc, Process(q)
        PROVE  HeldBy(p)'
    <2>1. UNCHANGED <<vars, heard>>
      BY <1>3 DEF Process, Launch, Beat, Finish, FinishSilently, Kill, Exchange
    <2>2. Working(p)' => Working(p)
      <3>1. CASE q # p
        <4>1. pc'[p] = pc[p]
          BY <1>0, <1>3, <3>1
             DEF Process, Launch, Beat, Finish, FinishSilently, Kill, Exchange
        <4> QED
          BY <4>1 DEF Working
      <3>2. CASE q = p /\ Launch(p)
        <4>1. pc'[p] \in {"verifying", AfterReply("verifying", NoReply)}
          BY <1>0, <3>2 DEF Launch, Exchange
        <4> QED
          BY <4>1, WorkingAfter DEF Working, NoReply
      <3>3. CASE pc[p] = "running"
        BY <3>3 DEF Working
      <3>4. CASE q = p /\ Kill(p)
        BY <1>0, <3>4 DEF Kill, Working
      <3> QED
        BY <1>3, <3>1, <3>2, <3>3, <3>4 DEF Process, Beat, Finish, FinishSilently
    <2> QED
      BY <1>1, <2>1, <2>2 DEF vars
  <1>4. CASE SilentClose
    <2>1. Ended \/ UNCHANGED pc
      BY <1>4 DEF SilentClose
    <2>2. Working(p)' => Working(p)
      BY <1>2, <2>1 DEF Working
    <2> QED
      BY <1>1, <1>4, <2>2 DEF SilentClose, Continue
  <1>5. CASE ServerCrash
    <2>1. UNCHANGED <<disk, clock, heard>> /\ mode' = "down" /\ Ended
      BY <1>5 DEF ServerCrash, Crash
    <2> QED
      BY <1>1, <1>2, <2>1
  <1>6. CASE ServerStart
    BY <1>0, <1>6 DEF ServerStart, Start, clientVars, HeldBy, Working
  <1>7. CASE Second
    BY <1>0, <1>7 DEF Second, Tick, clientVars, HeldBy, Working
  <1>8. CASE ServerSignal \/ SilentConnect \/ UNCHANGED sysVars
    BY <1>1, <1>8 DEF ServerSignal, Signal, SilentConnect, sysVars, clientVars, vars, Working
  <1> QED
    BY <1>0, <1>3, <1>4, <1>5, <1>6, <1>7, <1>8, ServeHolds, DeskHolds DEF SysNext

(* A process that was told GRANTED or ALIVE in the last Timeout seconds    *)
(* has its session, in the memory of a running server and in the file of a *)
(* stopped one, as long as files are not cut or torn: saves that throw,    *)
(* crashes, stops and restarts are all allowed.                            *)
THEOREM HeardKept ==
    ASSUME Faults \subseteq {"open"}, OwnIds
    PROVE  SysSpec => []HeardKeepsSeat
  <1>1. SysInit => QueueMatches /\ SeatsHeld
    BY DEF SysInit, Init, Epoch, QueueMatches, SeatsHeld, HeldBy, Working
  <1>2. SysIInv /\ QueueMatches /\ SeatsHeld /\ [SysNext]_sysVars
            => QueueMatches' /\ SeatsHeld'
    BY QueueStep, HeldStep
  <1>3. SysIInv /\ SeatsHeld => HeardKeepsSeat
    <2> SUFFICES ASSUME SysIInv, SeatsHeld, NEW p \in Proc, Working(p),
                        clock - heard[p] <= Timeout
                 PROVE  IdOf[p] \in Sessions(live, SerialOf[p])
      BY DEF HeardKeepsSeat
    <2>1. live \in InTime(SerialOf[p], IdOf[p], heard[p])
      BY DEF SeatsHeld, HeldBy, live
    <2>2. heard[p] \in Nat /\ SerialOf[p] \in Serial /\ IdOf[p] \in Client
      BY DEF SysIInv, SysTypeOK
    <2> QED
      BY <2>1, <2>2, InTimeIsSession
  <1> QED
    BY <1>1, <1>2, <1>3, SysInvariance, PTL DEF SysSpec

-----------------------------------------------------------------------------
(* A released session does not come back.                                  *)

FreedBy(p) ==
    pc[p] = "released" => /\ store \in FreeOf(SerialOf[p], IdOf[p])
                          /\ disk \in FreeOf(SerialOf[p], IdOf[p])

SeatsFreed == \A p \in Proc : FreedBy(p)

LEMMA EmptyIsFree ==
    ASSUME NEW s \in Serial, NEW c \in Client
    PROVE  EmptyDatabase \in FreeOf(s, c)
  BY EmptyIsGood DEF Good, FreeOf, Sessions, EmptyDatabase, NoSessions

LEMMA FreeIsCutFree ==
    ASSUME NEW s \in Serial, NEW c \in Client
    PROVE  CutsStayIn(FreeOf(s, c))
  BY CutsAreFree DEF CutsStayIn

(* A client that is told RELEASED is gone, however the file was cut.       *)
LEMMA ReleasedIsErased ==
    ASSUME Good(store), NEW s \in Serial, NEW c \in Client,
           Execute(ReleaseResult(store, s, c), "RELEASED")
    PROVE  disk' \in FreeOf(s, c) /\ store' \in FreeOf(s, c)
  <1> DEFINE e == Erase(store, s, c)
             w == ReleaseResult(store, s, c).writes
  <1>1. ReleaseResult(store, s, c).verdict = "RELEASED" /\ Completes(w)
    BY DEF Execute, NoReply
  <1>2. w = <<e>>
    BY <1>1 DEF ReleaseResult, Result
  <1>3. store \in Database
    BY DEF Good
  <1>4. e \in FreeOf(s, c)
    <2>1. e.seen[s][c] = Absent
      BY <1>3, DatabaseParts DEF Erase
    <2>2. e \in Database
      BY <1>3, DatabaseParts DEF Erase, Database
    <2> HIDE DEF e
    <2> QED
      BY <2>1, <2>2 DEF FreeOf, Sessions
  <1> HIDE DEF e, w
  <1>5. FileAfter(w, Len(w)) \subseteq FreeOf(s, c) /\ AfterSaves(w, Len(w)) = e
    BY <1>2, <1>4, CutsAreFree DEF FileAfter, AfterSaves, Written
  <1> QED
    BY <1>1, <1>4, <1>5, EmptyIsFree DEF Completes, Continue

LEMMA ReleasedAfter ==
    ASSUME NEW state, NEW reply, AfterReply(state, reply) = "released"
    PROVE  state = "released" \/ (state = "releasing" /\ reply = "RELEASED")
  BY DEF AfterReply

LEMMA ServeFrees ==
    ASSUME OwnIds, SysIInv, QueueMatches, Serve, NEW p \in Proc, FreedBy(p)
    PROVE  FreedBy(p)'
  <1> DEFINE q       == Head(backlog).proc
             command == Head(backlog).command
             D       == FreeOf(SerialOf[p], IdOf[p])
  <1>1. /\ q \in Proc /\ command \in {"VERIFY", "HEARTBEAT", "RELEASE"}
        /\ backlog \in Seq(Request) /\ backlog # <<>>
    BY OldestRequest DEF Serve, SysIInv, SysTypeOK
  <1>2. pc[q] \in {AskState[command], "killed"}
    BY <1>1, HeadAndTail DEF QueueMatches
  <1>3. PICK reply \in Replies :
            /\ Perform(q, command, reply)
            /\ pc' = [r \in Proc |->
                        IF r = q THEN AfterReply(pc[q], reply)
                        ELSE IF mode' = "down" THEN Reset(r) ELSE pc[r]]
    BY DEF Serve
  <1>4. /\ Good(store) /\ clock \in Nat
        /\ SerialOf[p] \in Serial /\ IdOf[p] \in Client
        /\ SerialOf[q] \in Serial /\ IdOf[q] \in Client
    BY <1>1 DEF SysIInv, IInv, TypeOK
  <1> HIDE DEF q, command
  <1>5. Execute(ResultOf(q, command), reply)
    BY <1>1, <1>3, PerformExecutes
  <1>6. SUFFICES ASSUME pc'[p] = "released"
                 PROVE  store' \in D /\ disk' \in D
    BY DEF FreedBy
  <1>7. CASE q = p
    <2>1. AfterReply(pc[p], reply) = "released"
      BY <1>3, <1>6, <1>7
    <2>2. pc[p] \in {"verifying", "beating", "releasing", "killed"}
      BY <1>1, <1>2, <1>7 DEF AskState
    <2>3. pc[p] = "releasing" /\ reply = "RELEASED"
      BY <2>1, <2>2, ReleasedAfter
    <2>4. command = "RELEASE"
      BY <1>1, <1>2, <1>7, <2>3 DEF AskState
    <2>5. Execute(ReleaseResult(store, SerialOf[p], IdOf[p]), "RELEASED")
      BY <1>5, <1>7, <2>3, <2>4 DEF ResultOf
    <2> QED
      BY <1>4, <2>5, ReleasedIsErased
  <1>8. CASE q # p
    <2>1. pc[p] = "released"
      BY <1>3, <1>6, <1>8, ReleasedAfter DEF Reset, NoReply
    <2>2. store \in D /\ disk \in D
      BY <2>1 DEF FreedBy
    <2>3. SerialOf[q] # SerialOf[p] \/ IdOf[q] # IdOf[p]
      BY <1>1, <1>8 DEF OwnIds
    <2>4. Sweep(store, clock) \in D /\ Erase(store, SerialOf[q], IdOf[q]) \in D
      BY <1>4, <2>2, FreeStays
    <2>5. Touch(Sweep(store, clock), SerialOf[q], IdOf[q], clock) \in D
      BY <1>4, <2>3, <2>4, FreeStays
    <2>6. CutsStayIn(D) /\ EmptyDatabase \in D
      BY <1>4, FreeIsCutFree, EmptyIsFree
    <2> HIDE DEF D
    <2>7. GoodWrites(ResultOf(q, command).writes) /\ WritesIn(ResultOf(q, command).writes, D)
      BY <1>1, <1>4, <2>4, <2>5, RequestWritesWithin
    <2> QED
      BY <1>5, <2>2, <2>6, <2>7, ExecuteWithin
  <1> QED
    BY <1>7, <1>8

LEMMA DeskFrees ==
    ASSUME SysIInv, Desk, NEW p \in Proc, FreedBy(p)
    PROVE  FreedBy(p)'
  <1> DEFINE D == FreeOf(SerialOf[p], IdOf[p])
  <1>1. /\ IInv /\ clock \in Nat /\ pc \in [Proc -> States]
        /\ SerialOf[p] \in Serial /\ IdOf[p] \in Client
    BY DEF SysIInv, SysTypeOK, TypeOK
  <1>2. SUFFICES ASSUME pc'[p] = "released"
                 PROVE  store' \in D /\ disk' \in D
    BY DEF FreedBy
  <1>3. pc[p] = "released"
    BY <1>1, <1>2, ReleasedAfter DEF Desk, Ended, Reset, NoReply
  <1>4. store \in D /\ disk \in D
    BY <1>3 DEF FreedBy
  <1>5. /\ Sweep(store, clock) \in D
        /\ \A s \in Serial, limit \in Limits :
              [store EXCEPT !.limit[s] = limit, !.seen[s] = NoSessions] \in D
    BY <1>1, <1>4, FreeStays
  <1>6. CutsStayIn(D) /\ EmptyDatabase \in D
    BY <1>1, FreeIsCutFree, EmptyIsFree
  <1> HIDE DEF D
  <1> QED
    BY <1>1, <1>4, <1>5, <1>6, DeskWithin

LEMMA FreedStep ==
    ASSUME OwnIds, SysIInv, QueueMatches, SeatsFreed, [SysNext]_sysVars
    PROVE  SeatsFreed'
  <1> SUFFICES ASSUME NEW p \in Proc PROVE FreedBy(p)'
    BY DEF SeatsFreed
  <1>0. /\ FreedBy(p) /\ pc \in [Proc -> States]
        /\ SerialOf[p] \in Serial /\ IdOf[p] \in Client
        /\ EmptyDatabase \in FreeOf(SerialOf[p], IdOf[p])
    BY EmptyIsFree DEF SeatsFreed, SysIInv, SysTypeOK
  <1>1. ASSUME disk' = disk, store' \in {store, disk, EmptyDatabase},
               pc'[p] = "released" => pc[p] = "released"
        PROVE  FreedBy(p)'
    BY <1>0, <1>1 DEF FreedBy
  <1>2. ASSUME Ended \/ UNCHANGED pc
        PROVE  pc'[p] = "released" => pc[p] = "released"
    BY <1>2, ReleasedAfter DEF Ended, Reset, NoReply
  <1>3. ASSUME NEW q \in Proc, Process(q)
        PROVE  FreedBy(p)'
    <2>1. UNCHANGED vars
      BY <1>3 DEF Process, Launch, Beat, Finish, FinishSilently, Kill, Exchange
    <2>2. \E state \in States :
             /\ state \in {"verifying", "beating", "releasing", "exited", "killed"}
             /\ pc'[p] \in {pc[p], state, AfterReply(state, NoReply)}
      BY <1>0, <1>3
         DEF Process, Launch, Beat, Finish, FinishSilently, Kill, Exchange, States, Waiting
    <2>3. pc'[p] = "released" => pc[p] = "released"
      BY <2>2, ReleasedAfter DEF NoReply
    <2> QED
      BY <1>1, <2>1, <2>3 DEF vars
  <1>4. CASE SilentClose
    BY <1>1, <1>2, <1>4 DEF SilentClose, Continue
  <1>5. CASE ServerCrash
    BY <1>1, <1>2, <1>5 DEF ServerCrash, Crash
  <1>6. CASE ServerStart \/ ServerSignal \/ Second
    <2>1. UNCHANGED pc /\ disk' = disk /\ store' \in {store, disk}
      BY <1>6 DEF ServerStart, Start, ServerSignal, Signal, Second, Tick, clientVars
    <2> QED
      BY <1>1, <1>2, <2>1
  <1>7. CASE SilentConnect \/ UNCHANGED sysVars
    <2>1. UNCHANGED <<pc, disk, store>>
      BY <1>7 DEF SilentConnect, sysVars, clientVars, vars
    <2> QED
      BY <1>1, <1>2, <2>1
  <1> QED
    BY <1>0, <1>3, <1>4, <1>5, <1>6, <1>7, ServeFrees, DeskFrees DEF SysNext

(* Once a process has read OK RELEASED its session is gone from the memory *)
(* and the file for good, whatever saves fail, are cut or are torn later.  *)
THEOREM ReleasedForGood ==
    ASSUME OwnIds
    PROVE  SysSpec => []ReleasedStaysFree
  <1>1. SysInit => QueueMatches /\ SeatsFreed
    BY DEF SysInit, QueueMatches, SeatsFreed, FreedBy
  <1>2. SysIInv /\ QueueMatches /\ SeatsFreed /\ [SysNext]_sysVars
            => QueueMatches' /\ SeatsFreed'
    BY QueueStep, FreedStep
  <1>3. SeatsFreed => ReleasedStaysFree
    BY DEF SeatsFreed, FreedBy, ReleasedStaysFree, FreeOf
  <1> QED
    BY <1>1, <1>2, <1>3, SysInvariance, PTL DEF SysSpec

(* With saves that succeed, the server keeps in the system, too, what      *)
(* LicenseSeats promises.                                                  *)
THEOREM SysPromiseKept ==
    ASSUME Faults = {}
    PROVE  SysSpec => ImplementsSeats
  BY ServerInSystem, PromiseKept, PTL

=============================================================================
