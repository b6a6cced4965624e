--------------------------------- MODULE Ping ---------------------------------
(* Two clients that ask and wait: ping (LAB9/49) and the ICMP timestamp client *)
(* (LAB10), with their servers.  A client gives up on a request after a timeout*)
(* and sends the next; replies stay in the raw socket until somebody takes them*)
(* and may be late, lost, overtaken or doubled (the kernel answers beside the  *)
(* server).  So a packet, once sent, can be taken at any time or never.         *)
EXTENDS Integers, Sequences

CONSTANTS
    PingCount,      \* requests to send
    SeqSize,        \* 65536: a sequence number has 16 bits
    Day,            \* ICMP_DAY_MILLISECONDS
    WordSize,       \* 2^32: arithmetic on uint32_t
    PingMaxClock    \* bound of the clock

ASSUME PingAssumption ==
    /\ {PingCount, SeqSize, Day, WordSize, PingMaxClock} \subseteq Nat
    /\ SeqSize > 1 /\ 1 < Day /\ 2 * Day <= WordSize

VARIABLES
    pingTool,       \* "ping" or "timestamp"
    pingPc,         \* "send", "wait", "done", "failed"
    pingSent,       \* when each request was sent, oldest first
    pingReplies,    \* replies on the way or in the socket
    pingPrinted,    \* the times printed last
    pingClock

pingVars == <<pingTool, pingPc, pingSent, pingReplies, pingPrinted, pingClock>>

\* utc_day_milliseconds.
DayTime(t) == t % Day

\* elapsed_milliseconds.
Mutant_Elapsed(start, end) == ((end - start) % WordSize) % Day
Elapsed(start, end) == ((end + Day - start) % WordSize) % Day

PingStart(tool) ==
    /\ pingTool = tool
    /\ pingPc = "send"
    /\ pingSent = <<>>
    /\ pingReplies = {}
    /\ pingPrinted = [rtt |-> 0, real |-> 0, wait |-> 0, waited |-> 0]
    /\ pingClock = 0

PingInit == \E tool \in {"ping", "timestamp"} : PingStart(tool)

\* A packet outlives fewer requests than there are sequence numbers.
Young(k, n) == k + SeqSize > n

\* sendto.
PingSend ==
    LET n == Len(pingSent) + 1
    IN  /\ pingPc = "send"
        /\ pingTool = "ping" => n < SeqSize
        /\ pingSent' = Append(pingSent, pingClock)
        /\ pingReplies' = {p \in pingReplies : Young(p.of, n)}
        /\ pingPc' = "wait"
        /\ UNCHANGED <<pingTool, pingPrinted, pingClock>>

\* struct.pack("!H", sequence) raises when a number does not fit 16 bits.
PingOverflow ==
    /\ pingPc = "send" /\ pingTool = "ping"
    /\ Len(pingSent) + 1 = SeqSize
    /\ pingPc' = "failed"
    /\ UNCHANGED <<pingTool, pingSent, pingReplies, pingPrinted, pingClock>>

\* A server answers request k.  It reads the clock when the request comes and
\* again when it builds the reply.
PingAnswer(k, delay) ==
    /\ Young(k, Len(pingSent))
    /\ pingClock + delay <= PingMaxClock
    /\ pingReplies' = pingReplies \cup
          {[of |-> k, seq |-> k % SeqSize, sent |-> pingSent[k], waited |-> delay,
            receive |-> DayTime(pingClock),
            transmit |-> DayTime(pingClock + delay)]}
    /\ pingClock' = pingClock + delay
    /\ UNCHANGED <<pingTool, pingPc, pingSent, pingPrinted>>

\* receive_reply passes over what it does not accept: ping looks at the
\* identifier only, the timestamp client at the sequence number too.
Mutant_Accepts(p) == TRUE
Accepts(p) == pingTool = "timestamp" => p.seq = Len(pingSent) % SeqSize

PingAfterRequest ==
    pingPc' = IF Len(pingSent) = PingCount THEN "done" ELSE "send"

\* ping measures from the time in the payload, the timestamp client from the
\* time it noted when it sent.
Rtt(p) == pingClock - (IF pingTool = "ping" THEN p.sent
                       ELSE pingSent[Len(pingSent)])

PingReceive(p) ==
    /\ pingPc = "wait"
    /\ Accepts(p)
    /\ pingPrinted' = [rtt |-> Rtt(p), real |-> pingClock - pingSent[p.of],
                       wait |-> Elapsed(p.receive, p.transmit),
                       waited |-> p.waited]
    /\ PingAfterRequest
    /\ UNCHANGED <<pingTool, pingSent, pingReplies, pingClock>>

PingTimeout ==
    /\ pingPc = "wait"
    /\ PingAfterRequest
    /\ UNCHANGED <<pingTool, pingSent, pingReplies, pingPrinted, pingClock>>

PingTick ==
    /\ pingClock < PingMaxClock
    /\ pingClock' = pingClock + 1
    /\ UNCHANGED <<pingTool, pingPc, pingSent, pingReplies, pingPrinted>>

PingNext ==
    \/ PingSend
    \/ PingOverflow
    \/ \E k \in DOMAIN pingSent, delay \in {0, 1} : PingAnswer(k, delay)
    \/ \E p \in pingReplies : PingReceive(p)
    \/ PingTimeout
    \/ PingTick

PingSpec == PingInit /\ [][PingNext]_pingVars

-------------------------------------------------------------------------------
\* Every time that is printed is the time of the request whose number is
\* printed with it: late replies, replies that come twice, replies to requests
\* given up, sequence numbers that come round and a wait of the server across
\* midnight do not falsify it (ping_client.py:59-66, icmp_time_client.c:89-94,
\* 197-198, icmp_time_common.c:65-67).
TimesAreRight ==
    /\ pingPrinted.rtt = pingPrinted.real
    /\ pingPrinted.wait = pingPrinted.waited
===============================================================================
