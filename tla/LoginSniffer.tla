----------------------------- MODULE LoginSniffer -----------------------------
(* The FTP and HTTP login sniffers of ex3: a capture of the packets between     *)
(* clients and servers, cut into segments anywhere, is put together again to     *)
(* lines (FTP) or messages (HTTP), and logins are matched with their verdicts.   *)
(* Clients and servers are external: a client sends one or two messages and      *)
(* waits; its server answers each, in order.  A message is two units of text; an *)
(* HTTP message with a body states its Content-Length.  The programs append what  *)
(* they capture in the order in which it comes and look at no sequence number, so  *)
(* that a segment the capture misses, or has late or twice, spoils the text.       *)
EXTENDS Naturals, Sequences, SequencesExt

CONSTANTS
    Conn,           \* TCP connections, the keys of `sessions`
    User,
    MaxMessages,    \* bound of the messages all clients send
    MaxFaults       \* bound of the oddities, on the wire and in the replies

Nobody == "nobody"

ASSUME SnifferAssumption ==
    MaxMessages \in Nat /\ MaxFaults \in Nat /\ Nobody \notin User

VARIABLES
    snifferTool,    \* "ftp" or "http"
    wire,           \* units sent each way and not captured yet
    late,           \* segments that the capture did not have in their place
    owed,           \* messages the server has to answer
    lastUser,       \* whom the server takes the client for
    sentCount,
    session,        \* Session of either program
    rows,           \* the rows of the CSV file
    judged,         \* what the servers have decided
    odd,            \* connections in which something odd has happened
    faults,
    stopped         \* an exception has ended the program

netVars == <<wire, late, owed, lastUser, sentCount, judged>>
snifferVars == <<snifferTool, netVars, session, rows, odd, faults, stopped>>

Parts == 2

NoSession == [user |-> Nobody, client |-> <<>>, server |-> <<>>, pending |-> <<>>]

SnifferStart(tool) ==
    /\ snifferTool = tool
    /\ wire = [c \in Conn |-> [client |-> <<>>, server |-> <<>>]]
    /\ late = {}
    /\ owed = [c \in Conn |-> <<>>]
    /\ lastUser = [c \in Conn |-> Nobody]
    /\ sentCount = [c \in Conn |-> 0]
    /\ session = [c \in Conn |-> NoSession]
    /\ rows = {}
    /\ judged = {}
    /\ odd = {}
    /\ faults = 0
    /\ stopped = FALSE

SnifferInit == \E tool \in {"ftp", "http"} : SnifferStart(tool)

Units(m) == [i \in 1 .. Parts |-> [of |-> m, part |-> i]]

\* A login is a POST with a name in HTTP, a PASS after a USER in FTP.
Login(m) == m.type \in {"pass", "post"}

\* Messages number k that a client may send.
Request(k) ==
    {[from |-> "client", id |-> k, type |-> "other", user |-> Nobody]} \cup
    IF snifferTool = "ftp"
    THEN {[from |-> "client", id |-> k, type |-> "user", user |-> u] : u \in User}
         \cup {[from |-> "client", id |-> k, type |-> "pass", user |-> Nobody]}
    ELSE {[from |-> "client", id |-> k, type |-> "post", user |-> u] : u \in User}

\* Whom the server takes the client for after message m.
UserAfter(c, m) == IF m.user = Nobody THEN lastUser[c] ELSE m.user

ClientSends(c, m) ==
    /\ Len(owed[c]) < 2
    /\ wire[c].server = <<>>
    /\ wire' = [wire EXCEPT ![c].client = @ \o Units(m)]
    /\ owed' = [owed EXCEPT ![c] = Append(@, m)]
    /\ sentCount' = [sentCount EXCEPT ![c] = m.id]
    /\ UNCHANGED <<snifferTool, late, lastUser, judged, session, rows, odd, faults, stopped>>

\* The server answers the oldest message: it lets the client in (230), it does
\* not (530), or it says something else.  A verdict where none is due, or none where
\* one is, counts as an oddity.
ServerReplies(c, verdict) ==
    LET m == Head(owed[c])
        usual == Login(m) <=> verdict # "none"
    IN  /\ owed[c] # <<>>
        /\ usual \/ faults < MaxFaults
        /\ \A i \in DOMAIN wire[c].client : wire[c].client[i].of # m
        /\ wire' = [wire EXCEPT ![c].server = @ \o
              Units([from |-> "server", id |-> m.id, type |-> verdict,
                     user |-> Nobody])]
        /\ owed' = [owed EXCEPT ![c] = Tail(@)]
        /\ lastUser' = [lastUser EXCEPT ![c] = UserAfter(c, m)]
        /\ judged' = IF Login(m) /\ verdict # "none"
                     THEN judged \cup {[conn |-> c, id |-> m.id,
                                        user |-> UserAfter(c, m),
                                        result |-> verdict]}
                     ELSE judged
        /\ odd' = IF usual THEN odd ELSE odd \cup {c}
        /\ faults' = IF usual THEN faults ELSE faults + 1
        /\ UNCHANGED <<snifferTool, late, sentCount, session, rows, stopped>>

\* A line or message that is complete: the units after the last one that ended
\* one.  It is understood if it is what was sent; what is in front of a reply does
\* not matter in HTTP, where the verdict is looked for anywhere.
Understood(line) ==
    LET m == Last(line).of
    IN  \/ line = Units(m)
        \/ snifferTool = "http" /\ m.from = "server"

\* The buffer a unit goes to (`from_client ? ... : ...`).
Mutant_BufferOf(m) == "client"
BufferOf(m) == m.from

\* What a session becomes, and the rows that are written, when one more unit of
\* connection c has been appended to the buffer of its direction: drain_lines or
\* drain_http_messages, and the body of the loop over what they return.
Absorb(c, state, unit) ==
    LET m == unit.of
        s == state.session
        line == Append(s[BufferOf(m)], unit)
        kept == [s EXCEPT ![BufferOf(m)] =
                    IF unit.part = Parts THEN <<>> ELSE line]
        attempt == [id |-> m.id,
                    user |-> IF m.type = "post" THEN m.user ELSE s.user]
    IN  IF unit.part # Parts \/ ~Understood(line)
        THEN [state EXCEPT !.session = kept]
        ELSE CASE m.type = "user" ->
                    [state EXCEPT !.session = [kept EXCEPT !.user = m.user]]
               [] Login(m) ->
                    [state EXCEPT !.session =
                        [kept EXCEPT !.pending = Append(@, attempt)]]
               [] m.type \in {"SUCCEED", "FAILED"} /\ s.pending # <<>> ->
                    [session |-> [kept EXCEPT !.pending = Tail(@)],
                     rows |-> state.rows \cup
                        {[conn |-> c, id |-> Head(s.pending).id,
                          user |-> Head(s.pending).user, result |-> m.type]}]
               [] OTHER -> [state EXCEPT !.session = kept]

\* The callback for a packet with these units.
Absorbed(c, units) ==
    FoldLeft(LAMBDA state, unit : Absorb(c, state, unit),
             [session |-> session[c], rows |-> rows], units)

OnPacket(c, units) ==
    /\ session' = [session EXCEPT ![c] = Absorbed(c, units).session]
    /\ rows' = Absorbed(c, units).rows

\* The next segment one way, of k units.
Capture(c, from, k) ==
    /\ k <= Len(wire[c][from])
    /\ OnPacket(c, SubSeq(wire[c][from], 1, k))
    /\ wire' = [wire EXCEPT ![c][from] = SubSeq(@, k + 1, Len(@))]
    /\ UNCHANGED <<snifferTool, late, owed, lastUser, sentCount, judged, odd, faults,
                   stopped>>

\* The capture does not have the next segment in its place: it was dropped, or it
\* will come behind others.
CaptureMisses(c, from, k) ==
    /\ k <= Len(wire[c][from])
    /\ faults < MaxFaults
    /\ wire' = [wire EXCEPT ![c][from] = SubSeq(@, k + 1, Len(@))]
    /\ late' = late \cup {[conn |-> c, from |-> from, units |-> SubSeq(wire[c][from], 1, k)]}
    /\ odd' = odd \cup {c}
    /\ faults' = faults + 1
    /\ UNCHANGED <<snifferTool, owed, lastUser, sentCount, judged, session, rows, stopped>>

CaptureLate(segment) ==
    /\ segment \in late
    /\ OnPacket(segment.conn, segment.units)
    /\ late' = late \ {segment}
    /\ UNCHANGED <<snifferTool, wire, owed, lastUser, sentCount, judged, odd, faults, stopped>>

\* A segment is captured and will be sent again: it is appended once more.
CaptureTwice(c, from, k) ==
    /\ k <= Len(wire[c][from])
    /\ faults < MaxFaults
    /\ OnPacket(c, SubSeq(wire[c][from], 1, k))
    /\ odd' = odd \cup {c}
    /\ faults' = faults + 1
    /\ UNCHANGED <<snifferTool, netVars, stopped>>

\* Short frames are padded by Ethernet, and decode_packet takes all that was
\* captured for payload (pcap_lab.cpp:199-202): a bare acknowledgement puts zero
\* bytes in front of the next message.
CapturePadding(c, from) ==
    /\ faults < MaxFaults
    /\ OnPacket(c, <<[of |-> [from |-> from, id |-> 0, type |-> "zeros",
                              user |-> Nobody], part |-> 0]>>)
    /\ odd' = odd \cup {c}
    /\ faults' = faults + 1
    /\ UNCHANGED <<snifferTool, netVars, stopped>>

\* Is the message that unit i ends what was sent?  Garbled text has one that is not.
AsSent(text, i) ==
    /\ i > 1 /\ text[i - 1] = [of |-> text[i].of, part |-> 1]
    /\ i > 2 => text[i - 2].part = Parts
Garbled(text) == \E i \in DOMAIN text : text[i].part = Parts /\ ~AsSent(text, i)

\* std::stoul may not find a number in such a Content-Length, and nobody catches
\* what it throws then: the program ends, for all connections, and of the rows the
\* last ones may still be in the buffer of the stream.
Throws(c, from, units) ==
    /\ snifferTool = "http"
    /\ Garbled(session[c][from] \o units)
    /\ stopped' = TRUE
    /\ rows' \in SUBSET rows
    /\ UNCHANGED <<snifferTool, netVars, session, odd, faults>>

SnifferNext ==
    /\ ~stopped
    /\ \/ \E c \in Conn :
            \/ /\ FoldFunction(+, 0, sentCount) < MaxMessages
               /\ \E m \in Request(sentCount[c] + 1) : ClientSends(c, m)
            \/ \E verdict \in {"SUCCEED", "FAILED", "none"} : ServerReplies(c, verdict)
            \/ \E from \in {"client", "server"} :
                  \/ \E k \in 1 .. 2 * Parts :
                        \/ Capture(c, from, k)
                        \/ CaptureTwice(c, from, k)
                        \/ CaptureMisses(c, from, k)
                        \/ k <= Len(wire[c][from]) /\ Throws(c, from, SubSeq(wire[c][from], 1, k))
                  \/ CapturePadding(c, from)
       \/ \E segment \in late :
            \/ CaptureLate(segment)
            \/ Throws(segment.conn, segment.from, segment.units)

SnifferSpec == SnifferInit /\ [][SnifferNext]_snifferVars

-------------------------------------------------------------------------------
\* In a connection where the server gives a verdict on every login and on nothing
\* else, and whose segments the capture has all, once, in the order in which they
\* were sent and with nothing between them (no frame that was padded), what is
\* written is what the server decided, on the right name, and once all is captured
\* nothing is missing: however the text is cut into segments, however connections
\* are interleaved and whatever happens to the others, unless the text of one of
\* those ends the program (ftp_login_sniffer.cpp:107-155,
\* http_login_sniffer.cpp:138-189, pcap_lab.cpp:365-438).
RowsAreTrue ==
    /\ stopped => odd # {}
    /\ \A c \in Conn \ odd :
        LET written == {r \in rows : r.conn = c}
            decided == {r \in judged : r.conn = c}
        IN  /\ written \subseteq decided
            /\ ~stopped /\ wire[c].server = <<>> => written = decided
===============================================================================
