# Formal model of the computer-network laboratory programs

This directory holds a TLA+ model of the programs in this repository: modules
checked with TLC on small instances and theorems checked with TLAPS for every
instance.  The repository is a collection of laboratory exercises (`LAB*`,
`ex*`, `新建ex7`); each is a program, or a few programs that talk to each other.
There is no shared library, so the model is a family of independent
specifications, one per program that has behaviour worth checking.

Contents: [inventory](#inventory), [plan](#plan), [the licence
system](#the-licence-system), [CSMA/CD](#csmacd-stations),
[stop-and-wait](#stop-and-wait), [sliding window](#sliding-window), [datagram
transfers](#datagram-transfers), [services](#services), [networks and
codes](#networks-and-codes), [findings](#findings), [conventions](#conventions),
[what is proved](#what-is-proved), [what is not modelled](#what-is-not-modelled).

## Inventory

For each component: state, operations, interactions, what is hard, and what
makes it correct.  The module is named in brackets.

### Stateful and concurrent programs

**Licence server and client** (`新建ex7/src`; `LicenseStore`, `LicenseServer`,
`LicenseSystem`, `LicenseSeats`).  *State*: the server's map of licences, each
with a limit and a map of sessions (client id, last seen); the text file it is
saved to; the stop flag; per client process its place in `run_client`.
*Operations*: ISSUE, VERIFY, HEARTBEAT, RELEASE, STATUS, the lazy `cleanup` in
three of them, `load` at start, `save` after every change; the client verifies,
heartbeats, releases.  *Interactions*: one TCP connection per command, served by
one thread in order; processes share licences through the server only.  *Hard*:
crashes between and inside saves, saves that throw or fail in silence, replies
lost after the change was made, timeouts racing late heartbeats, a silent peer
blocking the only thread, clients that ignore what they are told.  *Correct if*:
sessions never exceed the limit, an acknowledged session survives restarts, only
its own release or a timeout costs a client its seat, nobody waits forever.

**CSMA/CD stations** (`LAB5/3`; `CsmaCd`).  *State*: the shared medium's counter of
active transmissions (mutex), two start gates (mutex, condition variable), per
station its frame number, attempt and whether this is its first try.
*Operations*: sense, begin, check for a collision, end, back off.  *Hard*: sensing
and beginning are two critical sections; the collision check is a later, third
one, made by each station alone.  *Correct if*: collided frames are not counted as
delivered, every frame is delivered in the end, the gates let everybody through.

**Stop-and-wait** (`LAB11/13`; `StopAndWait`).  *State*: two unbounded queues
(mutex, condition variable), the sender's sequence number and bit, the receiver's
expected bit and delivery count.  *Operations*: send, wait for an acknowledgement
with a timeout, retransmit, receive with random loss, acknowledge, stop.  *Hard*:
timeouts racing acknowledgements that are late and not lost, stale
acknowledgements, duplicates overtaken by the stop frame.  *Correct if*: frames are
delivered exactly once and in order, the sender is never more than one ahead of
the receiver, both threads end.

**Sliding window** (`LAB11/14`; `SlidingWindow`).  *State*: a shared record under one mutex
(send base, next sequence number, receive base, per-packet flags), two channels, a
monitor thread.  *Operations*: fill the window, take acknowledgements, retransmit
what timed out, receive (new, duplicate, outside the window), print the state.
*Hard*: the monitor reads between two critical sections of the sender, the
retransmission list is stale when it is sent, acknowledgements are lost.
*Correct if*: what is acknowledged was received, packets in flight fit the window,
delivery is in order, everything is delivered in the end.

**E-mail verification server** (`LAB16/17`; `MailVerify`).  *State*: registered users
with code, deadline and an active flag; mail files.  *Operations*: register, verify,
list, expire.  *Hard*: the mail is written after the user is inserted, codes are a
function of user and address, names are put into links as they are and decoded when
a link is opened, the clock is read twice in a request.  *Correct if*: nobody is active
without the mail of his own name, nobody replaces a registration that is still good.

**Multicast transfer** (`LAB14/16`) and **file transfer over UDP** (`LAB14/17`;
`DatagramTransfer` for both).  *State*: the receiver's table of received blocks, its
counter, and what the first packet fixed of the file.  *Hard*: loss, duplication,
reordering, datagrams of another transfer, writes that fail, an exit code that has to
tell whether the file is complete.  *Correct if*: files are not mixed, the counter
counts the table, no chunk of the adopted file that arrived leaves its place empty,
exit 0 means complete.

**File transfer over TCP** (`LAB14/17`; `TcpTransfer`).  *State*: bytes read, written and
missing on each side.  *Hard*: partial reads and writes, an early end of stream that
looks like the end of the file, a file that changes its length after the size was sent.
*Correct if*: two exit codes of 0 mean a complete file.

**DHCP server** (`LAB9/50`; `Dhcp`).  *State*: none but the static table; the protocol's
state is with the clients.  *Hard*: two servers, a REQUEST meant for the other one, an
address that clients take with them from elsewhere.  *Correct if*: a client gets what
it chose and loses it only where servers disagree.

**Ping over UDP** (`LAB9/49`) and **ICMP timestamp** (`LAB10`; `Ping` for both).  *State*:
the requests sent, the packets in the socket.  *Hard*: a late or repeated reply matched
to a later request; sequence numbers that come round; milliseconds that wrap at
midnight.  *Correct if*: every time printed is the time of the request it is printed for.

**FTP and HTTP login sniffers** (`ex3`; `LoginSniffer`).  *State*: per TCP session the
bytes not yet parsed, the user name seen, the commands waiting for a reply.  *Hard*:
segments that split lines, pipelined commands, segments that the capture misses, has late
or has twice, padded frames, an exception that ends the program.  *Correct if*: the
rows written are the verdicts servers gave, on the right names, and what spoils one
session spoils no other.

**Application servers of ex6** (`ex6/chapter8_app_services/scripts`; `LabMail` for the
mailbox of SMTP and POP3, `FtpService` for the directory of FTP).  *State*: one mailbox
and one directory that all threads use without a lock; per POP3 session the numbers
marked for deletion, per FTP session the log-in, the passive socket and the transfer.
*Hard*: numbers are places in a mailbox that grows and is replaced meanwhile; an upload
empties the file under other transfers; transfers break.  *Correct if*: what leaves the
mailbox is what a client marked, and a download is the last upload.

**RIP distance vectors** (`LAB13/34`; `RipNetwork`).  *State*: the routing table.
*Operation*: merge a neighbour's table.  *Hard*: old tables that go round, networks of
routers counting to infinity after a failure.  *Correct if*: no route is shorter than
the shortest way, and all tables come to be right.

**Learning bridge** (`LAB6/1`, `LAB7/29`, the same program twice; `Bridge`).  *State*:
the table from address to port.  *Operations*: learn, forward, flood, filter.
*Hard*: a station that moves, tables that are stale.  *Correct if*: a station that has
announced itself is reached.

**Colour channel** (`LAB1`; `ColourChannel`).  *State*: the last colour seen by the camera
and how often.  *Hard*: frames sampled while a colour comes or goes; between two sends
the camera sees what is behind the screen.  *Correct if*: a mixture is not read as
something else, only what was shown or what the background itself passes for.

**Access points** (`LAB6/2`; `AccessPoints`).  *State*: the plan, a list that three stages
change.  *Hard*: the second stage overwrites what the first has chosen when the plan is
full.  *Correct if*: the plan keeps to its limit, serves every floor, and neighbours
have channels of their own.

**DNS lookup** (`LAB15/25`; `DnsLookup`).  *State*: the query, the bytes of the answer.
*Hard*: compressed names that point back into names that point back.  *Correct if*: the
records printed are the records sent.

### Pure algorithms

**Multiplexing** (`LAB3/25`: asynchronous and synchronous TDM, FDM, CDM) and **RS-232C
frames** (`LAB2`), `LineCodes` for both; **IP fragmentation** (`LAB8/61`; `Fragments`);
**Dijkstra** (`LAB13/35`; `Dijkstra`).  *Correct if* decoding undoes encoding and refuses
what is not a code word, fragments reassemble to the datagram, distances are those of
shortest ways.  *Hard*: lengths that differ, damage, fragments of fragments, overflow,
stale entries of the queue.

### Left aside

Packet statistics (`ex3`), modulation (`LAB3/26`), parity (`LAB4`), the header and
address exercises (`LAB5/1`, `LAB5/2`, `LAB8/59`, `LAB8/60`), the NTP server (`LAB11/12`),
FTP reply parsing (`LAB17/15`), the container driver (`ex6/main.cpp`), report tooling;
the reasons are [below](#what-is-not-modelled).

## Plan

Order: what several actors can break first, pure algorithms last.  Done so far:

1. **Licence system** - `LicenseStore` (data and commands), `LicenseServer` (the
   process, its file and its faults), `LicenseSeats` (the abstract promise),
   `LicenseSystem` (clients, backlog, silent peer).
2. **`CsmaCd`** - stations, medium and gates.
3. **`StopAndWait`** - sender, receiver, channels, loss and timeouts, refined to
   `OrderedDelivery`, an abstract in-order exactly-once delivery.
4. **`SlidingWindow`** - shared record, channels, monitor; the same abstract delivery.
5. **`DatagramTransfer`** - multicast and UDP receivers.
6. **Services** - `MailVerify`, `Ping`, `Dhcp`, `TcpTransfer`, `LoginSniffer`,
   `DnsLookup`, `LabMail`, `FtpService`; composed by `MCServices`.
7. **Networks and codes** - `RipNetwork`, `Bridge`, `Dijkstra`, `AccessPoints`,
   `LineCodes`, `Fragments`, `ColourChannel`; composed by `MCNetworks`.

The programs of steps 6 and 7 have nothing to do with each other.  The two MC modules
have a variable `program` that says which of them a behaviour is about, so that
their state spaces add up and do not multiply.

Left: nothing of the plan.  Every invariant and action property that a passing run checks is a
theorem, a few of them under hypotheses that [are named](#what-is-proved), but for `StopsOnlyWhenDone`,
of which all is proved that does not need ENABLED; the liveness properties stay with TLC.

Runs stay small (two or three actors, one or two of each resource, three or four
steps of the clock) because each hazard in the list needs at most that many.

## The licence system

### From code to model

`LicenseStore` has no variables.  A database is a record `limit`, `seen`: total
functions whose default values (0, `Absent`) stand for "not in the map".  Serials and
client ids are numbers that stand for their ranks in the order of `std::map`; the
order matters for one thing, what is left of a file that was cut (`CutBefore`,
`CutAtSession`).  A command is an operator that gives the verdict of the reply and
`writes`, the databases it passes to `save()` in order: at most one from `cleanup()` and
one of its own.  Every mutation of the map is followed by a save of the map, so
`writes` also says what the memory holds at each of these moments.

`LicenseServer` has the memory (`store`), what `load()` would read from the file
(`disk`), the process (`mode`) and the clock.  A command is one action, `Execute`,
which ends in one of these ways: all saves return and the verdict is sent; save
number k throws, and the reply is `SERVER_ERROR`; the process dies after k saves or
inside the next one.  `Faults` says which of these the environment may use:

| fault | code | effect |
|---|---|---|
| `"open"` | `license_server.cpp:284-287` | the file cannot be opened, `save()` throws, file unchanged |
| `"short"` | `license_server.cpp:289-298` | a failed write is not noticed, the file is a prefix, the reply is OK |
| `"torn"` | the same lines | the process dies while the file is rewritten |

Crashes and restarts between commands are always possible.  A stop signal sets a flag
that `run_server` reads after the next connection (`std::signal` restarts `accept`), hence
the mode `"stopping"`.  Requests that change nothing (malformed, unsafe token, bad
licence type, HELP) are stuttering steps.

`LicenseSystem` adds the processes of `software_a run` with the connections that wait
in the server's backlog, in order.  The heartbeat period and the hold time are
parameters of the command line, so a heartbeat or the end may come at any second.
`Kill` is a process that dies; its request stays in the backlog.  `SilentConnect` is a
peer that sends nothing: `read_request` has no timeout and the server has one thread.
`heard` and `told` are history variables.  The length of the listen queue (16) is
not reached by so few processes and is left out.

`LicenseSeats` is the promise: seats, a clock, no file and no crash.

### Runs

| run | instance | what it shows |
|---|---|---|
| `license_server` | 2 licences of one seat, 2 clients, timeout 1, all faults, clock 2..4 | `SeatsWithinLimit` in memory and on file; `OnlyOwnReleaseOrTimeoutEvicts` |
| `license_promise` | 1 licence of two seats, 3 clients, no fault of a save, clock 2..5 | `ImplementsSeats`: with saves that succeed, crashes and restarts are invisible |
| `license_system` | 2 processes, 1 seat, saves may throw, clock 2..4, fair | `HeardKeepsSeat`, `ReleasedStaysFree`, `RejectedOnlyWhenFull`, `EveryWaitEnds` |
| `license_recovery` | `"torn"` | violation of README.md:12: an acknowledged licence is lost |

Bounds.  A session expires when its age is 2 with `Timeout = 1`, so three values of the
clock show a session that is fresh, at the timeout and past it; `Epoch` is late
enough for a truncated `last_seen` to be out of date, as it is in the real epoch.
Two licences are needed for a file cut between licences and for commands about
another licence; two clients for a full seat; a third client in `license_promise` for
an eviction that makes room beside a live session.

Fairness (`FairSysSpec`).  The server serves a connection that waits (strong, since
connections are accepted in order and later silent peers cannot overtake it) and
a silent peer goes away in the end.  The second is an assumption about the peer that the
code does not enforce.  Nothing obliges an operator to restart the server or a
client to send anything.

The mutants in the list (`Mutant_...`) are plausible bugs: a comparison that is off by
one, a cleanup after the limit check, a heartbeat that is acknowledged and not
recorded, an exception that is swallowed, a client that keeps waiting when its
connection is reset.

One observation is not among the properties: `run_client` ignores what it is told
in reply to a heartbeat.  A process that was not heard of for longer than the timeout
(a stalled server is enough) goes on working after its seat has been given to another,
so more processes may be at work than there are seats; `Working` and `HeardKeepsSeat`
are therefore about processes heard of in time.

## CSMA/CD stations

`CsmaCd` has one action per critical section of `CSMACDMedium` and `StartGate`, with the
thread's own code up to the next one.  `transmitting` and `activeCount` are the medium's
fields, `readyGate` and `sendGate` the two gates, `pc` and `frame` the place of each
thread in `station_worker`.  Every sleep may last any time, so the 20 ms before the
collision check give no order between stations.  A collision and a success are told by
the check alone.  A station that overlapped with another passes the check if the
other has stopped before: the code counts such a frame as delivered, and no property
says otherwise.

`csma_cd` (3 stations with 3 frames each) checks that of the stations that passed the check at most one still
transmits (`OneCarrier`), that nobody begins before all have sensed an idle medium and
arrived at the second gate (`CommonStart`), that the only states without a successor are those where all are
done (`StopsOnlyWhenDone`), and that a busy medium becomes idle again (`MediumRecovers`).
Three stations are the least where the last one at a gate meets several waiting, and
where two can collide beside a third that senses; three frames, so that both gates are
passed and contention repeats.

Fairness: weak, for each thread's next step, which is what the scheduler gives.  That every
frame is delivered in the end depends on random backoffs that differ sooner or later; that
is a statement of probability, and no fairness condition of the code implies it.

## Stop-and-wait

`StopAndWait` has one action per channel operation.  The receiver takes a frame and
pushes its acknowledgement in one action, since nobody else takes frames and a frame
taken and not yet answered looks to the sender like one still queued.  The timeout for an
acknowledgement (`Timeout`) may pass whenever the acknowledgement queue is empty, however
close the answer is.  `LoseFrame` and `LoseAck` are the receiver's two random draws.

`stop_and_wait` (5 frames, a new attempt only while fewer than `MaxCopies = 4` frames are
queued) checks that a received frame with the expected bit is the next frame
(`BitTellsNew`), that the stop frame comes after everything else (`StopsAfterAll`), that the
protocol implements `OrderedDelivery`, and that both threads end (`BothEnd`).  Four copies
leave room for duplicates of two successive frames and late acknowledgements of both; with
five frames each bit comes round twice.  A stale acknowledgement makes the loop turn
and the frame go out again at once, although the log line says that it is ignored
(`LAB11/13/main.cpp:119`); the copies that this makes are part of the model.

Fairness: weak for each thread, and strong for `Receive`, a frame received and
acknowledged with neither lost: each draw succeeds with a probability that
`parse_options` keeps above zero, so of infinitely many attempts one gets through.

## Sliding window

`SlidingWindow` has one action per critical section on `SharedState`.  `batch` is the
list of packets collected in a critical section and sent after it.  Which packets have
timed out is any set of packets sent and not acknowledged; clocks are left out.  What the
monitor prints is a function of the state; it may look between any two actions.

`sliding_window` (4 packets, send window 3, receive window 2, at most `MaxQueue = 2`
packets queued before another is sent) checks that flags and bases agree and that what
is acknowledged was received (`FlagsAgree`), that neither window is overrun (`WindowsHold`),
the refinement of `OrderedDelivery`, and that all three threads end (`AllEnd`).  The
send window is larger than the receive window so that packets outside the window
occur; four packets let it slide and still be cut by the end of the file; two
packets in the channel are the least where one overtakes the handling of another's
duplicate.  `sliding_window_monitor` is a finding: packets acknowledged out of order are
counted as room in the window.

Fairness: weak for each thread; strong for receiving each packet, because the draw
spares a packet that is sent again and again; strong for a collection that contains each
packet, because an unacknowledged packet times out after a while and the
sender's loop looks again and again.

## Datagram transfers

`DatagramTransfer` is one module for two pairs of programs with the same table; `program`
is chosen at the start and never changes.  The datagrams on the way to each receiver are a
set `air[r]`: a datagram may be taken and left there (duplication), dropped (`Lose`), or
taken in any order.  `Join` is the receiver's bind and, for multicast, its membership; what
was sent before is not seen.  `Store`, `Ignore` and `Stray` are what one turn of the
receive loop does with a datagram; `GiveUp` is the timeout, which may come whenever the
receiver listens.  `Stray` is the UDP server given a chunk number past the end of its
table by another sender: the code writes out of bounds, the mode is `"undefined"` and
nothing is said of what follows.  `WriteFails` is `ftruncate` or `pwrite` failing, or writing
less than it should: the program ends with an error, the header is known and the place is
not marked.  `Fails` is any other error of the socket or the output.  `reached` is
history: what `recvfrom` returned.

`datagram_transfer` (3 senders, 2 rounds, 1 receiver, both programs) checks that the counter
is the number of filled places (`Tally`), that files with different headers are never
mixed by multicast receivers, nor by the UDP server while one client sends (`OneFile`), what
becomes of chunks that arrive (`NothingDropped`), and what the exit code says
(`ExitTellsTheTruth`).  `NothingDropped` is as strong as the code allows: the place of a chunk of
the adopted file that reached a receiver which has not failed holds a chunk that reached it
for this place; for multicast it is of a file with the same header, and if nobody else
has sent it is the chunk itself.  With two clients the UDP server does drop chunks of the
adopted file: where the other client's chunk is in the place, it takes them for repeated
(`file_transfer.cpp:298`).  Two of the senders have files with the same header (2 chunks), which
no receiver can tell apart, the third a longer one (3 chunks), so that there are foreign
datagrams that fit and ones that do not; senders with the same header are symmetric, since
no property names one.  Receivers do not interact, so one is enough.  The programs end, so deadlock is not
an error.  There is no liveness to check: nothing is acknowledged or retransmitted on
request, and a receiver may give up at any moment.

## Services

`services` (`MCServices`) is one run over eight programs.  Each ends after a bounded
number of messages, faults or seconds, so states without successors are no errors.

**`MailVerify`** - a request is one action, since one thread serves them.  `mailUsers` is
the map `users`, `mailBox` the mails in `outbox/`, which outlive the process.
`Cleaned` is `cleanup_expired`, the first thing every request does; `RegisterTaken` and
`RegisterFree` are `register_user`, `Verify` a link that is opened (at any time, any
number of times), `ShowUsers` the list.  The clock may advance between the two
readings in a request (`MailSecondReading`).  `MailDecoded` is what comes out of a
link: the name is not encoded when it is put there (`NamedIn`).  `ActiveWasMailed`,
`RegistrationKept`: two names, one of which decodes to the other, two addresses, four
seconds and an hour of one second, enough for a registration to expire, for the
name to be taken by somebody else and for the old link to be opened then.

**`Ping`** - both clients send, wait and give up; `pingTool` tells them apart (`Accepts`,
`Rtt`).  A reply stays in `pingReplies` for ever, so it may come late, twice or never.
`Young` is the one limit: a packet does not outlive `SeqSize` later requests, without
which no client with 16-bit numbers could be right.  `TimesAreRight`: three requests,
three sequence numbers instead of 65536, so that they come round (and ping fails in
`struct.pack`, `PingOverflow`), a day of two and a word of five milliseconds, so that
midnight and the wrap of `uint32_t` are both met.

**`Dhcp`** - `ReplyType` is what one turn of the server's loop answers; `TakeOffer`,
`TakeAck` and `TakeNak` are servers' answers taken by clients that follow the protocol
(external).  What a client has sent in its present exchange may be answered any
number of times.  `ChoiceIsKept`: two servers, of which one has no fixed lease for
client 2, are the least that can disagree.  The programs' own addresses may still
collide: every client without a lease is offered the same default address; this is
what the code does, and the README of `LAB9/50` promises nothing else.

**`TcpTransfer`** - the client reads the size, writes it, reads and writes the file, in
pieces of any size up to the buffer; the server reads no more than is missing.
`ChangeFile` is the owner of the file.  `StreamEnded` is `read` returning 0.
`BothOkMeansComplete` leaves out files that got shorter than the size that was
announced (`tcpShrunk`): then both programs end with 0 and the file is short.  Files
of 0, 1 and 3 units with a buffer of 2 give an empty file, one piece and several.

**`LoginSniffer`** - a message is two units of text, so that a segment can end in the
middle of it and hold the end of one with the beginning of the next.  Clients and
servers are external: a client pipelines up to two messages.  `Absorb` is one unit
through the buffer of its direction, `drain_lines` or `drain_http_messages`, and the body of the
loop; `Capture` is a packet.  The programs append payloads in the order of the capture and
look at no sequence number, so there are four oddities that the reassembly has no answer
to: a segment that is not in its place (`CaptureMisses`) and comes never or behind any number
of others (`CaptureLate`), a segment that comes twice (`CaptureTwice`), and the padding of a
short frame (`CapturePadding`).  Text that one of them has garbled may also end the HTTP
program, for all connections: `std::stoul` throws on a Content-Length that is no number and nobody
catches it (`Throws`; the model does not say which numbers are garbled, so it may happen
whenever something complete is not what was sent, and of the rows any may be lost with
the buffer of the stream).  `RowsAreTrue` is about each connection in which nothing odd has
happened (`odd` has the others, also those in which a server gives no verdict on a login or one
on something else): its rows are its server's verdicts on the right names, and none is
missing when all is captured and the program still runs, however its segments are cut
and mixed with those of others, odd ones among them.  Two connections, so that one may be odd
beside another and both share the list of rows; two users; three messages over both
connections together, the least where a login comes between others of its connection; one
oddity.  Connections are symmetric and so are users (`MCSymmetry`), since no property
names one.

**`DnsLookup`** - the only module where bytes are bytes: compression is about positions.
The server (external) writes records with names spelled in every legal way
(`Spelled`); `DecodedFrom` gives what can be read at every position of a packet, pointer by
pointer (`NamesAt`, `AfterPointer`), `ParseRecord` and `ParseAnswers` use it.  Labels are of one byte.
`RecordsAreTrue`: two of an alias, an address and a mail exchanger whose names have
common tails, so that pointers lead to pointers; four jumps, more than two
answers can ask for; a receive buffer that some answers do not fit.

**`LabMail`** - `Deliver` is the end of DATA, `QuitBuilds` and `QuitStores` are the two steps of
QUIT (the list of what stays is built, then stored).  `OnlyMarkedVanish` leaves out
QUITs where another session has replaced the mailbox since LIST, or a mail came between
the two steps (`popCrossed`): there the code deletes other mails or loses the new one,
for want of a lock.  Two sessions and three mails show all of this.

**`FtpService`** - one file of the directory.  A transfer is `Transfer` (the command, up to
`accept`), `StoreBegins` or `RetrieveBegins` (the client connects, the file is opened), a
step for every chunk, and an end: 226 (`StoreEnds`, `RetrieveEnds`) or an exception
(`StoreBreaks`, `RetrieveBreaks`), which closes the file and ends the thread.
`StoreReceives` puts a chunk into Python's buffer and `StoreWrites` brings any part of the
buffer into the file, at the place where the thread's own file position is, with a hole
before it when another thread has emptied the file.  `DownloadIsLastUpload` is asked of
downloads that no upload ran beside, after an upload that ran alone (`ftpLast`, which is
the model's own note of it).  Two connections and two uploads of up to two units give
overlapping uploads, and a long file followed by a short one.

## Networks and codes

`networks` (`MCNetworks`) is one run over seven more programs.

**`RipNetwork`** - `Advertise` hands the table of one router to another and `MergeTable` is
`update_from_neighbor` with the copy that was handed over last, however old.
`FailNetwork` and `FailLink` are what an operator does to the tables.  `NeverTooShort` is
about a network without failures (after one, old tables do make ways too short for a
while); `RoutesSettle` says that all tables are right in the end, with one failure
anywhere.  Three routers in a triangle are the least that count to infinity through
each other; infinity is 4, one more than the longest simple way, and the time it
takes to get there is all that a larger one changes.  Fairness: every router goes on
handing out its table and merging those it got, for each pair of neighbours; without
it nothing would ever arrive.  The program does one merge; that it is run again and again
is how the exercise is meant, and external to it.

**`Bridge`** - bridges in a row, a frame carried along the row in one action (`Meets`,
`Learned`), stations that move.  `AnnouncedIsReached`: two bridges are the least where
the far one keeps an old entry that the near one has replaced; a unicast to a near
station does not repair it, which is why the property is about broadcasts.

**`Dijkstra`** - `PopNode` and `RelaxEdge` are the two loops, with ties in any order.  A sum
past `IntMax` is undefined (`dijkstraSound`), and nothing is said of it.
`PathsAreShortest` with all graphs of three nodes and up to three edges of weights 0,
1, 6 and 30 and `IntMax = 32`: infinity is 8, unreachable is printed from 4 on, so each
weight is on another side of these limits.  A router further away than an eighth of
the range of int is printed as unreachable; the property says so.

**`AccessPoints`** - one action per candidate taken, one for `ensure_dual_band_presence`,
one for `assign_channels`; which candidate scores best is any choice.  `PlanIsSound` on
two floors with two places and at most four access points: with fewer the plan is
never full and nothing is replaced.  `access_points` is a finding, below.

**`LineCodes`** - a word is coded (`CodeSend`), at most one symbol is damaged, and it is
decoded with any pair of lengths (`CodeReceive`).  `WordsAreExact` says that a word without damage
is accepted and read as what was sent, and that a damaged one is accepted only if it is
the word of what is read (in asynchronous TDM: tag for tag, since its decoder accepts any
merging of the two strings).  Strings of up to two bytes and characters of two bits
instead of seven: 4 is a byte that does not fit a character and that counts as 1 for
the multiplexers.

**`Fragments`** - one action per link of the path.  `PiecesAddUp` with up to three links,
packets and MTUs around the header length and multiples of 8, where the division
into units cuts.

**`ColourChannel`** - the sender program shows one symbol and ends: a window appears
(`ShowColour`), a key destroys it (`HideColour`) and the background is in view again until the
next send.  `TakeFrame` samples a mixture of what was and what is in view, one frame or
several while it comes or goes, and counts.  `ReadWasShown`: a symbol that is read was on the
screen in each of the frames it was read from, or the background was in view there and passes
for it (`Resembles`).  In binary every background is of one of the two bits.  In octal it passes
for colours at most 136 away.  The decoder itself accepts up to 120; but a fade from the background
to one colour may come within 120 of a second one at right angles to it, which happens up to
120 * 255 / sqrt(255 * 255 - 120 * 120) = 136.  So the code does read what nobody sent in front
of a dark background (as 0) or a light one (as 1), and the property says in front of which
it does not.  Assumed: one sender at a time, which fills the middle of the picture, a background
that is of one colour and does not change, and changes that do not overlap in one frame.
The run tries both codecs and five backgrounds (grey, dark grey, two near the limit, black), two
equal frames in a row, any symbols in any order, and mixtures with 0, 3, 8, 9, 14 and 17
parts of 17: none, all, both sides of the middle, and near each end.

`networks` also has programs that end; deadlock is no error there either.

## Findings

- `license_recovery`: `save()` rewrites the only copy of the database in place; a server
  that dies meanwhile has lost licences it had acknowledged
  (`license_server.cpp:284`, against `README.md:12` of `新建ex7`).
- `sliding_window_monitor`: packets acknowledged out of order are counted as room in the
  send window (`LAB11/14/main.cpp:330`).
- `access_points`: when the plan is full, `ensure_dual_band_presence` may overwrite the
  only 5 GHz access point of another floor (`LAB6/2/main.cpp:372`, against `README.md:65`
  there).  The program does it with width 40, depth 80, 4 floors, grid step 2.5, at most 9
  access points, partition loss 3 and a corridor of 4: floor 2 ends without 5 GHz.

## Conventions

`Mutant_X` stands before `X` and is a version of `X` with a plausible bug; nothing
refers to it, it serves to show that a property can fail.  Comments cite files of
the repository.  MC modules give values to constants; cfg files name the instance.

## What is proved

`LicenseServerProofs`: `TypeCorrect`, `LimitHolds` and `EvictionsAreFair`, for all sets of serials and
finite sets of clients, all limits, timeouts and sets of faults, under the named
assumptions of `LicenseStore` and `LicenseServer`.  `SeatsWithinLimit` is not
inductive by itself: `Start` turns the file into memory, a cut file is read back, and a
save that throws leaves memory ahead of the file.  The invariant `IInv` says that both are
`Good` (typed and within limits).  One lemma per command shows that what it writes is
Good if the memory is; `PrefixIsGood` shows it of every cut of a Good file, `TouchIsGood`
uses the comparison with the limit; `ExecuteKeepsGood` covers every way a command ends.
For `EvictionsAreFair` each command is shown to write only databases in which whoever
is missing has timed out (`WritesLose`); ISSUE resets the sessions of a serial, which
has none because its limit was 0 (`UnknownIsEmpty`, from the limits).
`PromiseKept` is the refinement of `LicenseSeats` for a server whose saves succeed and
that does not die (`Faults = {}`, the instance of run `license_promise`; with faults it is
false, as `license_recovery` shows of what was acknowledged).  `SavedIInv` adds that the file is
what memory holds whenever the server listens, so that a start gives back the seats
that were there; then every command is a step of the promise or a stutter.

`LicenseSystemProofs`: for all processes, `SysTypeCorrect`; `ServerInSystem`, every step of
the system is a step of the server or leaves it alone, so that what is proved of the server
holds in the system (`SysLimitHolds`); and `RejectionsAreFair`: REJECTED is read only in
reply to one's own VERIFY (`RejectedByVerify`), which has swept the memory before it
counted (`RejectedVerify`, `SweptAreFresh`).

Two more hold under hypotheses that are stated with them.  `HeardKept` (`HeardKeepsSeat`: a
process that was told GRANTED or ALIVE within the timeout has its session, in the memory
and in the file) is proved for saves that throw, crashes, stops and restarts, but not for
cut and torn files (`Faults \subseteq {"open"}`; with those it is false), and for processes
with identities of their own (`OwnIds`).  `ReleasedForGood` (`ReleasedStaysFree`: after OK RELEASED
the session is gone for good) needs `OwnIds` and allows every fault.  `OwnIds` is what
the generated client ids give; two processes on one directory share an identity, and one
releases the seat of the other.  `QueueMatches` ties what waits in the backlog to what
its process waits for; `SeatsHeld` and `SeatsFreed` tie the processes' knowledge to memory and file.
`SysPromiseKept` carries the refinement of `LicenseSeats` over to the system.

`CsmaCdProofs`: for every finite set of stations and number of frames, `CounterIsRight`,
`CarrierAlone` and `StartTogether`.  `OneCarrier` alone is not inductive: that the check
found a count of one says something about other stations only if the count is
right, so `CounterCounts`, the sum of what many threads add and subtract, is part of `IInv`
(no run repeats it: when a count is lost, `StopsOnlyWhenDone` and `MediumRecovers` fail); `GateCounts` (what a gate has counted is
the number of stations past it) is what `CommonStart` follows from.  `NeverStuck` is
`StopsOnlyWhenDone` with the guards of the actions (`CanStep`) in place of ENABLED, of which the
prover knows nothing: a gate that all have reached is open (`GatesOpen`), and who keeps the
medium busy can go on.

`StopAndWaitProofs`: for every number of frames and bound on copies, `BitIsEnough`,
`StopIsLast` and `Refinement`.  `IInv` says that the sender is at most one frame ahead
and its bit is the parity of its frame (`Counts`), that frames in the channel are in
ascending order and none is older than the last one delivered or newer than the
sender's (`InOrder`), that acknowledgements are of delivered frames
(`AcksDelivered`), and where the stop frame can be (`StopLast`).  Two successive frames
differ in their bit, hence one bit is enough.

`SlidingWindowProofs`: for every number of packets and all windows, `RecordIsConsistent`,
`WindowsRespected` and `Refinement`.  `IInv` adds to the two checked invariants that what is
in the channels or about to be sent was sent before (`InChannel`, `BatchTaken`).  The
loops that advance a base are `FirstOutside`, the least number outside a set; the
lemmas about it rest on the well-foundedness of the naturals.

`DatagramTransferProofs`: for all senders, receivers, lengths and rounds, `CounterIsRight`,
`NeverMixed`, `ReachedIsKept` and `ExitCodeIsRight`.  `IInv` adds `Filled` (the place of a chunk of
the adopted file that reached the receiver is not empty, unless the receiver has failed),
`CameFor` (what is in a place reached the receiver for this place) and `Origins`: what a
receiver knows came from somebody who has sent, and every chunk in a multicast table belongs
to a file with the header that the receiver took first.  `NothingDropped` follows from the three.

`ServiceProofs`: for the registration server `MailTypes`, `OnlyMailedActive` and
`RegistrationsKept`, for all names, addresses and ways to decode a link; `ActiveWasMailed`
is inductive with the types.  For the TCP transfer `TwoOksAreEnough`, for all sizes:
`ClientCounts` and `ServerCounts` say what has been read and written at each place of the
two programs, and that a server which has stopped at an early end has read all there was.  For the FTP
service `DownloadsAreWhole`, for any number of threads, uploads and units: the property is
about one step, so `FtpIInv` says what the file holds at every moment - the written part
of an upload that runs alone (`UploadsHold`), the last upload while nobody stores
(`LastHolds`) - and that an uncrossed download has read a beginning of it (`DownloadsHold`).
For the mail store of the laboratory `OnlyMarkedEverVanish`, for any number of sessions and mails:
`LabIInv` says that what a session will delete is what its client meant by the list it was
shown, and `KeptIs` unrolls the fold that keeps the rest at QUIT.  For the login sniffers
`RowsAlwaysTrue`, for any number of connections, users, messages and oddities: `InFlow` says that a
connection in which nothing odd has happened is at some point of a conversation of two
messages (`Flow`: how many units of the requests are captured, how many requests are answered, how
many units of the replies are captured), and that the wire, the server, the session and
the rows still to be written are those of this point.  `ClientUnits` and `ServerUnits` take a
segment of any length through the callback, one unit at a time (`AbsorbedIs` unrolls its
fold); a new message of the client makes the younger of the two the older (`Onward`).  Only
rows that are not written yet can be missing (`Unwritten`), and there are none when
the replies are all captured.  `SnifferWhole` adds that what comes late belongs to a connection that is odd
(`LateShapes`), that the text of others is never garbled (`NothingGarbled`), so that only an odd one
can end the program, and what remains true of the rows when it has (`WrittenIsDecided`).  For the DNS lookup `DnsRecordsAreTrue`, for any records, sizes of the buffer
and numbers of pointers that suffice (`2 * MaxAnswers <= MaxJumps`).  The decoder is defined over the
jumps already made: it exists, reads at most one name at a position, and reads the same when
the packet grows or more jumps are allowed.  `DnsIInv` says that every name written can be read with
at most two more pointers per record, that the answer so far parses to the records put
into it, and hence that what is cut off by the buffer leaves a beginning of them.

`NetworkProofs`, one part per program:

- *Bridges*, any number of bridges and stations: `BridgeTypes` and `AnnouncedReachable`.  That no
  bridge filters what is for a station is not inductive; `KnownEverywhere` is: a
  broadcast gets to every bridge, so all of them have the right port until the
  station moves.
- *RIP*, any network and bound: `NeverShorter`.  A distance that a table holds or a neighbour's copy
  carries is at least the length of a shortest way.  `Near`, the routers within a number of
  links, is defined step by step; `NotTooShort` (a router with a distance k is within k) is
  inductive because a neighbour of a router within k links is within k + 1.  The
  property speaks of networks in which nothing has failed.
- *Ping*: `TimesRight`, for any bounds.  `PingIInv` says that an answer in the channel (`Answers`)
  is to a request that was sent, with its number and its time, and has times of day that
  are at most one apart.  The proof needed `1 < Day`, which the model now states.
- *DHCP*: `ChoiceKeptAlways`, for any servers, clients and addresses.  `ChosenBy`
  says that what a client asks for is what the chosen server has planned for it, `SentBy` that its
  messages still under way agree with its state.
- *Fragments*: `PiecesAlwaysAddUp`, for all lengths, MTUs and numbers of links.  `Carries`
  describes the pieces of one packet by their units; `PiecesOfPieces`, that the
  pieces of a piece again are pieces of the whole, is what an invariant over the
  path needs.
- *Dijkstra*: `ShortestAlways`, for every finite graph whose sums do not overflow (with an
  overflow the property says nothing, and neither does the program).  `DijkstraIInv` is the textbook
  argument: settled nodes are in ascending order of their distance, all others are
  led to by settled ones, entries of the queue are no nearer than any settled node, and
  the edges of settled nodes are done or in hand.
- *Colour channel*: `ReadIsShown`, for any background, any order of sends, any number of frames that
  have to agree and any weights of a mixture, without a hypothesis on the background.  `ColourIInv` says
  that the screen changes only between a symbol and none, and that each of the last frames, as
  many as are counted, may be read as the symbol that is counted.  The work is in `FrameShowsIt`: the
  luminance of a mixture is on the side of one of its two parts (`OneOfTheTwo`), and a mixture
  with one colour of the palette comes within 120 of another one only if its second part is
  within 136 of that one (`NoThirdColour`).
- *Access points*: `PlanAlwaysSound`, for any floors, places and limits.  `ApIInv` says what each of
  the three stages leaves; the ascending enumeration that stands for `std::sort` exists
  (`AscendingExists`), the fold that assigns channels is unrolled (`AssignedIs`), and a
  channel without conflict is found where there are more channels than neighbours
  (`BestIsFree`, a pigeonhole).
- *Words on a line*: `WordsAlwaysExact`, for strings of any length, characters of any number of bits
  and any damage.  `CodeIInv` only says that an undamaged word is that of the input and that
  a result is what decoding says of the word on the line; the work is in the round
  trips.  The functions defined by recursion exist (`IterationExists`); halving a character and doubling it
  back visit the same numbers (`FrameIsRead`, `FrameIsWritten`); a word put together of parts of the
  same width has each part in its place (`WordHasParts`) and is determined by them
  (`SamePartsSameWord`); what is put into a slot is the only thing read from it, and the other
  way round (`SlotIs`, `SlotBack`); the symbols with one tag grow turn by turn (`AsyncTurn`).

Where an argument goes by induction over numbers, a fold or a recursive function, it
uses the lemma `SetInduction`: a set of naturals that holds 0 and is closed under successor is
all of Nat.  It is proved from the well-foundedness of the naturals and takes a set,
which the provers can instantiate, where the theorems of the library take an operator.

Each refinement is proved as a step simulation: initial states map to initial states, and
every step under `IInv` is a step or a stutter of `OrderedDelivery`.

Type invariants (`TypeOK` of the first modules, `SysTypeOK`, `MailTypeOK`, `BridgeTypeOK`,
`TcpTypeOK`, `FtpTypeOK`) are parts of these invariants and proved with them; no run repeats them.

Model-checked only:

- liveness (`EveryWaitEnds`, `MediumRecovers`, `BothEnd`, `AllEnd`, `RoutesSettle`): out of
  reach of the prover;
- of `StopsOnlyWhenDone` that a station whose guards hold (`CanStep`) has a successor, which is ENABLED:
  out of its reach as well.

## What is not modelled

Of modelled programs: passwords, licence types as text, the wording of replies, pages
and logs; the bits of sockets below connect, send, receive and close; a wall clock that is
set back or forward; Windows branches; checksums; hashes that collide.

Parts of components (most of them `partly` in `PROJECT.json`): the file mode of the colour channel, one
write and one read; in `LAB8` the address and mask programs, conversions of text; in
ex6 the IMAP handler, which only reads, the DNS and HTTP handlers, which answer from
constants, and the copy of the last mail on disk, which nothing
reads (nor is there a step for clients that leave a thread of these servers waiting
for good, in `accept` or in the middle of DATA: it shares nothing while it waits); the propagation and scores of `LAB6/2`, floating point,
of which the model keeps only that any candidate may be best.

Whole components: packet statistics of `ex3`, counters over one list; modulation
(`LAB3/26`), floating point; parity (`LAB4`), one exclusive or that the repository's tests
enumerate; `LAB5/1` and `LAB5/2`, formatting of constants; the NTP server (`LAB11/12`),
which answers every long enough datagram with the time of its command line and has no state;
`LAB17/15`, which parses six constant lines; `ex6/main.cpp`, which runs docker and routing
daemons by shell commands; report tooling and container scripts.
