------------------------------ MODULE TcpTransfer ------------------------------
(* The TCP pair of LAB14/17: the client sends the size of its file and then the *)
(* file; the server writes what it reads to a file of its own.  A stream keeps   *)
(* order, so the numbers of units written and read say what is in it.  Whoever   *)
(* owns the file may change its length meanwhile; either process may die.        *)
EXTENDS Naturals

CONSTANTS
    TcpHeader,      \* units of the size that is sent first
    TcpSizes,       \* lengths the file may have
    TcpBuffer       \* kBufferSize

ASSUME TcpAssumption ==
    /\ TcpHeader \in Nat \ {0} /\ TcpBuffer \in Nat \ {0}
    /\ TcpSizes \subseteq Nat /\ TcpSizes # {}

VARIABLES
    tcpLength,      \* length of the client's file
    tcpShrunk,      \* it has been shorter than `size` since size was read
    tcpSize,        \* `size` of the client
    clientPc,       \* "size", "header", "body", "done", "failed"
    tcpOffset,      \* units the client has read from its file
    tcpWritten,     \* units it has written to the connection
    serverPc,       \* "header", "body", "done", "failed"
    tcpRead,        \* units the server has read from the connection
    tcpOutput       \* length of the output file

fileVars == <<tcpLength, tcpShrunk>>
clientVars == <<tcpSize, clientPc, tcpOffset, tcpWritten>>
serverVars == <<serverPc, tcpRead, tcpOutput>>
tcpVars == <<fileVars, clientVars, serverVars>>

TcpTypeOK ==
    /\ {tcpLength, tcpSize, tcpOffset, tcpWritten, tcpRead, tcpOutput} \subseteq Nat
    /\ tcpShrunk \in BOOLEAN
    /\ clientPc \in {"size", "header", "body", "done", "failed"}
    /\ serverPc \in {"header", "body", "done", "failed"}

ClientRunning == clientPc \in {"size", "header", "body"}
ServerRunning == serverPc \in {"header", "body"}
InPipe == tcpWritten - tcpRead

TcpStart(length) ==
    /\ tcpLength = length
    /\ tcpShrunk = FALSE
    /\ tcpSize = 0
    /\ clientPc = "size"
    /\ tcpOffset = 0
    /\ tcpWritten = 0
    /\ serverPc = "header"
    /\ tcpRead = 0
    /\ tcpOutput = 0

TcpInit == \E length \in TcpSizes : TcpStart(length)

\* file_size, then connect.
ReadSize ==
    /\ clientPc = "size"
    /\ tcpSize' = tcpLength
    /\ clientPc' = "header"
    /\ UNCHANGED <<fileVars, tcpOffset, tcpWritten, serverVars>>

ChangeFile(length) ==
    /\ ClientRunning
    /\ tcpLength # length
    /\ tcpLength' = length
    /\ tcpShrunk' = (tcpShrunk \/ (clientPc # "size" /\ length < tcpSize))
    /\ UNCHANGED <<clientVars, serverVars>>

\* A write of write_all moves some units on; to a server that has gone it fails.
WriteHeader(k) ==
    /\ clientPc = "header"
    /\ tcpWritten + k <= TcpHeader
    /\ tcpWritten' = tcpWritten + k
    /\ clientPc' = IF tcpWritten + k = TcpHeader THEN "body" ELSE "header"
    /\ UNCHANGED <<fileVars, tcpSize, tcpOffset, serverVars>>

\* All that was read from the file is in the connection.
AllWritten == tcpWritten = TcpHeader + tcpOffset

ReadFile(k) ==
    /\ clientPc = "body"
    /\ AllWritten
    /\ k <= TcpBuffer
    /\ tcpOffset + k <= tcpLength
    /\ tcpOffset' = tcpOffset + k
    /\ UNCHANGED <<fileVars, tcpSize, clientPc, tcpWritten, serverVars>>

WriteBody(k) ==
    /\ clientPc = "body"
    /\ tcpWritten + k <= TcpHeader + tcpOffset
    /\ tcpWritten' = tcpWritten + k
    /\ UNCHANGED <<fileVars, tcpSize, clientPc, tcpOffset, serverVars>>

EndOfFile ==
    /\ clientPc = "body"
    /\ AllWritten
    /\ tcpOffset >= tcpLength
    /\ clientPc' = "done"
    /\ UNCHANGED <<fileVars, tcpSize, tcpOffset, tcpWritten, serverVars>>

\* The client dies, is refused, or writes to a server that has gone.
ClientFails ==
    /\ ClientRunning
    /\ clientPc' = "failed"
    /\ UNCHANGED <<fileVars, tcpSize, tcpOffset, tcpWritten, serverVars>>

ServerHeader(k) ==
    /\ serverPc = "header"
    /\ k <= InPipe
    /\ tcpRead + k <= TcpHeader
    /\ tcpRead' = tcpRead + k
    /\ serverPc' = IF tcpRead + k = TcpHeader THEN "body" ELSE "header"
    /\ UNCHANGED <<fileVars, clientVars, tcpOutput>>

\* read() asks for no more than what is missing, gets what is there, and
\* write_all puts it into the file.
ServerBody(k) ==
    /\ serverPc = "body"
    /\ tcpOutput < tcpSize
    /\ k <= InPipe
    /\ k <= TcpBuffer
    /\ k <= tcpSize - tcpOutput
    /\ tcpRead' = tcpRead + k
    /\ tcpOutput' = tcpOutput + k
    /\ UNCHANGED <<fileVars, clientVars, serverPc>>

\* read_all throws at an early end; in the body an early end breaks the loop,
\* and what follows is what follows a file that is complete.
Mutant_StreamEnded == InPipe < TcpBuffer
StreamEnded == ~ClientRunning /\ InPipe = 0

ServerEnd ==
    /\ serverPc = "body"
    /\ tcpOutput = tcpSize \/ StreamEnded
    /\ serverPc' = "done"
    /\ UNCHANGED <<fileVars, clientVars, tcpRead, tcpOutput>>

\* An end in the header, an error of read, open or write, or the process dies.
ServerFails ==
    /\ ServerRunning
    /\ serverPc' = "failed"
    /\ UNCHANGED <<fileVars, clientVars, tcpRead, tcpOutput>>

Chunk == 1 .. TcpHeader + TcpBuffer

TcpNext ==
    \/ ReadSize
    \/ \E length \in TcpSizes : ChangeFile(length)
    \/ \E k \in Chunk : WriteHeader(k) \/ ReadFile(k) \/ WriteBody(k)
    \/ EndOfFile
    \/ ClientFails
    \/ \E k \in Chunk : ServerHeader(k) \/ ServerBody(k)
    \/ ServerEnd
    \/ ServerFails

TcpSpec == TcpInit /\ [][TcpNext]_tcpVars

-------------------------------------------------------------------------------
\* When both programs end with exit code 0, the output is as long as the size
\* that was announced, unless the file got shorter on the way: the server alone
\* cannot tell an early end from the whole file (file_transfer.cpp:192-205,
\* 223-232).
BothOkMeansComplete ==
    clientPc = "done" /\ serverPc = "done" /\ ~tcpShrunk => tcpOutput = tcpSize
===============================================================================
