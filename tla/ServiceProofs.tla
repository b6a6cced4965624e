----------------------------- MODULE ServiceProofs -----------------------------
(* Proofs about programs of the application layer: the registration server, for *)
(* all names, addresses, ways to decode a link and lengths of the hour; the TCP  *)
(* file transfer, for all sizes of file, header and buffer; the FTP service, for *)
(* any number of connections, uploads and units; the mailbox of SMTP and POP3,   *)
(* for any number of sessions and mails; the login sniffers, for any number of   *)
(* connections, users, messages and oddities; and the DNS lookup, for all names,  *)
(* records, ways to write them and sizes of the buffer.                         *)
EXTENDS MailVerify, TcpTransfer, FtpService, LabMail, LoginSniffer, DnsLookup,
        WellFoundedInduction, TLAPS

-------------------------------------------------------------------------------
(* Registration by mail.  ActiveWasMailed is inductive: a link is a mail that    *)
(* was sent, and only the link with the name and the address in the table opens  *)
(* a registration.                                                              *)

MailIInv == MailTypeOK /\ ActiveWasMailed

LEMMA RecordParts ==
    ASSUME NEW r \in MailRecord
    PROVE  /\ r.state \in {"free", "pending", "active"}
           /\ r.state \in {"pending", "active"} =>
                 /\ r.email \in MailAddress /\ r.expires \in Nat
                 /\ r = [state |-> r.state, email |-> r.email, expires |-> r.expires]
           /\ r.state = "free" => r = MailFree
  BY DEF MailRecord, MailFree

(* The clean-up changes nothing but registrations that are out of date.          *)
LEMMA CleanedParts ==
    ASSUME MailTypeOK
    PROVE  /\ Cleaned \in [MailUser -> MailRecord]
           /\ \A u \in MailUser :
                 \/ Cleaned[u] = mailUsers[u]
                 \/ /\ Cleaned[u] = MailFree
                    /\ mailUsers[u].state = "pending"
                    /\ mailUsers[u].expires < mailNow
  BY DEF MailTypeOK, Cleaned, MailRecord

(* Other names than the one asked for are as cleaned up.                        *)
LEMMA VerifiedOthers ==
    ASSUME MailTypeOK, NEW v, NEW c, NEW t, NEW u \in MailUser, u # v
    PROVE  Verified(v, c, t)[u] = Cleaned[u]
  BY CleanedParts DEF Verified

(* What becomes of the name that is asked for.                                  *)
LEMMA VerifiedParts ==
    ASSUME MailTypeOK, NEW v \in MailUser, NEW c \in MailUser \X MailAddress, NEW t
    PROVE  /\ Verified(v, c, t) \in [MailUser -> MailRecord]
           /\ \/ Verified(v, c, t)[v] = Cleaned[v]
              \/ /\ Verified(v, c, t)[v] = MailFree
                 /\ Cleaned[v].state = "pending" /\ Cleaned[v].expires < t
              \/ /\ Verified(v, c, t)[v] = [Cleaned[v] EXCEPT !.state = "active"]
                 /\ Cleaned[v].state = "pending" /\ c = <<v, Cleaned[v].email>>
  <1>1. Cleaned \in [MailUser -> MailRecord]
    BY CleanedParts
  <1>2. MailFree \in MailRecord
    BY DEF MailRecord
  <1>3. CASE Cleaned[v].state # "pending" \/ c # <<v, Cleaned[v].email>>
    <2>1. Verified(v, c, t) = Cleaned
      BY <1>3 DEF Verified
    <2> QED
      BY <1>1, <2>1
  <1>4. CASE /\ Cleaned[v].state = "pending" /\ c = <<v, Cleaned[v].email>>
             /\ Cleaned[v].expires < t
    <2>1. Verified(v, c, t) = [Cleaned EXCEPT ![v] = MailFree]
      BY <1>4 DEF Verified
    <2> QED
      BY <1>1, <1>2, <1>4, <2>1
  <1>5. CASE /\ Cleaned[v].state = "pending" /\ c = <<v, Cleaned[v].email>>
             /\ ~(Cleaned[v].expires < t)
    <2>1. Verified(v, c, t) = [Cleaned EXCEPT ![v].state = "active"]
      BY <1>5 DEF Verified
    <2>2. Verified(v, c, t) =
             [Cleaned EXCEPT ![v] = [Cleaned[v] EXCEPT !.state = "active"]]
      BY <1>1, <2>1
    <2>3. [Cleaned[v] EXCEPT !.state = "active"] \in MailRecord
      BY <1>1, <1>5, RecordParts DEF MailRecord
    <2> QED
      BY <1>1, <1>5, <2>2, <2>3
  <1> QED
    BY <1>3, <1>4, <1>5

THEOREM MailInvariance == MailSpec => []MailIInv
  <1>1. MailInit => MailIInv
    BY DEF MailInit, MailIInv, MailTypeOK, ActiveWasMailed, MailFree, MailRecord
  <1>2. MailIInv /\ [MailNext]_mailVars => MailIInv'
    <2> SUFFICES ASSUME MailIInv, [MailNext]_mailVars
                 PROVE  MailIInv'
      OBVIOUS
    <2> USE MailAssumption DEF MailIInv, MailAssumption
    <2>0. /\ Cleaned \in [MailUser -> MailRecord]
          /\ \A u \in MailUser : Cleaned[u] \in {mailUsers[u], MailFree}
          /\ MailFree.state = "free"
      BY CleanedParts DEF MailFree
    <2>1. ASSUME NEW u \in MailUser, RegisterTaken(u)
          PROVE  MailIInv'
      BY <2>0, <2>1 DEF RegisterTaken, MailTypeOK, ActiveWasMailed
    <2>2. ASSUME NEW v \in MailUser, NEW a \in MailAddress, NEW t \in MailSecondReading,
                 RegisterFree(v, a, t)
          PROVE  MailIInv'
      <3> DEFINE r == [state |-> "pending", email |-> a, expires |-> t + MailHour]
      <3>1. t \in Nat
        BY DEF MailSecondReading, MailTypeOK
      <3>2. r \in MailRecord /\ r.state = "pending"
        BY <3>1 DEF MailRecord
      <3>3. mailUsers' = [Cleaned EXCEPT ![v] = r]
        BY <2>2 DEF RegisterFree
      <3>4. mailBox \subseteq mailBox' /\ mailBox' \in SUBSET (MailUser \X MailAddress)
        BY <2>2 DEF RegisterFree, MailTypeOK
      <3>5. MailTypeOK'
        BY <2>0, <2>2, <3>1, <3>2, <3>3, <3>4 DEF RegisterFree, MailTypeOK
      <3> HIDE DEF r
      <3>6. ActiveWasMailed'
        BY <2>0, <3>2, <3>3, <3>4 DEF ActiveWasMailed
      <3> QED
        BY <3>5, <3>6
    <2>3. ASSUME NEW m \in mailBox, NEW t \in MailSecondReading, Verify(m, t)
          PROVE  MailIInv'
      <3>1. m \in MailUser \X MailAddress /\ NamedIn(m) \in MailUser /\ t \in Nat
        BY DEF MailTypeOK, NamedIn, MailSecondReading
      <3>2. MailTypeOK'
        BY <2>3, <3>1, VerifiedParts DEF Verify, MailTypeOK
      <3>3. ASSUME NEW u \in MailUser, mailUsers'[u].state = "active"
            PROVE  <<u, mailUsers'[u].email>> \in mailBox
        <4>1. CASE mailUsers'[u] = Cleaned[u]
          BY <2>0, <3>3, <4>1 DEF ActiveWasMailed
        <4>2. CASE mailUsers'[u] = MailFree
          BY <2>0, <3>3, <4>2
        <4>3. CASE /\ mailUsers'[u] = [Cleaned[u] EXCEPT !.state = "active"]
                   /\ m = <<u, Cleaned[u].email>>
          <5>1. mailUsers'[u].email = Cleaned[u].email
            BY <4>3
          <5> QED
            BY <4>3, <5>1
        <4>4. mailUsers' = Verified(NamedIn(m), m, t)
          BY <2>3 DEF Verify
        <4>5. CASE u = NamedIn(m)
          <5>1. \/ mailUsers'[u] = Cleaned[u]
                \/ mailUsers'[u] = MailFree
                \/ /\ mailUsers'[u] = [Cleaned[u] EXCEPT !.state = "active"]
                   /\ m = <<u, Cleaned[u].email>>
            BY <3>1, <4>4, <4>5, VerifiedParts
          <5> QED
            BY <4>1, <4>2, <4>3, <5>1
        <4>6. CASE u # NamedIn(m)
          <5>1. mailUsers'[u] = Cleaned[u]
            BY <4>4, <4>6, VerifiedOthers
          <5> QED
            BY <4>1, <5>1
        <4> QED
          BY <4>5, <4>6
      <3> QED
        BY <2>3, <3>2, <3>3 DEF Verify, ActiveWasMailed
    <2>4. CASE ShowUsers
      BY <2>0, <2>4 DEF ShowUsers, MailTypeOK, ActiveWasMailed
    <2>5. CASE MailTick
      BY <2>5 DEF MailTick, MailTypeOK, ActiveWasMailed
    <2>6. CASE MailRestart
      BY <2>0, <2>6 DEF MailRestart, MailTypeOK, ActiveWasMailed, MailRecord
    <2>7. CASE UNCHANGED mailVars
      BY <2>7 DEF mailVars, MailTypeOK, ActiveWasMailed
    <2> QED
      BY <2>1, <2>2, <2>3, <2>4, <2>5, <2>6, <2>7 DEF MailNext
  <1> QED
    BY <1>1, <1>2, PTL DEF MailSpec

(* Every name is free or has a registration that is complete.                   *)
THEOREM MailTypes == MailSpec => []MailTypeOK
  <1>1. MailIInv => MailTypeOK
    BY DEF MailIInv
  <1> QED
    BY <1>1, MailInvariance, PTL

(* Nobody is active whose name and address no mail was sent to.                 *)
THEOREM OnlyMailedActive == MailSpec => []ActiveWasMailed
  <1>1. MailIInv => ActiveWasMailed
    BY DEF MailIInv
  <1> QED
    BY <1>1, MailInvariance, PTL

(* What a step that cleans up and does nothing else to name u may do to it.       *)
LEMMA CleanedIsKept ==
    ASSUME MailTypeOK, NEW u \in MailUser, mailUsers'[u] = Cleaned[u],
           mailNow' \in {mailNow, mailNow + 1}
    PROVE  \/ mailUsers[u] = mailUsers'[u]
           \/ mailUsers[u].state = "pending" /\ mailUsers[u].expires < mailNow'
  <1>1. \/ Cleaned[u] = mailUsers[u]
        \/ mailUsers[u].state = "pending" /\ mailUsers[u].expires < mailNow
    BY CleanedParts
  <1>2. mailNow \in Nat /\ mailUsers[u] \in MailRecord
    BY DEF MailTypeOK
  <1>3. mailUsers[u].state = "pending" => mailUsers[u].expires \in Nat
    BY <1>2, RecordParts
  <1> QED
    BY <1>1, <1>2, <1>3

(* A registration is changed by its activation or, once out of date, lost; an    *)
(* active one stays, as long as the server runs.                                *)
THEOREM RegistrationsKept == MailSpec => RegistrationKept
  <1> DEFINE Kept(old, new) ==
                \/ old = new
                \/ old = MailFree
                \/ old.state = "pending" /\ new = [old EXCEPT !.state = "active"]
                \/ old.state = "pending" /\ old.expires < mailNow'
  <1>1. ASSUME MailIInv, [MailNext]_mailVars, ~MailRestart, NEW u \in MailUser
        PROVE  Kept(mailUsers[u], mailUsers'[u])
    <2>0. MailTypeOK /\ mailNow \in Nat /\ mailUsers[u] \in MailRecord
      BY <1>1 DEF MailIInv, MailTypeOK
    <2>1. CASE mailUsers'[u] = Cleaned[u] /\ mailNow' \in {mailNow, mailNow + 1}
      BY <2>0, <2>1, CleanedIsKept
    <2>2. ASSUME NEW v \in MailUser, RegisterTaken(v)
          PROVE  Kept(mailUsers[u], mailUsers'[u])
      BY <2>1, <2>2 DEF RegisterTaken
    <2>3. ASSUME NEW v \in MailUser, NEW a \in MailAddress,
                 NEW t \in MailSecondReading, RegisterFree(v, a, t)
          PROVE  Kept(mailUsers[u], mailUsers'[u])
      <3>1. mailNow' \in {mailNow, mailNow + 1}
        BY <2>3 DEF RegisterFree, MailSecondReading
      <3>2. CASE u # v
        <4>1. mailUsers'[u] = Cleaned[u]
          BY <2>0, <2>3, <3>2, CleanedParts DEF RegisterFree
        <4> QED
          BY <2>1, <3>1, <4>1
      <3>3. CASE u = v
        <4>1. Cleaned[u] = MailFree
          BY <2>3, <3>3 DEF RegisterFree
        <4>2. \/ mailUsers[u] = MailFree
              \/ mailUsers[u].state = "pending" /\ mailUsers[u].expires < mailNow
          BY <2>0, <4>1, CleanedParts
        <4>3. mailUsers[u].state = "pending" => mailUsers[u].expires \in Nat
          BY <2>0, RecordParts
        <4> QED
          BY <2>0, <3>1, <4>2, <4>3
      <3> QED
        BY <3>2, <3>3
    <2>4. ASSUME NEW m \in mailBox, NEW t \in MailSecondReading, Verify(m, t)
          PROVE  Kept(mailUsers[u], mailUsers'[u])
      <3> DEFINE v == NamedIn(m)
      <3>1. /\ m \in MailUser \X MailAddress /\ v \in MailUser
            /\ mailUsers' = Verified(v, m, t) /\ mailNow' = t
            /\ mailNow' \in {mailNow, mailNow + 1}
        BY <2>0, <2>4, MailAssumption
           DEF MailTypeOK, NamedIn, Verify, MailSecondReading, MailAssumption
      <3> HIDE DEF v
      <3>2. CASE mailUsers'[u] = Cleaned[u]
        BY <2>1, <3>1, <3>2
      <3>3. CASE Cleaned[u] # mailUsers[u]
        <4>1. mailUsers[u].state = "pending" /\ mailUsers[u].expires < mailNow
          BY <2>0, <3>3, CleanedParts
        <4>2. mailUsers[u].expires \in Nat
          BY <2>0, <4>1, RecordParts
        <4> QED
          BY <2>0, <3>1, <4>1, <4>2
      <3>4. CASE Cleaned[u] = mailUsers[u] /\ mailUsers'[u] # Cleaned[u]
        <4>1. u = v
          BY <2>0, <3>1, <3>4, VerifiedOthers
        <4>2. \/ Cleaned[u].state = "pending" /\ Cleaned[u].expires < t
              \/ /\ mailUsers'[u] = [Cleaned[u] EXCEPT !.state = "active"]
                 /\ Cleaned[u].state = "pending"
          BY <2>0, <3>1, <3>4, <4>1, VerifiedParts
        <4> QED
          BY <3>1, <3>4, <4>2
      <3> QED
        BY <3>2, <3>3, <3>4
    <2>5. CASE ShowUsers
      BY <2>1, <2>5 DEF ShowUsers
    <2>6. CASE MailTick \/ UNCHANGED mailVars
      BY <2>6 DEF MailTick, mailVars
    <2> QED
      BY <1>1, <2>2, <2>3, <2>4, <2>5, <2>6 DEF MailNext
  <1>2. MailIInv /\ [MailNext]_mailVars =>
          [MailRestart \/ \A u \in MailUser : Kept(mailUsers[u], mailUsers'[u])]_mailVars
    BY <1>1
  <1> QED
    BY <1>2, MailInvariance, PTL DEF MailSpec, RegistrationKept


-------------------------------------------------------------------------------
(* The TCP transfer.  What is in the output was read from the connection, and     *)
(* before that written to it, and before that read from the file.  A server that  *)
(* stops at an early end has read all that a client that has stopped has written;  *)
(* a client that has stopped in good order has read its file to the end.          *)

ClientCounts ==
    /\ tcpWritten <= TcpHeader + tcpOffset
    /\ clientPc = "size" => tcpWritten = 0 /\ tcpSize = 0
    /\ clientPc = "done" => tcpWritten = TcpHeader + tcpOffset /\ tcpOffset >= tcpLength
    /\ clientPc # "size" /\ ~tcpShrunk => tcpLength >= tcpSize

ServerCounts ==
    /\ tcpRead <= tcpWritten
    /\ serverPc = "header" => tcpOutput = 0
    /\ serverPc \in {"body", "done"} => tcpRead = TcpHeader + tcpOutput
    /\ tcpOutput <= tcpRead
    /\ tcpOutput <= tcpSize
    /\ serverPc = "done" => tcpOutput = tcpSize \/ StreamEnded

TcpIInv == TcpTypeOK /\ ClientCounts /\ ServerCounts

THEOREM TcpInvariance == TcpSpec => []TcpIInv
  <1> USE TcpAssumption
      DEF TcpAssumption, TcpIInv, TcpTypeOK, ClientCounts, ServerCounts, StreamEnded,
          InPipe, ClientRunning, ServerRunning, AllWritten, fileVars, clientVars, serverVars
  <1>1. TcpInit => TcpIInv
    <2>1. TcpInit => tcpShrunk \in BOOLEAN
      BY DEF TcpInit, TcpStart
    <2>2. TcpInit => ClientCounts /\ ServerCounts
      BY DEF TcpInit, TcpStart
    <2>3. TcpInit => TcpTypeOK
      BY <2>1 DEF TcpInit, TcpStart
    <2> QED
      BY <2>2, <2>3
  <1>2. TcpIInv /\ [TcpNext]_tcpVars => TcpIInv'
    <2> SUFFICES ASSUME TcpIInv, [TcpNext]_tcpVars
                 PROVE  TcpIInv'
      OBVIOUS
    <2>0. Chunk \subseteq Nat
      BY DEF Chunk
    <2>1. CASE ReadSize
      BY <2>1 DEF ReadSize
    <2>2. ASSUME NEW length \in TcpSizes, ChangeFile(length)
          PROVE  TcpIInv'
      <3>1. tcpShrunk' \in BOOLEAN
        BY <2>2 DEF ChangeFile
      <3>2. ~tcpShrunk' => ~tcpShrunk /\ (clientPc # "size" => ~(length < tcpSize))
        BY <2>2, Zenon DEF ChangeFile
      <3>3. ClientCounts' /\ ServerCounts'
        BY <2>2, <3>2 DEF ChangeFile
      <3> QED
        BY <2>2, <3>1, <3>3 DEF ChangeFile
    <2>3. ASSUME NEW k \in Chunk, WriteHeader(k)
          PROVE  TcpIInv'
      BY <2>0, <2>3 DEF WriteHeader
    <2>4. ASSUME NEW k \in Chunk, ReadFile(k)
          PROVE  TcpIInv'
      BY <2>0, <2>4 DEF ReadFile
    <2>5. ASSUME NEW k \in Chunk, WriteBody(k)
          PROVE  TcpIInv'
      BY <2>0, <2>5 DEF WriteBody
    <2>6. CASE EndOfFile
      BY <2>6 DEF EndOfFile
    <2>7. CASE ClientFails
      BY <2>7 DEF ClientFails
    <2>8. ASSUME NEW k \in Chunk, ServerHeader(k)
          PROVE  TcpIInv'
      BY <2>0, <2>8 DEF ServerHeader
    <2>9. ASSUME NEW k \in Chunk, ServerBody(k)
          PROVE  TcpIInv'
      BY <2>0, <2>9 DEF ServerBody
    <2>10. CASE ServerEnd
      BY <2>10 DEF ServerEnd
    <2>11. CASE ServerFails
      BY <2>11 DEF ServerFails
    <2>12. CASE UNCHANGED tcpVars
      BY <2>12 DEF tcpVars
    <2> QED
      BY <2>1, <2>2, <2>3, <2>4, <2>5, <2>6, <2>7, <2>8, <2>9, <2>10, <2>11, <2>12
         DEF TcpNext
  <1> QED
    BY <1>1, <1>2, PTL DEF TcpSpec

(* Two exit codes of 0 mean a complete file, unless it shrank on the way.        *)
THEOREM TwoOksAreEnough == TcpSpec => []BothOkMeansComplete
  <1>1. TcpIInv => BothOkMeansComplete
    BY TcpAssumption
       DEF TcpAssumption, TcpIInv, TcpTypeOK, ClientCounts, ServerCounts, StreamEnded,
           InPipe, BothOkMeansComplete
  <1> QED
    BY <1>1, TcpInvariance, PTL

-------------------------------------------------------------------------------
(* The FTP service.  The property speaks of one moment, the answer 226; what     *)
(* makes it true is what the file and the transfers hold at every moment.        *)

(* What an upload has received, and what of it the file holds when no other      *)
(* upload ran beside.                                                           *)
UploadHolds(c) ==
    /\ ftpSession[c].moved <= Len(ftpSession[c].came)
    /\ \A i \in 1..Len(ftpSession[c].came) :
          ftpSession[c].came[i] = <<ftpSession[c].upload, i>>
    /\ ~ftpSession[c].crossed =>
          /\ \A d \in Ftp : At(d, "storing") => d = c
          /\ Len(ftpFile) = ftpSession[c].moved
          /\ \A i \in 1..ftpSession[c].moved : ftpFile[i] = ftpSession[c].came[i]

UploadsHold == \A c \in Ftp : At(c, "storing") => UploadHolds(c)

(* What a download that no upload ran beside has read.                           *)
DownloadsHold ==
    \A c \in Ftp : At(c, "retrieving") /\ ~ftpSession[c].crossed =>
        LET s == ftpSession[c] IN
        /\ \A d \in Ftp : ~At(d, "storing")
        /\ Len(s.came) = s.moved
        /\ s.moved <= Len(ftpFile)
        /\ \A i \in 1..s.moved : s.came[i] = ftpFile[i]

(* While the last upload is known, the file is that upload.                      *)
LastHolds ==
    ftpLast # NoUpload =>
        /\ \A d \in Ftp : ~At(d, "storing")
        /\ Len(ftpFile) = ftpLast.size
        /\ \A i \in 1..Len(ftpFile) : ftpFile[i] = <<ftpLast.upload, i>>

FtpIInv == FtpTypeOK /\ UploadsHold /\ DownloadsHold /\ LastHolds

(* A session that is in no transfer afterwards, and was not storing, disturbs    *)
(* nothing.                                                                     *)
LEMMA AsideKeeps ==
    ASSUME FtpIInv, FilesStay, NEW c \in Ftp, ~At(c, "storing"), NEW s \in FtpState,
           s.at \in {"gone", "ready", "accepting"},
           ftpSession' = [ftpSession EXCEPT ![c] = s]
    PROVE  FtpIInv'
  <1>1. \A d \in Ftp : d # c => ftpSession'[d] = ftpSession[d]
    BY DEF FtpIInv, FtpTypeOK
  <1>2. ftpSession'[c] = s /\ ftpSession' \in [Ftp -> FtpState]
    BY DEF FtpIInv, FtpTypeOK
  <1>3. FtpTypeOK'
    BY <1>2 DEF FtpIInv, FtpTypeOK, FilesStay
  <1>4. \A d \in Ftp : At(d, "storing")' <=> At(d, "storing")
    BY <1>1, <1>2 DEF At
  <1>5. UploadsHold'
    BY <1>1, <1>2, <1>4 DEF FtpIInv, UploadsHold, UploadHolds, FilesStay, At
  <1>6. DownloadsHold'
    BY <1>1, <1>2, <1>4 DEF FtpIInv, DownloadsHold, FilesStay, At
  <1>7. LastHolds'
    BY <1>4 DEF FtpIInv, LastHolds, FilesStay
  <1> QED
    BY <1>3, <1>5, <1>6, <1>7 DEF FtpIInv

(* Facts about intervals and sequences that the proofs below keep needing.       *)
LEMMA EmptyStretch ==
    ASSUME NEW m \in Nat, NEW n \in Nat, m <= n, m + 1 .. n = {}
    PROVE  m = n
  <1>1. m < n => m + 1 \in m + 1 .. n
    OBVIOUS
  <1> QED
    BY <1>1

LEMMA LastOrBefore ==
    ASSUME NEW S, NEW q \in Seq(S), NEW i \in 1..Len(q) + 1
    PROVE  i \in 1..Len(q) \/ i = Len(q) + 1
  OBVIOUS

LEMMA AppendParts ==
    ASSUME NEW S, NEW q \in Seq(S), NEW x \in S
    PROVE  /\ Append(q, x) \in Seq(S)
           /\ Len(Append(q, x)) = Len(q) + 1
           /\ Append(q, x)[Len(q) + 1] = x
           /\ \A i \in 1..Len(q) : Append(q, x)[i] = q[i]
  OBVIOUS

LEMMA SequenceOfParts ==
    ASSUME NEW S, NEW q \in Seq(S)
    PROVE  q = [i \in 1..Len(q) |-> q[i]] /\ Len(q) \in Nat
  OBVIOUS

LEMMA FunctionIsSequence ==
    ASSUME NEW S, NEW n \in Nat, NEW f \in [1..n -> S]
    PROVE  f \in Seq(S) /\ Len(f) = n
  OBVIOUS

LEMMA MaxOfTwo ==
    ASSUME NEW m \in Nat, NEW n \in Nat
    PROVE  Max({m, n}) \in {m, n} /\ Max({m, n}) >= m /\ Max({m, n}) >= n
  BY DEF Max

LEMMA BeforeStretch ==
    ASSUME NEW m \in Nat, NEW n \in Nat, NEW i \in 1 .. n, i \notin m + 1 .. n
    PROVE  i \in 1 .. m
  OBVIOUS

(* The file after a write of an upload that runs alone: what it has received, up *)
(* to that place; and after any write a sequence of units.                       *)
LEMMA WrittenParts ==
    ASSUME FtpIInv, NEW c \in Ftp, At(c, "storing"), NEW place \in Nat,
           ftpSession[c].moved <= place, place <= Len(ftpSession[c].came)
    PROVE  /\ WrittenUpTo(c, place) \in Seq(Nat \X Nat)
           /\ ~ftpSession[c].crossed =>
                 /\ Len(WrittenUpTo(c, place)) = place
                 /\ \A i \in 1..place : WrittenUpTo(c, place)[i] = ftpSession[c].came[i]
  <1> DEFINE s == ftpSession[c]
             top == Max({Len(ftpFile), place})
             new == s.moved + 1 .. place
             filled == [i \in 1..top |->
                          IF i \in new THEN s.came[i]
                          ELSE IF i \in DOMAIN ftpFile THEN ftpFile[i] ELSE Hole]
  <1>1. /\ s.moved \in Nat /\ s.came \in Seq(Nat \X Nat) /\ ftpFile \in Seq(Nat \X Nat)
        /\ Len(ftpFile) \in Nat
    BY DEF FtpIInv, FtpTypeOK, FtpState
  <1>2. ~s.crossed => Len(ftpFile) = s.moved /\ \A i \in 1..s.moved : ftpFile[i] = s.came[i]
    BY DEF FtpIInv, UploadsHold, UploadHolds
  <1>3. top \in Nat /\ top >= place /\ top >= Len(ftpFile) /\ top \in {Len(ftpFile), place}
    BY <1>1, MaxOfTwo
  <1>4. CASE new = {}
    <2>1. WrittenUpTo(c, place) = ftpFile
      BY <1>4 DEF WrittenUpTo
    <2>2. s.moved = place
      <3>1. s.moved <= place /\ s.moved + 1 .. place = {}
        BY <1>4
      <3> HIDE DEF s, new, top, filled
      <3> QED
        BY <1>1, <3>1, EmptyStretch
    <2>3. /\ ftpFile \in Seq(Nat \X Nat)
          /\ ~s.crossed => Len(ftpFile) = place /\ \A i \in 1..place : ftpFile[i] = s.came[i]
      <3> HIDE DEF s, new, top, filled
      <3> QED
        BY <1>1, <1>2, <2>2
    <2> QED
      BY <2>1, <2>3
  <1>5. CASE new # {}
    <2>1. WrittenUpTo(c, place) = filled
      BY <1>5 DEF WrittenUpTo
    <2>2. ASSUME NEW i \in 1..top
          PROVE  (IF i \in new THEN s.came[i]
                  ELSE IF i \in DOMAIN ftpFile THEN ftpFile[i] ELSE Hole) \in Nat \X Nat
      <3>1. CASE i \in new
        <4>1. i \in 1..Len(s.came)
          BY <1>1, <3>1
        <4>2. \A j \in 1..Len(s.came) : s.came[j] \in Nat \X Nat
          BY <1>1
        <4> QED
          BY <3>1, <4>1, <4>2
      <3>2. CASE i \notin new /\ i \in DOMAIN ftpFile
        BY <1>1, <3>2
      <3>3. CASE i \notin new /\ i \notin DOMAIN ftpFile
        BY <3>3 DEF Hole
      <3> QED
        BY <3>1, <3>2, <3>3
    <2>3. filled \in Seq(Nat \X Nat) /\ Len(filled) = top
      <3>1. filled \in [1..top -> Nat \X Nat]
        BY <2>2
      <3> HIDE DEF filled, top
      <3> QED
        BY <1>3, <3>1, FunctionIsSequence
    <2>4. ~s.crossed => top = place
      BY <1>1, <1>2, <1>3
    <2>5. ASSUME ~s.crossed, NEW i \in 1..place
          PROVE  filled[i] = s.came[i]
      <3>1. i \in 1..top
        BY <1>3
      <3>2. CASE i \in new
        BY <3>1, <3>2
      <3>3. CASE i \notin new
        <4>1. i \in 1..s.moved
          <5>1. s.moved \in Nat /\ i \notin s.moved + 1 .. place
            BY <1>1, <3>3
          <5> HIDE DEF s, filled, top
          <5> QED
            BY <5>1, BeforeStretch
        <4>2. i \in DOMAIN ftpFile
          BY <1>1, <1>2, <2>5, <4>1
        <4> QED
          BY <1>2, <2>5, <3>1, <3>3, <4>1, <4>2
      <3> QED
        BY <3>2, <3>3
    <2> HIDE DEF filled
    <2> QED
      BY <2>1, <2>3, <2>4, <2>5
  <1> QED
    BY <1>4, <1>5

(* An upload that begins empties the file and crosses every transfer.            *)
LEMMA StoreBeginsKeeps ==
    ASSUME FtpIInv, NEW c \in Ftp, StoreBegins(c)
    PROVE  FtpIInv'
  <1> DEFINE crossing == Storing # {}
             begun == [ftpSession[c] EXCEPT !.at = "storing", !.passive = FALSE, !.came = <<>>,
                         !.upload = ftpUploads', !.moved = 0, !.crossed = crossing]
             hit(d) == ftpSession[d].crossed \/ ftpSession[d].at \in {"storing", "retrieving"}
             next == [d \in Ftp |-> IF d = c THEN begun
                                    ELSE [ftpSession[d] EXCEPT !.crossed = hit(d)]]
  <1>1. /\ ftpSession' = next /\ ftpUploads' = ftpUploads + 1
        /\ ftpSession \in [Ftp -> FtpState] /\ ftpUploads' \in Nat
    <2>1. ftpSession' = next
      BY Zenon DEF StoreBegins
    <2>2. ftpUploads' = ftpUploads + 1
      BY DEF StoreBegins
    <2> HIDE DEF next
    <2> QED
      BY <2>1, <2>2 DEF FtpIInv, FtpTypeOK
  <1>2. ASSUME NEW d \in Ftp, d # c
        PROVE  /\ ftpSession'[d] \in FtpState
               /\ ftpSession'[d].at = ftpSession[d].at
               /\ ftpSession'[d].came = ftpSession[d].came
               /\ ftpSession'[d].moved = ftpSession[d].moved
               /\ ftpSession'[d].upload = ftpSession[d].upload
               /\ ftpSession'[d].crossed = hit(d)
    <2>1. ftpSession[d] \in FtpState /\ hit(d) \in BOOLEAN
      BY <1>1
    <2>2. ftpSession'[d] = [ftpSession[d] EXCEPT !.crossed = hit(d)]
      BY <1>1, <1>2
    <2> HIDE DEF hit
    <2> QED
      BY <2>1, <2>2 DEF FtpState
  <1>3. /\ ftpSession'[c] \in FtpState
        /\ ftpSession'[c].at = "storing" /\ ftpSession'[c].came = <<>>
        /\ ftpSession'[c].moved = 0
        /\ ftpSession'[c].crossed = crossing
    <2>1. ftpSession[c] \in FtpState /\ <<>> \in Seq(Nat \X Nat)
      BY DEF FtpIInv, FtpTypeOK
    <2>2. ftpSession'[c] = begun
      BY <1>1
    <2>3. crossing \in BOOLEAN
      OBVIOUS
    <2> HIDE DEF crossing
    <2> QED
      BY <1>1, <2>1, <2>2, <2>3 DEF FtpState
  <1> HIDE DEF hit, begun, next
  <1>4. FtpTypeOK'
    <2>1. ftpSession' \in [Ftp -> FtpState]
      <3>1. \A d \in Ftp : ftpSession'[d] \in FtpState
        BY <1>2, <1>3
      <3> QED
        BY <1>1, <3>1 DEF next
    <2>2. <<>> \in Seq(Nat \X Nat) /\ NoUpload \in [upload : Nat, size : Nat]
      BY DEF NoUpload
    <2> QED
      BY <1>1, <2>1, <2>2 DEF StoreBegins, FtpTypeOK, Opened
  <1>5. ~ftpSession'[c].crossed => \A d \in Ftp : ~At(d, "storing")
    BY <1>3 DEF Storing
  <1>6. ftpFile' = <<>> /\ ftpLast' = NoUpload
    BY DEF StoreBegins, Opened
  <1>7. UploadsHold'
    <2> SUFFICES ASSUME NEW d \in Ftp, At(d, "storing")'
                 PROVE  UploadHolds(d)'
      BY DEF UploadsHold, UploadHolds
    <2>1. CASE d = c
      <3>1. Len(<<>>) = 0
        OBVIOUS
      <3> QED
        BY <1>2, <1>3, <1>5, <1>6, <2>1, <3>1 DEF At, UploadHolds
    <2>2. CASE d # c
      <3>1. At(d, "storing") /\ ftpSession'[d].crossed
        BY <1>2, <2>2 DEF At, hit
      <3>2. UploadHolds(d)
        BY <3>1 DEF FtpIInv, UploadsHold
      <3> QED
        BY <1>2, <2>2, <3>1, <3>2 DEF UploadHolds
    <2> QED
      BY <2>1, <2>2
  <1>8. DownloadsHold'
    BY <1>2, <1>3 DEF DownloadsHold, At, hit
  <1>9. LastHolds'
    BY <1>6 DEF LastHolds
  <1> QED
    BY <1>4, <1>7, <1>8, <1>9 DEF FtpIInv

(* A chunk in the buffer does not touch the file.                                *)
LEMMA StoreReceivesKeeps ==
    ASSUME FtpIInv, NEW c \in Ftp, StoreReceives(c)
    PROVE  FtpIInv'
  <1> DEFINE s == ftpSession[c]
             unit == <<s.upload, Len(s.came) + 1>>
  <1>1. /\ s \in FtpState /\ s.came \in Seq(Nat \X Nat) /\ s.upload \in Nat /\ s.moved \in Nat
        /\ unit \in Nat \X Nat /\ s.at = "storing"
    BY DEF StoreReceives, FtpIInv, FtpTypeOK, FtpState, At
  <1>2. ftpSession' = [ftpSession EXCEPT ![c] = [s EXCEPT !.came = Append(s.came, unit)]]
    BY DEF StoreReceives
  <1>3. ftpSession'[c] = [s EXCEPT !.came = Append(s.came, unit)]
    BY <1>2 DEF FtpIInv, FtpTypeOK
  <1>4. ftpSession'[c].at = "storing" /\ ftpSession'[c].came = Append(s.came, unit)
        /\ ftpSession'[c].upload = s.upload /\ ftpSession'[c].moved = s.moved
        /\ ftpSession'[c].crossed = s.crossed
    BY <1>1, <1>3 DEF FtpState
  <1>5. \A d \in Ftp : d # c => ftpSession'[d] = ftpSession[d]
    BY <1>2 DEF FtpIInv, FtpTypeOK
  <1>6. /\ Append(s.came, unit) \in Seq(Nat \X Nat)
        /\ Len(Append(s.came, unit)) = Len(s.came) + 1
        /\ Append(s.came, unit)[Len(s.came) + 1] = unit
        /\ \A i \in 1..Len(s.came) : Append(s.came, unit)[i] = s.came[i]
    <2> HIDE DEF s, unit
    <2> QED
      BY <1>1, AppendParts
  <1> HIDE DEF unit
  <1>7. ftpSession' \in [Ftp -> FtpState]
    BY <1>1, <1>2, <1>6 DEF FtpIInv, FtpTypeOK, FtpState
  <1>8. FtpTypeOK'
    BY <1>7 DEF StoreReceives, FilesStay, FtpIInv, FtpTypeOK
  <1>9. FilesStay
    BY DEF StoreReceives
  <1>10. \A d \in Ftp : At(d, "storing")' <=> At(d, "storing")
    BY <1>1, <1>4, <1>5 DEF At
  <1>11. UploadsHold'
    <2> SUFFICES ASSUME NEW d \in Ftp, At(d, "storing")'
                 PROVE  UploadHolds(d)'
      BY DEF UploadsHold, UploadHolds
    <2>1. CASE d = c
      <3>1. s.moved <= Len(s.came) + 1
        BY <1>1, <1>10, <2>1 DEF FtpIInv, UploadsHold, UploadHolds
      <3>2. \A i \in 1..Len(s.came) + 1 : Append(s.came, unit)[i] = <<s.upload, i>>
        <4>1. \A i \in 1..Len(s.came) : s.came[i] = <<s.upload, i>>
          BY <1>10, <2>1 DEF FtpIInv, UploadsHold, UploadHolds
        <4>2. ASSUME NEW i \in 1..Len(s.came) + 1
              PROVE  i \in 1..Len(s.came) \/ i = Len(s.came) + 1
          <5> HIDE DEF s
          <5> QED
            BY <1>1, LastOrBefore
        <4> QED
          BY <1>6, <4>1, <4>2 DEF unit
      <3>3. ~s.crossed =>
              /\ \A e \in Ftp : At(e, "storing")' => e = c
              /\ Len(ftpFile') = s.moved
              /\ \A i \in 1..s.moved : ftpFile'[i] = Append(s.came, unit)[i]
        <4>1. s.moved <= Len(s.came)
          BY <1>10, <2>1 DEF FtpIInv, UploadsHold, UploadHolds
        <4>2. ~s.crossed =>
                  /\ \A e \in Ftp : At(e, "storing") => e = c
                  /\ Len(ftpFile) = s.moved
                  /\ \A i \in 1..s.moved : ftpFile[i] = s.came[i]
          BY <1>10, <2>1 DEF FtpIInv, UploadsHold, UploadHolds
        <4>3. \A i \in 1..s.moved : Append(s.came, unit)[i] = s.came[i]
          <5>1. s.moved \in Nat /\ Len(s.came) \in Nat
            BY <1>1
          <5> HIDE DEF s
          <5> QED
            BY <1>6, <4>1, <5>1
        <4>4. ftpFile' = ftpFile
          BY <1>9 DEF FilesStay
        <4> HIDE DEF s
        <4> QED
          BY <1>10, <4>2, <4>3, <4>4
      <3> QED
        BY <1>4, <1>6, <2>1, <3>1, <3>2, <3>3 DEF UploadHolds
    <2>2. CASE d # c
      BY <1>5, <1>9, <1>10, <2>2 DEF FtpIInv, UploadsHold, UploadHolds, FilesStay
    <2> QED
      BY <2>1, <2>2
  <1>12. DownloadsHold'
    BY <1>4, <1>5, <1>9, <1>10 DEF FtpIInv, DownloadsHold, FilesStay, At
  <1>13. LastHolds'
    BY <1>9, <1>10 DEF FtpIInv, LastHolds, FilesStay
  <1> QED
    BY <1>8, <1>11, <1>12, <1>13 DEF FtpIInv

(* While somebody stores, the last upload is not known and no download is alone. *)
LEMMA StoringCrosses ==
    ASSUME FtpIInv, NEW c \in Ftp, At(c, "storing")
    PROVE  /\ ftpLast = NoUpload
           /\ \A d \in Ftp : At(d, "retrieving") => ftpSession[d].crossed
           /\ \A d \in Ftp : d # c /\ At(d, "storing") => ftpSession[d].crossed
  BY DEF FtpIInv, DownloadsHold, LastHolds, UploadsHold, UploadHolds

(* Part of the buffer is written.                                               *)
LEMMA StoreWritesKeeps ==
    ASSUME FtpIInv, NEW c \in Ftp, StoreWrites(c)
    PROVE  FtpIInv'
  <1> DEFINE s == ftpSession[c]
  <1>1. /\ s \in FtpState /\ s.came \in Seq(Nat \X Nat) /\ s.moved \in Nat
        /\ Len(s.came) \in Nat /\ At(c, "storing") /\ s.at = "storing"
    BY DEF StoreWrites, FtpIInv, FtpTypeOK, FtpState, At
  <1>2. PICK place \in s.moved + 1 .. Len(s.came) :
          /\ ftpFile' = WrittenUpTo(c, place)
          /\ ftpSession' = [ftpSession EXCEPT ![c].moved = place]
    BY DEF StoreWrites
  <1>3. place \in Nat /\ s.moved <= place /\ place <= Len(s.came)
    BY <1>1, <1>2
  <1>4. /\ ftpFile' \in Seq(Nat \X Nat)
        /\ ~s.crossed => Len(ftpFile') = place /\ \A i \in 1..place : ftpFile'[i] = s.came[i]
    BY <1>1, <1>2, <1>3, WrittenParts
  <1>5. /\ ftpSession' \in [Ftp -> FtpState]
        /\ ftpSession'[c] = [s EXCEPT !.moved = place]
        /\ \A d \in Ftp : d # c => ftpSession'[d] = ftpSession[d]
    BY <1>1, <1>2, <1>3 DEF FtpIInv, FtpTypeOK, FtpState
  <1>6. /\ ftpSession'[c].at = "storing" /\ ftpSession'[c].came = s.came
        /\ ftpSession'[c].upload = s.upload /\ ftpSession'[c].moved = place
        /\ ftpSession'[c].crossed = s.crossed
    BY <1>1, <1>5 DEF FtpState
  <1>7. UNCHANGED <<ftpThere, ftpUploads, ftpLast>>
    BY DEF StoreWrites
  <1>8. FtpTypeOK'
    BY <1>4, <1>5, <1>7 DEF FtpIInv, FtpTypeOK
  <1>9. \A d \in Ftp : At(d, "storing")' <=> At(d, "storing")
    BY <1>1, <1>5, <1>6 DEF At
  <1>10. UploadsHold'
    <2> SUFFICES ASSUME NEW d \in Ftp, At(d, "storing")'
                 PROVE  UploadHolds(d)'
      BY DEF UploadsHold, UploadHolds
    <2>1. CASE d = c
      <3>1. /\ \A i \in 1..Len(s.came) : s.came[i] = <<s.upload, i>>
            /\ ~s.crossed => \A e \in Ftp : At(e, "storing")' => e = c
        BY <1>1, <1>9 DEF FtpIInv, UploadsHold, UploadHolds
      <3> QED
        BY <1>3, <1>4, <1>6, <2>1, <3>1 DEF UploadHolds
    <2>2. CASE d # c
      <3>1. At(d, "storing") /\ ftpSession[d].crossed
        BY <1>1, <1>9, <2>2, StoringCrosses
      <3> QED
        BY <1>5, <2>2, <3>1 DEF FtpIInv, UploadsHold, UploadHolds
    <2> QED
      BY <2>1, <2>2
  <1>11. DownloadsHold'
    BY <1>1, <1>5, <1>6, StoringCrosses DEF DownloadsHold, At
  <1>12. LastHolds'
    BY <1>1, <1>7, StoringCrosses DEF LastHolds, NoUpload
  <1> QED
    BY <1>8, <1>10, <1>11, <1>12 DEF FtpIInv

(* The upload ends, and the rest of the buffer is written.                       *)
LEMMA StoreStopsKeeps ==
    ASSUME FtpIInv, NEW c \in Ftp, StoreEnds(c) \/ StoreBreaks(c)
    PROVE  FtpIInv'
  <1> DEFINE s == ftpSession[c]
             size == Len(s.came)
  <1>1. /\ s \in FtpState /\ s.came \in Seq(Nat \X Nat) /\ s.moved \in Nat /\ s.upload \in Nat
        /\ size \in Nat /\ At(c, "storing") /\ s.at = "storing"
    BY DEF StoreEnds, StoreBreaks, FtpIInv, FtpTypeOK, FtpState, At
  <1>2. /\ s.moved <= size
        /\ \A i \in 1..size : s.came[i] = <<s.upload, i>>
        /\ ~s.crossed => \A d \in Ftp : At(d, "storing") => d = c
    BY <1>1 DEF FtpIInv, UploadsHold, UploadHolds
  <1>3. ftpFile' = WrittenUpTo(c, size)
    BY DEF StoreEnds, StoreBreaks
  <1>4. /\ ftpFile' \in Seq(Nat \X Nat)
        /\ ~s.crossed => Len(ftpFile') = size /\ \A i \in 1..size : ftpFile'[i] = s.came[i]
    <2>1. size <= Len(s.came)
      BY <1>1
    <2> HIDE DEF size
    <2> QED
      BY <1>1, <1>2, <1>3, <2>1, WrittenParts
  <1>5. PICK where \in {"ready", "gone"} :
          /\ ftpSession' = [ftpSession EXCEPT ![c].at = where]
          /\ \/ ftpLast' = ftpLast
             \/ ~s.crossed /\ ftpLast' = [upload |-> s.upload, size |-> size]
             \/ ftpLast' = NoUpload
    BY DEF StoreEnds, StoreBreaks, SetAt
  <1>6. /\ ftpSession' \in [Ftp -> FtpState]
        /\ ftpSession'[c].at \in {"ready", "gone"}
        /\ \A d \in Ftp : d # c => ftpSession'[d] = ftpSession[d]
    BY <1>1, <1>5 DEF FtpIInv, FtpTypeOK, FtpState
  <1>7. FtpTypeOK'
    <2>1. ftpLast' \in [upload : Nat, size : Nat]
      BY <1>1, <1>5 DEF FtpIInv, FtpTypeOK, NoUpload
    <2>2. UNCHANGED <<ftpThere, ftpUploads>>
      BY DEF StoreEnds, StoreBreaks
    <2> QED
      BY <1>4, <1>6, <2>1, <2>2 DEF FtpIInv, FtpTypeOK
  <1>8. \A d \in Ftp : At(d, "storing")' <=> d # c /\ At(d, "storing")
    BY <1>6 DEF At
  <1>9. UploadsHold'
    <2> SUFFICES ASSUME NEW d \in Ftp, At(d, "storing")'
                 PROVE  UploadHolds(d)'
      BY DEF UploadsHold
    <2>1. d # c /\ At(d, "storing") /\ ftpSession'[d] = ftpSession[d]
      BY <1>6, <1>8
    <2>2. ftpSession[d].crossed
      BY <1>1, <2>1, StoringCrosses
    <2>3. UploadHolds(d)
      BY <2>1 DEF FtpIInv, UploadsHold
    <2> QED
      BY <2>1, <2>2, <2>3 DEF UploadHolds
  <1>10. DownloadsHold'
    BY <1>1, <1>6, StoringCrosses DEF DownloadsHold, At
  <1>11. LastHolds'
    <2> SUFFICES ASSUME ftpLast' # NoUpload
                 PROVE  LastHolds!2'
      BY DEF LastHolds, NoUpload
    <2>1. ~s.crossed /\ ftpLast' = [upload |-> s.upload, size |-> size]
      BY <1>1, <1>5, StoringCrosses
    <2> QED
      BY <1>2, <1>4, <1>8, <2>1
  <1> QED
    BY <1>7, <1>9, <1>10, <1>11 DEF FtpIInv

(* A download begins, and reads.                                                *)
LEMMA RetrieveKeeps ==
    ASSUME FtpIInv, NEW c \in Ftp, RetrieveBegins(c) \/ RetrieveReads(c)
    PROVE  FtpIInv'
  <1> DEFINE s == ftpSession[c]
             t == ftpSession'[c]
  <1>1. /\ s \in FtpState /\ s.came \in Seq(Nat \X Nat) /\ s.moved \in Nat
        /\ ftpFile \in Seq(Nat \X Nat) /\ ~At(c, "storing")
    BY DEF RetrieveBegins, RetrieveReads, FtpIInv, FtpTypeOK, FtpState, At
  <1>2. FilesStay
    BY DEF RetrieveBegins, RetrieveReads
  <1>3. \A d \in Ftp : d # c => ftpSession'[d] = ftpSession[d]
    BY DEF RetrieveBegins, RetrieveReads, FtpIInv, FtpTypeOK
  <1>4. /\ ftpSession' \in [Ftp -> FtpState] /\ t.at = "retrieving"
        /\ ~t.crossed =>
              /\ \A d \in Ftp : ~At(d, "storing")
              /\ Len(t.came) = t.moved
              /\ t.moved <= Len(ftpFile)
              /\ \A i \in 1..t.moved : t.came[i] = ftpFile[i]
    <2>1. CASE RetrieveBegins(c)
      <3> DEFINE crossing == Storing # {}
                 begun == [s EXCEPT !.at = "retrieving", !.passive = FALSE, !.came = <<>>,
                             !.moved = 0, !.crossed = crossing]
      <3> HIDE DEF begun
      <3>1. ftpSession' = [ftpSession EXCEPT ![c] = begun] /\ t = begun
        BY <2>1 DEF RetrieveBegins, FtpIInv, FtpTypeOK, begun
      <3>2. <<>> \in Seq(Nat \X Nat) /\ crossing \in BOOLEAN /\ Len(<<>>) = 0
        OBVIOUS
      <3>3. /\ t \in FtpState /\ t.at = "retrieving" /\ t.came = <<>> /\ t.moved = 0
            /\ t.crossed = crossing
        <4> HIDE DEF crossing, s, t
        <4>1. /\ begun \in FtpState /\ begun.at = "retrieving" /\ begun.came = <<>>
              /\ begun.moved = 0 /\ begun.crossed = crossing
          BY <1>1, <3>2 DEF FtpState, begun
        <4> QED
          BY <3>1, <4>1
      <3>4. ftpSession' \in [Ftp -> FtpState]
        BY <3>1, <3>3 DEF FtpIInv, FtpTypeOK
      <3>5. Len(ftpFile) \in Nat
        BY <1>1
      <3>6. crossing \/ \A d \in Ftp : ~At(d, "storing")
        BY DEF Storing
      <3> HIDE DEF crossing
      <3> QED
        BY <3>2, <3>3, <3>4, <3>5, <3>6
    <2>2. CASE RetrieveReads(c)
      <3> DEFINE unit == ftpFile[s.moved + 1]
      <3>1. s.moved < Len(ftpFile) /\ s.at = "retrieving"
        BY <2>2 DEF RetrieveReads, At
      <3>2. unit \in Nat \X Nat
        BY <1>1, <3>1
      <3>3. t = [s EXCEPT !.moved = s.moved + 1, !.came = Append(s.came, unit)]
        BY <2>2 DEF RetrieveReads, FtpIInv, FtpTypeOK
      <3>4. /\ Append(s.came, unit) \in Seq(Nat \X Nat)
            /\ Len(Append(s.came, unit)) = Len(s.came) + 1
            /\ Append(s.came, unit)[Len(s.came) + 1] = unit
            /\ \A i \in 1..Len(s.came) : Append(s.came, unit)[i] = s.came[i]
        <4> HIDE DEF s, t, unit
        <4> QED
          BY <1>1, <3>2, AppendParts
      <3>5. /\ t \in FtpState /\ t.at = "retrieving" /\ t.moved = s.moved + 1
            /\ t.came = Append(s.came, unit) /\ t.crossed = s.crossed
        <4>1. s.moved + 1 \in Nat
          BY <1>1
        <4> HIDE DEF unit
        <4> QED
          BY <1>1, <3>1, <3>3, <3>4, <4>1 DEF FtpState
      <3>6. ftpSession' \in [Ftp -> FtpState]
        BY <1>3, <2>2, <3>5 DEF RetrieveReads, FtpIInv, FtpTypeOK
      <3>7. ~s.crossed =>
              /\ \A d \in Ftp : ~At(d, "storing")
              /\ Len(s.came) = s.moved
              /\ \A i \in 1..s.moved : s.came[i] = ftpFile[i]
        BY <3>1 DEF FtpIInv, DownloadsHold, At
      <3>8. ASSUME ~s.crossed, NEW i \in 1..s.moved + 1
            PROVE  Append(s.came, unit)[i] = ftpFile[i]
        <4>1. i \in 1..s.moved \/ i = s.moved + 1
          BY <1>1
        <4> QED
          BY <3>4, <3>7, <3>8, <4>1
      <3>9. s.moved + 1 <= Len(ftpFile)
        BY <1>1, <3>1
      <3> HIDE DEF unit
      <3> QED
        BY <3>4, <3>5, <3>6, <3>7, <3>8, <3>9
    <2> QED
      BY <2>1, <2>2
  <1>5. FtpTypeOK'
    BY <1>2, <1>4 DEF FtpIInv, FtpTypeOK, FilesStay
  <1>6. \A d \in Ftp : At(d, "storing")' <=> At(d, "storing")
    BY <1>1, <1>3, <1>4 DEF At
  <1>7. UploadsHold'
    <2> SUFFICES ASSUME NEW d \in Ftp, At(d, "storing")'
                 PROVE  UploadHolds(d)'
      BY DEF UploadsHold
    <2>1. UploadHolds(d) /\ ftpSession'[d] = ftpSession[d]
      BY <1>1, <1>3, <1>6 DEF FtpIInv, UploadsHold
    <2> QED
      BY <1>2, <1>6, <2>1 DEF UploadHolds, FilesStay
  <1>8. DownloadsHold'
    BY <1>2, <1>3, <1>4, <1>6 DEF FtpIInv, DownloadsHold, FilesStay, At
  <1>9. LastHolds'
    BY <1>2, <1>6 DEF FtpIInv, LastHolds, FilesStay
  <1> QED
    BY <1>5, <1>7, <1>8, <1>9 DEF FtpIInv

LEMMA FreshTypes ==
    /\ FreshSession \in FtpState
    /\ [FreshSession EXCEPT !.at = "gone"] \in FtpState
  <1>1. <<>> \in Seq(Nat \X Nat)
    OBVIOUS
  <1> QED
    BY <1>1 DEF FreshSession, FtpState

(* The steps of a session outside of transfers.                                  *)
LEMMA AsideSteps ==
    ASSUME FtpIInv, NEW c \in Ftp,
           \/ FtpConnect(c) \/ FtpQuit(c) \/ FtpPass(c) \/ EnterPassive(c) \/ ListFiles(c)
           \/ \E wanted \in {"list", "store", "retrieve"} : Transfer(c, wanted)
           \/ RetrieveEnds(c) \/ RetrieveBreaks(c)
    PROVE  FtpIInv'
  <1> DEFINE s == ftpSession[c]
  <1>1. s \in FtpState
    BY DEF FtpIInv, FtpTypeOK
  <1>2. FilesStay /\ ~At(c, "storing")
    BY DEF FtpConnect, FtpQuit, FtpPass, EnterPassive, ListFiles, Transfer, RetrieveEnds,
           RetrieveBreaks, At
  <1>3. CASE FtpConnect(c)
    <2>1. FreshSession \in FtpState /\ FreshSession.at = "ready"
      BY FreshTypes DEF FreshSession
    <2>2. ftpSession' = [ftpSession EXCEPT ![c] = FreshSession]
      BY <1>3 DEF FtpConnect
    <2> QED
      BY <1>2, <2>1, <2>2, AsideKeeps
  <1>4. CASE FtpQuit(c) \/ RetrieveEnds(c) \/ RetrieveBreaks(c)
    <2>1. PICK where \in {"gone", "ready"} :
            ftpSession' = [ftpSession EXCEPT ![c] = [s EXCEPT !.at = where]]
      BY <1>4 DEF FtpQuit, RetrieveEnds, RetrieveBreaks, SetAt
    <2>2. [s EXCEPT !.at = where] \in FtpState /\ [s EXCEPT !.at = where].at = where
      BY <1>1 DEF FtpState
    <2> QED
      BY <1>2, <2>1, <2>2, AsideKeeps
  <1>5. CASE FtpPass(c) \/ EnterPassive(c)
    <2>1. PICK t \in {[s EXCEPT !.loggedIn = TRUE], [s EXCEPT !.passive = TRUE]} :
            ftpSession' = [ftpSession EXCEPT ![c] = t]
      BY <1>5 DEF FtpPass, EnterPassive
    <2>2. t \in FtpState /\ t.at = s.at
      BY <1>1, <2>1 DEF FtpState
    <2>3. s.at = "ready"
      BY <1>5 DEF FtpPass, EnterPassive, At
    <2> QED
      BY <1>2, <2>1, <2>2, <2>3, AsideKeeps
  <1>6. CASE ListFiles(c)
    <2>1. PICK where \in {"gone", "ready"} :
            ftpSession' = [ftpSession EXCEPT ![c] = [s EXCEPT !.at = where, !.passive = FALSE]]
      BY <1>6 DEF ListFiles
    <2>2. /\ [s EXCEPT !.at = where, !.passive = FALSE] \in FtpState
          /\ [s EXCEPT !.at = where, !.passive = FALSE].at = where
      BY <1>1 DEF FtpState
    <2> QED
      BY <1>2, <2>1, <2>2, AsideKeeps
  <1>7. ASSUME NEW wanted \in {"list", "store", "retrieve"}, Transfer(c, wanted)
        PROVE  FtpIInv'
    <2>1. PICK where \in {"gone", "accepting"} :
            ftpSession' = [ftpSession EXCEPT ![c] = [s EXCEPT !.at = where, !.wants = wanted]]
      BY <1>7 DEF Transfer
    <2>2. /\ [s EXCEPT !.at = where, !.wants = wanted] \in FtpState
          /\ [s EXCEPT !.at = where, !.wants = wanted].at = where
      BY <1>1 DEF FtpState
    <2> QED
      BY <1>2, <2>1, <2>2, AsideKeeps
  <1> QED
    BY <1>3, <1>4, <1>5, <1>6, <1>7

(* Every step keeps it.  The steps that matter are those of uploads.             *)
THEOREM FtpInvariance == FtpSpec => []FtpIInv
  <1>1. FtpInit => FtpIInv
    <2> SUFFICES ASSUME FtpInit PROVE FtpIInv
      OBVIOUS
    <2>1. \A c \in Ftp : ftpSession[c].at = "gone"
      BY DEF FtpInit, FreshSession
    <2>2. FtpTypeOK
      <3>1. ftpSession \in [Ftp -> FtpState]
        BY FreshTypes DEF FtpInit
      <3>2. <<>> \in Seq(Nat \X Nat) /\ NoUpload \in [upload : Nat, size : Nat]
        BY DEF NoUpload
      <3> QED
        BY <3>1, <3>2 DEF FtpInit, FtpTypeOK
    <2>3. UploadsHold /\ DownloadsHold /\ LastHolds
      BY <2>1 DEF FtpInit, UploadsHold, DownloadsHold, LastHolds, At
    <2> QED
      BY <2>2, <2>3 DEF FtpIInv
  <1>2. FtpIInv /\ [FtpNext]_ftpVars => FtpIInv'
    <2> SUFFICES ASSUME FtpIInv, [FtpNext]_ftpVars
                 PROVE  FtpIInv'
      OBVIOUS
    <2>1. ASSUME NEW c \in Ftp,
                 \/ FtpConnect(c) \/ FtpQuit(c) \/ FtpPass(c) \/ EnterPassive(c) \/ ListFiles(c)
                 \/ \E wanted \in {"list", "store", "retrieve"} : Transfer(c, wanted)
                 \/ RetrieveEnds(c) \/ RetrieveBreaks(c)
          PROVE  FtpIInv'
      BY <2>1, AsideSteps
    <2>2. ASSUME NEW c \in Ftp, StoreBegins(c)
          PROVE  FtpIInv'
      BY <2>2, StoreBeginsKeeps
    <2>3. ASSUME NEW c \in Ftp, StoreReceives(c)
          PROVE  FtpIInv'
      BY <2>3, StoreReceivesKeeps
    <2>4. ASSUME NEW c \in Ftp, StoreWrites(c)
          PROVE  FtpIInv'
      BY <2>4, StoreWritesKeeps
    <2>5. ASSUME NEW c \in Ftp, StoreEnds(c) \/ StoreBreaks(c)
          PROVE  FtpIInv'
      BY <2>5, StoreStopsKeeps
    <2>6. ASSUME NEW c \in Ftp, RetrieveBegins(c) \/ RetrieveReads(c)
          PROVE  FtpIInv'
      BY <2>6, RetrieveKeeps
    <2>7. CASE UNCHANGED ftpVars
      BY <2>7 DEF ftpVars, FtpIInv, FtpTypeOK, UploadsHold, UploadHolds, DownloadsHold,
                  LastHolds, At
    <2> QED
      BY <2>1, <2>2, <2>3, <2>4, <2>5, <2>6, <2>7 DEF FtpNext
  <1> QED
    BY <1>1, <1>2, PTL DEF FtpSpec

LEMMA ReadsStay ==
    ASSUME FtpIInv, NEW d \in Ftp, RetrieveReads(d), NEW c \in Ftp
    PROVE  ftpSession'[c].at = ftpSession[c].at
  <1>1. ftpSession \in [Ftp -> FtpState]
    BY DEF FtpIInv, FtpTypeOK
  <1>2. CASE d = c
    <2>1. ftpSession[c] \in FtpState
      BY <1>1
    <2> DEFINE moved == ftpSession[c].moved + 1
               came == Append(ftpSession[c].came, ftpFile[ftpSession[c].moved + 1])
    <2>2. ftpSession'[c] = [ftpSession[c] EXCEPT !.moved = moved, !.came = came]
      BY <1>1, <1>2 DEF RetrieveReads
    <2> HIDE DEF moved, came
    <2> QED
      BY <2>1, <2>2 DEF FtpState
  <1>3. CASE d # c
    BY <1>1, <1>3 DEF RetrieveReads
  <1> QED
    BY <1>2, <1>3

(* Only the end of the file takes a download back to its command loop.           *)
LEMMA OnlyEndsAnswer ==
    ASSUME FtpIInv, [FtpNext]_ftpVars, NEW c \in Ftp,
           At(c, "retrieving"), ftpSession'[c].at = "ready"
    PROVE  RetrieveEnds(c)
  <1> USE DEF At, SetAt, FtpIInv, FtpTypeOK, FtpState
  <1>1. ASSUME NEW d \in Ftp, FtpConnect(d) \/ FtpQuit(d) \/ FtpPass(d) \/ EnterPassive(d)
        PROVE  FALSE
    BY <1>1 DEF FtpConnect, FtpQuit, FtpPass, EnterPassive
  <1>2. ASSUME NEW d \in Ftp, NEW wanted \in {"list", "store", "retrieve"}, Transfer(d, wanted)
        PROVE  FALSE
    BY <1>2 DEF Transfer
  <1>3. ASSUME NEW d \in Ftp, ListFiles(d) \/ RetrieveBegins(d)
        PROVE  FALSE
    BY <1>3 DEF ListFiles, RetrieveBegins
  <1>4. ASSUME NEW d \in Ftp, StoreBegins(d)
        PROVE  FALSE
    BY <1>4 DEF StoreBegins
  <1>5. ASSUME NEW d \in Ftp,
               StoreReceives(d) \/ StoreWrites(d) \/ StoreEnds(d) \/ StoreBreaks(d)
        PROVE  FALSE
    BY <1>5 DEF StoreReceives, StoreWrites, StoreEnds, StoreBreaks
  <1>6. ASSUME NEW d \in Ftp, RetrieveReads(d) \/ RetrieveBreaks(d)
        PROVE  FALSE
    <2>1. CASE RetrieveReads(d)
      BY <2>1, ReadsStay
    <2>2. CASE RetrieveBreaks(d)
      BY <2>2 DEF RetrieveBreaks
    <2> QED
      BY <1>6, <2>1, <2>2
  <1>7. ASSUME NEW d \in Ftp, RetrieveEnds(d)
        PROVE  RetrieveEnds(c)
    BY <1>7 DEF RetrieveEnds
  <1>8. CASE UNCHANGED ftpVars
    BY <1>8 DEF ftpVars
  <1> QED
    BY <1>1, <1>2, <1>3, <1>4, <1>5, <1>6, <1>7, <1>8 DEF FtpNext

(* The types of the FTP service.                                                *)
THEOREM FtpTypes == FtpSpec => []FtpTypeOK
  <1>1. FtpIInv => FtpTypeOK
    BY DEF FtpIInv
  <1> QED
    BY <1>1, FtpInvariance, PTL

(* A download that nothing crossed is the whole of the last upload.              *)
THEOREM DownloadsAreWhole == FtpSpec => DownloadIsLastUpload
  <1> DEFINE Whole ==
        \A c \in Ftp :
          /\ At(c, "retrieving") /\ ftpSession'[c].at = "ready"
          /\ ~ftpSession[c].crossed
          /\ ftpLast # NoUpload
          => ftpSession[c].came = [i \in 1..ftpLast.size |-> <<ftpLast.upload, i>>]
  <1>1. FtpIInv /\ [FtpNext]_ftpVars => Whole
    <2> SUFFICES ASSUME FtpIInv, [FtpNext]_ftpVars, NEW c \in Ftp,
                        At(c, "retrieving"), ftpSession'[c].at = "ready",
                        ~ftpSession[c].crossed, ftpLast # NoUpload
                 PROVE  ftpSession[c].came = [i \in 1..ftpLast.size |-> <<ftpLast.upload, i>>]
      OBVIOUS
    <2>1. RetrieveEnds(c)
      BY OnlyEndsAnswer
    <2>2. /\ ftpSession[c].came \in Seq(Nat \X Nat) /\ ftpSession[c].moved \in Nat
          /\ ftpFile \in Seq(Nat \X Nat) /\ ftpLast.size \in Nat
      BY DEF FtpIInv, FtpTypeOK, FtpState
    <2>3. /\ Len(ftpSession[c].came) = Len(ftpFile)
          /\ \A i \in 1..Len(ftpFile) : ftpSession[c].came[i] = ftpFile[i]
      <3>1. /\ Len(ftpSession[c].came) = ftpSession[c].moved
            /\ ftpSession[c].moved <= Len(ftpFile)
            /\ \A i \in 1..ftpSession[c].moved : ftpSession[c].came[i] = ftpFile[i]
        BY DEF FtpIInv, DownloadsHold
      <3>2. ftpSession[c].moved >= Len(ftpFile) /\ Len(ftpFile) \in Nat
        BY <2>1, <2>2 DEF RetrieveEnds
      <3>3. ftpSession[c].moved = Len(ftpFile)
        BY <2>2, <3>1, <3>2
      <3> QED
        BY <3>1, <3>3
    <2>4. /\ Len(ftpFile) = ftpLast.size
          /\ \A i \in 1..Len(ftpFile) : ftpFile[i] = <<ftpLast.upload, i>>
      BY DEF FtpIInv, LastHolds
    <2>5. ftpSession[c].came = [i \in 1..Len(ftpFile) |-> ftpSession[c].came[i]]
      BY <2>2, <2>3, SequenceOfParts
    <2> QED
      BY <2>3, <2>4, <2>5
  <1>2. Whole => [Whole]_ftpVars
    OBVIOUS
  <1> HIDE DEF Whole
  <1>3. FtpSpec => [][Whole]_ftpVars
    BY <1>1, <1>2, FtpInvariance, PTL DEF FtpSpec
  <1> QED
    BY <1>3 DEF DownloadIsLastUpload, Whole
-------------------------------------------------------------------------------
(* Induction over the natural numbers, for a set.                               *)
LEMMA SetInduction ==
  ASSUME NEW S, 0 \in S, \A n \in Nat : n \in S => n + 1 \in S
  PROVE  Nat \subseteq S
  <1> DEFINE T == Nat \ S
  <1> SUFFICES ASSUME T # {} PROVE FALSE
    OBVIOUS
  <1> DEFINE R == OpToRel(<, Nat)
  <1>1. \A m, n \in Nat : <<m, n>> \in R <=> m < n
    BY DEF OpToRel
  <1>2. IsWellFoundedOn(R, Nat)
    BY NatLessThanWellFounded
  <1>3. T \subseteq Nat
    OBVIOUS
  <1> HIDE DEF R, T
  <1>4. PICK x \in T : \A y \in T : ~ (<<y, x>> \in R)
    BY <1>2, <1>3, WFMin
  <1>5. x \in Nat /\ x # 0 /\ x \notin S
    BY DEF T
  <1>6. x - 1 \in Nat /\ x - 1 < x /\ (x - 1) + 1 = x
    BY <1>5
  <1>7. x - 1 \notin T
    BY <1>1, <1>4, <1>5, <1>6
  <1> QED
    BY <1>5, <1>6, <1>7 DEF T

LEMMA ElementsOfSeq ==
    ASSUME NEW D, NEW s \in Seq(D)
    PROVE  \A i \in DOMAIN s : s[i] \in D
  OBVIOUS

LEMMA SeqGrows ==
    ASSUME NEW D, NEW E, D \subseteq E, NEW s \in Seq(D)
    PROVE  s \in Seq(E)
  <1>1. \A i \in 1 .. Len(s) : s[i] \in E
    OBVIOUS
  <1> QED
    BY <1>1

(* The mailbox.  The list that a QUIT builds, with the fold it builds it with    *)
(* written out: iter[s] are the mails at the places in s that stay.              *)
Kept(mails, deleted) ==
    FoldLeft(LAMBDA kept, i : IF i \notin deleted THEN Append(kept, mails[i]) ELSE kept,
             <<>>, [i \in DOMAIN mails |-> i])

KeptStep(mails, deleted, iter, s) ==
    LET x == [i \in DOMAIN mails |-> i][Max(s)]
        rest == iter[s \ {Max(s)}]
    IN  IF s = {} THEN <<>>
        ELSE IF x \notin deleted THEN Append(rest, mails[x]) ELSE rest

Keeps(mails, deleted, iter, n) ==
    iter = [s \in SUBSET (1 .. n) |-> KeptStep(mails, deleted, iter, s)]

LEMMA TopIsMax ==
    ASSUME NEW n \in Nat, NEW s \in SUBSET (1 .. n + 1), n + 1 \in s
    PROVE  Max(s) = n + 1
  <1>1. \A x \in s : x \in Int /\ x <= n + 1
    OBVIOUS
  <1>2. \A x \in s : (\A y \in s : x >= y) => x = n + 1
    BY <1>1
  <1>3. \A y \in s : n + 1 >= y
    BY <1>1
  <1> QED
    BY <1>2, <1>3, Zenon DEF Max

LEMMA KeepsExists ==
    ASSUME NEW mails, NEW deleted, NEW n \in Nat
    PROVE  \E iter : Keeps(mails, deleted, iter, n)
  <1> DEFINE S == {m \in Nat : \E iter : Keeps(mails, deleted, iter, m)}
  <1>1. 0 \in S
    <2> DEFINE iter == [s \in SUBSET (1 .. 0) |-> <<>>]
    <2>1. \A s \in SUBSET (1 .. 0) : s = {}
      OBVIOUS
    <2>2. \A s \in SUBSET (1 .. 0) : KeptStep(mails, deleted, iter, s) = <<>>
      BY <2>1, Zenon DEF KeptStep
    <2>3. Keeps(mails, deleted, iter, 0)
      BY <2>2, Zenon DEF Keeps
    <2> QED
      BY <2>3
  <1>2. ASSUME NEW m \in Nat, m \in S PROVE m + 1 \in S
    <2>1. PICK old : Keeps(mails, deleted, old, m)
      BY <1>2
    <2> DEFINE step(f, s) == KeptStep(mails, deleted, f, s)
               new == [s \in SUBSET (1 .. m + 1) |->
                          IF s \in SUBSET (1 .. m) THEN old[s] ELSE step(old, s)]
    <2>2. \A s \in SUBSET (1 .. m) :
             /\ s \in SUBSET (1 .. m + 1)
             /\ s \ {Max(s)} \in SUBSET (1 .. m)
      <3>1. 1 .. m \subseteq 1 .. m + 1
        OBVIOUS
      <3> QED
        BY <3>1, Zenon
    <2>3. \A s \in SUBSET (1 .. m + 1) :
             s \notin SUBSET (1 .. m) => s \ {Max(s)} \in SUBSET (1 .. m)
      <3> SUFFICES ASSUME NEW s \in SUBSET (1 .. m + 1), s \notin SUBSET (1 .. m)
                   PROVE  s \ {Max(s)} \in SUBSET (1 .. m)
        OBVIOUS
      <3>1. \A i \in 1 .. m + 1 : i \in 1 .. m \/ i = m + 1
        OBVIOUS
      <3>2. m + 1 \in s
        BY <3>1
      <3>3. Max(s) = m + 1
        BY <3>2, TopIsMax
      <3> QED
        BY <3>1, <3>3
    <2> HIDE DEF step
    <2>4. \A s \in SUBSET (1 .. m) : new[s] = old[s]
      BY <2>2, Zenon
    <2>5. \A s \in SUBSET (1 .. m + 1) : s \notin SUBSET (1 .. m) => new[s] = step(old, s)
      BY Zenon
    <2>6. new = [s \in SUBSET (1 .. m + 1) |-> new[s]]
      OBVIOUS
    <2>7. \A s \in SUBSET (1 .. m) : old[s] = step(old, s)
      BY <2>1, Zenon DEF Keeps, step
    <2> HIDE DEF new
    <2>8. \A s \in SUBSET (1 .. m + 1) : new[s \ {Max(s)}] = old[s \ {Max(s)}]
      BY <2>2, <2>3, <2>4, Zenon
    <2>9. \A s \in SUBSET (1 .. m + 1) : step(new, s) = step(old, s)
      <3> SUFFICES ASSUME NEW s \in SUBSET (1 .. m + 1)
                   PROVE  step(new, s) = step(old, s)
        OBVIOUS
      <3>1. new[s \ {Max(s)}] = old[s \ {Max(s)}]
        BY <2>8
      <3> QED
        BY <3>1 DEF step, KeptStep
    <2>10. \A s \in SUBSET (1 .. m + 1) : new[s] = step(new, s)
      BY <2>4, <2>5, <2>7, <2>9, Zenon
    <2>11. new = [s \in SUBSET (1 .. m + 1) |-> step(new, s)]
      BY <2>6, <2>10, Zenon
    <2>12. Keeps(mails, deleted, new, m + 1)
      BY <2>11 DEF Keeps, step
    <2> QED
      BY <2>12
  <1> HIDE DEF S
  <1>3. n \in S
    BY <1>1, <1>2, SetInduction
  <1> QED
    BY <1>3 DEF S

LEMMA KeptIs ==
    ASSUME NEW mails, NEW n \in Nat, DOMAIN mails = 1 .. n, NEW deleted
    PROVE  \E iter : Keeps(mails, deleted, iter, n) /\ Kept(mails, deleted) = iter[1 .. n]
  <1> DEFINE numbers == [i \in DOMAIN mails |-> i]
             iter == CHOOSE iter : Keeps(mails, deleted, iter, n)
  <1>1. Keeps(mails, deleted, iter, n)
    BY KeepsExists
  <1>2. DOMAIN numbers = 1 .. n
    OBVIOUS
  <1>3. Kept(mails, deleted) = iter[1 .. n]
    BY <1>2, Zenon DEF Kept, FoldLeft, MapThenFoldSet, Keeps, KeptStep
  <1> QED
    BY <1>1, <1>3

Distinct(s) == \A i, j \in DOMAIN s : s[i] = s[j] => i = j

(* What a list without repetitions keeps: what is not marked, without            *)
(* repetitions.                                                                 *)
LEMMA KeptParts ==
    ASSUME NEW M, NEW mails \in Seq(M), Distinct(mails), NEW deleted
    PROVE  /\ Kept(mails, deleted) \in Seq(M) /\ Distinct(Kept(mails, deleted))
           /\ ToSet(Kept(mails, deleted)) =
                  {mails[i] : i \in DOMAIN mails \ deleted}
  <1> DEFINE n == Len(mails)
  <1>1. n \in Nat /\ DOMAIN mails = 1 .. n
    OBVIOUS
  <1>2. \A i \in 1 .. n : mails[i] \in M
    OBVIOUS
  <1>3. \A i, j \in 1 .. n : mails[i] = mails[j] => i = j
    BY <1>1 DEF Distinct
  <1>4. PICK iter : Keeps(mails, deleted, iter, n) /\ Kept(mails, deleted) = iter[1 .. n]
    BY <1>1, KeptIs
  <1> HIDE DEF n
  <1> DEFINE Right(k) ==
               LET kept == iter[1 .. k]
               IN  /\ kept \in Seq(M) /\ Distinct(kept)
                   /\ ToSet(kept) = {mails[i] : i \in 1 .. k \ deleted}
             S == {k \in Nat : k <= n => Right(k)}
  <1>5. \A s \in SUBSET (1 .. n) : iter[s] = KeptStep(mails, deleted, iter, s)
    BY <1>4, Zenon DEF Keeps
  <1>6. 0 \in S
    <2>1. 1 .. 0 = {}
      OBVIOUS
    <2>2. iter[1 .. 0] = <<>>
      BY <1>5, <2>1, Zenon DEF KeptStep
    <2>3. <<>> \in Seq(M) /\ Distinct(<<>>) /\ ToSet(<<>>) = {}
      BY DEF Distinct, ToSet
    <2>4. {mails[i] : i \in 1 .. 0 \ deleted} = {}
      BY <2>1
    <2>5. Right(0)
      BY <2>2, <2>3, <2>4
    <2> QED
      BY <2>5
  <1>7. ASSUME NEW k \in Nat, k \in S PROVE k + 1 \in S
    <2> SUFFICES ASSUME k + 1 <= n PROVE Right(k + 1)
      OBVIOUS
    <2> DEFINE kept == iter[1 .. k]
    <2>1. Right(k) /\ k + 1 \in 1 .. n
      BY <1>1, <1>7
    <2>2. /\ kept \in Seq(M) /\ Distinct(kept)
          /\ ToSet(kept) = {mails[i] : i \in 1 .. k \ deleted}
      BY <2>1
    <2>3. iter[1 .. k + 1] = IF k + 1 \notin deleted THEN Append(kept, mails[k + 1])
                             ELSE kept
      <3>1. /\ 1 .. k + 1 \in SUBSET (1 .. n) /\ 1 .. k + 1 # {}
            /\ (1 .. k + 1) \ {k + 1} = 1 .. k
        <4>1. \A i \in 1 .. k + 1 : i \in 1 .. n
          BY <1>1, <2>1
        <4>2. \A i : i \in 1 .. k <=> i \in 1 .. k + 1 /\ i # k + 1
          OBVIOUS
        <4>3. k + 1 \in 1 .. k + 1
          OBVIOUS
        <4> QED
          BY <4>1, <4>2, <4>3, Zenon
      <3>2. Max(1 .. k + 1) = k + 1
        BY TopIsMax
      <3>3. [i \in DOMAIN mails |-> i][k + 1] = k + 1
        BY <1>1, <2>1
      <3> QED
        BY <1>5, <3>1, <3>2, <3>3, Zenon DEF KeptStep
    <2>4. \A i \in 1 .. k + 1 : i \in 1 .. k \/ i = k + 1
      OBVIOUS
    <2>5. 1 .. k \subseteq 1 .. k + 1 /\ k + 1 \in 1 .. k + 1 /\ 1 .. k \subseteq 1 .. n
      BY <1>1, <2>1
    <2> HIDE DEF kept
    <2>6. CASE k + 1 \in deleted
      <3>1. iter[1 .. k + 1] = kept
        BY <2>3, <2>6
      <3>2. 1 .. k + 1 \ deleted = 1 .. k \ deleted
        BY <2>4, <2>5, <2>6
      <3> QED
        BY <2>2, <3>1, <3>2
    <2>7. CASE k + 1 \notin deleted
      <3> DEFINE longer == Append(kept, mails[k + 1])
      <3>1. iter[1 .. k + 1] = longer
        BY <2>3, <2>7
      <3>2. mails[k + 1] \in M
        BY <1>2, <2>1
      <3>3. /\ longer \in Seq(M) /\ Len(longer) = Len(kept) + 1 /\ Len(kept) \in Nat
            /\ DOMAIN longer = 1 .. Len(kept) + 1 /\ DOMAIN kept = 1 .. Len(kept)
            /\ \A i \in 1 .. Len(kept) : longer[i] = kept[i]
            /\ longer[Len(kept) + 1] = mails[k + 1]
        BY <2>2, <3>2
      <3> HIDE DEF longer
      <3>4. ToSet(longer) = ToSet(kept) \cup {mails[k + 1]}
        BY <3>3 DEF ToSet
      <3>5. mails[k + 1] \notin ToSet(kept)
        <4>1. \A i \in 1 .. k : i \in 1 .. n /\ i # k + 1
          BY <2>5
        <4> QED
          BY <1>3, <2>1, <2>2, <4>1
      <3>6. Distinct(longer)
        <4>1. \A i \in 1 .. Len(kept) : longer[i] # mails[k + 1]
          BY <3>3, <3>5 DEF ToSet
        <4>2. \A i \in 1 .. Len(kept) + 1 : i \in 1 .. Len(kept) \/ i = Len(kept) + 1
          BY <3>3
        <4> QED
          BY <2>2, <3>3, <4>1, <4>2 DEF Distinct
      <3>7. {mails[i] : i \in 1 .. k + 1 \ deleted} =
            {mails[i] : i \in 1 .. k \ deleted} \cup {mails[k + 1]}
        BY <2>4, <2>5, <2>7
      <3> QED
        BY <2>2, <3>1, <3>3, <3>4, <3>6, <3>7
    <2> QED
      BY <2>6, <2>7
  <1> HIDE DEF S
  <1>8. n \in S
    BY <1>1, <1>6, <1>7, SetInduction
  <1>9. Right(n)
    BY <1>1, <1>8 DEF S
  <1> QED
    BY <1>1, <1>4, <1>9

(* What is kept of the mailbox and of each POP3 session: what it has listed is    *)
(* the beginning of the mailbox, and what a QUIT is about to store is what was   *)
(* not marked, unless the mailbox has been replaced since.                       *)
MailList(s) == s \in Seq(1 .. mailsSent) /\ Distinct(s)

Meant(c) == {popListed[c][i] : i \in popDeleted[c]}

OpenHolds(c) ==
    /\ popDeleted[c] \subseteq DOMAIN popListed[c]
    /\ ~ popCrossed[c] =>
          /\ DOMAIN popListed[c] \subseteq DOMAIN mailbox
          /\ \A i \in DOMAIN popListed[c] : popListed[c][i] = mailbox[i]

QuittingHolds(c) ==
    /\ MailList(popKept[c])
    /\ ~ popCrossed[c] => ToSet(popKept[c]) = ToSet(mailbox) \ Meant(c)

LabIInv ==
    /\ mailsSent \in Nat
    /\ DOMAIN popState = Pop /\ DOMAIN popListed = Pop
    /\ DOMAIN popDeleted = Pop /\ DOMAIN popKept = Pop
    /\ popCrossed \in [Pop -> BOOLEAN]
    /\ MailList(mailbox)
    /\ \A c \in Pop : popState[c] = "open" => OpenHolds(c)
    /\ \A c \in Pop : popState[c] = "quitting" => QuittingHolds(c)

MarkedVanish ==
    LET before == ToSet(mailbox)
        after == ToSet(mailbox')
        meant(c) == {popListed[c][i] : i \in popDeleted[c]}
        storing == {c \in Pop : popState[c] = "quitting" /\ popState'[c] = "closed"}
    IN  IF storing = {} THEN before \subseteq after
        ELSE \A c \in storing : popCrossed[c] \/ after = before \ meant(c)

LEMMA LabBegins == LabMailInit => LabIInv
  <1> SUFFICES ASSUME LabMailInit PROVE LabIInv
    OBVIOUS
  <1>1. \A c \in Pop : popState[c] = "closed"
    BY DEF LabMailInit
  <1>2. MailList(mailbox)
    BY DEF LabMailInit, MailList, Distinct
  <1> QED
    BY <1>1, <1>2 DEF LabMailInit, LabIInv

(* A mail that arrives is at a place that nobody has listed.                     *)
LEMMA DeliverKeeps == LabIInv /\ Deliver => LabIInv' /\ MarkedVanish
  <1> SUFFICES ASSUME LabIInv, Deliver PROVE LabIInv' /\ MarkedVanish
    OBVIOUS
  <1> DEFINE n == mailsSent + 1
             longer == Append(mailbox, n)
  <1>1. mailsSent \in Nat /\ mailsSent' = n /\ mailbox' = longer
    BY DEF LabIInv, Deliver
  <1>2. /\ mailbox \in Seq(1 .. mailsSent) /\ Distinct(mailbox)
        /\ Len(mailbox) \in Nat /\ DOMAIN mailbox = 1 .. Len(mailbox)
    BY DEF LabIInv, MailList
  <1>3. \A i \in DOMAIN mailbox : mailbox[i] \in 1 .. mailsSent
    BY <1>2, ElementsOfSeq
  <1>4. /\ longer \in Seq(1 .. n) /\ DOMAIN longer = 1 .. Len(mailbox) + 1
        /\ \A i \in DOMAIN mailbox : i \in DOMAIN longer /\ longer[i] = mailbox[i]
        /\ longer[Len(mailbox) + 1] = n
    <2>1. mailbox \in Seq(1 .. n) /\ n \in 1 .. n
      <3>1. 1 .. mailsSent \subseteq 1 .. n
        BY <1>1
      <3> QED
        BY <1>1, <1>2, <3>1, SeqGrows
    <2> QED
      BY <1>2, <2>1
  <1> HIDE DEF longer
  <1>5. Distinct(longer)
    <2>1. \A i \in DOMAIN longer : i \in DOMAIN mailbox \/ i = Len(mailbox) + 1
      BY <1>2, <1>4
    <2>2. \A i \in DOMAIN mailbox : longer[i] # n
      BY <1>1, <1>3, <1>4
    <2> QED
      BY <1>2, <1>4, <2>1, <2>2 DEF Distinct
  <1>6. MailList(mailbox)'
    BY <1>1, <1>4, <1>5 DEF MailList
  <1>7. \A c \in Pop : popCrossed'[c] = (popCrossed[c] \/ popState[c] = "quitting")
    BY DEF Deliver
  <1>8. UNCHANGED <<popState, popListed, popDeleted, popKept>>
    BY DEF Deliver
  <1>9. ASSUME NEW c \in Pop, popState[c] = "open" PROVE OpenHolds(c)'
    <2>1. OpenHolds(c)
      BY <1>9 DEF LabIInv
    <2>2. popCrossed'[c] <=> popCrossed[c]
      BY <1>7, <1>9
    <2> QED
      BY <1>1, <1>4, <1>8, <2>1, <2>2 DEF OpenHolds
  <1>10. ASSUME NEW c \in Pop, popState[c] = "quitting" PROVE QuittingHolds(c)'
    <2>1. MailList(popKept[c]) /\ popCrossed'[c]
      BY <1>7, <1>10 DEF LabIInv, QuittingHolds
    <2>2. popKept[c] \in Seq(1 .. n)
      <3>1. popKept[c] \in Seq(1 .. mailsSent) /\ 1 .. mailsSent \subseteq 1 .. n
        BY <1>1, <2>1 DEF MailList
      <3> QED
        BY <3>1, SeqGrows
    <2> QED
      BY <1>1, <1>8, <2>1, <2>2 DEF QuittingHolds, MailList
  <1>11. ToSet(mailbox) \subseteq ToSet(mailbox')
    BY <1>1, <1>4 DEF ToSet
  <1> QED
    <2>1. popCrossed' \in [Pop -> BOOLEAN]
      BY DEF LabIInv, Deliver
    <2>2. LabIInv'
      BY <1>1, <1>6, <1>8, <1>9, <1>10, <2>1 DEF LabIInv
    <2>3. MarkedVanish
      BY <1>8, <1>11 DEF MarkedVanish
    <2> QED
      BY <2>2, <2>3

(* The sessions other than c, in a step that leaves them and the mailbox alone.  *)
OthersStay(c) ==
    /\ UNCHANGED <<mailbox, mailsSent>>
    /\ \A d \in Pop \ {c} :
          /\ popState'[d] = popState[d] /\ popListed'[d] = popListed[d]
          /\ popDeleted'[d] = popDeleted[d] /\ popKept'[d] = popKept[d]
          /\ popCrossed'[d] = popCrossed[d]
    /\ DOMAIN popState' = Pop /\ DOMAIN popListed' = Pop
    /\ DOMAIN popDeleted' = Pop /\ DOMAIN popKept' = Pop
    /\ popCrossed' \in [Pop -> BOOLEAN]

LEMMA SessionKeeps ==
    ASSUME LabIInv, NEW c \in Pop, OthersStay(c),
           popState'[c] = "open" => OpenHolds(c)',
           popState'[c] = "quitting" => QuittingHolds(c)',
           popState[c] = "quitting" => popState'[c] # "closed"
    PROVE  LabIInv' /\ MarkedVanish
  <1>1. ASSUME NEW d \in Pop, popState'[d] = "open" PROVE OpenHolds(d)'
    <2>1. CASE d # c
      <3>1. OpenHolds(d)
        BY <1>1, <2>1 DEF LabIInv, OthersStay
      <3> QED
        BY <2>1, <3>1 DEF OpenHolds, OthersStay
    <2> QED
      BY <1>1, <2>1
  <1>2. ASSUME NEW d \in Pop, popState'[d] = "quitting" PROVE QuittingHolds(d)'
    <2>1. CASE d # c
      <3>1. QuittingHolds(d)
        BY <1>2, <2>1 DEF LabIInv, OthersStay
      <3> QED
        BY <2>1, <3>1 DEF QuittingHolds, OthersStay, MailList, Meant
    <2> QED
      BY <1>2, <2>1
  <1>3. MailList(mailbox)'
    BY DEF LabIInv, OthersStay, MailList
  <1>4. LabIInv'
    BY <1>1, <1>2, <1>3 DEF LabIInv, OthersStay
  <1>5. \A d \in Pop : ~ (popState[d] = "quitting" /\ popState'[d] = "closed")
    BY DEF OthersStay
  <1>6. MarkedVanish
    BY <1>5 DEF MarkedVanish, OthersStay
  <1> QED
    BY <1>4, <1>6

LEMMA QuitBuildsKeeps ==
    ASSUME LabIInv, NEW c \in Pop, QuitBuilds(c)
    PROVE  LabIInv' /\ MarkedVanish
  <1> DEFINE D == popDeleted[c]
  <1>1. popKept' = [popKept EXCEPT ![c] = Kept(mailbox, D)]
    BY Zenon DEF QuitBuilds, Stays, Kept
  <1>2. /\ popState' = [popState EXCEPT ![c] = "quitting"]
        /\ UNCHANGED <<mailbox, mailsSent, popListed, popDeleted, popCrossed>>
        /\ popState[c] = "open"
    BY DEF QuitBuilds
  <1>3. OthersStay(c)
    BY <1>1, <1>2 DEF LabIInv, OthersStay
  <1>4. popState'[c] = "quitting" /\ popKept'[c] = Kept(mailbox, D)
    BY <1>1, <1>2 DEF LabIInv
  <1>5. OpenHolds(c) /\ MailList(mailbox)
    BY <1>2 DEF LabIInv
  <1>6. /\ Kept(mailbox, D) \in Seq(1 .. mailsSent) /\ Distinct(Kept(mailbox, D))
        /\ ToSet(Kept(mailbox, D)) = {mailbox[i] : i \in DOMAIN mailbox \ D}
    BY <1>5, KeptParts DEF MailList
  <1>7. ~ popCrossed[c] => {mailbox[i] : i \in DOMAIN mailbox \ D} = ToSet(mailbox) \ Meant(c)
    <2> SUFFICES ASSUME ~ popCrossed[c]
                 PROVE  {mailbox[i] : i \in DOMAIN mailbox \ D} = ToSet(mailbox) \ Meant(c)
      OBVIOUS
    <2>1. /\ D \subseteq DOMAIN mailbox
          /\ \A i \in D : popListed[c][i] = mailbox[i]
      BY <1>5 DEF OpenHolds
    <2>2. Meant(c) = {mailbox[i] : i \in D}
      BY <2>1 DEF Meant
    <2>3. \A i, j \in DOMAIN mailbox : mailbox[i] = mailbox[j] => i = j
      BY <1>5 DEF MailList, Distinct
    <2> QED
      BY <2>1, <2>2, <2>3 DEF ToSet
  <1>8. QuittingHolds(c)'
    BY <1>2, <1>4, <1>6, <1>7 DEF QuittingHolds, MailList, Meant
  <1> QED
    BY <1>2, <1>3, <1>4, <1>8, SessionKeeps

LEMMA QuitStoresKeeps ==
    ASSUME LabIInv, NEW c \in Pop, QuitStores(c)
    PROVE  LabIInv' /\ MarkedVanish
  <1>1. /\ popState[c] = "quitting" /\ mailbox' = popKept[c]
        /\ popState' = [popState EXCEPT ![c] = "closed"]
        /\ \A d \in Pop : popCrossed'[d] = (popCrossed[d] \/ popState[d] # "closed")
        /\ popCrossed' \in [Pop -> BOOLEAN]
        /\ UNCHANGED <<mailsSent, popListed, popDeleted, popKept>>
    BY DEF QuitStores, LabIInv
  <1>2. popState'[c] = "closed" /\ \A d \in Pop \ {c} : popState'[d] = popState[d]
    BY <1>1 DEF LabIInv
  <1>3. QuittingHolds(c)
    BY <1>1 DEF LabIInv
  <1>4. MailList(mailbox)'
    BY <1>1, <1>3 DEF QuittingHolds, MailList
  <1>5. ASSUME NEW d \in Pop, popState'[d] = "open" PROVE OpenHolds(d)'
    <2>1. popState[d] = "open" /\ popCrossed'[d]
      BY <1>1, <1>2, <1>5
    <2>2. OpenHolds(d)
      BY <2>1 DEF LabIInv
    <2> QED
      BY <1>1, <2>1, <2>2 DEF OpenHolds
  <1>6. ASSUME NEW d \in Pop, popState'[d] = "quitting" PROVE QuittingHolds(d)'
    <2>1. popState[d] = "quitting" /\ popCrossed'[d]
      BY <1>1, <1>2, <1>6
    <2>2. QuittingHolds(d)
      BY <2>1 DEF LabIInv
    <2> QED
      BY <1>1, <2>1, <2>2 DEF QuittingHolds, MailList
  <1>7. LabIInv'
    BY <1>1, <1>4, <1>5, <1>6 DEF LabIInv
  <1>8. \A d \in Pop : popState[d] = "quitting" /\ popState'[d] = "closed" => d = c
    BY <1>2
  <1>9. popCrossed[c] \/ ToSet(mailbox') = ToSet(mailbox) \ Meant(c)
    BY <1>1, <1>3 DEF QuittingHolds
  <1>10. MarkedVanish
    BY <1>1, <1>2, <1>8, <1>9 DEF MarkedVanish, Meant
  <1> QED
    BY <1>7, <1>10

LEMMA LabKeeps == LabIInv /\ LabMailNext => LabIInv' /\ MarkedVanish
  <1> SUFFICES ASSUME LabIInv, LabMailNext PROVE LabIInv' /\ MarkedVanish
    OBVIOUS
  <1>1. CASE Deliver
    BY <1>1, DeliverKeeps
  <1>2. ASSUME NEW c \in Pop, OpenAndList(c) PROVE LabIInv' /\ MarkedVanish
    <2>1. OthersStay(c)
      BY <1>2 DEF OpenAndList, OthersStay, LabIInv
    <2>2. /\ popState[c] = "closed" /\ popState'[c] = "open"
          /\ popListed'[c] = mailbox /\ popDeleted'[c] = {} /\ mailbox' = mailbox
      BY <1>2 DEF OpenAndList, LabIInv
    <2>3. OpenHolds(c)'
      BY <2>2 DEF OpenHolds
    <2> QED
      BY <2>1, <2>2, <2>3, SessionKeeps
  <1>3. ASSUME NEW c \in Pop, NEW i \in DOMAIN popListed[c], Dele(c, i)
        PROVE  LabIInv' /\ MarkedVanish
    <2>1. OthersStay(c)
      BY <1>3 DEF Dele, OthersStay, LabIInv
    <2>2. /\ popState[c] = "open" /\ popState'[c] = "open"
          /\ popDeleted'[c] = popDeleted[c] \cup {i}
          /\ UNCHANGED <<mailbox, popListed, popCrossed>>
      BY <1>3 DEF Dele, LabIInv
    <2>3. OpenHolds(c)
      BY <2>2 DEF LabIInv
    <2>4. OpenHolds(c)'
      BY <2>2, <2>3 DEF OpenHolds
    <2> QED
      BY <2>1, <2>2, <2>4, SessionKeeps
  <1>4. ASSUME NEW c \in Pop, QuitBuilds(c) PROVE LabIInv' /\ MarkedVanish
    BY <1>4, QuitBuildsKeeps
  <1>5. ASSUME NEW c \in Pop, QuitStores(c) PROVE LabIInv' /\ MarkedVanish
    BY <1>5, QuitStoresKeeps
  <1>6. ASSUME NEW c \in Pop, Drop(c) PROVE LabIInv' /\ MarkedVanish
    <2>1. OthersStay(c)
      BY <1>6 DEF Drop, OthersStay, LabIInv
    <2>2. popState[c] = "open" /\ popState'[c] = "closed"
      BY <1>6 DEF Drop, LabIInv
    <2> QED
      BY <2>1, <2>2, SessionKeeps
  <1> QED
    BY <1>1, <1>2, <1>3, <1>4, <1>5, <1>6 DEF LabMailNext

(* Mails leave the mailbox only at a QUIT, and what leaves is what the client    *)
(* meant, unless its session was crossed: for any number of POP3 connections and *)
(* of mails (lab8_services.py:558-568).                                         *)
THEOREM OnlyMarkedEverVanish == LabMailSpec => OnlyMarkedVanish
  <1>1. LabIInv /\ [LabMailNext]_labVars => LabIInv'
    <2>1. LabIInv /\ UNCHANGED labVars => LabIInv'
      BY DEF labVars, LabIInv, OpenHolds, QuittingHolds, MailList, Meant
    <2> QED
      BY <2>1, LabKeeps
  <1>2. LabIInv /\ [LabMailNext]_labVars => [MarkedVanish]_labVars
    BY LabKeeps
  <1>3. [MarkedVanish]_labVars =>
        [LET before == ToSet(mailbox)
             after == ToSet(mailbox')
             meant(c) == {popListed[c][i] : i \in popDeleted[c]}
             storing == {c \in Pop : popState[c] = "quitting" /\ popState'[c] = "closed"}
         IN  IF storing = {} THEN before \subseteq after
             ELSE \A c \in storing : popCrossed[c] \/ after = before \ meant(c)]_labVars
    BY DEF MarkedVanish
  <1> QED
    BY <1>1, <1>2, <1>3, LabBegins, PTL DEF LabMailSpec, OnlyMarkedVanish

-------------------------------------------------------------------------------
(* Logins in a capture.  A client has two messages on their way at most, the last *)
(* two it has sent; a connection in which nothing odd has happened is somewhere   *)
(* between the first unit of the older and the last unit of the reply to the      *)
(* younger: `captured` units of the messages have been captured, `answered`       *)
(* messages were answered and `read` units of the replies captured.               *)
Sent == [from : {"client"}, id : Nat, type : {"other", "user", "pass", "post"},
         user : User \cup {Nobody}]

Verdict == {"SUCCEED", "FAILED", "none"}

Flow == [older : Sent, younger : Sent, user : User \cup {Nobody},
         first : Verdict, second : Verdict,
         captured : 0 .. 4, answered : 0 .. 2, read : 0 .. 4]

\* Only what a client of the program at hand sends.
Sendable(m) ==
    /\ m.user \in User <=> m.type \in {"user", "post"}
    /\ m.type = "post" => snifferTool = "http"
    /\ m.type \in {"user", "pass"} => snifferTool = "ftp"

FlowOK(f) ==
    /\ Sendable(f.older) /\ Sendable(f.younger)
    /\ f.read <= 2 * f.answered /\ 2 * f.answered <= f.captured
    /\ f.answered >= 1 => (Login(f.older) <=> f.first # "none")
    /\ f.answered >= 2 => (Login(f.younger) <=> f.second # "none")

\* The units of two messages one after the other.
Line(m, n) == <<[of |-> m, part |-> 1], [of |-> m, part |-> 2],
                [of |-> n, part |-> 1], [of |-> n, part |-> 2]>>

Reply(m, verdict) == [from |-> "server", id |-> m.id, type |-> verdict, user |-> Nobody]

Asked(f) == Line(f.older, f.younger)
Replied(f) == Line(Reply(f.older, f.first), Reply(f.younger, f.second))

\* Whom the server, or a session that has seen as much, takes the client for after
\* n units.
After(u, m) == IF m.user = Nobody THEN u ELSE m.user
UserAt(f, n) == IF n >= 4 THEN After(After(f.user, f.older), f.younger)
                ELSE IF n >= 2 THEN After(f.user, f.older) ELSE f.user

\* One unit of a message that is not complete.
Begun(line, n) == IF n \in {1, 3} THEN <<line[n]>> ELSE <<>>

Attempt(f, i) == IF i = 1 THEN [id |-> f.older.id, user |-> UserAt(f, 2)]
                 ELSE [id |-> f.younger.id, user |-> UserAt(f, 4)]

\* Logins that were captured and whose verdict was not.
Unjudged(f) ==
    (IF Login(f.older) /\ f.captured >= 2 /\ f.read < 2 THEN <<Attempt(f, 1)>> ELSE <<>>)
    \o (IF Login(f.younger) /\ f.captured >= 4 /\ f.read < 4 THEN <<Attempt(f, 2)>> ELSE <<>>)

SessionOf(f) ==
    [user |-> IF snifferTool = "ftp" THEN UserAt(f, f.captured) ELSE Nobody,
     client |-> Begun(Asked(f), f.captured), server |-> Begun(Replied(f), f.read),
     pending |-> Unjudged(f)]

Row(c, f, i) == [conn |-> c, id |-> Attempt(f, i).id, user |-> Attempt(f, i).user,
                 result |-> IF i = 1 THEN f.first ELSE f.second]

\* Verdicts that were given and whose rows are not written.
Unwritten(c, f) ==
    (IF Login(f.older) /\ f.answered >= 1 /\ f.read < 2 THEN {Row(c, f, 1)} ELSE {})
    \cup (IF Login(f.younger) /\ f.answered >= 2 /\ f.read < 4 THEN {Row(c, f, 2)} ELSE {})

OfConn(c, R) == {r \in R : r.conn = c}

Follows(c, f) ==
    /\ wire[c] = [client |-> [i \in 1 .. 4 - f.captured |-> Asked(f)[f.captured + i]],
                  server |-> [i \in 1 .. 2 * f.answered - f.read |->
                                 Replied(f)[f.read + i]]]
    /\ owed[c] = CASE f.answered = 0 -> <<f.older, f.younger>>
                   [] f.answered = 1 -> <<f.younger>>
                   [] OTHER -> <<>>
    /\ lastUser[c] = UserAt(f, 2 * f.answered)
    /\ session[c] = SessionOf(f)
    /\ OfConn(c, judged) = OfConn(c, rows) \cup Unwritten(c, f)

InFlow(c) == \E f \in Flow : FlowOK(f) /\ Follows(c, f)

Captured(f, n) == [f EXCEPT !.captured = n]
Read(f, n) == [f EXCEPT !.read = n]

SnifferShapes ==
    /\ snifferTool \in {"ftp", "http"}
    /\ sentCount \in [Conn -> Nat]
    /\ wire = [c \in Conn |-> wire[c]] /\ owed = [c \in Conn |-> owed[c]]
    /\ lastUser = [c \in Conn |-> lastUser[c]] /\ session = [c \in Conn |-> session[c]]

SnifferIInv == SnifferShapes /\ \A c \in Conn \ odd : InFlow(c)

\* What is late belongs to a connection that is odd.
LateShapes ==
    \A s \in late : /\ s.conn \in Conn /\ s.conn \in odd
                    /\ \E n \in Nat : DOMAIN s.units = 1 .. n

\* When an exception has ended the program, what is written is true still.
WrittenIsDecided == \A c \in Conn \ odd : OfConn(c, rows) \subseteq OfConn(c, judged)

SnifferWhole ==
    /\ LateShapes
    /\ IF stopped THEN odd # {} /\ WrittenIsDecided ELSE SnifferIInv

(* The callback, with the fold it goes through the units with written out.       *)
AbsorbStep(c, units, iter, s) ==
    IF s = {} THEN [session |-> session[c], rows |-> rows]
    ELSE Absorb(c, iter[s \ {Max(s)}], units[Max(s)])

Absorbs(c, units, iter, n) ==
    iter = [s \in SUBSET (1 .. n) |-> AbsorbStep(c, units, iter, s)]

LEMMA AbsorbsExists ==
    ASSUME NEW c, NEW units, NEW n \in Nat
    PROVE  \E iter : Absorbs(c, units, iter, n)
  <1> DEFINE S == {m \in Nat : \E iter : Absorbs(c, units, iter, m)}
  <1>1. 0 \in S
    <2> DEFINE iter == [s \in SUBSET (1 .. 0) |-> [session |-> session[c], rows |-> rows]]
    <2>1. \A s \in SUBSET (1 .. 0) : s = {}
      OBVIOUS
    <2>2. \A s \in SUBSET (1 .. 0) :
             AbsorbStep(c, units, iter, s) = [session |-> session[c], rows |-> rows]
      BY <2>1, Zenon DEF AbsorbStep
    <2>3. Absorbs(c, units, iter, 0)
      BY <2>2, Zenon DEF Absorbs
    <2> QED
      BY <2>3
  <1>2. ASSUME NEW m \in Nat, m \in S PROVE m + 1 \in S
    <2>1. PICK old : Absorbs(c, units, old, m)
      BY <1>2
    <2> DEFINE step(f, s) == AbsorbStep(c, units, f, s)
               new == [s \in SUBSET (1 .. m + 1) |->
                          IF s \in SUBSET (1 .. m) THEN old[s] ELSE step(old, s)]
    <2>2. \A s \in SUBSET (1 .. m) :
             s \in SUBSET (1 .. m + 1) /\ s \ {Max(s)} \in SUBSET (1 .. m)
      <3>1. 1 .. m \subseteq 1 .. m + 1
        OBVIOUS
      <3> QED
        BY <3>1, Zenon
    <2>3. \A s \in SUBSET (1 .. m + 1) :
             s \notin SUBSET (1 .. m) => s \ {Max(s)} \in SUBSET (1 .. m)
      <3> SUFFICES ASSUME NEW s \in SUBSET (1 .. m + 1), s \notin SUBSET (1 .. m)
                   PROVE  s \ {Max(s)} \in SUBSET (1 .. m)
        OBVIOUS
      <3>1. \A i \in 1 .. m + 1 : i \in 1 .. m \/ i = m + 1
        OBVIOUS
      <3>2. m + 1 \in s
        BY <3>1
      <3>3. Max(s) = m + 1
        BY <3>2, TopIsMax
      <3> QED
        BY <3>1, <3>3
    <2> HIDE DEF step
    <2>4. \A s \in SUBSET (1 .. m) : new[s] = old[s]
      BY <2>2, Zenon
    <2>5. \A s \in SUBSET (1 .. m + 1) : s \notin SUBSET (1 .. m) => new[s] = step(old, s)
      BY Zenon
    <2>6. new = [s \in SUBSET (1 .. m + 1) |-> new[s]]
      OBVIOUS
    <2>7. \A s \in SUBSET (1 .. m) : old[s] = step(old, s)
      BY <2>1, Zenon DEF Absorbs, step
    <2> HIDE DEF new
    <2>8. \A s \in SUBSET (1 .. m + 1) : new[s \ {Max(s)}] = old[s \ {Max(s)}]
      BY <2>2, <2>3, <2>4, Zenon
    <2>9. \A s \in SUBSET (1 .. m + 1) : step(new, s) = step(old, s)
      <3> SUFFICES ASSUME NEW s \in SUBSET (1 .. m + 1)
                   PROVE  step(new, s) = step(old, s)
        OBVIOUS
      <3>1. new[s \ {Max(s)}] = old[s \ {Max(s)}]
        BY <2>8
      <3> QED
        BY <3>1 DEF step, AbsorbStep
    <2>10. \A s \in SUBSET (1 .. m + 1) : new[s] = step(new, s)
      BY <2>4, <2>5, <2>7, <2>9, Zenon
    <2>11. new = [s \in SUBSET (1 .. m + 1) |-> step(new, s)]
      BY <2>6, <2>10, Zenon
    <2>12. Absorbs(c, units, new, m + 1)
      BY <2>11 DEF Absorbs, step
    <2> QED
      BY <2>12
  <1> HIDE DEF S
  <1>3. n \in S
    BY <1>1, <1>2, SetInduction
  <1> QED
    BY <1>3 DEF S

(* What the callback has done after k units is g[k].                            *)
Unrolled(c, units, n, g) ==
    /\ g[0] = [session |-> session[c], rows |-> rows]
    /\ \A k \in 0 .. n - 1 : g[k + 1] = Absorb(c, g[k], units[k + 1])
    /\ Absorbed(c, units) = g[n]

LEMMA AbsorbedIs ==
    ASSUME NEW c, NEW n \in Nat, NEW units, DOMAIN units = 1 .. n
    PROVE  \E g : Unrolled(c, units, n, g)
  <1> DEFINE iter == CHOOSE iter : Absorbs(c, units, iter, n)
  <1>1. Absorbs(c, units, iter, n)
    BY AbsorbsExists
  <1>2. Absorbed(c, units) = iter[1 .. n]
    BY Zenon DEF Absorbed, FoldLeft, MapThenFoldSet, Absorbs, AbsorbStep
  <1> HIDE DEF iter
  <1> DEFINE g == [k \in 0 .. n |-> iter[1 .. k]]
  <1>3. \A s \in SUBSET (1 .. n) : iter[s] = AbsorbStep(c, units, iter, s)
    BY <1>1, Zenon DEF Absorbs
  <1>4. g[0] = [session |-> session[c], rows |-> rows]
    <2>1. 1 .. 0 = {} /\ 0 \in 0 .. n
      OBVIOUS
    <2>2. iter[{}] = [session |-> session[c], rows |-> rows]
      BY <1>3, Zenon DEF AbsorbStep
    <2> QED
      BY <2>1, <2>2
  <1>5. ASSUME NEW k \in 0 .. n - 1
        PROVE  g[k + 1] = Absorb(c, g[k], units[k + 1])
    <2>1. /\ 1 .. k + 1 \in SUBSET (1 .. n) /\ 1 .. k + 1 # {}
          /\ (1 .. k + 1) \ {k + 1} = 1 .. k
      <3>1. \A i \in 1 .. k + 1 : i \in 1 .. n
        OBVIOUS
      <3>2. \A i : i \in 1 .. k <=> i \in 1 .. k + 1 /\ i # k + 1
        OBVIOUS
      <3>3. k + 1 \in 1 .. k + 1
        OBVIOUS
      <3> QED
        BY <3>1, <3>2, <3>3, Zenon
    <2>2. Max(1 .. k + 1) = k + 1
      BY TopIsMax
    <2>3. iter[1 .. k + 1] = AbsorbStep(c, units, iter, 1 .. k + 1)
      BY <1>3, <2>1, Zenon
    <2>4. AbsorbStep(c, units, iter, 1 .. k + 1) =
              Absorb(c, iter[(1 .. k + 1) \ {k + 1}], units[k + 1])
      BY <2>1, <2>2, Zenon DEF AbsorbStep
    <2>5. g[k + 1] = iter[1 .. k + 1] /\ g[k] = iter[1 .. k]
      OBVIOUS
    <2> QED
      BY <2>1, <2>3, <2>4, <2>5, Zenon
  <1>6. Absorbed(c, units) = g[n]
    BY <1>2
  <1> QED
    BY <1>4, <1>5, <1>6, Zenon DEF Unrolled

(* A session after the first and after the last unit of what a client or a server  *)
(* has sent, when nothing odd has happened before.                               *)
S4(u, cl, sv, p) == [user |-> u, client |-> cl, server |-> sv, pending |-> p]

First(m) == [of |-> m, part |-> 1]
Second(m) == [of |-> m, part |-> 2]

LEMMA ClientHalf ==
    ASSUME NEW c, NEW m, m.from = "client", NEW u, NEW p, NEW R, NEW sv
    PROVE  Absorb(c, [session |-> S4(u, <<>>, sv, p), rows |-> R], First(m)) =
               [session |-> S4(u, <<First(m)>>, sv, p), rows |-> R]
  <1> DEFINE unit == First(m)
  <1>1. unit.of = m /\ unit.part # Parts /\ Append(<<>>, unit) = <<unit>>
    BY DEF Parts, First
  <1>2. S4(u, <<>>, sv, p)["client"] = <<>>
    BY DEF S4
  <1>3. [S4(u, <<>>, sv, p) EXCEPT !["client"] = <<unit>>] = S4(u, <<unit>>, sv, p)
    BY DEF S4
  <1> HIDE DEF unit
  <1>4. Absorb(c, [session |-> S4(u, <<>>, sv, p), rows |-> R], unit) =
            [session |-> S4(u, <<unit>>, sv, p), rows |-> R]
    BY <1>1, <1>2, <1>3 DEF Absorb, BufferOf
  <1> QED
    BY <1>4 DEF unit

LEMMA ServerHalf ==
    ASSUME NEW c, NEW m, m.from = "server", NEW u, NEW p, NEW R, NEW cl
    PROVE  Absorb(c, [session |-> S4(u, cl, <<>>, p), rows |-> R], First(m)) =
               [session |-> S4(u, cl, <<First(m)>>, p), rows |-> R]
  <1> DEFINE unit == First(m)
  <1>1. unit.of = m /\ unit.part # Parts /\ Append(<<>>, unit) = <<unit>>
    BY DEF Parts, First
  <1>2. S4(u, cl, <<>>, p)["server"] = <<>>
    BY DEF S4
  <1>3. [S4(u, cl, <<>>, p) EXCEPT !["server"] = <<unit>>] = S4(u, cl, <<unit>>, p)
    BY DEF S4
  <1> HIDE DEF unit
  <1>4. Absorb(c, [session |-> S4(u, cl, <<>>, p), rows |-> R], unit) =
            [session |-> S4(u, cl, <<unit>>, p), rows |-> R]
    BY <1>1, <1>2, <1>3 DEF Absorb, BufferOf
  <1> QED
    BY <1>4 DEF unit

LEMMA PairIs ==
    ASSUME NEW one, NEW two
    PROVE  Append(<<one>>, two) = <<one, two>>
  <1>1. <<one>> \in Seq({one, two}) /\ Len(<<one>>) = 1 /\ <<one>>[1] = one
    OBVIOUS
  <1>2. /\ Append(<<one>>, two) \in Seq({one, two})
        /\ Len(Append(<<one>>, two)) = 2
        /\ Append(<<one>>, two)[1] = one /\ Append(<<one>>, two)[2] = two
    BY <1>1
  <1> DEFINE t == Append(<<one>>, two)
  <1> HIDE DEF t
  <1>3. t = [i \in 1 .. 2 |-> t[i]]
    BY <1>2 DEF t
  <1>4. \A i \in 1 .. 2 : t[i] = IF i = 1 THEN one ELSE two
    BY <1>2 DEF t
  <1>5. <<one, two>> = [i \in 1 .. 2 |-> IF i = 1 THEN one ELSE two]
    OBVIOUS
  <1>6. t = <<one, two>>
    BY <1>3, <1>4, <1>5
  <1> QED
    BY <1>6 DEF t

LEMMA WholeLine ==
    ASSUME NEW m
    PROVE  LET line == Append(<<First(m)>>, Second(m))
           IN  line = Units(m) /\ Last(line) = Second(m)
  <1> DEFINE one == First(m)
             two == Second(m)
  <1>1. Append(<<one>>, two) = <<one, two>>
    <2> HIDE DEF one, two
    <2> QED
      BY PairIs
  <1>2. Units(m) = <<one, two>>
    <2>1. 1 .. 2 = {1, 2}
      OBVIOUS
    <2>2. Units(m) = [i \in 1 .. 2 |-> IF i = 1 THEN one ELSE two]
      BY <2>1 DEF Units, Parts, First, Second
    <2> HIDE DEF one, two
    <2>3. <<one, two>> = [i \in 1 .. 2 |-> IF i = 1 THEN one ELSE two]
      OBVIOUS
    <2> QED
      BY <2>2, <2>3
  <1> HIDE DEF one, two
  <1>3. Last(<<one, two>>) = two
    BY DEF Last
  <1> QED
    BY <1>1, <1>2, <1>3 DEF one, two

LEMMA ClientAbsorbed ==
    ASSUME NEW c, NEW m \in Sent, NEW u, NEW p, NEW R, NEW sv
    PROVE  Absorb(c, [session |-> S4(u, <<First(m)>>, sv, p), rows |-> R],
                  Second(m)) =
               [session |-> S4(IF m.type = "user" THEN m.user ELSE u, <<>>, sv,
                               IF Login(m)
                               THEN Append(p, [id |-> m.id, user |-> IF m.type = "post"
                                                                     THEN m.user ELSE u])
                               ELSE p),
                rows |-> R]
  <1> DEFINE one == First(m)
             two == Second(m)
             s == S4(u, <<one>>, sv, p)
             kept == S4(u, <<>>, sv, p)
             line == Append(<<one>>, two)
             attempt == [id |-> m.id, user |-> IF m.type = "post" THEN m.user ELSE u]
  <1>1. two.of = m /\ two.part = Parts
    BY DEF Parts, First, Second
  <1>2. m.from = "client" /\ m.type \in {"other", "user", "pass", "post"}
    BY DEF Sent
  <1>3. line = Units(m) /\ Last(line) = two
    BY WholeLine
  <1>4. Understood(line)
    BY <1>1, <1>3 DEF Understood
  <1>5. s["client"] = <<one>> /\ [s EXCEPT !["client"] = <<>>] = kept /\ s.user = u
    BY DEF S4
  <1>6. /\ [kept EXCEPT !.user = m.user] = S4(m.user, <<>>, sv, p)
        /\ \A x : [kept EXCEPT !.pending = Append(kept.pending, x)] =
                      S4(u, <<>>, sv, Append(p, x))
    BY DEF S4
  <1> HIDE DEF one, two, s, kept, line
  <1> DEFINE state == [session |-> s, rows |-> R]
  <1>7. CASE m.type = "user"
    <2>1. ~ Login(m) /\ m.type \notin {"SUCCEED", "FAILED"}
      BY <1>7 DEF Login
    <2>2. state.session = s /\ state.rows = R
      OBVIOUS
    <2>3. \A x : [state EXCEPT !.session = x] = [session |-> x, rows |-> R]
      OBVIOUS
    <2> HIDE DEF state
    <2>4. Absorb(c, state, two) = [state EXCEPT !.session = [kept EXCEPT !.user = m.user]]
      BY <1>1, <1>2, <1>4, <1>5, <1>7, <2>1, <2>2 DEF Absorb, BufferOf, line
    <2>5. Absorb(c, state, two) = [session |-> [kept EXCEPT !.user = m.user], rows |-> R]
      BY <2>3, <2>4
    <2> QED
      BY <1>6, <1>7, <2>1, <2>5 DEF one, two, s, state
  <1>8. CASE Login(m)
    <2>1. m.type # "user"
      BY <1>8 DEF Login
    <2>2. Absorb(c, state, two) =
              [session |-> [kept EXCEPT !.pending = Append(kept.pending, attempt)],
               rows |-> R]
      BY <1>1, <1>2, <1>4, <1>5, <1>8, <2>1 DEF Absorb, BufferOf, line
    <2> QED
      BY <1>6, <1>8, <2>1, <2>2 DEF one, two, s
  <1>9. CASE m.type = "other"
    <2>1. ~ Login(m)
      BY <1>9 DEF Login
    <2>2. Absorb(c, state, two) = [session |-> kept, rows |-> R]
      BY <1>1, <1>2, <1>4, <1>5, <1>9, <2>1 DEF Absorb, BufferOf, line
    <2> QED
      BY <1>9, <2>1, <2>2 DEF one, two, s, kept
  <1> QED
    BY <1>2, <1>7, <1>8, <1>9 DEF Login

LEMMA VerdictAbsorbed ==
    ASSUME NEW c, NEW m, m.from = "server", m.type \in Verdict, NEW u, NEW p, NEW R, NEW cl,
           NEW rest, NEW x,
           m.type = "none" => p = rest,
           m.type # "none" => p # <<>> /\ Head(p) = x /\ Tail(p) = rest
    PROVE  Absorb(c, [session |-> S4(u, cl, <<First(m)>>, p), rows |-> R], Second(m)) =
               [session |-> S4(u, cl, <<>>, rest),
                rows |-> IF m.type = "none" THEN R
                         ELSE R \cup {[conn |-> c, id |-> x.id, user |-> x.user,
                                      result |-> m.type]}]
  <1> DEFINE one == First(m)
             two == Second(m)
             s == S4(u, cl, <<one>>, p)
             kept == S4(u, cl, <<>>, p)
             line == Append(<<one>>, two)
  <1>1. two.of = m /\ two.part = Parts
    BY DEF Parts, First, Second
  <1>2. m.type # "user" /\ ~ Login(m)
    BY DEF Verdict, Login
  <1>3. line = Units(m) /\ Last(line) = two
    BY WholeLine
  <1>4. Understood(line)
    BY <1>1, <1>3 DEF Understood
  <1>5. /\ s["server"] = <<one>> /\ [s EXCEPT !["server"] = <<>>] = kept
        /\ s.user = u /\ s.pending = p
    BY DEF S4
  <1>6. [kept EXCEPT !.pending = Tail(kept.pending)] = S4(u, cl, <<>>, Tail(p))
    <2>1. kept.pending = p
      BY DEF S4
    <2> DEFINE less == Tail(p)
    <2>2. [kept EXCEPT !.pending = less] = S4(u, cl, <<>>, less)
      <3> HIDE DEF less
      <3> QED
        BY DEF S4
    <2> QED
      BY <2>1, <2>2
  <1> HIDE DEF one, two, s, kept, line
  <1> DEFINE state == [session |-> s, rows |-> R]
  <1>7. CASE m.type = "none"
    <2>1. Absorb(c, state, two) = [session |-> kept, rows |-> R]
      BY <1>1, <1>2, <1>4, <1>5, <1>7 DEF Absorb, BufferOf, line
    <2>2. p = rest
      BY <1>7
    <2> QED
      BY <1>7, <2>1, <2>2, Zenon DEF one, two, s, kept, state
  <1>8. CASE m.type # "none"
    <2>1. Absorb(c, state, two) =
              [session |-> [kept EXCEPT !.pending = Tail(kept.pending)],
               rows |-> R \cup {[conn |-> c, id |-> Head(p).id,
                               user |-> Head(p).user, result |-> m.type]}]
      BY <1>1, <1>2, <1>4, <1>5, <1>8 DEF Absorb, BufferOf, line, Verdict
    <2>2. Head(p) = x /\ Tail(p) = rest
      BY <1>8
    <2> QED
      BY <1>8, <1>6, <2>1, <2>2, Zenon DEF one, two, s, state
  <1> QED
    BY <1>7, <1>8

NewRows(c, R, y) ==
    \E s2, R2 : /\ y = [session |-> s2, rows |-> R2]
                /\ R \subseteq R2
                /\ \A r \in R2 : r \in R \/ r.conn = c

(* Whatever a session has seen, the callback writes rows of its connection only.  *)
LEMMA AbsorbRows ==
    ASSUME NEW c, NEW s, NEW R, NEW unit
    PROVE  NewRows(c, R, Absorb(c, [session |-> s, rows |-> R], unit))
  <1> DEFINE state == [session |-> s, rows |-> R]
             Fine(y) == NewRows(c, R, y)
  <1>1. state.session = s /\ state.rows = R
    OBVIOUS
  <1>2. \A x : [state EXCEPT !.session = x] = [session |-> x, rows |-> R]
    OBVIOUS
  <1>3. \A x : Fine([state EXCEPT !.session = x])
    BY <1>2, Zenon DEF NewRows
  <1>4. \A x, i, u, v : Fine([session |-> x, rows |-> R \cup
                                 {[conn |-> c, id |-> i, user |-> u, result |-> v]}])
    <2> SUFFICES ASSUME NEW x, NEW i, NEW u, NEW v
                 PROVE  Fine([session |-> x, rows |-> R \cup
                                 {[conn |-> c, id |-> i, user |-> u, result |-> v]}])
      OBVIOUS
    <2> DEFINE R2 == R \cup {[conn |-> c, id |-> i, user |-> u, result |-> v]}
    <2>1. R \subseteq R2 /\ \A r \in R2 : r \in R \/ r.conn = c
      OBVIOUS
    <2> HIDE DEF R2
    <2>2. Fine([session |-> x, rows |-> R2])
      BY <2>1, Zenon DEF NewRows
    <2> QED
      BY <2>2 DEF R2
  <1> HIDE DEF state, Fine
  <1> DEFINE m == unit.of
             line == Append(s[BufferOf(m)], unit)
             kept == [s EXCEPT ![BufferOf(m)] =
                        IF unit.part = Parts THEN <<>> ELSE line]
             attempt == [id |-> m.id,
                         user |-> IF m.type = "post" THEN m.user ELSE s.user]
             asUser == [kept EXCEPT !.user = m.user]
             asLogin == [kept EXCEPT !.pending = Append(kept.pending, attempt)]
             asReply == [session |-> [kept EXCEPT !.pending = Tail(kept.pending)],
                         rows |-> R \cup
                            {[conn |-> c, id |-> Head(s.pending).id,
                              user |-> Head(s.pending).user, result |-> m.type]}]
  <1>5. Absorb(c, state, unit) =
            IF unit.part # Parts \/ ~Understood(line)
            THEN [state EXCEPT !.session = kept]
            ELSE CASE m.type = "user" -> [state EXCEPT !.session = asUser]
                   [] Login(m) -> [state EXCEPT !.session = asLogin]
                   [] m.type \in {"SUCCEED", "FAILED"} /\ s.pending # <<>> -> asReply
                   [] OTHER -> [state EXCEPT !.session = kept]
    BY <1>1 DEF Absorb
  <1>6. Fine(asReply)
    BY <1>4
  <1> HIDE DEF m, line, kept, asUser, asLogin, asReply
  <1>7. \/ Absorb(c, state, unit) = [state EXCEPT !.session = kept]
        \/ Absorb(c, state, unit) = [state EXCEPT !.session = asUser]
        \/ Absorb(c, state, unit) = [state EXCEPT !.session = asLogin]
        \/ Absorb(c, state, unit) = asReply
    <2>1. ~ (m.type = "user" /\ Login(m))
      BY DEF Login
    <2>2. ~ (m.type \in {"SUCCEED", "FAILED"} /\ (m.type = "user" \/ Login(m)))
      BY DEF Login
    <2> QED
      BY <1>5, <2>1, <2>2
  <1>8. Fine(Absorb(c, state, unit))
    BY <1>3, <1>6, <1>7
  <1> QED
    BY <1>8 DEF Fine, state

LEMMA AbsorbedRows ==
    ASSUME NEW c, NEW n \in Nat, NEW units, DOMAIN units = 1 .. n
    PROVE  NewRows(c, rows, Absorbed(c, units))
  <1>1. PICK g : Unrolled(c, units, n, g)
    BY AbsorbedIs
  <1> DEFINE S == {k \in Nat : k <= n => NewRows(c, rows, g[k])}
  <1>2. 0 \in S
    <2>1. NewRows(c, rows, g[0])
      BY <1>1, Zenon DEF NewRows, Unrolled
    <2> QED
      BY <2>1
  <1>3. ASSUME NEW k \in Nat, k \in S PROVE k + 1 \in S
    <2> SUFFICES ASSUME k + 1 <= n PROVE NewRows(c, rows, g[k + 1])
      OBVIOUS
    <2>1. NewRows(c, rows, g[k]) /\ k \in 0 .. n - 1
      BY <1>3
    <2>2. PICK s, R : /\ g[k] = [session |-> s, rows |-> R]
                      /\ rows \subseteq R
                      /\ \A r \in R : r \in rows \/ r.conn = c
      BY <2>1, Zenon DEF NewRows
    <2>3. g[k + 1] = Absorb(c, [session |-> s, rows |-> R], units[k + 1])
      BY <1>1, <2>1, <2>2 DEF Unrolled
    <2>4. NewRows(c, R, Absorb(c, [session |-> s, rows |-> R], units[k + 1]))
      BY AbsorbRows
    <2>5. PICK s2, R2 : /\ Absorb(c, [session |-> s, rows |-> R], units[k + 1]) =
                               [session |-> s2, rows |-> R2]
                        /\ R \subseteq R2 /\ \A r \in R2 : r \in R \/ r.conn = c
      BY <2>4, Zenon DEF NewRows
    <2>6. rows \subseteq R2 /\ \A r \in R2 : r \in rows \/ r.conn = c
      BY <2>2, <2>5
    <2>7. g[k + 1] = [session |-> s2, rows |-> R2]
      BY <2>3, <2>5, Zenon
    <2> QED
      BY <2>6, <2>7, Zenon DEF NewRows
  <1> HIDE DEF S
  <1>4. n \in S
    BY <1>2, <1>3, SetInduction
  <1>5. NewRows(c, rows, g[n])
    BY <1>4 DEF S
  <1> QED
    BY <1>1, <1>5 DEF Unrolled

LEMMA FlowParts ==
    ASSUME NEW f \in Flow, NEW n \in 0 .. 4
    PROVE  /\ Captured(f, n) \in Flow /\ Read(f, n) \in Flow
           /\ LET g == Captured(f, n)
              IN  /\ g.older = f.older /\ g.younger = f.younger /\ g.user = f.user
                  /\ g.first = f.first /\ g.second = f.second
                  /\ g.captured = n /\ g.answered = f.answered /\ g.read = f.read
           /\ LET g == Read(f, n)
              IN  /\ g.older = f.older /\ g.younger = f.younger /\ g.user = f.user
                  /\ g.first = f.first /\ g.second = f.second
                  /\ g.captured = f.captured /\ g.answered = f.answered /\ g.read = n
  <1>1. Captured(f, n) \in Flow /\ Read(f, n) \in Flow
    BY DEF Flow, Captured, Read
  <1>2. LET g == Captured(f, n)
        IN  /\ g.older = f.older /\ g.younger = f.younger /\ g.user = f.user
            /\ g.first = f.first /\ g.second = f.second
            /\ g.captured = n /\ g.answered = f.answered /\ g.read = f.read
    BY DEF Flow, Captured
  <1>3. LET g == Read(f, n)
        IN  /\ g.older = f.older /\ g.younger = f.younger /\ g.user = f.user
            /\ g.first = f.first /\ g.second = f.second
            /\ g.captured = f.captured /\ g.answered = f.answered /\ g.read = n
    BY DEF Flow, Read
  <1> QED
    BY <1>1, <1>2, <1>3

LEMMA SameSequence ==
    ASSUME NEW D, NEW s \in Seq(D), NEW t \in Seq(D), Len(s) = Len(t)
    PROVE  /\ Len(s) = 0 => s = t
           /\ Len(s) = 1 /\ s[1] = t[1] => s = t
           /\ Len(s) = 2 /\ s[1] = t[1] /\ s[2] = t[2] => s = t
  <1> DEFINE n == Len(s)
  <1>1. s = [i \in 1 .. n |-> s[i]]
    OBVIOUS
  <1>2. t = [i \in 1 .. n |-> t[i]]
    OBVIOUS
  <1>3. n \in Nat
    OBVIOUS
  <1> HIDE DEF n
  <1>4. ASSUME \A i \in 1 .. n : s[i] = t[i] PROVE s = t
    BY <1>1, <1>2, <1>4, Zenon
  <1>5. n = 0 => \A i \in 1 .. n : s[i] = t[i]
    OBVIOUS
  <1>6. n = 1 /\ s[1] = t[1] => \A i \in 1 .. n : s[i] = t[i]
    <2>1. n = 1 => \A i \in 1 .. n : i = 1
      OBVIOUS
    <2> QED
      BY <2>1, Zenon
  <1>7. n = 2 /\ s[1] = t[1] /\ s[2] = t[2] => \A i \in 1 .. n : s[i] = t[i]
    <2>1. n = 2 => \A i \in 1 .. n : i = 1 \/ i = 2
      OBVIOUS
    <2> QED
      BY <2>1, Zenon
  <1> QED
    BY <1>4, <1>5, <1>6, <1>7, Zenon DEF n

LEMMA SequenceParts ==
    ASSUME NEW D, NEW s \in Seq(D), NEW t \in Seq(D), NEW x \in D
    PROVE  /\ s \o t \in Seq(D) /\ Len(s \o t) = Len(s) + Len(t)
           /\ \A i \in 1 .. Len(s) : (s \o t)[i] = s[i]
           /\ \A i \in 1 .. Len(t) : (s \o t)[Len(s) + i] = t[i]
           /\ Append(s, x) \in Seq(D) /\ Len(Append(s, x)) = Len(s) + 1
           /\ \A i \in 1 .. Len(s) : Append(s, x)[i] = s[i]
           /\ Append(s, x)[Len(s) + 1] = x
           /\ Len(s) >= 1 =>
                 /\ Head(s) = s[1] /\ Tail(s) \in Seq(D) /\ Len(Tail(s)) = Len(s) - 1
                 /\ \A i \in 1 .. Len(s) - 1 : Tail(s)[i] = s[i + 1]
  OBVIOUS

LEMMA OneOrTwo ==
    ASSUME NEW x, NEW y
    PROVE  /\ <<>> \o <<>> = <<>>
           /\ Append(<<>>, x) = <<x>> /\ <<>> \o <<x>> = <<x>> /\ <<x>> \o <<>> = <<x>>
           /\ Head(<<x>>) = x /\ Tail(<<x>>) = <<>> /\ <<x>> # <<>>
           /\ Append(<<x>>, y) = <<x>> \o <<y>> /\ Head(<<x>> \o <<y>>) = x
           /\ Tail(<<x>> \o <<y>>) = <<y>> /\ <<x>> \o <<y>> # <<>>
  <1> DEFINE D == {x, y}
  <1>1. /\ <<>> \in Seq(D) /\ Len(<<>>) = 0
        /\ <<x>> \in Seq(D) /\ Len(<<x>>) = 1 /\ <<x>>[1] = x
        /\ <<y>> \in Seq(D) /\ Len(<<y>>) = 1 /\ <<y>>[1] = y
        /\ x \in D /\ y \in D
    OBVIOUS
  <1> DEFINE no == <<>>
             sx == <<x>>
             sy == <<y>>
  <1> HIDE DEF D, no, sx, sy
  <1>2. /\ no \in Seq(D) /\ Len(no) = 0
        /\ sx \in Seq(D) /\ Len(sx) = 1 /\ sx[1] = x
        /\ sy \in Seq(D) /\ Len(sy) = 1 /\ sy[1] = y
        /\ x \in D /\ y \in D
    BY <1>1 DEF no, sx, sy
  <1>3. no \o no = no
    <2>1. no \o no \in Seq(D) /\ Len(no \o no) = 0
      BY <1>2
    <2> QED
      BY <1>2, <2>1, SameSequence
  <1>4. Append(no, x) = sx
    <2>1. Append(no, x) \in Seq(D) /\ Len(Append(no, x)) = 1 /\ Append(no, x)[1] = x
      BY <1>2
    <2> QED
      BY <1>2, <2>1, SameSequence
  <1>5. no \o sx = sx
    <2>1. no \o sx \in Seq(D) /\ Len(no \o sx) = 1 /\ (no \o sx)[1] = x
      BY <1>2
    <2> QED
      BY <1>2, <2>1, SameSequence
  <1>6. sx \o no = sx
    <2>1. sx \o no \in Seq(D) /\ Len(sx \o no) = 1 /\ (sx \o no)[1] = x
      BY <1>2
    <2> QED
      BY <1>2, <2>1, SameSequence
  <1> DEFINE xy == sx \o sy
  <1>7. xy \in Seq(D) /\ Len(xy) = 2 /\ xy[1] = x /\ xy[2] = y
    <2>1. 1 \in 1 .. Len(sx) /\ 1 \in 1 .. Len(sy)
      BY <1>2
    <2> QED
      BY <1>2, <2>1, SequenceParts
  <1> HIDE DEF xy
  <1>8. Append(sx, y) = xy
    <2> DEFINE t == Append(sx, y)
    <2>1. t \in Seq(D) /\ Len(t) = 2 /\ t[1] = x /\ t[2] = y
      <3>1. 1 \in 1 .. Len(sx)
        BY <1>2
      <3> QED
        BY <1>2, <3>1, SequenceParts
    <2> HIDE DEF t
    <2>2. t = xy
      BY <1>7, <2>1, SameSequence
    <2> QED
      BY <2>2 DEF t
  <1>9. Head(xy) = x /\ Tail(xy) = sy /\ xy # no
    <2> DEFINE t == Tail(xy)
    <2>1. t \in Seq(D) /\ Len(t) = 1 /\ t[1] = y
      <3>1. 1 \in 1 .. Len(xy) - 1
        BY <1>7
      <3> QED
        BY <1>7, <1>2, <3>1, SequenceParts
    <2> HIDE DEF t
    <2>2. t = sy
      BY <1>2, <2>1, SameSequence
    <2>3. Head(xy) = x
      BY <1>7
    <2>4. xy # no
      <3>1. Len(xy) # Len(no)
        BY <1>2, <1>7
      <3> QED
        BY <3>1, Zenon
    <2>5. Tail(xy) = sy
      BY <2>2 DEF t
    <2> QED
      BY <2>3, <2>4, <2>5
  <1>10. Head(sx) = x /\ Tail(sx) = no /\ sx # no
    <2> DEFINE t == Tail(sx)
    <2>1. t \in Seq(D) /\ Len(t) = 0
      BY <1>2, SequenceParts
    <2>2. Head(sx) = x
      BY <1>2
    <2> HIDE DEF t
    <2>3. t = no
      BY <1>2, <2>1, SameSequence
    <2>4. sx # no
      <3>1. Len(sx) # Len(no)
        BY <1>2
      <3> QED
        BY <3>1, Zenon
    <2>5. Tail(sx) = no
      BY <2>3 DEF t
    <2> QED
      BY <2>2, <2>4, <2>5
  <1> QED
    BY <1>3, <1>4, <1>5, <1>6, <1>8, <1>9, <1>10 DEF xy, no, sx, sy

LEMMA ReplyParts ==
    ASSUME NEW m \in Sent, NEW v \in Verdict
    PROVE  /\ Reply(m, v).from = "server" /\ Reply(m, v).type = v
           /\ Reply(m, v).id = m.id
           /\ m.from = "client" /\ m.type \in {"other", "user", "pass", "post"}
           /\ m.id \in Nat /\ m.user \in User \cup {Nobody}
  BY DEF Reply, Sent

LEMMA LineParts ==
    ASSUME NEW m, NEW n, NEW line, line = Line(m, n)
    PROVE  /\ line[1] = First(m) /\ line[2] = Second(m)
           /\ line[3] = First(n) /\ line[4] = Second(n)
           /\ Begun(line, 0) = <<>> /\ Begun(line, 2) = <<>> /\ Begun(line, 4) = <<>>
           /\ Begun(line, 1) = <<First(m)>> /\ Begun(line, 3) = <<First(n)>>
  <1>1. /\ line[1] = First(m) /\ line[2] = Second(m)
        /\ line[3] = First(n) /\ line[4] = Second(n)
    BY DEF Line, First, Second
  <1>2. /\ Begun(line, 0) = <<>> /\ Begun(line, 2) = <<>> /\ Begun(line, 4) = <<>>
        /\ Begun(line, 1) = <<line[1]>> /\ Begun(line, 3) = <<line[3]>>
    BY DEF Begun
  <1> QED
    BY <1>1, <1>2, Zenon

(* A session takes the client for the same as the server will when it gets as far. *)
Known(u) == IF snifferTool = "ftp" THEN u ELSE Nobody

LEMMA WhoLogsIn ==
    ASSUME snifferTool \in {"ftp", "http"},
           NEW m \in Sent, Sendable(m), NEW u
    PROVE  /\ (IF m.type = "user" THEN m.user ELSE Known(u)) = Known(After(u, m))
           /\ Login(m) => (IF m.type = "post" THEN m.user ELSE Known(u)) = After(u, m)
  <1>1. m.user \in User <=> m.user # Nobody
    BY SnifferAssumption DEF Sent, SnifferAssumption
  <1>2. m.type \in {"other", "user", "pass", "post"}
    BY DEF Sent
  <1> QED
    BY <1>1, <1>2 DEF Sendable, Login, After, Known

(* The session at each of the places where the capture of the messages may be.     *)
LEMMA SessionAsked ==
    ASSUME NEW f, NEW sv, NEW p, sv = Begun(Replied(f), f.read), p = Unjudged(f)
    PROVE  /\ f.captured = 0 => SessionOf(f) = S4(Known(f.user), <<>>, sv, p)
           /\ f.captured = 1 => SessionOf(f) = S4(Known(f.user), <<First(f.older)>>, sv, p)
           /\ f.captured = 2 =>
                 SessionOf(f) = S4(Known(After(f.user, f.older)), <<>>, sv, p)
           /\ f.captured = 3 =>
                 SessionOf(f) = S4(Known(After(f.user, f.older)), <<First(f.younger)>>, sv, p)
           /\ f.captured = 4 =>
                 SessionOf(f) =
                     S4(Known(After(After(f.user, f.older), f.younger)), <<>>, sv, p)
  <1>1. SessionOf(f) = S4(Known(UserAt(f, f.captured)), Begun(Asked(f), f.captured), sv, p)
    BY Zenon DEF SessionOf, S4, Known
  <1>2. /\ UserAt(f, 0) = f.user /\ UserAt(f, 1) = f.user
        /\ UserAt(f, 2) = After(f.user, f.older) /\ UserAt(f, 3) = After(f.user, f.older)
        /\ UserAt(f, 4) = After(After(f.user, f.older), f.younger)
    BY DEF UserAt
  <1>3. /\ Begun(Asked(f), 0) = <<>> /\ Begun(Asked(f), 2) = <<>> /\ Begun(Asked(f), 4) = <<>>
        /\ Begun(Asked(f), 1) = <<First(f.older)>> /\ Begun(Asked(f), 3) = <<First(f.younger)>>
    <2>1. Asked(f) = Line(f.older, f.younger)
      BY DEF Asked
    <2> QED
      BY <2>1, LineParts
  <1> QED
    BY <1>1, <1>2, <1>3, Zenon

(* The same for the replies.                                                       *)
LEMMA SessionReplied ==
    ASSUME NEW f, NEW u, NEW cl, NEW p, u = UserAt(f, f.captured),
           cl = Begun(Asked(f), f.captured), p = Unjudged(f)
    PROVE  /\ f.read \in {0, 2, 4} => SessionOf(f) = S4(Known(u), cl, <<>>, p)
           /\ f.read = 1 =>
                 SessionOf(f) = S4(Known(u), cl, <<First(Reply(f.older, f.first))>>, p)
           /\ f.read = 3 =>
                 SessionOf(f) = S4(Known(u), cl, <<First(Reply(f.younger, f.second))>>, p)
  <1>1. SessionOf(f) = S4(Known(u), cl, Begun(Replied(f), f.read), p)
    BY Zenon DEF SessionOf, S4, Known
  <1>2. /\ Begun(Replied(f), 0) = <<>> /\ Begun(Replied(f), 2) = <<>>
        /\ Begun(Replied(f), 4) = <<>>
        /\ Begun(Replied(f), 1) = <<First(Reply(f.older, f.first))>>
        /\ Begun(Replied(f), 3) = <<First(Reply(f.younger, f.second))>>
    <2>1. Replied(f) = Line(Reply(f.older, f.first), Reply(f.younger, f.second))
      BY DEF Replied
    <2> QED
      BY <2>1, LineParts
  <1>3. f.read \in {0, 2, 4} => f.read = 0 \/ f.read = 2 \/ f.read = 4
    BY Zenon
  <1> QED
    BY <1>1, <1>2, <1>3, Zenon

LEMMA AskedUnits ==
    ASSUME NEW f
    PROVE  /\ Asked(f)[1] = First(f.older) /\ Asked(f)[2] = Second(f.older)
           /\ Asked(f)[3] = First(f.younger) /\ Asked(f)[4] = Second(f.younger)
           /\ Replied(f)[1] = First(Reply(f.older, f.first))
           /\ Replied(f)[2] = Second(Reply(f.older, f.first))
           /\ Replied(f)[3] = First(Reply(f.younger, f.second))
           /\ Replied(f)[4] = Second(Reply(f.younger, f.second))
  <1>1. Asked(f) = Line(f.older, f.younger)
    BY DEF Asked
  <1>2. Replied(f) = Line(Reply(f.older, f.first), Reply(f.younger, f.second))
    BY DEF Replied
  <1>3. /\ Asked(f)[1] = First(f.older) /\ Asked(f)[2] = Second(f.older)
        /\ Asked(f)[3] = First(f.younger) /\ Asked(f)[4] = Second(f.younger)
    BY <1>1, LineParts
  <1>4. /\ Replied(f)[1] = First(Reply(f.older, f.first))
        /\ Replied(f)[2] = Second(Reply(f.older, f.first))
        /\ Replied(f)[3] = First(Reply(f.younger, f.second))
        /\ Replied(f)[4] = Second(Reply(f.younger, f.second))
    BY <1>2, LineParts
  <1> QED
    BY <1>3, <1>4

LEMMA ClientUnit ==
    ASSUME snifferTool \in {"ftp", "http"},
           NEW c, NEW f \in Flow, FlowOK(f), f.captured < 4, NEW R
    PROVE  LET g == Captured(f, f.captured + 1)
           IN  /\ g \in Flow /\ FlowOK(g)
               /\ Absorb(c, [session |-> SessionOf(f), rows |-> R],
                         Asked(f)[f.captured + 1]) =
                      [session |-> SessionOf(g), rows |-> R]
  <1> DEFINE g == Captured(f, f.captured + 1)
             a == f.older
             b == f.younger
             sv == Begun(Replied(f), f.read)
             pf == Unjudged(f)
             pg == Unjudged(g)
             who(m, u) == IF m.type = "post" THEN m.user ELSE Known(u)
             Done(k) == Absorb(c, [session |-> SessionOf(f), rows |-> R], Asked(f)[k]) =
                            [session |-> SessionOf(g), rows |-> R]
  <1>1. /\ f.captured \in 0 .. 3 /\ f.answered \in 0 .. 2 /\ f.read \in 0 .. 4
        /\ a \in Sent /\ b \in Sent /\ Sendable(a) /\ Sendable(b)
        /\ f.read <= 2 * f.answered /\ 2 * f.answered <= f.captured
    BY DEF Flow, FlowOK
  <1>2. g \in Flow
    BY <1>1, FlowParts
  <1>3. /\ g.older = a /\ g.younger = b /\ g.user = f.user /\ g.first = f.first
        /\ g.second = f.second /\ g.captured = f.captured + 1 /\ g.answered = f.answered
        /\ g.read = f.read
    BY <1>1, FlowParts
  <1> HIDE DEF g
  <1>4. FlowOK(g)
    BY <1>1, <1>3 DEF FlowOK
  <1>5. /\ Begun(Replied(g), g.read) = sv
        /\ Attempt(f, 1) = [id |-> a.id, user |-> After(f.user, a)]
        /\ Attempt(f, 2) = [id |-> b.id, user |-> After(After(f.user, a), b)]
        /\ Attempt(g, 1) = Attempt(f, 1) /\ Attempt(g, 2) = Attempt(f, 2)
    BY <1>3 DEF Replied, Attempt, UserAt
  <1>6. a.from = "client" /\ b.from = "client"
    BY <1>1 DEF Sent
  <1>7. /\ f.captured = 0 => SessionOf(f) = S4(Known(f.user), <<>>, sv, pf)
        /\ f.captured = 1 => SessionOf(f) = S4(Known(f.user), <<First(a)>>, sv, pf)
        /\ f.captured = 2 => SessionOf(f) = S4(Known(After(f.user, a)), <<>>, sv, pf)
        /\ f.captured = 3 => SessionOf(f) = S4(Known(After(f.user, a)), <<First(b)>>, sv, pf)
    BY SessionAsked, Zenon
  <1>8. /\ g.captured = 1 => SessionOf(g) = S4(Known(f.user), <<First(a)>>, sv, pg)
        /\ g.captured = 2 => SessionOf(g) = S4(Known(After(f.user, a)), <<>>, sv, pg)
        /\ g.captured = 3 => SessionOf(g) = S4(Known(After(f.user, a)), <<First(b)>>, sv, pg)
        /\ g.captured = 4 =>
              SessionOf(g) = S4(Known(After(After(f.user, a), b)), <<>>, sv, pg)
    <2>1. /\ g.older = a /\ g.younger = b /\ g.user = f.user
          /\ sv = Begun(Replied(g), g.read) /\ pg = Unjudged(g)
      BY <1>3, <1>5
    <2> HIDE DEF sv, pg
    <2>2. g.captured = 1 => SessionOf(g) = S4(Known(g.user), <<First(g.older)>>, sv, pg)
      BY <2>1, SessionAsked, Zenon
    <2>3. g.captured = 2 =>
             SessionOf(g) = S4(Known(After(g.user, g.older)), <<>>, sv, pg)
      BY <2>1, SessionAsked, Zenon
    <2>4. g.captured = 3 => SessionOf(g) =
             S4(Known(After(g.user, g.older)), <<First(g.younger)>>, sv, pg)
      BY <2>1, SessionAsked, Zenon
    <2>5. g.captured = 4 => SessionOf(g) =
             S4(Known(After(After(g.user, g.older), g.younger)), <<>>, sv, pg)
      BY <2>1, SessionAsked, Zenon
    <2> QED
      BY <2>1, <2>2, <2>3, <2>4, <2>5, Zenon
  <1> HIDE DEF sv
  <1>9. ASSUME NEW m \in Sent, NEW u, NEW p
        PROVE  Absorb(c, [session |-> S4(u, <<>>, sv, p), rows |-> R], First(m)) =
                   [session |-> S4(u, <<First(m)>>, sv, p), rows |-> R]
    <2>1. m.from = "client"
      BY <1>9 DEF Sent
    <2> QED
      BY <2>1, ClientHalf
  <1>10. ASSUME NEW m \in Sent, Sendable(m), NEW u, NEW p
        PROVE  Absorb(c, [session |-> S4(Known(u), <<First(m)>>, sv, p), rows |-> R],
                      Second(m)) =
                   [session |-> S4(Known(After(u, m)), <<>>, sv,
                                   IF Login(m) THEN Append(p, [id |-> m.id,
                                                               user |-> After(u, m)])
                                   ELSE p), rows |-> R]
    <2>1. Absorb(c, [session |-> S4(Known(u), <<First(m)>>, sv, p), rows |-> R],
                 Second(m)) =
               [session |-> S4(IF m.type = "user" THEN m.user ELSE Known(u), <<>>, sv,
                               IF Login(m)
                               THEN Append(p, [id |-> m.id, user |-> who(m, u)])
                               ELSE p), rows |-> R]
      BY ClientAbsorbed
    <2>2. (IF m.type = "user" THEN m.user ELSE Known(u)) = Known(After(u, m))
      BY <1>10, WhoLogsIn
    <2>3. Login(m) => who(m, u) = After(u, m)
      BY <1>10, WhoLogsIn
    <2> HIDE DEF who
    <2>4. CASE Login(m)
      BY <2>1, <2>2, <2>3, <2>4, Zenon
    <2>5. CASE ~ Login(m)
      BY <2>1, <2>2, <2>5, Zenon
    <2> QED
      BY <2>4, <2>5
  <1>11. f.captured = 0 => Done(1)
    <2> SUFFICES ASSUME f.captured = 0 PROVE Done(1)
      OBVIOUS
    <2>1. g.captured = 1
      BY <1>3
    <2>2. pg = pf
      BY <1>3, <2>1 DEF Unjudged
    <2> HIDE DEF pf, pg
    <2>3. Absorb(c, [session |-> S4(Known(f.user), <<>>, sv, pf), rows |-> R], First(a)) =
              [session |-> S4(Known(f.user), <<First(a)>>, sv, pg), rows |-> R]
      BY <1>1, <1>9, <2>2, Zenon
    <2> QED
      BY <1>7, <1>8, <2>1, <2>3, AskedUnits, Zenon
  <1>12. f.captured = 2 => Done(3)
    <2> SUFFICES ASSUME f.captured = 2 PROVE Done(3)
      OBVIOUS
    <2>1. g.captured = 3
      BY <1>3
    <2>2. pg = pf
      BY <1>3, <1>5, <2>1 DEF Unjudged
    <2> HIDE DEF pf, pg
    <2>3. Absorb(c, [session |-> S4(Known(After(f.user, a)), <<>>, sv, pf), rows |-> R],
                 First(b)) =
              [session |-> S4(Known(After(f.user, a)), <<First(b)>>, sv, pg), rows |-> R]
      BY <1>1, <1>9, <2>2, Zenon
    <2> QED
      BY <1>7, <1>8, <2>1, <2>3, AskedUnits, Zenon
  <1>13. f.captured = 1 => Done(2)
    <2> SUFFICES ASSUME f.captured = 1 PROVE Done(2)
      OBVIOUS
    <2>1. g.captured = 2 /\ f.read = 0
      BY <1>1, <1>3
    <2>2. pf = <<>>
      BY OneOrTwo DEF Unjudged
    <2>3. pg = IF Login(a) THEN Append(<<>>, Attempt(f, 1)) ELSE <<>>
      BY <1>3, <1>5, <2>1, OneOrTwo DEF Unjudged
    <2> HIDE DEF pf, pg
    <2>4. Absorb(c, [session |-> S4(Known(f.user), <<First(a)>>, sv, <<>>), rows |-> R],
                 Second(a)) =
              [session |-> S4(Known(After(f.user, a)), <<>>, sv, pg), rows |-> R]
      <3> DEFINE more == Append(<<>>, [id |-> a.id, user |-> After(f.user, a)])
      <3>1. pg = IF Login(a) THEN more ELSE <<>>
        BY <1>5, <2>3
      <3>2. Absorb(c, [session |-> S4(Known(f.user), <<First(a)>>, sv, <<>>), rows |-> R],
                   Second(a)) =
                [session |-> S4(Known(After(f.user, a)), <<>>, sv,
                                IF Login(a) THEN more ELSE <<>>),
                 rows |-> R]
        BY <1>1, <1>10, Zenon
      <3> QED
        BY <3>1, <3>2, Zenon
    <2> QED
      BY <1>7, <1>8, <2>1, <2>2, <2>4, AskedUnits, Zenon
  <1>14. f.captured = 3 => Done(4)
    <2> SUFFICES ASSUME f.captured = 3 PROVE Done(4)
      OBVIOUS
    <2>1. g.captured = 4 /\ f.read < 4
      BY <1>1, <1>3
    <2>2. pf = IF Login(a) /\ f.read < 2 THEN <<Attempt(f, 1)>> ELSE <<>>
      BY OneOrTwo DEF Unjudged
    <2>3. pg = IF Login(b) THEN Append(pf, Attempt(f, 2)) ELSE pf
      BY <1>3, <1>5, <2>1, <2>2, OneOrTwo DEF Unjudged
    <2> HIDE DEF pf, pg
    <2>4. Absorb(c, [session |-> S4(Known(After(f.user, a)), <<First(b)>>, sv, pf),
                     rows |-> R], Second(b)) =
              [session |-> S4(Known(After(After(f.user, a), b)), <<>>, sv, pg), rows |-> R]
      <3> DEFINE u == After(f.user, a)
                 more == Append(pf, [id |-> b.id, user |-> After(u, b)])
      <3>1. pg = IF Login(b) THEN more ELSE pf
        BY <1>5, <2>3
      <3>2. Absorb(c, [session |-> S4(Known(u), <<First(b)>>, sv, pf), rows |-> R],
                   Second(b)) =
                [session |-> S4(Known(After(u, b)), <<>>, sv, IF Login(b) THEN more ELSE pf),
                 rows |-> R]
        <4> HIDE DEF u
        <4> QED
          BY <1>1, <1>10, Zenon
      <3> QED
        BY <3>1, <3>2, Zenon
    <2> QED
      BY <1>7, <1>8, <2>1, <2>4, AskedUnits, Zenon
  <1>15. /\ f.captured = 0 \/ f.captured = 1 \/ f.captured = 2 \/ f.captured = 3
         /\ f.captured = 0 => f.captured + 1 = 1
         /\ f.captured = 1 => f.captured + 1 = 2
         /\ f.captured = 2 => f.captured + 1 = 3
         /\ f.captured = 3 => f.captured + 1 = 4
    BY <1>1
  <1>16. Done(f.captured + 1)
    <2> HIDE DEF Done
    <2> QED
      BY <1>11, <1>12, <1>13, <1>14, <1>15, Zenon
  <1> QED
    BY <1>2, <1>4, <1>16 DEF g

LEMMA ServerUnit ==
    ASSUME NEW c, NEW f \in Flow, FlowOK(f), f.read < 2 * f.answered, NEW R
    PROVE  LET g == Read(f, f.read + 1)
           IN  /\ g \in Flow /\ FlowOK(g)
               /\ \E R2 : /\ Absorb(c, [session |-> SessionOf(f), rows |-> R],
                                    Replied(f)[f.read + 1]) =
                                 [session |-> SessionOf(g), rows |-> R2]
                          /\ OfConn(c, R2) \cup Unwritten(c, g) =
                                 OfConn(c, R) \cup Unwritten(c, f)
  <1> DEFINE g == Read(f, f.read + 1)
             a == f.older
             b == f.younger
             ra == Reply(a, f.first)
             rb == Reply(b, f.second)
             u == UserAt(f, f.captured)
             cl == Begun(Asked(f), f.captured)
             pf == Unjudged(f)
             pg == Unjudged(g)
             Done(k, R2) == Absorb(c, [session |-> SessionOf(f), rows |-> R],
                                   Replied(f)[k]) =
                                [session |-> SessionOf(g), rows |-> R2]
             Same(R2) == OfConn(c, R2) \cup Unwritten(c, g) =
                             OfConn(c, R) \cup Unwritten(c, f)
             later == IF Login(b) /\ f.captured >= 4 THEN <<Attempt(f, 2)>> ELSE <<>>
             rest == IF Login(b) /\ f.answered >= 2 THEN {Row(c, f, 2)} ELSE {}
  <1>1. /\ f.captured \in 0 .. 4 /\ f.answered \in 0 .. 2 /\ f.read \in 0 .. 3
        /\ a \in Sent /\ b \in Sent /\ Sendable(a) /\ Sendable(b)
        /\ f.first \in Verdict /\ f.second \in Verdict
        /\ f.read <= 2 * f.answered /\ 2 * f.answered <= f.captured
        /\ f.answered >= 1 => (Login(a) <=> f.first # "none")
        /\ f.answered >= 2 => (Login(b) <=> f.second # "none")
    BY DEF Flow, FlowOK
  <1>2. g \in Flow
    BY <1>1, FlowParts
  <1>3. /\ g.older = a /\ g.younger = b /\ g.user = f.user /\ g.first = f.first
        /\ g.second = f.second /\ g.captured = f.captured /\ g.answered = f.answered
        /\ g.read = f.read + 1
    BY <1>1, FlowParts
  <1> HIDE DEF g
  <1>4. FlowOK(g)
    BY <1>1, <1>3 DEF FlowOK
  <1>5. /\ UserAt(g, g.captured) = u /\ Begun(Asked(g), g.captured) = cl
        /\ Attempt(g, 1) = Attempt(f, 1) /\ Attempt(g, 2) = Attempt(f, 2)
        /\ Row(c, g, 1) = Row(c, f, 1) /\ Row(c, g, 2) = Row(c, f, 2)
    <2>1. \A i : UserAt(g, i) = UserAt(f, i)
      BY <1>3 DEF UserAt
    <2>2. Asked(g) = Asked(f)
      BY <1>3 DEF Asked
    <2>3. Attempt(g, 1) = Attempt(f, 1) /\ Attempt(g, 2) = Attempt(f, 2)
      BY <1>3, <2>1 DEF Attempt
    <2> QED
      BY <1>3, <2>1, <2>2, <2>3 DEF Row
  <1>6. /\ ra.from = "server" /\ ra.type = f.first /\ ra.type \in Verdict
        /\ rb.from = "server" /\ rb.type = f.second /\ rb.type \in Verdict
    BY <1>1, ReplyParts
  <1>7. /\ f.read \in {0, 2, 4} => SessionOf(f) = S4(Known(u), cl, <<>>, pf)
        /\ f.read = 1 => SessionOf(f) = S4(Known(u), cl, <<First(ra)>>, pf)
        /\ f.read = 3 => SessionOf(f) = S4(Known(u), cl, <<First(rb)>>, pf)
    BY SessionReplied, Zenon
  <1>8. /\ g.read \in {0, 2, 4} => SessionOf(g) = S4(Known(u), cl, <<>>, pg)
        /\ g.read = 1 => SessionOf(g) = S4(Known(u), cl, <<First(ra)>>, pg)
        /\ g.read = 3 => SessionOf(g) = S4(Known(u), cl, <<First(rb)>>, pg)
    <2>1. /\ UserAt(g, g.captured) = u /\ Begun(Asked(g), g.captured) = cl
          /\ Reply(g.older, g.first) = ra /\ Reply(g.younger, g.second) = rb
      BY <1>3, <1>5
    <2> HIDE DEF u, cl
    <2>2. /\ g.read \in {0, 2, 4} => SessionOf(g) = S4(Known(u), cl, <<>>, pg)
          /\ g.read = 1 =>
                SessionOf(g) = S4(Known(u), cl, <<First(Reply(g.older, g.first))>>, pg)
          /\ g.read = 3 =>
                SessionOf(g) = S4(Known(u), cl, <<First(Reply(g.younger, g.second))>>, pg)
      BY <2>1, SessionReplied
    <2> QED
      BY <2>1, <2>2, Zenon
  <1>9. /\ Replied(f)[1] = First(ra) /\ Replied(f)[2] = Second(ra)
        /\ Replied(f)[3] = First(rb) /\ Replied(f)[4] = Second(rb)
    BY AskedUnits
  <1>10. ASSUME NEW m, m.from = "server"
        PROVE  Absorb(c, [session |-> S4(Known(u), cl, <<>>, pf), rows |-> R], First(m)) =
                   [session |-> S4(Known(u), cl, <<First(m)>>, pf), rows |-> R]
    <2> HIDE DEF u, cl, pf
    <2> QED
      BY <1>10, ServerHalf
  <1>11. f.read = 0 => Done(1, R) /\ Same(R)
    <2> SUFFICES ASSUME f.read = 0 PROVE Done(1, R) /\ Same(R)
      OBVIOUS
    <2>1. g.read = 1
      BY <1>3
    <2>2. pg = pf /\ Unwritten(c, g) = Unwritten(c, f)
      BY <1>3, <1>5, <2>1 DEF Unjudged, Unwritten
    <2> HIDE DEF u, cl, pf, pg, ra
    <2>3. /\ SessionOf(f) = S4(Known(u), cl, <<>>, pf)
          /\ SessionOf(g) = S4(Known(u), cl, <<First(ra)>>, pf)
      BY <1>7, <1>8, <2>1, <2>2, Zenon
    <2>4. Done(1, R)
      BY <1>6, <1>10, <1>9, <2>3, Zenon
    <2>5. Same(R)
      BY <2>2, Zenon
    <2> QED
      BY <2>4, <2>5, Zenon
  <1>12. f.read = 2 => Done(3, R) /\ Same(R)
    <2> SUFFICES ASSUME f.read = 2 PROVE Done(3, R) /\ Same(R)
      OBVIOUS
    <2>1. g.read = 3
      BY <1>3
    <2>2. pg = pf /\ Unwritten(c, g) = Unwritten(c, f)
      <3>1. ~ (f.read < 2) /\ ~ (g.read < 2) /\ f.read < 4 /\ g.read < 4
        BY <2>1
      <3>2. pg = pf
        BY <1>3, <1>5, <3>1 DEF Unjudged
      <3>3. Unwritten(c, g) = Unwritten(c, f)
        BY <1>3, <1>5, <3>1 DEF Unwritten
      <3> QED
        BY <3>2, <3>3
    <2> HIDE DEF u, cl, pf, pg, rb
    <2>3. /\ SessionOf(f) = S4(Known(u), cl, <<>>, pf)
          /\ SessionOf(g) = S4(Known(u), cl, <<First(rb)>>, pf)
      BY <1>7, <1>8, <2>1, <2>2, Zenon
    <2>4. Done(3, R)
      BY <1>6, <1>10, <1>9, <2>3, Zenon
    <2>5. Same(R)
      BY <2>2, Zenon
    <2> QED
      BY <2>4, <2>5, Zenon
  <1>13. f.read = 1 => \E R2 : Done(2, R2) /\ Same(R2)
    <2> SUFFICES ASSUME f.read = 1 PROVE \E R2 : Done(2, R2) /\ Same(R2)
      OBVIOUS
    <2> DEFINE x == Attempt(f, 1)
               R2 == IF f.first = "none" THEN R
                     ELSE R \cup {[conn |-> c, id |-> x.id, user |-> x.user,
                                  result |-> f.first]}
    <2>1. g.read = 2 /\ f.captured >= 2 /\ f.answered >= 1
      BY <1>1, <1>3
    <2>2. Login(a) <=> f.first # "none"
      BY <1>1, <2>1
    <2>3. pf = IF f.first # "none" THEN <<x>> \o later ELSE later
      <3>1. f.captured >= 2 /\ f.read < 2 /\ f.read < 4
        BY <2>1
      <3>2. Unjudged(f) = (IF Login(a) THEN <<x>> ELSE <<>>) \o later
        BY <3>1 DEF Unjudged
      <3>3. <<>> \o later = later
        BY OneOrTwo
      <3> HIDE DEF x, later
      <3> QED
        BY <2>2, <3>2, <3>3
    <2>4. pg = later
      BY <1>3, <1>5, <2>1, OneOrTwo DEF Unjudged
    <2>5. <<x>> \o later # <<>> /\ Head(<<x>> \o later) = x /\ Tail(<<x>> \o later) = later
      BY OneOrTwo
    <2>6. Unwritten(c, f) = (IF f.first # "none" THEN {Row(c, f, 1)} ELSE {}) \cup rest
      BY <2>1, <2>2 DEF Unwritten
    <2>7. Unwritten(c, g) = rest
      BY <1>3, <1>5, <2>1 DEF Unwritten
    <2>8. /\ Row(c, f, 1) = [conn |-> c, id |-> x.id, user |-> x.user, result |-> f.first]
          /\ Row(c, f, 1).conn = c
      BY DEF Row
    <2> HIDE DEF x, later, rest
    <2>9. OfConn(c, R2) = OfConn(c, R) \cup (IF f.first # "none" THEN {Row(c, f, 1)} ELSE {})
      <3> DEFINE row == Row(c, f, 1)
      <3> HIDE DEF row
      <3>1. R2 = IF f.first = "none" THEN R ELSE R \cup {row}
        BY <2>8 DEF row
      <3>2. row.conn = c
        BY <2>8 DEF row
      <3> HIDE DEF R2
      <3>3. OfConn(c, R2) = OfConn(c, R) \cup (IF f.first # "none" THEN {row} ELSE {})
        BY <3>1, <3>2 DEF OfConn
      <3> QED
        BY <3>3 DEF row
    <2>10. Same(R2)
      <3> HIDE DEF R2
      <3> QED
        BY <2>6, <2>7, <2>9
    <2> HIDE DEF u, cl, pf, pg, ra
    <2>11. Absorb(c, [session |-> S4(Known(u), cl, <<First(ra)>>, pf), rows |-> R],
                  Second(ra)) =
               [session |-> S4(Known(u), cl, <<>>, later),
                rows |-> IF ra.type = "none" THEN R
                         ELSE R \cup {[conn |-> c, id |-> x.id, user |-> x.user,
                                      result |-> ra.type]}]
      <3>1. /\ ra.type = "none" => pf = later
            /\ ra.type # "none" => pf # <<>> /\ Head(pf) = x /\ Tail(pf) = later
        BY <1>6, <2>3, <2>5, Zenon
      <3> QED
        BY <1>6, <3>1, VerdictAbsorbed, SMTT(30)
    <2>12. SessionOf(f) = S4(Known(u), cl, <<First(ra)>>, pf)
      BY <1>7
    <2>13. SessionOf(g) = S4(Known(u), cl, <<>>, later)
      BY <1>8, <2>1, <2>4, Zenon
    <2>14. Done(2, R2)
      BY <1>6, <1>9, <2>11, <2>12, <2>13, Zenon
    <2> HIDE DEF Done, Same, R2
    <2> QED
      BY <2>10, <2>14
  <1>14. f.read = 3 => \E R2 : Done(4, R2) /\ Same(R2)
    <2> SUFFICES ASSUME f.read = 3 PROVE \E R2 : Done(4, R2) /\ Same(R2)
      OBVIOUS
    <2> DEFINE x == Attempt(f, 2)
               R2 == IF f.second = "none" THEN R
                     ELSE R \cup {[conn |-> c, id |-> x.id, user |-> x.user,
                                  result |-> f.second]}
    <2>1. g.read = 4 /\ f.captured = 4 /\ f.answered = 2
      BY <1>1, <1>3
    <2>2. Login(b) <=> f.second # "none"
      BY <1>1, <2>1
    <2>3. pf = IF f.second # "none" THEN <<x>> ELSE <<>>
      BY <2>1, <2>2, OneOrTwo DEF Unjudged
    <2>4. pg = <<>>
      BY <1>3, <2>1, OneOrTwo DEF Unjudged
    <2>5. <<x>> # <<>> /\ Head(<<x>>) = x /\ Tail(<<x>>) = <<>>
      BY OneOrTwo
    <2>6. Unwritten(c, f) = IF f.second # "none" THEN {Row(c, f, 2)} ELSE {}
      BY <2>1, <2>2 DEF Unwritten
    <2>7. Unwritten(c, g) = {}
      BY <1>3, <2>1 DEF Unwritten
    <2>8. /\ Row(c, f, 2) = [conn |-> c, id |-> x.id, user |-> x.user, result |-> f.second]
          /\ Row(c, f, 2).conn = c
      BY DEF Row
    <2> HIDE DEF x
    <2>9. OfConn(c, R2) = OfConn(c, R) \cup (IF f.second # "none" THEN {Row(c, f, 2)} ELSE {})
      <3> DEFINE row == Row(c, f, 2)
      <3> HIDE DEF row
      <3>1. R2 = IF f.second = "none" THEN R ELSE R \cup {row}
        BY <2>8 DEF row
      <3>2. row.conn = c
        BY <2>8 DEF row
      <3> HIDE DEF R2
      <3>3. OfConn(c, R2) = OfConn(c, R) \cup (IF f.second # "none" THEN {row} ELSE {})
        BY <3>1, <3>2 DEF OfConn
      <3> QED
        BY <3>3 DEF row
    <2>10. Same(R2)
      <3> HIDE DEF R2
      <3> QED
        BY <2>6, <2>7, <2>9
    <2> HIDE DEF u, cl, pf, pg, rb
    <2>11. Absorb(c, [session |-> S4(Known(u), cl, <<First(rb)>>, pf), rows |-> R],
                  Second(rb)) =
               [session |-> S4(Known(u), cl, <<>>, <<>>),
                rows |-> IF rb.type = "none" THEN R
                         ELSE R \cup {[conn |-> c, id |-> x.id, user |-> x.user,
                                      result |-> rb.type]}]
      <3> DEFINE no == <<>>
      <3>1. /\ rb.type = "none" => pf = no
            /\ rb.type # "none" => pf # <<>> /\ Head(pf) = x /\ Tail(pf) = no
        BY <1>6, <2>3, <2>5, Zenon
      <3> HIDE DEF no
      <3>2. Absorb(c, [session |-> S4(Known(u), cl, <<First(rb)>>, pf), rows |-> R],
                   Second(rb)) =
               [session |-> S4(Known(u), cl, <<>>, no),
                rows |-> IF rb.type = "none" THEN R
                         ELSE R \cup {[conn |-> c, id |-> x.id, user |-> x.user,
                                      result |-> rb.type]}]
        BY <1>6, <3>1, VerdictAbsorbed
      <3> QED
        BY <3>2 DEF no
    <2>12. SessionOf(f) = S4(Known(u), cl, <<First(rb)>>, pf)
      BY <1>7
    <2>13. SessionOf(g) = S4(Known(u), cl, <<>>, <<>>)
      BY <1>8, <2>1, <2>4, Zenon
    <2>14. Done(4, R2)
      BY <1>6, <1>9, <2>11, <2>12, <2>13, Zenon
    <2> HIDE DEF Done, Same, R2
    <2> QED
      BY <2>10, <2>14
  <1>15. /\ f.read = 0 \/ f.read = 1 \/ f.read = 2 \/ f.read = 3
         /\ f.read = 0 => f.read + 1 = 1
         /\ f.read = 1 => f.read + 1 = 2
         /\ f.read = 2 => f.read + 1 = 3
         /\ f.read = 3 => f.read + 1 = 4
    BY <1>1
  <1>16. \E R2 : Done(f.read + 1, R2) /\ Same(R2)
    <2> HIDE DEF Done, Same
    <2> QED
      BY <1>11, <1>12, <1>13, <1>14, <1>15, Zenon
  <1> QED
    BY <1>2, <1>4, <1>16 DEF g

LEMMA FlowMoves ==
    ASSUME NEW f \in Flow, NEW n \in 0 .. 4, NEW m \in 0 .. 4
    PROVE  /\ Captured(f, f.captured) = f /\ Read(f, f.read) = f
           /\ Captured(Captured(f, n), m) = Captured(f, m)
           /\ Read(Read(f, n), m) = Read(f, m)
           /\ Asked(Captured(f, n)) = Asked(f) /\ Replied(Captured(f, n)) = Replied(f)
           /\ Asked(Read(f, n)) = Asked(f) /\ Replied(Read(f, n)) = Replied(f)
  <1>1. Captured(f, f.captured) = f /\ Read(f, f.read) = f
    BY DEF Captured, Read, Flow
  <1>2. Captured(Captured(f, n), m) = Captured(f, m)
    BY DEF Captured, Flow
  <1>3. Read(Read(f, n), m) = Read(f, m)
    BY DEF Read, Flow
  <1>4. /\ Asked(Captured(f, n)) = Asked(f) /\ Replied(Captured(f, n)) = Replied(f)
        /\ Asked(Read(f, n)) = Asked(f) /\ Replied(Read(f, n)) = Replied(f)
    BY FlowParts DEF Asked, Replied
  <1> QED
    BY <1>1, <1>2, <1>3, <1>4

LEMMA ClientUnitHere ==
    ASSUME snifferTool \in {"ftp", "http"},
           NEW c, NEW h \in Flow, FlowOK(h), h.captured < 4
    PROVE  /\ Captured(h, h.captured + 1) \in Flow /\ FlowOK(Captured(h, h.captured + 1))
           /\ Absorb(c, [session |-> SessionOf(h), rows |-> rows],
                     Asked(h)[h.captured + 1]) =
                 [session |-> SessionOf(Captured(h, h.captured + 1)), rows |-> rows]
  <1>1. Captured(h, h.captured + 1) \in Flow /\ FlowOK(Captured(h, h.captured + 1))
    BY ClientUnit
  <1>2. Absorb(c, [session |-> SessionOf(h), rows |-> rows], Asked(h)[h.captured + 1]) =
            [session |-> SessionOf(Captured(h, h.captured + 1)), rows |-> rows]
    BY ClientUnit
  <1> QED
    BY <1>1, <1>2

\* k units of a line, from one place on.
SegmentOf(units, line, from, k) ==
    DOMAIN units = 1 .. k /\ \A i \in 1 .. k : units[i] = line[from + i]

(* A segment of a client, and one of a server, wherever it is cut.                 *)
LEMMA ClientUnits ==
    ASSUME snifferTool \in {"ftp", "http"},
           NEW c, NEW f \in Flow, FlowOK(f), session[c] = SessionOf(f),
           NEW k \in Nat, NEW n \in 0 .. 4, n = f.captured + k,
           NEW units, SegmentOf(units, Asked(f), f.captured, k)
    PROVE  /\ Captured(f, n) \in Flow /\ FlowOK(Captured(f, n))
           /\ Absorbed(c, units).session = SessionOf(Captured(f, n))
           /\ Absorbed(c, units).rows = rows
  <1>1. /\ DOMAIN units = 1 .. k /\ \A i \in 1 .. k : units[i] = Asked(f)[f.captured + i]
        /\ f.captured + k <= 4
    BY DEF SegmentOf
  <1> DEFINE at(j) == Captured(f, f.captured + j)
             Good(g, j) == /\ at(j) \in Flow /\ FlowOK(at(j))
                           /\ g[j] = [session |-> SessionOf(at(j)), rows |-> rows]
  <1>2. PICK g : Unrolled(c, units, k, g)
    BY <1>1, AbsorbedIs
  <1>3. f.captured \in 0 .. 4
    BY DEF Flow
  <1> DEFINE S == {j \in Nat : j <= k => Good(g, j)}
  <1>4. 0 \in S
    <2>1. f.captured + 0 = f.captured
      BY <1>3
    <2>2. at(0) = f
      BY <2>1, <1>3, FlowMoves
    <2>3. g[0] = [session |-> session[c], rows |-> rows]
      BY <1>2 DEF Unrolled
    <2> HIDE DEF at
    <2>4. Good(g, 0)
      BY <2>2, <2>3, Zenon
    <2> QED
      BY <2>4
  <1>5. ASSUME NEW j \in Nat, j \in S PROVE j + 1 \in S
    <2> SUFFICES ASSUME j + 1 <= k PROVE Good(g, j + 1)
      OBVIOUS
    <2>1. Good(g, j)
      BY <1>5
    <2>2. /\ f.captured + j \in 0 .. 3 /\ f.captured + j \in 0 .. 4
          /\ f.captured + (j + 1) \in 0 .. 4
          /\ f.captured + (j + 1) = (f.captured + j) + 1
          /\ j \in 0 .. k - 1 /\ j + 1 \in 1 .. k
      <3> DEFINE x == f.captured
      <3>1. x \in 0 .. 4 /\ x + k <= 4
        BY <1>3, <1>1
      <3> HIDE DEF x
      <3>2. x + j \in 0 .. 3 /\ x + (j + 1) = (x + j) + 1
        BY <3>1
      <3>3. j \in 0 .. k - 1 /\ j + 1 \in 1 .. k
        OBVIOUS
      <3> QED
        BY <3>2, <3>3 DEF x
    <2> DEFINE h == at(j)
    <2>3. h \in Flow /\ FlowOK(h) /\ h.captured = f.captured + j /\ h.captured < 4
      BY <2>1, <2>2, FlowParts
    <2>4. Asked(h) = Asked(f) /\ Captured(h, h.captured + 1) = at(j + 1)
      <3>1. Asked(h) = Asked(f)
        BY <2>2, FlowMoves
      <3>2. Captured(h, (f.captured + j) + 1) = Captured(f, (f.captured + j) + 1)
        BY <2>2, FlowMoves
      <3> QED
        BY <2>2, <2>3, <3>1, <3>2, Zenon
    <2>5. g[j + 1] = Absorb(c, g[j], units[j + 1])
      BY <1>2, <2>2 DEF Unrolled
    <2>6. units[j + 1] = Asked(f)[h.captured + 1]
      BY <1>1, <2>2, <2>3
    <2>7. g[j] = [session |-> SessionOf(h), rows |-> rows]
      BY <2>1
    <2> HIDE DEF h, at
    <2>8. /\ Captured(h, h.captured + 1) \in Flow /\ FlowOK(Captured(h, h.captured + 1))
          /\ Absorb(c, [session |-> SessionOf(h), rows |-> rows], Asked(h)[h.captured + 1]) =
                [session |-> SessionOf(Captured(h, h.captured + 1)), rows |-> rows]
      BY <2>3, ClientUnitHere
    <2> QED
      BY <2>4, <2>5, <2>6, <2>7, <2>8, Zenon
  <1> HIDE DEF S, at
  <1>6. k \in S
    BY <1>4, <1>5, SetInduction
  <1>7. Good(g, k)
    BY <1>6 DEF S
  <1>8. Absorbed(c, units) = g[k]
    BY <1>2 DEF Unrolled
  <1>9. at(k) = Captured(f, n)
    BY DEF at
  <1>10. g[k].session = SessionOf(at(k)) /\ g[k].rows = rows
    BY <1>7
  <1> QED
    BY <1>7, <1>8, <1>10, <1>9, Zenon

Fits(f, k, n) == k \in Nat /\ n \in 0 .. 4 /\ n = f.read + k /\ n <= 2 * f.answered
Balance(c, R, f) == OfConn(c, R) \cup Unwritten(c, f)

LEMMA ServerUnits ==
    ASSUME NEW c, NEW f \in Flow, FlowOK(f), session[c] = SessionOf(f),
           NEW k, NEW n, Fits(f, k, n),
           NEW units, SegmentOf(units, Replied(f), f.read, k)
    PROVE  /\ Read(f, n) \in Flow /\ FlowOK(Read(f, n))
           /\ Absorbed(c, units).session = SessionOf(Read(f, n))
           /\ Balance(c, Absorbed(c, units).rows, Read(f, n)) = Balance(c, rows, f)
  <1>1. k \in Nat /\ n \in 0 .. 4 /\ n = f.read + k /\ n <= 2 * f.answered
    BY DEF Fits
  <1>2. /\ DOMAIN units = 1 .. k /\ \A i \in 1 .. k : units[i] = Replied(f)[f.read + i]
        /\ f.read + k <= 2 * f.answered
    BY <1>1 DEF SegmentOf
  <1> DEFINE at(j) == Read(f, f.read + j)
             Wrote(j, R) == OfConn(c, R) \cup Unwritten(c, at(j)) =
                                OfConn(c, rows) \cup Unwritten(c, f)
             Good(g, j) == /\ at(j) \in Flow /\ FlowOK(at(j))
                           /\ \E R : /\ g[j] = [session |-> SessionOf(at(j)), rows |-> R]
                                     /\ Wrote(j, R)
  <1>3. PICK g : Unrolled(c, units, k, g)
    BY <1>1, <1>2, AbsorbedIs
  <1>4. f.read \in 0 .. 4 /\ f.answered \in 0 .. 2 /\ 2 * f.answered <= 4
    BY DEF Flow
  <1> USE <1>1
  <1> DEFINE S == {j \in Nat : j <= k => Good(g, j)}
  <1> HIDE DEF Good
  <1>5. 0 \in S
    <2>1. f.read + 0 = f.read
      BY <1>4
    <2>2. at(0) = f
      BY <2>1, <1>4, FlowMoves
    <2>3. g[0] = [session |-> session[c], rows |-> rows]
      BY <1>3 DEF Unrolled
    <2> HIDE DEF at
    <2>4. Good(g, 0)
      BY <2>2, <2>3, Zenon DEF Good
    <2> QED
      BY <2>4
  <1>6. ASSUME NEW j \in Nat, j \in S PROVE j + 1 \in S
    <2> SUFFICES ASSUME j + 1 <= k PROVE Good(g, j + 1)
      OBVIOUS
    <2>1. Good(g, j)
      BY <1>6
    <2> USE DEF Good
    <2>2. /\ f.read + j \in 0 .. 3 /\ f.read + j \in 0 .. 4
          /\ f.read + j < 2 * f.answered
          /\ f.read + (j + 1) \in 0 .. 4
          /\ f.read + (j + 1) = (f.read + j) + 1
          /\ j \in 0 .. k - 1 /\ j + 1 \in 1 .. k
      <3> DEFINE x == f.read
                 all == 2 * f.answered
      <3>1. x \in 0 .. 4 /\ x + k <= all /\ all <= 4 /\ all \in Nat
        BY <1>4, <1>2
      <3> HIDE DEF x, all
      <3>2. x + j \in 0 .. 3 /\ x + (j + 1) = (x + j) + 1 /\ x + j < all
        BY <3>1
      <3>3. j \in 0 .. k - 1 /\ j + 1 \in 1 .. k
        OBVIOUS
      <3> QED
        BY <3>2, <3>3 DEF x, all
    <2> DEFINE h == at(j)
    <2>3. h \in Flow /\ FlowOK(h) /\ h.read = f.read + j /\ h.read < 2 * h.answered
      BY <2>1, <2>2, FlowParts
    <2>4. Replied(h) = Replied(f) /\ Read(h, h.read + 1) = at(j + 1)
      <3>1. Replied(h) = Replied(f)
        BY <2>2, FlowMoves
      <3>2. Read(h, (f.read + j) + 1) = Read(f, (f.read + j) + 1)
        BY <2>2, FlowMoves
      <3> QED
        BY <2>2, <2>3, <3>1, <3>2, Zenon
    <2>5. g[j + 1] = Absorb(c, g[j], units[j + 1])
      BY <1>3, <2>2 DEF Unrolled
    <2>6. units[j + 1] = Replied(f)[h.read + 1]
      BY <1>2, <2>2, <2>3
    <2>7. PICK R : g[j] = [session |-> SessionOf(h), rows |-> R] /\ Wrote(j, R)
      BY <2>1
    <2> HIDE DEF Wrote
    <2>8. Wrote(j, R) <=> OfConn(c, R) \cup Unwritten(c, h) =
                              OfConn(c, rows) \cup Unwritten(c, f)
      BY DEF Wrote
    <2>9. \A Q : Wrote(j + 1, Q) <=> OfConn(c, Q) \cup Unwritten(c, at(j + 1)) =
                              OfConn(c, rows) \cup Unwritten(c, f)
      BY DEF Wrote
    <2> HIDE DEF h, at
    <2>10. /\ Read(h, h.read + 1) \in Flow /\ FlowOK(Read(h, h.read + 1))
           /\ \E Q : /\ Absorb(c, [session |-> SessionOf(h), rows |-> R],
                               Replied(h)[h.read + 1]) =
                            [session |-> SessionOf(Read(h, h.read + 1)), rows |-> Q]
                     /\ OfConn(c, Q) \cup Unwritten(c, Read(h, h.read + 1)) =
                            OfConn(c, R) \cup Unwritten(c, h)
      BY <2>3, ServerUnit
    <2>11. PICK Q : /\ Absorb(c, [session |-> SessionOf(h), rows |-> R],
                              Replied(h)[h.read + 1]) =
                           [session |-> SessionOf(at(j + 1)), rows |-> Q]
                    /\ OfConn(c, Q) \cup Unwritten(c, at(j + 1)) =
                           OfConn(c, R) \cup Unwritten(c, h)
      BY <2>4, <2>10, Zenon
    <2>12. Wrote(j + 1, Q)
      BY <2>7, <2>8, <2>9, <2>11, Zenon
    <2>13. g[j + 1] = [session |-> SessionOf(at(j + 1)), rows |-> Q]
      BY <2>4, <2>5, <2>6, <2>7, <2>11, Zenon
    <2> QED
      BY <2>4, <2>10, <2>12, <2>13, Zenon
  <1> HIDE DEF S, at
  <1>7. k \in S
    BY <1>5, <1>6, SetInduction
  <1>8. Good(g, k)
    BY <1>7 DEF S
  <1>9. Absorbed(c, units) = g[k]
    BY <1>3 DEF Unrolled
  <1>10. at(k) = Read(f, n)
    BY DEF at
  <1>11. PICK R : g[k] = [session |-> SessionOf(at(k)), rows |-> R] /\ Wrote(k, R)
    BY <1>8 DEF Good
  <1>12. g[k].session = SessionOf(at(k)) /\ g[k].rows = R
    BY <1>11
  <1>13. at(k) \in Flow /\ FlowOK(at(k))
    BY <1>8, Zenon DEF Good
  <1>14. OfConn(c, R) \cup Unwritten(c, at(k)) = OfConn(c, rows) \cup Unwritten(c, f)
    BY <1>11
  <1> QED
    BY <1>9, <1>12, <1>13, <1>14, <1>10, Zenon DEF Balance

\* n units, one after the other.
HasUnits(w, n) == w = [i \in 1 .. n |-> w[i]]

\* n units of a line, after the first `from`.
PieceOf(line, from, n) == [i \in 1 .. n |-> line[from + i]]

(* What a capture takes from the wire, and what it leaves there.                   *)
\* A segment of k units, and what it leaves.
Taken(w, k) == SubSeq(w, 1, k)
Left(w, k) == SubSeq(w, k + 1, Len(w))

\* What follows after k units of w.
Beyond(t, w, k, m) == \A i \in 1 .. m : t[i] = w[k + i]

LEMMA SegmentParts ==
    ASSUME NEW n \in Nat, NEW w, HasUnits(w, n), NEW k \in 1 .. 4, k <= Len(w)
    PROVE  /\ k <= n
           /\ DOMAIN Taken(w, k) = 1 .. k
           /\ \A i \in 1 .. k : Taken(w, k)[i] = w[i]
           /\ HasUnits(Left(w, k), n - k) /\ Beyond(Left(w, k), w, k, n - k)
  <1> DEFINE D == {w[i] : i \in 1 .. n}
             s == Taken(w, k)
             t == Left(w, k)
  <1>1. w \in Seq(D) /\ Len(w) = n
    <2>1. \A i \in 1 .. n : w[i] \in D
      OBVIOUS
    <2> HIDE DEF D
    <2>2. [i \in 1 .. n |-> w[i]] \in Seq(D) /\ Len([i \in 1 .. n |-> w[i]]) = n
      BY <2>1
    <2> QED
      BY <2>2 DEF HasUnits
  <1> HIDE DEF D
  <1> USE DEF Taken, Left
  <1>2. k \in 1 .. n
    BY <1>1
  <1>3. s \in Seq(D) /\ Len(s) = k /\ \A i \in 1 .. k : s[i] = w[i]
    BY <1>1, <1>2
  <1>4. t \in Seq(D) /\ Len(t) = n - k /\ \A i \in 1 .. n - k : t[i] = w[k + i]
    BY <1>1, <1>2
  <1> HIDE DEF s, t
  <1>5. t = [i \in 1 .. n - k |-> t[i]]
    BY <1>4
  <1>6. HasUnits(t, n - k)
    BY <1>5, Zenon DEF HasUnits
  <1>7. DOMAIN s = 1 .. k
    BY <1>3
  <1>8. k <= n
    BY <1>2
  <1>9. Beyond(t, w, k, n - k)
    BY <1>4 DEF Beyond
  <1> QED
    BY <1>3, <1>6, <1>7, <1>8, <1>9, Zenon DEF s, t

LEMMA TakenParts ==
    ASSUME NEW line, NEW from \in Nat, NEW n \in Nat, NEW w, w = PieceOf(line, from, n),
           NEW k \in 1 .. 4, k <= Len(w)
    PROVE  /\ k \in Nat /\ k <= n
           /\ SegmentOf(Taken(w, k), line, from, k)
           /\ Left(w, k) = PieceOf(line, from + k, n - k)
  <1> DEFINE s == Taken(w, k)
             t == Left(w, k)
  <1>1. \A i \in 1 .. n : w[i] = line[from + i]
    BY DEF PieceOf
  <1>2. HasUnits(w, n)
    BY Zenon DEF HasUnits, PieceOf
  <1>3. /\ k <= n /\ DOMAIN s = 1 .. k /\ \A i \in 1 .. k : s[i] = w[i]
        /\ HasUnits(t, n - k) /\ Beyond(t, w, k, n - k)
    BY <1>2, SegmentParts
  <1>4. \A i \in 1 .. n - k : t[i] = w[k + i]
    BY <1>3 DEF Beyond
  <1> HIDE DEF s, t
  <1>5. SegmentOf(s, line, from, k)
    <2>1. \A i \in 1 .. k : i \in 1 .. n
      BY <1>3
    <2>2. \A i \in 1 .. k : s[i] = line[from + i]
      BY <1>1, <1>3, <2>1, Zenon
    <2> QED
      BY <1>3, <2>2 DEF SegmentOf
  <1>6. t = PieceOf(line, from + k, n - k)
    <2>1. \A i \in 1 .. n - k : t[i] = line[(from + k) + i]
      <3> SUFFICES ASSUME NEW i \in 1 .. n - k PROVE t[i] = line[(from + k) + i]
        OBVIOUS
      <3>1. k + i \in 1 .. n /\ from + (k + i) = (from + k) + i
        BY <1>3
      <3>2. t[i] = w[k + i] /\ w[k + i] = line[from + (k + i)]
        BY <1>1, <1>4, <3>1
      <3> QED
        BY <3>1, <3>2, Zenon
    <2> DEFINE m == n - k
               place == from + k
    <2>2. t = [i \in 1 .. m |-> t[i]] /\ \A i \in 1 .. m : t[i] = line[place + i]
      BY <1>3, <2>1 DEF HasUnits
    <2> HIDE DEF m, place
    <2>3. t = [i \in 1 .. m |-> line[place + i]]
      BY <2>2
    <2> QED
      BY <2>3 DEF PieceOf, m, place
  <1> QED
    BY <1>3, <1>5, <1>6 DEF s, t

LEMMA ConcatParts ==
    ASSUME NEW D, NEW s \in Seq(D), NEW t \in Seq(D)
    PROVE  /\ s \o t \in Seq(D) /\ Len(s \o t) = Len(s) + Len(t)
           /\ \A i \in 1 .. Len(s) : (s \o t)[i] = s[i]
           /\ \A i \in 1 .. Len(t) : (s \o t)[Len(s) + i] = t[i]
  OBVIOUS

LEMMA TwoMore ==
    ASSUME NEW D, NEW s \in Seq(D), NEW t \in Seq(D), 1 \in 1 .. Len(t), 2 \in 1 .. Len(t),
           NEW n, NEW m, n = Len(s) + 1, m = Len(s) + 2
    PROVE  (s \o t)[n] = t[1] /\ (s \o t)[m] = t[2]
  BY ConcatParts

\* The units of w, and then a message.
Joined(t, w, n, m) ==
    /\ HasUnits(t, n + 2) /\ \A i \in 1 .. n : t[i] = w[i]
    /\ t[n + 1] = First(m) /\ t[n + 2] = Second(m)

LEMMA JoinParts ==
    ASSUME NEW n \in Nat, NEW w, HasUnits(w, n), NEW m
    PROVE  Joined(w \o Units(m), w, n, m)
  <1> DEFINE u == Units(m)
             D == {w[i] : i \in 1 .. n} \cup {First(m), Second(m)}
             t == w \o u
  <1>1. w \in Seq(D) /\ Len(w) = n
    <2>1. \A i \in 1 .. n : w[i] \in D
      OBVIOUS
    <2> HIDE DEF D
    <2>2. [i \in 1 .. n |-> w[i]] \in Seq(D) /\ Len([i \in 1 .. n |-> w[i]]) = n
      BY <2>1
    <2> QED
      BY <2>2 DEF HasUnits
  <1>2. u \in Seq(D) /\ Len(u) = 2 /\ u[1] = First(m) /\ u[2] = Second(m)
    <2>1. First(m) \in D /\ Second(m) \in D
      OBVIOUS
    <2>2. u = [i \in 1 .. 2 |-> IF i = 1 THEN First(m) ELSE Second(m)]
      BY 1 .. 2 = {1, 2} DEF Units, Parts, First, Second
    <2> HIDE DEF D, u
    <2>3. [i \in 1 .. 2 |-> IF i = 1 THEN First(m) ELSE Second(m)] \in Seq(D)
      BY <2>1
    <2> QED
      BY <2>2, <2>3
  <1> HIDE DEF D, u
  <1>3. w \in Seq(D) /\ u \in Seq(D)
    BY <1>1, <1>2
  <1>4. /\ t \in Seq(D) /\ Len(t) = Len(w) + Len(u)
        /\ \A i \in 1 .. Len(w) : t[i] = w[i]
    BY <1>3, ConcatParts
  <1>5. /\ 1 \in 1 .. Len(u) /\ 2 \in 1 .. Len(u)
        /\ n + 1 = Len(w) + 1 /\ n + 2 = Len(w) + 2
    BY <1>1, <1>2
  <1>6. t[n + 1] = u[1] /\ t[n + 2] = u[2]
    BY <1>3, <1>5, TwoMore
  <1> HIDE DEF t
  <1>7. Len(t) = n + 2
    BY <1>1, <1>2, <1>4, Zenon
  <1>8. HasUnits(t, n + 2)
    <2>1. t \in Seq(D) /\ Len(t) = n + 2
      BY <1>4, <1>7
    <2> QED
      BY <2>1 DEF HasUnits
  <1>9. \A i \in 1 .. n : t[i] = w[i]
    BY <1>1, <1>4, Zenon
  <1> QED
    BY <1>2, <1>6, <1>8, <1>9, Zenon DEF Joined, t, u

(* What a step does to the connections that it is not about: nothing.              *)
LEMMA OthersFlow ==
    ASSUME NEW d, InFlow(d), snifferTool' = snifferTool, wire'[d] = wire[d],
           owed'[d] = owed[d], lastUser'[d] = lastUser[d], session'[d] = session[d],
           OfConn(d, judged') = OfConn(d, judged), OfConn(d, rows') = OfConn(d, rows)
    PROVE  InFlow(d)'
  <1>1. PICK f \in Flow : FlowOK(f) /\ Follows(d, f)
    BY DEF InFlow
  <1>2. FlowOK(f)'
    BY <1>1 DEF FlowOK, Sendable
  <1>3. SessionOf(f)' = SessionOf(f)
    BY DEF SessionOf
  <1>4. Follows(d, f)'
    BY <1>1, <1>3 DEF Follows
  <1> QED
    BY <1>1, <1>2, <1>4 DEF InFlow

LEMMA CaptureWrites ==
    ASSUME SnifferShapes, NEW c \in Conn, NEW n \in Nat, NEW units, DOMAIN units = 1 .. n,
           OnPacket(c, units), NEW d \in Conn, d # c
    PROVE  session'[d] = session[d] /\ OfConn(d, rows') = OfConn(d, rows)
  <1>1. session'[d] = session[d]
    BY DEF SnifferShapes, OnPacket
  <1>2. NewRows(c, rows, Absorbed(c, units))
    BY AbsorbedRows
  <1>3. PICK s, R : /\ Absorbed(c, units) = [session |-> s, rows |-> R]
                    /\ rows \subseteq R /\ \A r \in R : r \in rows \/ r.conn = c
    BY <1>2, Zenon DEF NewRows
  <1>4. rows' = R
    BY <1>3 DEF OnPacket
  <1>5. \A r : r \in R /\ r.conn = d <=> r \in rows /\ r.conn = d
    BY <1>3
  <1> QED
    BY <1>1, <1>4, <1>5 DEF OfConn

(* The parts of a connection that has been followed up to here.                     *)
WireOf(f) ==
    [client |-> PieceOf(Asked(f), f.captured, 4 - f.captured),
     server |-> PieceOf(Replied(f), f.read, 2 * f.answered - f.read)]

OwedIn(f) == CASE f.answered = 0 -> <<f.older, f.younger>>
               [] f.answered = 1 -> <<f.younger>>
               [] OTHER -> <<>>

LEMMA FollowsParts ==
    ASSUME NEW c, NEW f
    PROVE  Follows(c, f) <=>
               /\ wire[c] = WireOf(f) /\ owed[c] = OwedIn(f)
               /\ lastUser[c] = UserAt(f, 2 * f.answered) /\ session[c] = SessionOf(f)
               /\ OfConn(c, judged) = OfConn(c, rows) \cup Unwritten(c, f)
  BY Zenon DEF Follows, WireOf, OwedIn, PieceOf

LEMMA FollowsNext ==
    ASSUME NEW c, NEW f, snifferTool' = snifferTool,
           wire'[c] = WireOf(f), owed'[c] = OwedIn(f),
           lastUser'[c] = UserAt(f, 2 * f.answered), session'[c] = SessionOf(f),
           OfConn(c, judged') = OfConn(c, rows') \cup Unwritten(c, f)
    PROVE  Follows(c, f)'
  <1>1. SessionOf(f)' = SessionOf(f)
    BY DEF SessionOf
  <1> QED
    BY <1>1, Zenon DEF Follows, WireOf, OwedIn, PieceOf

LEMMA FlowNext ==
    ASSUME NEW f, snifferTool' = snifferTool, FlowOK(f)
    PROVE  FlowOK(f)'
  BY DEF FlowOK, Sendable

(* A segment that was sent once and is captured once keeps a connection in flow.     *)
LEMMA ClientCaptured ==
    ASSUME SnifferShapes, NEW c \in Conn, InFlow(c), NEW k \in 1 .. 4,
           Capture(c, "client", k)
    PROVE  InFlow(c)'
  <1>1. PICK f \in Flow : FlowOK(f) /\ Follows(c, f)
    BY DEF InFlow
  <1> DEFINE w == WireOf(f).client
             y == WireOf(f).server
             line == Asked(f)
             from == f.captured
             n == 4 - f.captured
             to == f.captured + k
             h == Captured(f, to)
             units == Taken(w, k)
  <1>2. from \in 0 .. 4 /\ from \in Nat /\ n \in Nat /\ n = 4 - from /\ to = from + k
    BY DEF Flow
  <1>3. wire[c] = WireOf(f) /\ session[c] = SessionOf(f)
    BY <1>1, FollowsParts
  <1>4. w = PieceOf(line, from, n) /\ wire[c] = [client |-> w, server |-> y]
    BY <1>3 DEF WireOf
  <1>5. k <= Len(w)
    BY <1>3 DEF Capture
  <1> HIDE DEF w, y, line, from, n, units, h, to
  <1>6. /\ k \in Nat /\ k <= n /\ SegmentOf(Taken(w, k), line, from, k)
        /\ Left(w, k) = PieceOf(line, from + k, n - k)
    <2>1. from \in Nat /\ n \in Nat
      BY <1>2
    <2> QED
      BY <1>4, <1>5, <2>1, TakenParts
  <1>7. SegmentOf(units, Asked(f), f.captured, k)
    BY <1>6 DEF units, line, from
  <1>8. to \in 0 .. 4 /\ to = f.captured + k /\ h = Captured(f, to)
    BY <1>2, <1>6 DEF to, h
  <1>9. /\ h \in Flow /\ FlowOK(h)
         /\ Absorbed(c, units).session = SessionOf(h) /\ Absorbed(c, units).rows = rows
    <2>1. snifferTool \in {"ftp", "http"}
      BY DEF SnifferShapes
    <2>2. FlowOK(f) /\ session[c] = SessionOf(f) /\ k \in Nat
      BY <1>1, <1>3, <1>6
    <2> QED
      BY <1>7, <1>8, <2>1, <2>2, ClientUnits
  <1>10. session'[c] = SessionOf(h) /\ rows' = rows
    <2>1. OnPacket(c, units)
      BY <1>3 DEF Capture, units, w, Taken
    <2> QED
      BY <1>9, <2>1 DEF OnPacket, SnifferShapes
  <1>11. /\ h.captured = to /\ h.answered = f.answered /\ h.read = f.read
         /\ h.older = f.older /\ h.younger = f.younger
         /\ Asked(h) = Asked(f) /\ Replied(h) = Replied(f)
    <2>1. /\ h.captured = to /\ h.answered = f.answered /\ h.read = f.read
          /\ h.older = f.older /\ h.younger = f.younger
      BY <1>8, FlowParts DEF h
    <2>2. Asked(h) = Asked(f) /\ Replied(h) = Replied(f)
      BY <1>8, FlowMoves DEF h
    <2> QED
      BY <2>1, <2>2
  <1>12. wire'[c] = WireOf(h)
    <2> DEFINE left == Left(w, k)
    <2>1. wire' = [wire EXCEPT ![c]["client"] = left]
      BY <1>3 DEF Capture, w, Left
    <2>2. left = PieceOf(Asked(h), h.captured, 4 - h.captured)
      <3>1. from + k = to /\ n - k = 4 - to
        BY <1>2, <1>6
      <3>2. left = PieceOf(line, to, 4 - to)
        BY <1>6, <3>1
      <3> QED
        BY <1>11, <3>2 DEF line
    <2>3. y = PieceOf(Replied(h), h.read, 2 * h.answered - h.read)
      BY <1>11 DEF WireOf, y
    <2> HIDE DEF left
    <2>4. wire'[c] = [client |-> left, server |-> y]
      <3>1. wire'[c] = [wire[c] EXCEPT !["client"] = left]
        BY <2>1 DEF SnifferShapes
      <3>2. [[client |-> w, server |-> y] EXCEPT !["client"] = left] =
                [client |-> left, server |-> y]
        OBVIOUS
      <3> QED
        BY <1>4, <3>1, <3>2, Zenon
    <2> QED
      BY <2>2, <2>3, <2>4, Zenon DEF WireOf
  <1>13. /\ owed'[c] = OwedIn(h) /\ lastUser'[c] = UserAt(h, 2 * h.answered)
         /\ Unwritten(c, h) = Unwritten(c, f)
    <2>1. owed'[c] = OwedIn(f) /\ lastUser'[c] = UserAt(f, 2 * f.answered)
      BY <1>1, FollowsParts DEF Capture
    <2>2. OwedIn(h) = OwedIn(f)
      BY <1>11 DEF OwedIn
    <2>3. h.user = f.user /\ h.first = f.first /\ h.second = f.second
      BY <1>8, FlowParts DEF h
    <2>4. \A i : UserAt(h, i) = UserAt(f, i)
      BY <1>11, <2>3 DEF UserAt
    <2>5. Row(c, h, 1) = Row(c, f, 1) /\ Row(c, h, 2) = Row(c, f, 2)
      BY <1>11, <2>3, <2>4 DEF Row, Attempt
    <2>6. Unwritten(c, h) = Unwritten(c, f)
      BY <1>11, <2>5 DEF Unwritten
    <2> QED
      BY <1>11, <2>1, <2>2, <2>4, <2>6
  <1>14. OfConn(c, judged') = OfConn(c, rows') \cup Unwritten(c, h)
    <2>1. judged' = judged
      BY DEF Capture
    <2>2. OfConn(c, judged) = OfConn(c, rows) \cup Unwritten(c, f)
      BY <1>1, FollowsParts
    <2> QED
      BY <1>10, <1>13, <2>1, <2>2
  <1>15. snifferTool' = snifferTool
    BY DEF Capture
  <1>16. Follows(c, h)'
    BY <1>10, <1>12, <1>13, <1>14, <1>15, FollowsNext
  <1> QED
    BY <1>9, <1>15, <1>16, FlowNext DEF InFlow

LEMMA ServerCaptured ==
    ASSUME SnifferShapes, NEW c \in Conn, InFlow(c), NEW k \in 1 .. 4,
           Capture(c, "server", k)
    PROVE  InFlow(c)'
  <1>1. PICK f \in Flow : FlowOK(f) /\ Follows(c, f)
    BY DEF InFlow
  <1> DEFINE w == WireOf(f).server
             x == WireOf(f).client
             line == Replied(f)
             from == f.read
             all == 2 * f.answered
             n == 2 * f.answered - f.read
             to == f.read + k
             h == Read(f, to)
             units == Taken(w, k)
  <1>2. /\ from \in 0 .. 4 /\ from \in Nat /\ all \in 0 .. 4 /\ n \in Nat
        /\ n = all - from /\ to = from + k
    <2>1. f.read \in 0 .. 4 /\ f.answered \in 0 .. 2 /\ f.read <= 2 * f.answered
      BY <1>1 DEF Flow, FlowOK
    <2> QED
      BY <2>1
  <1>3. wire[c] = WireOf(f) /\ session[c] = SessionOf(f)
    BY <1>1, FollowsParts
  <1>4. w = PieceOf(line, from, n) /\ wire[c] = [client |-> x, server |-> w]
    BY <1>3 DEF WireOf
  <1>5. k <= Len(w)
    BY <1>3 DEF Capture
  <1> HIDE DEF w, x, line, from, all, n, units, h, to
  <1>6. /\ k \in Nat /\ k <= n /\ SegmentOf(Taken(w, k), line, from, k)
        /\ Left(w, k) = PieceOf(line, from + k, n - k)
    <2>1. from \in Nat /\ n \in Nat
      BY <1>2
    <2> QED
      BY <1>4, <1>5, <2>1, TakenParts
  <1>7. SegmentOf(units, Replied(f), f.read, k)
    BY <1>6 DEF units, line, from
  <1>8. /\ to \in 0 .. 4 /\ to = f.read + k /\ to <= 2 * f.answered /\ h = Read(f, to)
    <2>1. to \in 0 .. 4 /\ to <= all
      BY <1>2, <1>6
    <2> QED
      BY <2>1 DEF to, h, all
  <1>9. /\ h \in Flow /\ FlowOK(h)
         /\ Absorbed(c, units).session = SessionOf(h)
         /\ OfConn(c, Absorbed(c, units).rows) \cup Unwritten(c, h) =
                OfConn(c, rows) \cup Unwritten(c, f)
    <2>1. FlowOK(f) /\ session[c] = SessionOf(f) /\ Fits(f, k, to)
      BY <1>1, <1>3, <1>6, <1>8 DEF Fits
    <2>2. /\ Read(f, to) \in Flow /\ FlowOK(Read(f, to))
          /\ Absorbed(c, units).session = SessionOf(Read(f, to))
          /\ Balance(c, Absorbed(c, units).rows, Read(f, to)) = Balance(c, rows, f)
      BY <1>1, <1>7, <2>1, ServerUnits
    <2> QED
      BY <1>8, <2>2 DEF Balance
  <1>10. /\ session'[c] = SessionOf(h)
         /\ OfConn(c, rows') \cup Unwritten(c, h) = OfConn(c, rows) \cup Unwritten(c, f)
    <2>1. OnPacket(c, units)
      BY <1>3 DEF Capture, units, w, Taken
    <2>2. session'[c] = Absorbed(c, units).session /\ rows' = Absorbed(c, units).rows
      BY <2>1 DEF OnPacket, SnifferShapes
    <2> QED
      BY <1>9, <2>2
  <1>11. /\ h.captured = f.captured /\ h.answered = f.answered /\ h.read = to
         /\ h.older = f.older /\ h.younger = f.younger /\ h.user = f.user
         /\ Asked(h) = Asked(f) /\ Replied(h) = Replied(f)
    <2>1. /\ h.captured = f.captured /\ h.answered = f.answered /\ h.read = to
          /\ h.older = f.older /\ h.younger = f.younger /\ h.user = f.user
      BY <1>8, FlowParts DEF h
    <2>2. Asked(h) = Asked(f) /\ Replied(h) = Replied(f)
      BY <1>8, FlowMoves DEF h
    <2> QED
      BY <2>1, <2>2
  <1>12. wire'[c] = WireOf(h)
    <2> DEFINE left == Left(w, k)
    <2>1. wire' = [wire EXCEPT ![c]["server"] = left]
      BY <1>3 DEF Capture, w, Left
    <2>2. left = PieceOf(Replied(h), h.read, 2 * h.answered - h.read)
      <3>1. from + k = to /\ n - k = all - to
        BY <1>2, <1>6
      <3>2. left = PieceOf(line, to, all - to)
        BY <1>6, <3>1
      <3>3. h.read = to /\ Replied(h) = line /\ all = 2 * h.answered
        BY <1>11 DEF line, all
      <3> QED
        BY <3>2, <3>3
    <2>3. x = PieceOf(Asked(h), h.captured, 4 - h.captured)
      BY <1>11 DEF WireOf, x
    <2> HIDE DEF left
    <2>4. wire'[c] = [client |-> x, server |-> left]
      <3>1. wire'[c] = [wire[c] EXCEPT !["server"] = left]
        BY <2>1 DEF SnifferShapes
      <3>2. [[client |-> x, server |-> w] EXCEPT !["server"] = left] =
                [client |-> x, server |-> left]
        OBVIOUS
      <3> QED
        BY <1>4, <3>1, <3>2, Zenon
    <2> QED
      BY <2>2, <2>3, <2>4, Zenon DEF WireOf
  <1>13. owed'[c] = OwedIn(h) /\ lastUser'[c] = UserAt(h, 2 * h.answered)
    <2>1. owed'[c] = OwedIn(f) /\ lastUser'[c] = UserAt(f, 2 * f.answered)
      BY <1>1, FollowsParts DEF Capture
    <2>2. OwedIn(h) = OwedIn(f)
      BY <1>11 DEF OwedIn
    <2>3. \A i : UserAt(h, i) = UserAt(f, i)
      BY <1>11 DEF UserAt
    <2> QED
      BY <1>11, <2>1, <2>2, <2>3
  <1>14. OfConn(c, judged') = OfConn(c, rows') \cup Unwritten(c, h)
    <2>1. judged' = judged
      BY DEF Capture
    <2>2. OfConn(c, judged) = OfConn(c, rows) \cup Unwritten(c, f)
      BY <1>1, FollowsParts
    <2> QED
      BY <1>10, <2>1, <2>2
  <1>15. snifferTool' = snifferTool
    BY DEF Capture
  <1>16. Follows(c, h)'
    BY <1>10, <1>12, <1>13, <1>14, <1>15, FollowsNext
  <1> QED
    BY <1>9, <1>15, <1>16, FlowNext DEF InFlow

(* When a client sends, all replies have been captured: its younger message becomes  *)
(* the older one.                                                                    *)
Onward(f, m) ==
    [older |-> f.younger, younger |-> m, user |-> After(f.user, f.older),
     first |-> f.second, second |-> "none",
     captured |-> f.captured - 2, answered |-> f.answered - 1, read |-> f.read - 2]

LEMMA OnwardParts ==
    ASSUME NEW f \in Flow, FlowOK(f), f.answered \in {1, 2}, f.read = 2 * f.answered,
           NEW m \in Sent, Sendable(m), NEW c
    PROVE  /\ Onward(f, m) \in Flow /\ FlowOK(Onward(f, m))
           /\ SessionOf(Onward(f, m)) = SessionOf(f)
           /\ Unwritten(c, f) = {} /\ Unwritten(c, Onward(f, m)) = {}
           /\ UserAt(Onward(f, m), 2 * Onward(f, m).answered) = UserAt(f, 2 * f.answered)
  <1> DEFINE g == Onward(f, m)
             b == f.younger
             u == After(f.user, f.older)
  <1>1. /\ g.older = b /\ g.younger = m /\ g.user = u /\ g.first = f.second
        /\ g.second = "none" /\ g.captured = f.captured - 2
        /\ g.answered = f.answered - 1 /\ g.read = f.read - 2
    BY DEF Onward
  <1>2. /\ f.captured \in 2 .. 4 /\ f.answered \in {1, 2} /\ f.read \in {2, 4}
        /\ f.older \in Sent /\ b \in Sent /\ Sendable(b)
        /\ f.answered = 1 => f.read = 2
        /\ f.answered = 2 => f.read = 4 /\ f.captured = 4 /\ (Login(b) <=> f.second # "none")
        /\ f.user \in User \cup {Nobody} /\ f.second \in Verdict
    BY DEF Flow, FlowOK
  <1>3. /\ g.captured \in 0 .. 2 /\ g.answered \in 0 .. 1 /\ g.read \in {0, 2}
        /\ g.read = 2 * g.answered /\ 2 * g.answered <= g.captured
    BY <1>1, <1>2
  <1>4. g \in Flow
    <2>1. u \in User \cup {Nobody}
      BY <1>2 DEF After, Sent
    <2>2. f.captured - 2 \in 0 .. 4 /\ f.answered - 1 \in 0 .. 2 /\ f.read - 2 \in 0 .. 4
      BY <1>2
    <2> HIDE DEF u
    <2>3. "none" \in Verdict
      BY DEF Verdict
    <2> QED
      BY <1>2, <2>1, <2>2, <2>3 DEF Flow, Onward, u
  <1> HIDE DEF g
  <1>5. FlowOK(g)
    <2>1. g.answered >= 1 => f.answered = 2
      BY <1>1, <1>2
    <2>2. ~ (g.answered >= 2)
      BY <1>3
    <2>3. g.answered >= 1 => (Login(g.older) <=> g.first # "none")
      BY <1>1, <1>2, <2>1
    <2>4. g.read <= 2 * g.answered
      BY <1>3
    <2> QED
      BY <1>1, <1>2, <1>3, <2>2, <2>3, <2>4 DEF FlowOK
  <1>6. /\ UserAt(g, 0) = u /\ UserAt(g, 1) = u
        /\ UserAt(g, 2) = After(u, b)
        /\ UserAt(f, 2) = u /\ UserAt(f, 3) = u /\ UserAt(f, 4) = After(u, b)
    BY <1>1 DEF UserAt
  <1>7. /\ UserAt(g, g.captured) = UserAt(f, f.captured)
        /\ UserAt(g, 2 * g.answered) = UserAt(f, 2 * f.answered)
    <2>1. \/ f.captured = 2 /\ g.captured = 0
          \/ f.captured = 3 /\ g.captured = 1
          \/ f.captured = 4 /\ g.captured = 2
      BY <1>1, <1>2
    <2>2. \/ 2 * f.answered = 2 /\ 2 * g.answered = 0
          \/ 2 * f.answered = 4 /\ 2 * g.answered = 2
      BY <1>1, <1>2
    <2>3. UserAt(g, g.captured) = UserAt(f, f.captured)
      BY <1>6, <2>1, Zenon
    <2>4. UserAt(g, 2 * g.answered) = UserAt(f, 2 * f.answered)
      BY <1>6, <2>2, Zenon
    <2> QED
      BY <2>3, <2>4
  <1>8. Unjudged(g) = Unjudged(f)
    <2>1. Attempt(g, 1) = Attempt(f, 2)
      BY <1>1, <1>6 DEF Attempt
    <2>2. /\ ~ (f.read < 2) /\ ~ (g.captured >= 4)
          /\ g.captured >= 2 /\ g.read < 2 <=> f.captured >= 4 /\ f.read < 4
      BY <1>1, <1>2, <1>3
    <2>3. Unjudged(f) = IF Login(b) /\ f.captured >= 4 /\ f.read < 4 THEN <<Attempt(f, 2)>>
                        ELSE <<>>
      BY <2>2, OneOrTwo DEF Unjudged
    <2>4. Unjudged(g) = IF Login(b) /\ g.captured >= 2 /\ g.read < 2 THEN <<Attempt(g, 1)>>
                        ELSE <<>>
      BY <1>1, <2>2, OneOrTwo DEF Unjudged
    <2> QED
      BY <2>1, <2>2, <2>3, <2>4
  <1>9. Begun(Asked(g), g.captured) = Begun(Asked(f), f.captured)
    <2>1. Asked(f) = Line(f.older, b) /\ Asked(g) = Line(b, m)
      BY <1>1 DEF Asked
    <2>2. /\ Begun(Asked(f), 2) = <<>> /\ Begun(Asked(f), 4) = <<>>
          /\ Begun(Asked(f), 3) = <<First(b)>>
      BY <2>1, LineParts
    <2>3. /\ Begun(Asked(g), 0) = <<>> /\ Begun(Asked(g), 2) = <<>>
          /\ Begun(Asked(g), 1) = <<First(b)>>
      BY <2>1, LineParts
    <2>4. \/ f.captured = 2 /\ g.captured = 0
          \/ f.captured = 3 /\ g.captured = 1
          \/ f.captured = 4 /\ g.captured = 2
      BY <1>1, <1>2
    <2> QED
      BY <2>2, <2>3, <2>4, Zenon
  <1>10. Begun(Replied(g), g.read) = <<>> /\ Begun(Replied(f), f.read) = <<>>
    BY <1>2, <1>3 DEF Begun
  <1>11. SessionOf(g) = SessionOf(f)
    BY <1>7, <1>8, <1>9, <1>10, Zenon DEF SessionOf
  <1>12. Unwritten(c, f) = {}
    <2>1. ~ (f.read < 2) /\ ~ (f.answered >= 2 /\ f.read < 4)
      BY <1>2
    <2> QED
      BY <2>1 DEF Unwritten
  <1>13. Unwritten(c, g) = {}
    <2>1. ~ (g.answered >= 2) /\ ~ (g.answered >= 1 /\ g.read < 2)
      BY <1>3
    <2> QED
      BY <2>1 DEF Unwritten
  <1> QED
    BY <1>4, <1>5, <1>7, <1>11, <1>12, <1>13 DEF g

\* A piece of one line, and a message after it, is a piece of another line.
Joins(line, from, next, to, n, m) ==
    /\ \A i \in 1 .. n : next[to + i] = line[from + i]
    /\ next[to + (n + 1)] = First(m) /\ next[to + (n + 2)] = Second(m)

\* Another message on the wire.
With(w, m) == w \o Units(m)

LEMMA JoinPiece ==
    ASSUME NEW line, NEW from \in Nat, NEW n \in Nat, NEW next, NEW to \in Nat, NEW m,
           Joins(line, from, next, to, n, m)
    PROVE  With(PieceOf(line, from, n), m) = PieceOf(next, to, n + 2)
  <1> DEFINE w == PieceOf(line, from, n)
             t == w \o Units(m)
             k == n + 2
  <1>1. HasUnits(w, n) /\ \A i \in 1 .. n : w[i] = line[from + i]
    <2>1. \A i \in 1 .. n : w[i] = line[from + i]
      BY DEF PieceOf
    <2>2. HasUnits(w, n)
      BY Zenon DEF HasUnits, PieceOf
    <2> QED
      BY <2>1, <2>2
  <1> HIDE DEF w
  <1>2. /\ HasUnits(t, k) /\ \A i \in 1 .. n : t[i] = w[i]
        /\ t[n + 1] = First(m) /\ t[n + 2] = Second(m)
    <2>1. Joined(t, w, n, m)
      BY <1>1, JoinParts
    <2> QED
      BY <2>1, Zenon DEF Joined
  <1> HIDE DEF t
  <1>3. \A i \in 1 .. k : i \in 1 .. n \/ i = n + 1 \/ i = n + 2
    OBVIOUS
  <1>4. /\ \A i \in 1 .. n : next[to + i] = line[from + i]
        /\ next[to + (n + 1)] = First(m) /\ next[to + (n + 2)] = Second(m)
    BY DEF Joins
  <1>5. \A i \in 1 .. k : t[i] = next[to + i]
    <2> SUFFICES ASSUME NEW i \in 1 .. k PROVE t[i] = next[to + i]
      OBVIOUS
    <2>1. CASE i \in 1 .. n
      BY <1>1, <1>2, <1>4, <2>1, Zenon
    <2>2. CASE i = n + 1
      BY <1>2, <1>4, <2>2, Zenon
    <2>3. CASE i = n + 2
      BY <1>2, <1>4, <2>3, Zenon
    <2> QED
      BY <1>3, <2>1, <2>2, <2>3
  <1> HIDE DEF k
  <1>6. t = [i \in 1 .. k |-> t[i]]
    BY <1>2, Zenon DEF HasUnits
  <1>7. t = PieceOf(next, to, k)
    BY <1>5, <1>6, Zenon DEF PieceOf
  <1> QED
    BY <1>7 DEF t, w, k, With

LEMMA EmptyPiece ==
    ASSUME NEW line, NEW from, NEW n \in Nat
    PROVE  PieceOf(line, from, n) = <<>> <=> n = 0
  <1>1. ASSUME n = 0 PROVE PieceOf(line, from, n) = <<>>
    BY <1>1 DEF PieceOf
  <1>2. ASSUME n # 0 PROVE PieceOf(line, from, n) # <<>>
    <2>1. 1 \in DOMAIN PieceOf(line, from, n)
      BY <1>2 DEF PieceOf
    <2>2. 1 \notin DOMAIN <<>>
      OBVIOUS
    <2> QED
      BY <2>1, <2>2
  <1> QED
    BY <1>1, <1>2

LEMMA RequestParts ==
    ASSUME NEW k \in Nat, NEW m \in Request(k), snifferTool \in {"ftp", "http"}
    PROVE  m \in Sent /\ Sendable(m) /\ m.id = k
  <1>1. Nobody \notin User
    BY SnifferAssumption
  <1>2. \/ m = [from |-> "client", id |-> k, type |-> "other", user |-> Nobody]
        \/ snifferTool = "ftp" /\ \E u \in User :
               m = [from |-> "client", id |-> k, type |-> "user", user |-> u]
        \/ /\ snifferTool = "ftp"
           /\ m = [from |-> "client", id |-> k, type |-> "pass", user |-> Nobody]
        \/ snifferTool # "ftp" /\ \E u \in User :
               m = [from |-> "client", id |-> k, type |-> "post", user |-> u]
    BY DEF Request
  <1>3. CASE m = [from |-> "client", id |-> k, type |-> "other", user |-> Nobody]
    BY <1>1, <1>3 DEF Sent, Sendable
  <1>4. ASSUME snifferTool = "ftp", NEW u \in User,
               m = [from |-> "client", id |-> k, type |-> "user", user |-> u]
        PROVE  m \in Sent /\ Sendable(m) /\ m.id = k
    BY <1>1, <1>4 DEF Sent, Sendable
  <1>5. CASE /\ snifferTool = "ftp"
             /\ m = [from |-> "client", id |-> k, type |-> "pass", user |-> Nobody]
    BY <1>1, <1>5 DEF Sent, Sendable
  <1>6. ASSUME snifferTool # "ftp", NEW u \in User,
               m = [from |-> "client", id |-> k, type |-> "post", user |-> u]
        PROVE  m \in Sent /\ Sendable(m) /\ m.id = k
    BY <1>1, <1>6 DEF Sent, Sendable
  <1> QED
    BY <1>2, <1>3, <1>4, <1>5, <1>6

LEMMA PairParts ==
    ASSUME NEW one, NEW two
    PROVE  /\ Append(<<one>>, two) = <<one, two>> /\ Append(<<>>, two) = <<two>>
           /\ Head(<<one, two>>) = one /\ Tail(<<one, two>>) = <<two>>
  <1>1. Append(<<one>>, two) = <<one, two>>
    BY PairIs
  <1>2. Append(<<one>>, two) = <<one>> \o <<two>> /\ Append(<<>>, two) = <<two>>
    BY OneOrTwo
  <1>3. Head(<<one>> \o <<two>>) = one /\ Tail(<<one>> \o <<two>>) = <<two>>
    BY OneOrTwo
  <1> QED
    BY <1>1, <1>2, <1>3

(* A message of the client keeps a connection in flow.                              *)
LEMMA ClientSent ==
    ASSUME SnifferShapes, NEW c \in Conn, InFlow(c), NEW m \in Request(sentCount[c] + 1),
           ClientSends(c, m)
    PROVE  InFlow(c)'
  <1>1. PICK f \in Flow : FlowOK(f) /\ Follows(c, f)
    BY DEF InFlow
  <1>2. m \in Sent /\ Sendable(m)
    <2>1. sentCount[c] + 1 \in Nat /\ snifferTool \in {"ftp", "http"}
      BY DEF SnifferShapes
    <2> QED
      BY <2>1, RequestParts
  <1> DEFINE x == WireOf(f).client
             y == WireOf(f).server
             g == Onward(f, m)
             unread == 2 * f.answered - f.read
  <1>3. /\ wire[c] = WireOf(f) /\ owed[c] = OwedIn(f)
        /\ lastUser[c] = UserAt(f, 2 * f.answered) /\ session[c] = SessionOf(f)
        /\ OfConn(c, judged) = OfConn(c, rows) \cup Unwritten(c, f)
    BY <1>1, FollowsParts
  <1>4. /\ f.captured \in 0 .. 4 /\ f.answered \in 0 .. 2 /\ f.read \in 0 .. 4
        /\ unread \in Nat /\ 2 * f.answered <= f.captured /\ f.older \in Sent
    BY <1>1 DEF Flow, FlowOK
  <1>5. wire[c].server = <<>> /\ y = PieceOf(Replied(f), f.read, unread)
    BY DEF ClientSends, WireOf
  <1>6. f.read = 2 * f.answered
    <2>1. unread = 0
      BY <1>3, <1>4, <1>5, EmptyPiece
    <2> QED
      BY <1>4, <2>1
  <1>7. f.answered \in {1, 2}
    <2>1. ASSUME f.answered = 0 PROVE FALSE
      <3>1. owed[c] = <<f.older, f.younger>>
        BY <1>3, <2>1 DEF OwedIn
      <3>2. Len(owed[c]) = 2
        BY <3>1
      <3> QED
        BY <3>2 DEF ClientSends
    <2> QED
      BY <1>4, <2>1
  <1> HIDE DEF g, unread
  <1>8. /\ g \in Flow /\ FlowOK(g) /\ SessionOf(g) = SessionOf(f)
        /\ Unwritten(c, f) = {} /\ Unwritten(c, g) = {}
        /\ UserAt(g, 2 * g.answered) = UserAt(f, 2 * f.answered)
    BY <1>1, <1>2, <1>6, <1>7, OnwardParts DEF g
  <1>9. /\ g.older = f.younger /\ g.younger = m /\ g.captured = f.captured - 2
        /\ g.answered = f.answered - 1 /\ g.read = f.read - 2
    BY DEF g, Onward
  <1>10. wire'[c] = WireOf(g)
    <2> DEFINE from == f.captured
               to == g.captured
               n == 4 - f.captured
               t == x \o Units(m)
    <2>1. /\ from \in 2 .. 4 /\ n \in Nat /\ to \in Nat /\ to = from - 2 /\ n = 4 - from
          /\ n + 2 = 4 - g.captured
      BY <1>4, <1>7, <1>9
    <2>2. x = PieceOf(Asked(f), from, n)
      BY DEF WireOf
    <2>3. Joins(Asked(f), from, Asked(g), to, n, m)
      <3>1. /\ Asked(f)[3] = First(f.younger) /\ Asked(f)[4] = Second(f.younger)
        BY LineParts DEF Asked
      <3>2. /\ Asked(g)[1] = First(f.younger) /\ Asked(g)[2] = Second(f.younger)
            /\ Asked(g)[3] = First(m) /\ Asked(g)[4] = Second(m)
        BY <1>9, LineParts DEF Asked
      <3> HIDE DEF from, to, n
      <3>3. to + (n + 1) = 3 /\ to + (n + 2) = 4
        BY <2>1
      <3>4. ASSUME NEW i \in 1 .. n PROVE Asked(g)[to + i] = Asked(f)[from + i]
        <4>1. \/ from + i = 3 /\ to + i = 1
              \/ from + i = 4 /\ to + i = 2
          BY <2>1
        <4> QED
          BY <3>1, <3>2, <4>1
      <3> QED
        BY <3>2, <3>3, <3>4 DEF Joins
    <2> HIDE DEF from, to, n
    <2>4. With(PieceOf(Asked(f), from, n), m) = PieceOf(Asked(g), to, n + 2)
      <3>1. from \in Nat /\ n \in Nat /\ to \in Nat
        BY <2>1
      <3> QED
        BY <2>3, <3>1, JoinPiece
    <2>5. t = PieceOf(Asked(g), g.captured, 4 - g.captured)
      BY <2>1, <2>2, <2>4 DEF to, With
    <2>6. y = PieceOf(Replied(g), g.read, 2 * g.answered - g.read)
      <3>1. y = <<>>
        BY <1>3, <1>5
      <3>2. 2 * g.answered - g.read = 0
        BY <1>4, <1>6, <1>7, <1>9
      <3>3. PieceOf(Replied(g), g.read, 0) = <<>>
        BY EmptyPiece
      <3> QED
        BY <3>1, <3>2, <3>3
    <2>7. wire' = [wire EXCEPT ![c]["client"] = t] /\ wire[c] = [client |-> x, server |-> y]
      <3>1. wire[c].client = x
        BY <1>3
      <3> QED
        BY <1>3, <3>1 DEF ClientSends, WireOf
    <2> HIDE DEF t, x, y
    <2>8. wire'[c] = [client |-> t, server |-> y]
      <3>1. wire'[c] = [wire[c] EXCEPT !["client"] = t]
        BY <2>7 DEF SnifferShapes
      <3>2. [[client |-> x, server |-> y] EXCEPT !["client"] = t] =
                [client |-> t, server |-> y]
        OBVIOUS
      <3> QED
        BY <2>7, <3>1, <3>2, Zenon
    <2> QED
      BY <2>5, <2>6, <2>8, Zenon DEF WireOf
  <1>11. owed'[c] = OwedIn(g)
    <2>1. owed'[c] = Append(owed[c], m)
      BY DEF ClientSends, SnifferShapes
    <2>2. CASE f.answered = 1
      <3>1. owed[c] = <<f.younger>> /\ OwedIn(g) = <<f.younger, m>>
        BY <1>3, <1>9, <2>2 DEF OwedIn
      <3> QED
        BY <2>1, <3>1, PairParts, Zenon
    <2>3. CASE f.answered = 2
      <3>1. owed[c] = <<>> /\ OwedIn(g) = <<m>>
        BY <1>3, <1>9, <2>3 DEF OwedIn
      <3> QED
        BY <2>1, <3>1, PairParts, Zenon
    <2> QED
      BY <1>7, <2>2, <2>3
  <1>12. /\ lastUser'[c] = UserAt(g, 2 * g.answered) /\ session'[c] = SessionOf(g)
         /\ OfConn(c, judged') = OfConn(c, rows') \cup Unwritten(c, g)
    BY <1>3, <1>8 DEF ClientSends
  <1>13. snifferTool' = snifferTool
    BY DEF ClientSends
  <1>14. Follows(c, g)'
    BY <1>10, <1>11, <1>12, <1>13, FollowsNext
  <1> QED
    BY <1>8, <1>13, <1>14, FlowNext DEF InFlow

(* The answer of the server to the oldest message that it has not answered.         *)
Asking(f) == IF f.answered = 0 THEN f.older ELSE f.younger
Answer(f, verdict) ==
    [older |-> f.older, younger |-> f.younger, user |-> f.user,
     first |-> IF f.answered = 0 THEN verdict ELSE f.first,
     second |-> IF f.answered = 0 THEN f.second ELSE verdict,
     captured |-> f.captured, answered |-> f.answered + 1, read |-> f.read]

LEMMA AnswerParts ==
    ASSUME NEW f \in Flow, FlowOK(f), f.answered \in {0, 1},
           2 * f.answered + 2 <= f.captured, NEW verdict \in Verdict,
           Login(Asking(f)) <=> verdict # "none"
    PROVE  /\ Answer(f, verdict) \in Flow /\ FlowOK(Answer(f, verdict))
           /\ SessionOf(Answer(f, verdict)) = SessionOf(f)
  <1> DEFINE g == Answer(f, verdict)
  <1>1. /\ g.older = f.older /\ g.younger = f.younger /\ g.user = f.user
        /\ g.first = (IF f.answered = 0 THEN verdict ELSE f.first)
        /\ g.second = (IF f.answered = 0 THEN f.second ELSE verdict)
        /\ g.captured = f.captured /\ g.answered = f.answered + 1 /\ g.read = f.read
    BY DEF Answer
  <1>2. /\ f.captured \in 0 .. 4 /\ f.read \in 0 .. 4 /\ f.read <= 2 * f.answered
        /\ f.older \in Sent /\ f.younger \in Sent /\ f.user \in User \cup {Nobody}
        /\ f.first \in Verdict /\ f.second \in Verdict
    BY DEF Flow, FlowOK
  <1>3. g \in Flow
    <2>1. f.answered + 1 \in 0 .. 2
      OBVIOUS
    <2> QED
      BY <1>2, <2>1 DEF Flow, Answer
  <1> HIDE DEF g
  <1>4. FlowOK(g)
    <2>1. g.answered \in {1, 2} /\ (g.answered = 1 <=> f.answered = 0)
      BY <1>1
    <2>2. g.read <= 2 * g.answered /\ 2 * g.answered <= g.captured
      BY <1>1, <1>2
    <2>3. Sendable(g.older) /\ Sendable(g.younger)
      BY <1>1 DEF FlowOK
    <2>4. Login(g.older) <=> g.first # "none"
      BY <1>1 DEF FlowOK, Asking
    <2>5. g.answered >= 2 => (Login(g.younger) <=> g.second # "none")
      BY <1>1, <2>1 DEF Asking
    <2> QED
      BY <2>2, <2>3, <2>4, <2>5 DEF FlowOK
  <1>5. \A i : UserAt(g, i) = UserAt(f, i)
    BY <1>1 DEF UserAt
  <1>6. Attempt(g, 1) = Attempt(f, 1) /\ Attempt(g, 2) = Attempt(f, 2)
    BY <1>1, <1>5 DEF Attempt
  <1>7. Unjudged(g) = Unjudged(f)
    BY <1>1, <1>6, Zenon DEF Unjudged
  <1>8. Begun(Replied(g), g.read) = Begun(Replied(f), f.read)
    <2> DEFINE one == Reply(f.older, f.first)
               two == Reply(f.younger, f.second)
               new == Reply(g.younger, g.second)
    <2>1. CASE f.read \in {0, 2, 4}
      BY <1>1, <2>1, LineParts DEF Replied
    <2>2. CASE f.read = 1
      <3>1. f.answered = 1
        BY <1>2, <2>2
      <3>2. Replied(f) = Line(one, two) /\ Replied(g) = Line(one, new)
        BY <1>1, <3>1 DEF Replied
      <3>3. Begun(Replied(f), 1) = <<First(one)>> /\ Begun(Replied(g), 1) = <<First(one)>>
        BY <3>2, LineParts
      <3> QED
        BY <1>1, <2>2, <3>3
    <2>3. f.read # 3
      BY <1>2
    <2> QED
      BY <1>2, <2>1, <2>2, <2>3
  <1>9. Begun(Asked(g), g.captured) = Begun(Asked(f), f.captured)
    BY <1>1 DEF Asked
  <1>10. SessionOf(g) = SessionOf(f)
    BY <1>1, <1>5, <1>7, <1>8, <1>9, Zenon DEF SessionOf
  <1> QED
    BY <1>3, <1>4, <1>10 DEF g

LEMMA AnswerWrites ==
    ASSUME NEW f \in Flow, FlowOK(f), f.answered \in {0, 1}, NEW verdict \in Verdict,
           NEW c
    PROVE  LET g == Answer(f, verdict)
           IN  Unwritten(c, g) = Unwritten(c, f) \cup
                   IF Login(Asking(f))
                   THEN {[conn |-> c, id |-> Asking(f).id,
                          user |-> After(UserAt(f, 2 * f.answered), Asking(f)),
                          result |-> verdict]}
                   ELSE {}
  <1> DEFINE g == Answer(f, verdict)
             row == [conn |-> c, id |-> Asking(f).id,
                     user |-> After(UserAt(f, 2 * f.answered), Asking(f)),
                     result |-> verdict]
  <1>1. /\ g.older = f.older /\ g.younger = f.younger /\ g.user = f.user
        /\ g.first = (IF f.answered = 0 THEN verdict ELSE f.first)
        /\ g.second = (IF f.answered = 0 THEN f.second ELSE verdict)
        /\ g.answered = f.answered + 1 /\ g.read = f.read
    BY DEF Answer
  <1>2. f.read \in 0 .. 4 /\ f.read <= 2 * f.answered
    BY DEF Flow, FlowOK
  <1> HIDE DEF g
  <1>3. /\ UserAt(f, 0) = f.user /\ UserAt(f, 2) = After(f.user, f.older)
        /\ UserAt(f, 4) = After(After(f.user, f.older), f.younger)
        /\ UserAt(g, 2) = UserAt(f, 2) /\ UserAt(g, 4) = UserAt(f, 4)
    BY <1>1 DEF UserAt
  <1>4. CASE f.answered = 0
    <2>1. Row(c, g, 1) = row
      BY <1>1, <1>3, <1>4 DEF Row, Attempt, Asking
    <2>2. /\ g.answered >= 1 /\ g.read < 2 /\ ~ (g.answered >= 2)
          /\ ~ (f.answered >= 1) /\ ~ (f.answered >= 2)
      BY <1>1, <1>2, <1>4
    <2>3. Unwritten(c, g) = IF Login(f.older) THEN {row} ELSE {}
      BY <1>1, <2>1, <2>2 DEF Unwritten
    <2>4. Unwritten(c, f) = {} /\ Asking(f) = f.older
      BY <1>4, <2>2 DEF Unwritten, Asking
    <2> QED
      BY <2>3, <2>4 DEF g
  <1>5. CASE f.answered = 1
    <2>1. Row(c, g, 2) = row /\ Row(c, g, 1) = Row(c, f, 1)
      BY <1>1, <1>3, <1>5 DEF Row, Attempt, Asking
    <2>2. /\ g.answered >= 1 /\ g.read < 4 /\ g.answered >= 2
          /\ f.answered >= 1 /\ ~ (f.answered >= 2)
      BY <1>1, <1>2, <1>5
    <2>3. Unwritten(c, g) = (IF Login(f.older) /\ f.read < 2 THEN {Row(c, f, 1)} ELSE {})
                            \cup (IF Login(f.younger) THEN {row} ELSE {})
      BY <1>1, <2>1, <2>2 DEF Unwritten
    <2>4. /\ Unwritten(c, f) = IF Login(f.older) /\ f.read < 2 THEN {Row(c, f, 1)} ELSE {}
          /\ Asking(f) = f.younger
      BY <1>5, <2>2 DEF Unwritten, Asking
    <2> QED
      BY <2>3, <2>4 DEF g
  <1> QED
    BY <1>4, <1>5

(* A server answers what it has seen whole.                                         *)
LEMMA AnswersWhole ==
    ASSUME NEW f \in Flow, FlowOK(f), f.answered \in {0, 1},
           \A i \in DOMAIN WireOf(f).client : WireOf(f).client[i].of # Asking(f)
    PROVE  2 * f.answered + 2 <= f.captured
  <1> DEFINE n == 4 - f.captured
             last == 2 * f.answered + 2
             i == last - f.captured
             w == PieceOf(Asked(f), f.captured, n)
  <1>1. f.captured \in 0 .. 4 /\ last \in {2, 4}
    BY DEF Flow
  <1>2. w = WireOf(f).client
    BY DEF WireOf
  <1>3. Asked(f)[last].of = Asking(f)
    <2>1. Asked(f)[2] = Second(f.older) /\ Asked(f)[4] = Second(f.younger)
      BY LineParts DEF Asked
    <2>2. CASE f.answered = 0
      BY <2>1, <2>2 DEF Second, Asking
    <2>3. CASE f.answered = 1
      BY <2>1, <2>3 DEF Second, Asking
    <2> QED
      BY <2>2, <2>3
  <1> HIDE DEF last
  <1>4. ASSUME f.captured < last PROVE FALSE
    <2>1. i \in 1 .. n /\ f.captured + i = last
      BY <1>1, <1>4
    <2> HIDE DEF i, n
    <2>2. i \in DOMAIN w /\ w[i] = Asked(f)[f.captured + i]
      BY <2>1 DEF PieceOf
    <2> HIDE DEF w
    <2> QED
      BY <1>2, <1>3, <2>1, <2>2
  <1>5. last <= f.captured
    BY <1>1, <1>4
  <1> QED
    BY <1>5 DEF last

LEMMA ServerReplied ==
    ASSUME SnifferShapes, NEW c \in Conn, InFlow(c), NEW verdict \in Verdict,
           ServerReplies(c, verdict), c \notin odd'
    PROVE  InFlow(c)'
  <1>1. PICK f \in Flow : FlowOK(f) /\ Follows(c, f)
    BY DEF InFlow
  <1> DEFINE x == WireOf(f).client
             y == WireOf(f).server
             g == Answer(f, verdict)
             m == Asking(f)
             reply == Reply(m, verdict)
  <1>2. /\ wire[c] = WireOf(f) /\ owed[c] = OwedIn(f)
        /\ lastUser[c] = UserAt(f, 2 * f.answered) /\ session[c] = SessionOf(f)
        /\ OfConn(c, judged) = OfConn(c, rows) \cup Unwritten(c, f)
    BY <1>1, FollowsParts
  <1>3. /\ f.captured \in 0 .. 4 /\ f.answered \in 0 .. 2 /\ f.read \in 0 .. 4
        /\ f.read <= 2 * f.answered
    BY <1>1 DEF Flow, FlowOK
  <1>4. f.answered \in {0, 1} /\ Head(owed[c]) = m /\ owed'[c] = OwedIn(g)
    <2>1. f.answered # 2
      BY <1>2 DEF ServerReplies, OwedIn
    <2>2. owed'[c] = Tail(owed[c])
      BY DEF ServerReplies, SnifferShapes
    <2>3. CASE f.answered = 0
      <3>1. owed[c] = <<f.older, f.younger>> /\ OwedIn(g) = <<f.younger>> /\ m = f.older
        BY <1>2, <2>3 DEF OwedIn, Answer, Asking
      <3> QED
        BY <2>2, <2>3, <3>1, PairParts
    <2>4. CASE f.answered = 1
      <3>1. owed[c] = <<f.younger>> /\ OwedIn(g) = <<>> /\ m = f.younger
        BY <1>2, <2>4 DEF OwedIn, Answer, Asking
      <3>2. Head(<<f.younger>>) = f.younger /\ Tail(<<f.younger>>) = <<>>
        BY OneOrTwo
      <3> QED
        BY <2>2, <2>4, <3>1, <3>2
    <2> QED
      BY <1>3, <2>1, <2>3, <2>4
  <1> HIDE DEF m, g, reply
  <1>5. Login(m) <=> verdict # "none"
    BY <1>4 DEF ServerReplies
  <1>6. 2 * f.answered + 2 <= f.captured
    <2>1. \A i \in DOMAIN WireOf(f).client : WireOf(f).client[i].of # m
      BY <1>2, <1>4 DEF ServerReplies
    <2> QED
      BY <1>1, <1>4, <2>1, AnswersWhole DEF m
  <1>7. g \in Flow /\ FlowOK(g) /\ SessionOf(g) = SessionOf(f)
    BY <1>1, <1>4, <1>5, <1>6, AnswerParts DEF g, m
  <1>8. /\ g.older = f.older /\ g.younger = f.younger /\ g.user = f.user
        /\ g.first = (IF f.answered = 0 THEN verdict ELSE f.first)
        /\ g.second = (IF f.answered = 0 THEN f.second ELSE verdict)
        /\ g.captured = f.captured /\ g.answered = f.answered + 1 /\ g.read = f.read
    BY DEF g, Answer
  <1>9. wire'[c] = WireOf(g)
    <2> DEFINE from == f.read
               n == 2 * f.answered - f.read
               t == y \o Units(reply)
    <2>1. from \in Nat /\ n \in Nat /\ n + 2 = 2 * g.answered - from
      BY <1>3, <1>4, <1>8
    <2>2. y = PieceOf(Replied(f), from, n)
      BY DEF WireOf
    <2>3. Joins(Replied(f), from, Replied(g), from, n, reply)
      <3> DEFINE one == Reply(f.older, f.first)
                 two == Reply(f.younger, f.second)
                 new == Reply(g.younger, g.second)
                 answered == Reply(g.older, g.first)
      <3>1. /\ Replied(f)[1] = First(one) /\ Replied(f)[2] = Second(one)
            /\ Replied(f)[3] = First(two) /\ Replied(f)[4] = Second(two)
        BY LineParts DEF Replied
      <3>2. /\ Replied(g)[1] = First(answered) /\ Replied(g)[2] = Second(answered)
            /\ Replied(g)[3] = First(new) /\ Replied(g)[4] = Second(new)
        BY LineParts DEF Replied
      <3>3. CASE f.answered = 0
        <4>1. reply = answered
          BY <1>8, <3>3 DEF reply, m, Asking
        <4>2. from = 0 /\ n = 0
          BY <1>3, <3>3
        <4> HIDE DEF from, n, answered
        <4>3. from + (n + 1) = 1 /\ from + (n + 2) = 2 /\ \A i \in 1 .. n : FALSE
          BY <4>2
        <4> QED
          BY <3>2, <4>1, <4>3 DEF Joins
      <3>4. CASE f.answered = 1
        <4>1. reply = new /\ one = answered
          BY <1>8, <3>4 DEF reply, m, Asking
        <4>2. from \in 0 .. 2 /\ n = 2 - from
          BY <1>3, <3>4
        <4> HIDE DEF from, n, answered, one, new, two
        <4>3. from + (n + 1) = 3 /\ from + (n + 2) = 4
          BY <4>2
        <4>4. ASSUME NEW i \in 1 .. n PROVE Replied(g)[from + i] = Replied(f)[from + i]
          <5>1. from + i = 1 \/ from + i = 2
            BY <4>2
          <5> QED
            BY <3>1, <3>2, <4>1, <5>1
        <4> QED
          BY <3>2, <4>1, <4>3, <4>4 DEF Joins
      <3> QED
        BY <1>4, <3>3, <3>4
    <2> HIDE DEF from, n
    <2>4. With(PieceOf(Replied(f), from, n), reply) = PieceOf(Replied(g), from, n + 2)
      BY <2>1, <2>3, JoinPiece
    <2>5. t = PieceOf(Replied(g), g.read, 2 * g.answered - g.read)
      BY <1>8, <2>1, <2>2, <2>4 DEF from, With
    <2>6. x = PieceOf(Asked(g), g.captured, 4 - g.captured)
      BY <1>8 DEF WireOf, Asked
    <2>7. wire' = [wire EXCEPT ![c]["server"] = t] /\ wire[c] = [client |-> x, server |-> y]
      <3>1. wire[c].server = y
        BY <1>2
      <3>2. reply = [from |-> "server", id |-> m.id, type |-> verdict, user |-> Nobody]
        BY DEF reply, Reply
      <3>3. wire' = [wire EXCEPT ![c]["server"] = wire[c].server \o Units(reply)]
        BY <1>4, <3>2 DEF ServerReplies
      <3> QED
        BY <1>2, <3>1, <3>3 DEF WireOf
    <2> HIDE DEF t, x, y
    <2>8. wire'[c] = [client |-> x, server |-> t]
      <3>1. wire'[c] = [wire[c] EXCEPT !["server"] = t]
        BY <2>7 DEF SnifferShapes
      <3>2. [[client |-> x, server |-> y] EXCEPT !["server"] = t] =
                [client |-> x, server |-> t]
        OBVIOUS
      <3> QED
        BY <2>7, <3>1, <3>2, Zenon
    <2> QED
      BY <2>5, <2>6, <2>8, Zenon DEF WireOf
  <1>10. lastUser'[c] = UserAt(g, 2 * g.answered)
    <2>1. lastUser'[c] = After(UserAt(f, 2 * f.answered), m)
      BY <1>2, <1>4 DEF ServerReplies, SnifferShapes, UserAfter, After
    <2>2. CASE f.answered = 0
      <3>1. 2 * f.answered = 0 /\ 2 * g.answered = 2 /\ m = f.older
        BY <1>8, <2>2 DEF m, Asking
      <3> QED
        BY <1>8, <2>1, <3>1 DEF UserAt
    <2>3. CASE f.answered = 1
      <3>1. 2 * f.answered = 2 /\ 2 * g.answered = 4 /\ m = f.younger
        BY <1>8, <2>3 DEF m, Asking
      <3> QED
        BY <1>8, <2>1, <3>1 DEF UserAt
    <2> QED
      BY <1>4, <2>2, <2>3
  <1>11. OfConn(c, judged') = OfConn(c, rows') \cup Unwritten(c, g)
    <2> DEFINE row == [conn |-> c, id |-> m.id,
                       user |-> After(UserAt(f, 2 * f.answered), m), result |-> verdict]
    <2>1. Unwritten(c, g) = Unwritten(c, f) \cup IF Login(m) THEN {row} ELSE {}
      BY <1>1, <1>4, AnswerWrites DEF g, m
    <2>2. UserAfter(c, m) = After(UserAt(f, 2 * f.answered), m)
      BY <1>2 DEF UserAfter, After
    <2>3. judged' = judged \cup IF Login(m) THEN {row} ELSE {}
      BY <1>4, <1>5, <2>2 DEF ServerReplies
    <2>4. row.conn = c
      OBVIOUS
    <2> HIDE DEF row
    <2>5. OfConn(c, judged') = OfConn(c, judged) \cup IF Login(m) THEN {row} ELSE {}
      BY <2>3, <2>4 DEF OfConn
    <2>6. rows' = rows
      BY DEF ServerReplies
    <2> QED
      BY <1>2, <2>1, <2>5, <2>6
  <1>12. session'[c] = SessionOf(g) /\ snifferTool' = snifferTool
    BY <1>2, <1>7 DEF ServerReplies
  <1>13. Follows(c, g)'
    BY <1>4, <1>9, <1>10, <1>11, <1>12, FollowsNext
  <1> QED
    BY <1>7, <1>12, <1>13, FlowNext DEF InFlow

Silence == [from |-> "client", id |-> 0, type |-> "other", user |-> Nobody]
Beginning == [older |-> Silence, younger |-> Silence, user |-> Nobody,
              first |-> "none", second |-> "none",
              captured |-> 4, answered |-> 2, read |-> 4]

(* Before the first message: as after two that were of no interest.                 *)
LEMMA SnifferBegins == SnifferInit => SnifferIInv
  <1> SUFFICES ASSUME SnifferInit PROVE SnifferIInv
    OBVIOUS
  <1>1. PICK tool \in {"ftp", "http"} : SnifferStart(tool)
    BY DEF SnifferInit
  <1>2. SnifferShapes
    BY <1>1 DEF SnifferStart, SnifferShapes
  <1>3. ASSUME NEW c \in Conn PROVE InFlow(c)
    <2> DEFINE f == Beginning
    <2>1. /\ f.older = Silence /\ f.younger = Silence /\ f.user = Nobody
          /\ f.first = "none" /\ f.second = "none"
          /\ f.captured = 4 /\ f.answered = 2 /\ f.read = 4
      BY DEF Beginning
    <2>2. Silence \in Sent /\ Sendable(Silence) /\ ~ Login(Silence)
      BY SnifferAssumption DEF Silence, Sent, Sendable, Login
    <2>3. f \in Flow
      <3>1. "none" \in Verdict
        BY DEF Verdict
      <3> QED
        BY <2>2, <3>1 DEF Flow, Beginning
    <2> HIDE DEF f
    <2>4. FlowOK(f)
      BY <2>1, <2>2 DEF FlowOK
    <2>5. wire[c] = WireOf(f)
      <3>1. 4 - f.captured = 0 /\ 2 * f.answered - f.read = 0
        BY <2>1
      <3>2. /\ PieceOf(Asked(f), f.captured, 0) = <<>>
            /\ PieceOf(Replied(f), f.read, 0) = <<>>
        BY EmptyPiece
      <3>3. wire[c] = [client |-> <<>>, server |-> <<>>]
        BY <1>1 DEF SnifferStart
      <3> QED
        BY <3>1, <3>2, <3>3 DEF WireOf
    <2>6. owed[c] = OwedIn(f)
      BY <1>1, <2>1 DEF SnifferStart, OwedIn
    <2>7. UserAt(f, 4) = Nobody /\ 2 * f.answered = 4
      BY <2>1 DEF UserAt, After, Silence
    <2>8. lastUser[c] = UserAt(f, 2 * f.answered)
      BY <1>1, <2>7 DEF SnifferStart
    <2>9. session[c] = SessionOf(f)
      <3>1. Begun(Asked(f), f.captured) = <<>> /\ Begun(Replied(f), f.read) = <<>>
        BY <2>1 DEF Begun
      <3>2. Unjudged(f) = <<>>
        BY <2>1, <2>2, OneOrTwo DEF Unjudged
      <3>3. session[c] = NoSession
        BY <1>1 DEF SnifferStart
      <3> QED
        BY <2>1, <2>7, <3>1, <3>2, <3>3 DEF SessionOf, NoSession
    <2>10. OfConn(c, judged) = OfConn(c, rows) \cup Unwritten(c, f)
      <3>1. Unwritten(c, f) = {}
        BY <2>1 DEF Unwritten
      <3>2. judged = {} /\ rows = {}
        BY <1>1 DEF SnifferStart
      <3> QED
        BY <3>1, <3>2 DEF OfConn
    <2>11. Follows(c, f)
      BY <2>5, <2>6, <2>8, <2>9, <2>10, FollowsParts
    <2> QED
      BY <2>3, <2>4, <2>11 DEF InFlow
  <1> QED
    BY <1>2, <1>3 DEF SnifferIInv

(* A step of one connection leaves all others as they are.                          *)
Elsewhere(c) ==
    /\ snifferTool' = snifferTool /\ odd \subseteq odd'
    /\ \A d \in Conn \ {c} :
          /\ wire'[d] = wire[d] /\ owed'[d] = owed[d] /\ lastUser'[d] = lastUser[d]
          /\ session'[d] = session[d]
          /\ OfConn(d, judged') = OfConn(d, judged) /\ OfConn(d, rows') = OfConn(d, rows)

LEMMA KeepsFlow ==
    ASSUME SnifferIInv, NEW c \in Conn, Elsewhere(c), SnifferShapes',
           c \notin odd' => InFlow(c)'
    PROVE  SnifferIInv'
  <1>1. ASSUME NEW d \in Conn \ odd' PROVE InFlow(d)'
    <2>1. CASE d = c
      BY <1>1, <2>1
    <2>2. CASE d # c
      <3>1. InFlow(d) /\ d \in Conn \ {c}
        BY <1>1, <2>2 DEF SnifferIInv, Elsewhere
      <3> QED
        BY <3>1, OthersFlow DEF Elsewhere
    <2> QED
      BY <2>1, <2>2
  <1> QED
    BY <1>1 DEF SnifferIInv

(* The capture of a segment, once or twice, and of padding.                         *)
LEMMA PacketElsewhere ==
    ASSUME SnifferShapes, NEW c \in Conn, NEW n \in Nat, NEW units, DOMAIN units = 1 .. n,
           OnPacket(c, units), UNCHANGED <<snifferTool, owed, lastUser, sentCount, judged>>,
           odd \subseteq odd', \A d \in Conn \ {c} : wire'[d] = wire[d],
           wire' = [d \in Conn |-> wire'[d]]
    PROVE  Elsewhere(c) /\ SnifferShapes'
  <1>1. SnifferShapes'
    <2>1. session' = [d \in Conn |-> session'[d]]
      BY DEF OnPacket, SnifferShapes
    <2> QED
      BY <2>1 DEF SnifferShapes
  <1>2. \A d \in Conn \ {c} : session'[d] = session[d] /\ OfConn(d, rows') = OfConn(d, rows)
    BY CaptureWrites
  <1> QED
    BY <1>1, <1>2 DEF Elsewhere

LEMMA SentKeeps ==
    ASSUME SnifferIInv, NEW c \in Conn, NEW m \in Request(sentCount[c] + 1),
           ClientSends(c, m)
    PROVE  SnifferIInv'
  <1>1. SnifferShapes
    BY DEF SnifferIInv
  <1>2. SnifferShapes'
    <2>1. m.id = sentCount[c] + 1 /\ sentCount[c] \in Nat
      BY <1>1, RequestParts DEF SnifferShapes
    <2>2. m.id \in Nat
      BY <2>1
    <2>3. sentCount' \in [Conn -> Nat]
      BY <1>1, <2>2 DEF SnifferShapes, ClientSends
    <2>4. /\ snifferTool' \in {"ftp", "http"} /\ wire' = [d \in Conn |-> wire'[d]]
          /\ owed' = [d \in Conn |-> owed'[d]] /\ lastUser' = [d \in Conn |-> lastUser'[d]]
          /\ session' = [d \in Conn |-> session'[d]]
      BY <1>1 DEF SnifferShapes, ClientSends
    <2> QED
      BY <2>3, <2>4 DEF SnifferShapes
  <1>3. Elsewhere(c)
    BY <1>1 DEF Elsewhere, ClientSends, SnifferShapes
  <1>4. c \notin odd' => InFlow(c)'
    <2>1. c \notin odd' => InFlow(c)
      BY DEF SnifferIInv, ClientSends
    <2> QED
      BY <1>1, <2>1, ClientSent
  <1> QED
    BY <1>2, <1>3, <1>4, KeepsFlow

LEMMA RepliedKeeps ==
    ASSUME SnifferIInv, NEW c \in Conn, NEW verdict \in Verdict, ServerReplies(c, verdict)
    PROVE  SnifferIInv'
  <1>1. SnifferShapes
    BY DEF SnifferIInv
  <1>2. SnifferShapes'
    BY <1>1 DEF SnifferShapes, ServerReplies
  <1>3. Elsewhere(c)
    <2>1. odd \subseteq odd' /\ snifferTool' = snifferTool /\ rows' = rows /\ session' = session
      BY DEF ServerReplies
    <2>2. \A d \in Conn \ {c} :
             wire'[d] = wire[d] /\ owed'[d] = owed[d] /\ lastUser'[d] = lastUser[d]
      BY <1>1 DEF ServerReplies, SnifferShapes
    <2>3. \A r \in judged' : r \in judged \/ r.conn = c
      BY DEF ServerReplies
    <2>4. judged \subseteq judged'
      BY DEF ServerReplies
    <2>5. \A d \in Conn \ {c} : OfConn(d, judged') = OfConn(d, judged)
      BY <2>3, <2>4 DEF OfConn
    <2> QED
      BY <2>1, <2>2, <2>5 DEF Elsewhere
  <1>4. c \notin odd' => InFlow(c)'
    <2>1. c \notin odd' => InFlow(c)
      BY DEF SnifferIInv, ServerReplies
    <2> QED
      BY <1>1, <2>1, ServerReplied
  <1> QED
    BY <1>2, <1>3, <1>4, KeepsFlow

LEMMA CapturedKeeps ==
    ASSUME SnifferIInv, NEW c \in Conn, NEW from \in {"client", "server"}, NEW k \in 1 .. 4,
           Capture(c, from, k)
    PROVE  SnifferIInv'
  <1>1. SnifferShapes
    BY DEF SnifferIInv
  <1> DEFINE units == SubSeq(wire[c][from], 1, k)
  <1>2. k \in Nat /\ DOMAIN units = 1 .. k /\ OnPacket(c, units)
    <2>1. k \in Nat
      OBVIOUS
    <2> QED
      BY <2>1 DEF Capture
  <1>3. /\ UNCHANGED <<snifferTool, owed, lastUser, sentCount, judged>> /\ odd' = odd
        /\ \A d \in Conn \ {c} : wire'[d] = wire[d]
        /\ wire' = [d \in Conn |-> wire'[d]]
    BY <1>1 DEF Capture, SnifferShapes
  <1> HIDE DEF units
  <1>4. Elsewhere(c) /\ SnifferShapes'
    BY <1>1, <1>2, <1>3, PacketElsewhere
  <1>5. c \notin odd' => InFlow(c)'
    <2>1. c \notin odd' => InFlow(c)
      BY <1>3 DEF SnifferIInv
    <2>2. CASE from = "client"
      BY <1>1, <2>1, <2>2, ClientCaptured
    <2>3. CASE from = "server"
      BY <1>1, <2>1, <2>3, ServerCaptured
    <2> QED
      BY <2>2, <2>3
  <1> QED
    BY <1>4, <1>5, KeepsFlow

LEMMA TwiceKeeps ==
    ASSUME SnifferIInv, NEW c \in Conn, NEW from, NEW k \in 1 .. 4, CaptureTwice(c, from, k)
    PROVE  SnifferIInv'
  <1>1. SnifferShapes
    BY DEF SnifferIInv
  <1> DEFINE units == SubSeq(wire[c][from], 1, k)
  <1>2. k \in Nat /\ DOMAIN units = 1 .. k /\ OnPacket(c, units)
    <2>1. k \in Nat
      OBVIOUS
    <2> QED
      BY <2>1 DEF CaptureTwice
  <1>3. /\ UNCHANGED <<snifferTool, owed, lastUser, sentCount, judged>> /\ odd \subseteq odd'
        /\ \A d \in Conn \ {c} : wire'[d] = wire[d]
        /\ wire' = [d \in Conn |-> wire'[d]] /\ c \in odd'
    BY <1>1 DEF CaptureTwice, netVars, SnifferShapes
  <1> HIDE DEF units
  <1>4. Elsewhere(c) /\ SnifferShapes'
    BY <1>1, <1>2, <1>3, PacketElsewhere
  <1> QED
    BY <1>3, <1>4, KeepsFlow

LEMMA PaddingKeeps ==
    ASSUME SnifferIInv, NEW c \in Conn, NEW from, CapturePadding(c, from)
    PROVE  SnifferIInv'
  <1>1. SnifferShapes
    BY DEF SnifferIInv
  <1> DEFINE zeros == [of |-> [from |-> from, id |-> 0, type |-> "zeros",
                               user |-> Nobody], part |-> 0]
             units == <<zeros>>
  <1>2. 1 \in Nat /\ DOMAIN units = 1 .. 1
    <2> HIDE DEF zeros
    <2> QED
      OBVIOUS
  <1>3. OnPacket(c, units)
    BY DEF CapturePadding
  <1>4. /\ UNCHANGED <<snifferTool, owed, lastUser, sentCount, judged>> /\ odd \subseteq odd'
        /\ \A d \in Conn \ {c} : wire'[d] = wire[d]
        /\ wire' = [d \in Conn |-> wire'[d]] /\ c \in odd'
    BY <1>1 DEF CapturePadding, netVars, SnifferShapes
  <1> HIDE DEF units
  <1>5. Elsewhere(c) /\ SnifferShapes'
    BY <1>1, <1>2, <1>3, <1>4, PacketElsewhere
  <1> QED
    BY <1>4, <1>5, KeepsFlow

LEMMA LateKeeps ==
    ASSUME SnifferIInv, LateShapes, NEW segment, CaptureLate(segment)
    PROVE  SnifferIInv'
  <1>1. SnifferShapes
    BY DEF SnifferIInv
  <1> DEFINE c == segment.conn
             units == segment.units
  <1>2. c \in Conn /\ c \in odd /\ \E n \in Nat : DOMAIN units = 1 .. n
    BY DEF LateShapes, CaptureLate
  <1>3. /\ OnPacket(c, units) /\ wire' = wire /\ odd' = odd
        /\ UNCHANGED <<snifferTool, owed, lastUser, sentCount, judged>>
    BY DEF CaptureLate
  <1>4. wire' = [d \in Conn |-> wire'[d]] /\ odd \subseteq odd'
    BY <1>1, <1>3 DEF SnifferShapes
  <1> HIDE DEF c, units
  <1>5. Elsewhere(c) /\ SnifferShapes'
    BY <1>1, <1>2, <1>3, <1>4, PacketElsewhere
  <1> QED
    BY <1>2, <1>3, <1>5, KeepsFlow

LEMMA MissedKeeps ==
    ASSUME SnifferIInv, NEW c \in Conn, NEW from \in {"client", "server"}, NEW k \in 1 .. 4,
           CaptureMisses(c, from, k)
    PROVE  SnifferIInv'
  <1>1. SnifferShapes
    BY DEF SnifferIInv
  <1>2. /\ UNCHANGED <<snifferTool, owed, lastUser, sentCount, judged, session, rows>>
        /\ odd \subseteq odd' /\ c \in odd' /\ \A d \in Conn \ {c} : wire'[d] = wire[d]
        /\ wire' = [d \in Conn |-> wire'[d]]
    BY <1>1 DEF CaptureMisses, SnifferShapes
  <1>3. SnifferShapes'
    BY <1>1, <1>2 DEF SnifferShapes
  <1>4. Elsewhere(c)
    BY <1>2 DEF Elsewhere
  <1> QED
    BY <1>2, <1>3, <1>4, KeepsFlow

(* The text of a connection in flow: from the end of a message on, the units of two  *)
(* messages.  Nothing in it is garbled.                                            *)
LEMMA PieceIsClean ==
    ASSUME NEW m, NEW n, NEW e \in {0, 2, 4}, NEW size \in 0 .. 4, e + size <= 4,
           NEW text, SegmentOf(text, Line(m, n), e, size)
    PROVE  ~ Garbled(text)
  <1> DEFINE line == Line(m, n)
  <1>1. /\ line[1] = [of |-> m, part |-> 1] /\ line[2] = [of |-> m, part |-> 2]
        /\ line[3] = [of |-> n, part |-> 1] /\ line[4] = [of |-> n, part |-> 2]
    BY DEF Line
  <1> HIDE DEF line
  <1> SUFFICES ASSUME NEW i \in 1 .. size, text[i].part = 2 PROVE AsSent(text, i)
    BY DEF Garbled, Parts, SegmentOf
  <1>2. \A x \in 1 .. size : text[x] = line[e + x]
    BY DEF line, SegmentOf
  <1>3. /\ line[1].part = 1 /\ line[3].part = 1
        /\ line[2].part = 2 /\ line[2].of = m /\ line[4].of = n
    BY <1>1
  <1>4. e + i \in {2, 4}
    <2>1. e + i \in {1, 2, 3, 4} /\ line[e + i].part = 2
      BY <1>2
    <2> QED
      BY <1>3, <2>1
  <1>5. (e = 0 /\ i = 2) \/ (e = 2 /\ i = 2) \/ (e = 0 /\ i = 4)
    BY <1>4
  <1>6. CASE e = 0 /\ i = 2
    <2>1. 1 \in 1 .. size /\ text[1] = line[1] /\ text[2] = line[2]
      BY <1>2, <1>6
    <2> QED
      BY <1>1, <1>3, <1>6, <2>1 DEF AsSent
  <1>7. CASE e = 2 /\ i = 2
    <2>1. 1 \in 1 .. size /\ text[1] = line[3] /\ text[2] = line[4]
      BY <1>2, <1>7
    <2> QED
      BY <1>1, <1>3, <1>7, <2>1 DEF AsSent
  <1>8. CASE e = 0 /\ i = 4
    <2>1. 2 \in 1 .. size /\ 3 \in 1 .. size /\ text[2] = line[2] /\ text[3] = line[3]
          /\ text[4] = line[4]
      BY <1>2, <1>8
    <2> QED
      BY <1>1, <1>3, <1>8, <2>1 DEF AsSent, Parts
  <1> QED
    BY <1>5, <1>6, <1>7, <1>8

LEMMA BegunIsClean ==
    ASSUME NEW m, NEW o, NEW n \in 0 .. 4, NEW rest \in Nat, n + rest <= 4, NEW k \in 1 .. 4,
           k <= Len(PieceOf(Line(m, o), n, rest))
    PROVE  ~ Garbled(Begun(Line(m, o), n) \o Taken(PieceOf(Line(m, o), n, rest), k))
  <1> DEFINE line == Line(m, o)
             w == PieceOf(line, n, rest)
             units == Taken(w, k)
             D == {line[i] : i \in 1 .. 4}
             text == Begun(line, n) \o units
  <1> HIDE DEF line
  <1>1. k <= rest /\ SegmentOf(units, line, n, k)
    BY TakenParts DEF line
  <1>2. DOMAIN units = 1 .. k /\ \A i \in 1 .. k : units[i] = line[n + i]
    BY <1>1 DEF SegmentOf
  <1>3. units \in Seq(D) /\ Len(units) = k
    <2>1. \A i \in 1 .. rest : line[n + i] \in D
      OBVIOUS
    <2> HIDE DEF D
    <2>2. w \in Seq(D) /\ Len(w) = rest
      BY <2>1 DEF PieceOf
    <2> HIDE DEF w
    <2> QED
      BY <1>1, <2>2 DEF Taken
  <1> HIDE DEF units, w
  <1>4. CASE n \in {0, 2, 4}
    <2>1. Begun(line, n) = <<>>
      BY <1>4 DEF Begun
    <2>2. text = units
      BY <1>3, <2>1
    <2> HIDE DEF text
    <2>3. k \in 0 .. 4 /\ n + k <= 4
      BY <1>1
    <2>4. ~ Garbled(text)
      <3>1. SegmentOf(text, Line(m, o), n, k)
        BY <1>1, <2>2 DEF line
      <3> QED
        BY <1>4, <2>3, <3>1, PieceIsClean
    <2> QED
      BY <2>4 DEF text, units, w, line
  <1>5. CASE n \in {1, 3}
    <2> DEFINE e == n - 1
    <2>1. Begun(line, n) = <<line[n]>> /\ <<line[n]>> \in Seq(D) /\ Len(<<line[n]>>) = 1
      BY <1>5 DEF Begun
    <2>2. /\ text \in Seq(D) /\ Len(text) = 1 + k /\ text[1] = line[n]
          /\ \A i \in 1 .. k : text[1 + i] = units[i]
      <3> HIDE DEF D
      <3>1. <<line[n]>>[1] = line[n] /\ 1 \in 1 .. 1
        OBVIOUS
      <3> QED
        BY <1>3, <2>1, <3>1, ConcatParts
    <2> HIDE DEF text, D
    <2>3. e \in {0, 2, 4} /\ 1 + k \in 0 .. 4 /\ e + (1 + k) <= 4
      BY <1>1, <1>5
    <2>4. DOMAIN text = 1 .. 1 + k
      BY <2>2
    <2>5. ASSUME NEW i \in 1 .. 1 + k PROVE text[i] = line[e + i]
      <3>1. CASE i = 1
        BY <1>5, <2>2, <3>1
      <3>2. CASE i # 1
        <4>1. i - 1 \in 1 .. k /\ 1 + (i - 1) = i /\ n + (i - 1) = e + i
          BY <3>2
        <4> QED
          BY <1>2, <2>2, <4>1
      <3> QED
        BY <3>1, <3>2
    <2> HIDE DEF e
    <2>6. ~ Garbled(text)
      <3>1. SegmentOf(text, line, e, 1 + k)
        BY <2>4, <2>5 DEF SegmentOf
      <3>2. SegmentOf(text, Line(m, o), e, 1 + k)
        BY <3>1 DEF line
      <3> QED
        BY <2>3, <3>2, PieceIsClean
    <2> QED
      BY <2>6 DEF text, units, w, line
  <1> QED
    BY <1>4, <1>5

LEMMA NothingGarbled ==
    ASSUME NEW c \in Conn, InFlow(c), NEW from \in {"client", "server"}, NEW k \in 1 .. 4,
           k <= Len(wire[c][from])
    PROVE  ~ Garbled(session[c][from] \o SubSeq(wire[c][from], 1, k))
  <1>1. PICK f \in Flow : FlowOK(f) /\ Follows(c, f)
    BY DEF InFlow
  <1>2. wire[c] = WireOf(f) /\ session[c] = SessionOf(f)
    BY <1>1, FollowsParts
  <1>3. CASE from = "client"
    <2> DEFINE n == f.captured
               rest == 4 - f.captured
    <2>1. n \in 0 .. 4 /\ rest \in Nat /\ n + rest <= 4
      BY DEF Flow
    <2>2. /\ wire[c][from] = PieceOf(Line(f.older, f.younger), n, rest)
          /\ session[c][from] = Begun(Line(f.older, f.younger), n)
      BY <1>2, <1>3 DEF WireOf, SessionOf, Asked
    <2> HIDE DEF n, rest
    <2> QED
      BY <2>1, <2>2, BegunIsClean DEF Taken
  <1>4. CASE from = "server"
    <2> DEFINE n == f.read
               rest == 2 * f.answered - f.read
               a == Reply(f.older, f.first)
               b == Reply(f.younger, f.second)
    <2>1. n \in 0 .. 4 /\ rest \in Nat /\ n + rest <= 4
      BY <1>1 DEF Flow, FlowOK
    <2>2. /\ wire[c][from] = PieceOf(Line(a, b), n, rest)
          /\ session[c][from] = Begun(Line(a, b), n)
      BY <1>2, <1>4 DEF WireOf, SessionOf, Replied
    <2> HIDE DEF n, rest, a, b
    <2> QED
      BY <2>1, <2>2, BegunIsClean DEF Taken
  <1> QED
    BY <1>3, <1>4

(* The exception that ends the program is due to a connection that is odd.          *)
LEMMA ThrowKeeps ==
    ASSUME SnifferIInv, NEW c \in Conn, NEW from, NEW units, Throws(c, from, units),
           c \in odd
    PROVE  odd' # {} /\ WrittenIsDecided'
  <1>1. rows' \subseteq rows /\ judged' = judged /\ odd' = odd
    BY DEF Throws, netVars
  <1>2. ASSUME NEW d \in Conn \ odd PROVE OfConn(d, rows) \subseteq OfConn(d, judged)
    <2>1. PICK f \in Flow : FlowOK(f) /\ Follows(d, f)
      BY DEF SnifferIInv, InFlow
    <2>2. OfConn(d, judged) = OfConn(d, rows) \cup Unwritten(d, f)
      BY <2>1, FollowsParts
    <2> QED
      BY <2>2
  <1>3. \A d \in Conn \ odd : OfConn(d, rows') \subseteq OfConn(d, judged)
    BY <1>1, <1>2 DEF OfConn
  <1> QED
    BY <1>1, <1>3 DEF WrittenIsDecided

(* What can happen to a connection while the program runs.                         *)
PacketOf(c) ==
    \/ \E m \in Request(sentCount[c] + 1) : ClientSends(c, m)
    \/ \E verdict \in Verdict : ServerReplies(c, verdict)
    \/ \E from \in {"client", "server"} :
          \/ \E k \in 1 .. 4 : \/ Capture(c, from, k)
                              \/ CaptureTwice(c, from, k)
                              \/ CaptureMisses(c, from, k)
          \/ CapturePadding(c, from)

ThrowOf(c) ==
    \E from \in {"client", "server"}, k \in 1 .. 4 :
        k <= Len(wire[c][from]) /\ Throws(c, from, SubSeq(wire[c][from], 1, k))

LEMMA SnifferMoves ==
    ASSUME SnifferNext
    PROVE  /\ ~stopped
           /\ \/ \E c \in Conn : PacketOf(c) \/ ThrowOf(c)
              \/ \E segment \in late :
                    \/ CaptureLate(segment)
                    \/ Throws(segment.conn, segment.from, segment.units)
  <1>1. 2 * Parts = 4
    BY DEF Parts
  <1> QED
    BY <1>1 DEF SnifferNext, PacketOf, ThrowOf, Verdict

LEMMA LateStays ==
    ASSUME LateShapes, [SnifferNext]_snifferVars
    PROVE  LateShapes'
  <1>1. ASSUME late' \subseteq late, odd \subseteq odd' PROVE LateShapes'
    BY <1>1 DEF LateShapes
  <1>2. ASSUME NEW c \in Conn, NEW from, NEW k \in 1 .. 4, CaptureMisses(c, from, k)
        PROVE  LateShapes'
    <2> DEFINE units == SubSeq(wire[c][from], 1, k)
               new == [conn |-> c, from |-> from, units |-> units]
    <2>1. late' = late \cup {new} /\ c \in odd' /\ odd \subseteq odd'
      BY <1>2 DEF CaptureMisses
    <2>2. k \in Nat /\ DOMAIN units = 1 .. k
      OBVIOUS
    <2> HIDE DEF units
    <2>3. new.conn = c /\ new.units = units
      OBVIOUS
    <2> HIDE DEF new
    <2> QED
      BY <2>1, <2>2, <2>3 DEF LateShapes
  <1>3. CASE UNCHANGED snifferVars
    BY <1>1, <1>3 DEF snifferVars, netVars
  <1>4. ASSUME NEW c \in Conn, PacketOf(c) PROVE LateShapes'
    <2>1. ASSUME NEW m, ClientSends(c, m) PROVE LateShapes'
      BY <1>1, <2>1 DEF ClientSends
    <2>2. ASSUME NEW verdict, ServerReplies(c, verdict) PROVE LateShapes'
      BY <1>1, <2>2 DEF ServerReplies
    <2>3. ASSUME NEW from, NEW k, Capture(c, from, k) PROVE LateShapes'
      BY <1>1, <2>3 DEF Capture
    <2>4. ASSUME NEW from, NEW k, CaptureTwice(c, from, k) PROVE LateShapes'
      BY <1>1, <2>4 DEF CaptureTwice, netVars
    <2>5. ASSUME NEW from, CapturePadding(c, from) PROVE LateShapes'
      BY <1>1, <2>5 DEF CapturePadding, netVars
    <2> QED
      BY <1>2, <1>4, <2>1, <2>2, <2>3, <2>4, <2>5 DEF PacketOf
  <1>5. ASSUME NEW c, NEW from, NEW units, Throws(c, from, units) PROVE LateShapes'
    BY <1>1, <1>5 DEF Throws, netVars
  <1>6. ASSUME NEW segment, CaptureLate(segment) PROVE LateShapes'
    BY <1>1, <1>6 DEF CaptureLate
  <1> QED
    BY <1>3, <1>4, <1>5, <1>6, SnifferMoves DEF ThrowOf

LEMMA PacketKeeps ==
    ASSUME SnifferIInv, ~stopped, NEW c \in Conn, PacketOf(c)
    PROVE  ~stopped' /\ SnifferIInv'
  <1>1. SnifferIInv'
    BY SentKeeps, RepliedKeeps, CapturedKeeps, TwiceKeeps, PaddingKeeps, MissedKeeps
       DEF PacketOf
  <1>2. ~stopped'
    BY DEF PacketOf, ClientSends, ServerReplies, Capture, CaptureTwice, CaptureMisses,
           CapturePadding
  <1> QED
    BY <1>1, <1>2

LEMMA SnifferSteps ==
    ASSUME SnifferWhole, [SnifferNext]_snifferVars
    PROVE  SnifferWhole'
  <1>1. LateShapes'
    BY LateStays DEF SnifferWhole
  <1>2. CASE UNCHANGED snifferVars
    <2>1. /\ UNCHANGED <<snifferTool, wire, owed, lastUser, session, judged, rows, sentCount>>
          /\ odd' = odd /\ stopped' = stopped
      BY <1>2 DEF snifferVars, netVars
    <2>2. CASE stopped
      <3>1. odd # {} /\ WrittenIsDecided
        BY <2>2 DEF SnifferWhole
      <3>2. WrittenIsDecided'
        BY <2>1, <3>1 DEF WrittenIsDecided, OfConn
      <3> QED
        BY <1>1, <2>1, <2>2, <3>1, <3>2 DEF SnifferWhole
    <2>3. CASE ~stopped
      <3>1. SnifferIInv
        BY <2>3 DEF SnifferWhole
      <3>2. SnifferShapes'
        BY <2>1, <3>1 DEF SnifferIInv, SnifferShapes
      <3>3. ASSUME NEW d \in Conn \ odd PROVE InFlow(d)'
        <4>1. InFlow(d)
          BY <3>1 DEF SnifferIInv
        <4> QED
          BY <2>1, <4>1, OthersFlow
      <3>4. SnifferIInv'
        BY <2>1, <3>2, <3>3 DEF SnifferIInv
      <3> QED
        BY <1>1, <2>1, <2>3, <3>4 DEF SnifferWhole
    <2> QED
      BY <2>2, <2>3
  <1>3. CASE SnifferNext
    <2>1. ~stopped /\ SnifferIInv /\ LateShapes
      BY <1>3, SnifferMoves DEF SnifferWhole
    <2>2. ASSUME NEW c \in Conn, PacketOf(c) PROVE SnifferWhole'
      BY <1>1, <2>1, <2>2, PacketKeeps DEF SnifferWhole
    <2>3. ASSUME NEW c \in Conn, ThrowOf(c) PROVE SnifferWhole'
      <3>1. PICK from \in {"client", "server"}, k \in 1 .. 4 :
               k <= Len(wire[c][from]) /\ Throws(c, from, SubSeq(wire[c][from], 1, k))
        BY <2>3 DEF ThrowOf
      <3>2. Garbled(session[c][from] \o SubSeq(wire[c][from], 1, k)) /\ stopped'
        BY <3>1 DEF Throws
      <3>3. c \in odd
        BY <2>1, <3>1, <3>2, NothingGarbled DEF SnifferIInv
      <3>4. odd' # {} /\ WrittenIsDecided'
        BY <2>1, <3>1, <3>3, ThrowKeeps
      <3> QED
        BY <1>1, <3>2, <3>4 DEF SnifferWhole
    <2>4. ASSUME NEW segment \in late, CaptureLate(segment) PROVE SnifferWhole'
      <3>1. SnifferIInv' /\ ~stopped'
        BY <2>1, <2>4, LateKeeps DEF CaptureLate
      <3> QED
        BY <1>1, <3>1 DEF SnifferWhole
    <2>5. ASSUME NEW segment \in late,
                 Throws(segment.conn, segment.from, segment.units)
          PROVE  SnifferWhole'
      <3>1. segment.conn \in Conn /\ segment.conn \in odd
        BY <2>1 DEF LateShapes
      <3>2. odd' # {} /\ WrittenIsDecided' /\ stopped'
        BY <2>1, <2>5, <3>1, ThrowKeeps DEF Throws
      <3> QED
        BY <1>1, <3>2 DEF SnifferWhole
    <2> QED
      BY <1>3, <2>2, <2>3, <2>4, <2>5, SnifferMoves
  <1> QED
    BY <1>2, <1>3

(* What is written is what was decided, when all replies have been captured.        *)
LEMMA FlowRows ==
    ASSUME SnifferIInv, NEW c \in Conn \ odd
    PROVE  /\ OfConn(c, rows) \subseteq OfConn(c, judged)
           /\ wire[c].server = <<>> => OfConn(c, rows) = OfConn(c, judged)
  <1>1. PICK f \in Flow : FlowOK(f) /\ Follows(c, f)
    BY DEF SnifferIInv, InFlow
  <1>2. wire[c] = WireOf(f) /\ OfConn(c, judged) = OfConn(c, rows) \cup Unwritten(c, f)
    BY <1>1, FollowsParts
  <1>3. ASSUME wire[c].server = <<>> PROVE Unwritten(c, f) = {}
    <2> DEFINE n == 2 * f.answered - f.read
    <2>1. f.answered \in 0 .. 2 /\ f.read \in 0 .. 4 /\ n \in Nat
      BY <1>1 DEF Flow, FlowOK
    <2>2. PieceOf(Replied(f), f.read, n) = <<>>
      BY <1>2, <1>3 DEF WireOf
    <2> HIDE DEF n
    <2>3. n = 0
      BY <2>1, <2>2, EmptyPiece
    <2>4. ~ (f.answered >= 1 /\ f.read < 2) /\ ~ (f.answered >= 2 /\ f.read < 4)
      BY <2>1, <2>3 DEF n
    <2> QED
      BY <2>4 DEF Unwritten
  <1> QED
    BY <1>2, <1>3

\* For any connections, users and numbers of messages and oddities: in a connection
\* in which nothing odd has happened, however its text was cut into segments, mixed
\* with that of others, and whatever was lost, late, repeated or padded in those, the
\* rows written are decisions of the server, each on the name it was made for, and
\* none is missing once all replies are captured, unless the garbled text of another
\* connection has ended the program (ftp_login_sniffer.cpp:107-155,
\* http_login_sniffer.cpp:138-189).
THEOREM RowsAlwaysTrue == SnifferSpec => []RowsAreTrue
  <1>1. SnifferInit => SnifferWhole
    <2> SUFFICES ASSUME SnifferInit PROVE SnifferWhole
      OBVIOUS
    <2>1. late = {} /\ stopped = FALSE
      BY DEF SnifferInit, SnifferStart
    <2> QED
      BY <2>1, SnifferBegins DEF SnifferWhole, LateShapes
  <1>2. SnifferWhole /\ [SnifferNext]_snifferVars => SnifferWhole'
    BY SnifferSteps
  <1>3. SnifferWhole => RowsAreTrue
    <2> SUFFICES ASSUME SnifferWhole PROVE RowsAreTrue
      OBVIOUS
    <2>1. stopped => odd # {}
      BY DEF SnifferWhole
    <2>2. ASSUME NEW c \in Conn \ odd
          PROVE  /\ OfConn(c, rows) \subseteq OfConn(c, judged)
                 /\ ~stopped /\ wire[c].server = <<>> => OfConn(c, rows) = OfConn(c, judged)
      <3>1. CASE stopped
        BY <3>1 DEF SnifferWhole, WrittenIsDecided
      <3>2. CASE ~stopped
        BY <3>2, FlowRows DEF SnifferWhole
      <3> QED
        BY <3>1, <3>2
    <2> QED
      BY <2>1, <2>2 DEF RowsAreTrue, OfConn
  <1> QED
    BY <1>1, <1>2, <1>3, PTL DEF SnifferSpec

-------------------------------------------------------------------------------
(* The names in a packet, for all names, records, ways to write them and sizes   *)
(* of the buffer.  decode_name goes forward in the packet until it meets a       *)
(* pointer; so what it reads at a place follows from what it reads behind that   *)
(* place and, behind a pointer, with one pointer less.                          *)
LEMMA DownwardInduction ==
    ASSUME NEW e \in Nat, NEW S,
           \A c \in 0 .. e : (\A x \in 0 .. e : x > c => x \in S) => c \in S
    PROVE  \A c \in 0 .. e : c \in S
  <1> DEFINE T == {d \in Nat : \A c \in 0 .. e : c + d >= e => c \in S}
  <1>1. 0 \in T
    OBVIOUS
  <1>2. ASSUME NEW d \in Nat, d \in T PROVE d + 1 \in T
    <2>1. \A x \in 0 .. e : x + d >= e => x \in S
      BY <1>2
    <2>2. ASSUME NEW c \in 0 .. e, c + (d + 1) >= e PROVE c \in S
      <3>1. \A x \in 0 .. e : x > c => x \in S
        BY <2>1, <2>2
      <3> QED
        BY <3>1
    <2> QED
      BY <2>2
  <1> HIDE DEF T
  <1>3. e \in T
    BY <1>1, <1>2, SetInduction
  <1> QED
    BY <1>3 DEF T

Bytes == Seq(Nat)
Places(b) == 0 .. EndOf(b)

IsNames(b, beyond, name) ==
    name = [c \in Places(b) |-> NameAt(b, beyond, name, c)]

(* A byte of the packet is a number.                                            *)
LEMMA BytesAre ==
    ASSUME NEW b \in Bytes, NEW c \in Nat, c >= kDnsHeaderSize, c < EndOf(b)
    PROVE  ByteAt(b, c) \in Nat /\ c - kDnsHeaderSize + 1 \in 1 .. Len(b)
  BY DEF Bytes, ByteAt, EndOf, kDnsHeaderSize

LEMMA PlacesAre ==
    ASSUME NEW b \in Bytes
    PROVE  EndOf(b) \in Nat /\ EndOf(b) >= kDnsHeaderSize /\ Places(b) \subseteq Nat
  BY DEF Bytes, Places, EndOf, kDnsHeaderSize

(* The name at a place depends only on the names at later ones.                 *)
LEMMA NameIsLocal ==
    ASSUME NEW b \in Bytes, NEW beyond, NEW f, NEW g, NEW c \in Places(b),
           \A x \in Places(b) : x > c => f[x] = g[x]
    PROVE  NameAt(b, beyond, f, c) = NameAt(b, beyond, g, c)
  <1>1. EndOf(b) \in Nat /\ c \in Nat
    BY PlacesAre
  <1>2. CASE c + 1 + ByteAt(b, c) > EndOf(b)
    BY <1>2, Zenon DEF NameAt
  <1>3. CASE c >= EndOf(b) \/ c < kDnsHeaderSize
    BY <1>3, Zenon DEF NameAt
  <1>4. CASE /\ ~ (c >= EndOf(b) \/ c < kDnsHeaderSize)
             /\ ~ (c + 1 + ByteAt(b, c) > EndOf(b))
    <2>1. ByteAt(b, c) \in Nat
      BY <1>1, <1>4, BytesAre DEF kDnsHeaderSize
    <2>2. c + 1 + ByteAt(b, c) \in Places(b) /\ c + 1 + ByteAt(b, c) > c
      BY <1>1, <1>4, <2>1 DEF Places
    <2> DEFINE y == c + 1 + ByteAt(b, c)
    <2>3. y \in Places(b) /\ y > c
      BY <2>2
    <2> HIDE DEF y
    <2>4. f[y] = g[y]
      BY <2>3
    <2> QED
      BY <2>4, Zenon DEF NameAt, y
  <1> QED
    BY <1>2, <1>3, <1>4

LEMMA NamesExist ==
    ASSUME NEW b \in Bytes, NEW beyond
    PROVE  \E name : IsNames(b, beyond, name)
  <1> DEFINE e == EndOf(b)
             From(d) == {c \in 0 .. e : c + d >= e}
             Stage(d, f) == f = [c \in From(d) |-> NameAt(b, beyond, f, c)]
             S == {d \in Nat : \E f : Stage(d, f)}
  <1>1. e \in Nat
    BY PlacesAre
  <1>2. 0 \in S
    <2> DEFINE f == [c \in From(0) |-> {}]
    <2>1. \A c \in From(0) : c >= e
      BY <1>1
    <2>2. \A c \in From(0) : NameAt(b, beyond, f, c) = {}
      BY <2>1, Zenon DEF NameAt
    <2>3. Stage(0, f)
      BY <2>2, Zenon
    <2> QED
      BY <2>3
  <1>3. ASSUME NEW d \in Nat, d \in S PROVE d + 1 \in S
    <2>1. PICK old : Stage(d, old)
      BY <1>3
    <2> DEFINE step(f, c) == NameAt(b, beyond, f, c)
               new == [c \in From(d + 1) |-> IF c \in From(d) THEN old[c] ELSE step(old, c)]
    <2>2. From(d) \subseteq From(d + 1)
      BY <1>1
    <2>3. \A c \in From(d) : old[c] = step(old, c)
      BY <2>1, Zenon
    <2>4. \A c \in From(d + 1), x \in Places(b) : x > c => x \in From(d)
      BY <1>1 DEF Places
    <2>5. \A c \in From(d + 1) : c \in Places(b)
      BY DEF Places
    <2> HIDE DEF step, From
    <2>6. \A c \in From(d) : new[c] = old[c]
      BY <2>2, Zenon
    <2>7. \A c \in From(d + 1) : c \notin From(d) => new[c] = step(old, c)
      BY Zenon
    <2>8. new = [c \in From(d + 1) |-> new[c]]
      OBVIOUS
    <2> HIDE DEF new
    <2>9. ASSUME NEW c \in From(d + 1) PROVE step(new, c) = step(old, c)
      <3>1. \A x \in Places(b) : x > c => new[x] = old[x]
        BY <2>4, <2>6
      <3> QED
        BY <2>5, <3>1, NameIsLocal DEF step
    <2>10. \A c \in From(d + 1) : new[c] = step(new, c)
      BY <2>3, <2>6, <2>7, <2>9, Zenon
    <2>11. new = [c \in From(d + 1) |-> step(new, c)]
      BY <2>8, <2>10, Zenon
    <2>12. Stage(d + 1, new)
      BY <2>11 DEF step
    <2> QED
      BY <2>12
  <1> HIDE DEF S
  <1>4. e \in S
    BY <1>1, <1>2, <1>3, SetInduction
  <1>5. From(e) = Places(b)
    BY <1>1 DEF Places
  <1>6. PICK f : Stage(e, f)
    BY <1>4 DEF S
  <1>7. IsNames(b, beyond, f)
    BY <1>5, <1>6 DEF IsNames
  <1> QED
    BY <1>7

LEMMA NamesAre ==
    ASSUME NEW b \in Bytes, NEW beyond
    PROVE  /\ DOMAIN NamesAt(b, beyond) = Places(b)
           /\ \A c \in Places(b) :
                 NamesAt(b, beyond)[c] = NameAt(b, beyond, NamesAt(b, beyond), c)
  <1>1. NamesAt(b, beyond) = CHOOSE name : IsNames(b, beyond, name)
    BY Zenon DEF NamesAt, IsNames, Places
  <1>2. IsNames(b, beyond, NamesAt(b, beyond))
    BY <1>1, NamesExist
  <1> HIDE DEF NamesAt
  <1> QED
    BY <1>2, Zenon DEF IsNames

(* What may be said of the names read in a packet: they are names, and there is   *)
(* at most one at a place.                                                      *)
NameSets == SUBSET [labels : Seq(Nat), next : Nat]
Single(s) == \A x, y \in s : x = y
WellRead(b, f) == \A c \in Places(b) : f[c] \in NameSets /\ Single(f[c])

LEMMA LabelsArePrepended ==
    ASSUME NEW x \in Nat, NEW rest \in NameSets, Single(rest)
    PROVE  /\ Prepended(x, rest) \in NameSets
           /\ Single(Prepended(x, rest))
  <1>1. \A n \in rest : n.labels \in Seq(Nat) /\ n.next \in Nat
    BY DEF NameSets
  <1>2. \A n \in rest : <<x>> \o n.labels \in Seq(Nat)
    BY <1>1
  <1>3. \A n \in rest :
           [labels |-> <<x>> \o n.labels, next |-> n.next] \in [labels : Seq(Nat), next : Nat]
    BY <1>1, <1>2
  <1> QED
    BY <1>3, Zenon DEF NameSets, Single, Prepended

LEMMA PointersAreFollowed ==
    ASSUME NEW c \in Nat, NEW rest \in NameSets, Single(rest)
    PROVE  /\ Redirected(c, rest) \in NameSets
           /\ Single(Redirected(c, rest))
  <1>1. \A n \in rest : n.labels \in Seq(Nat)
    BY DEF NameSets
  <1>2. \A n \in rest : AfterPointer(c, n) \in Nat
    BY DEF AfterPointer
  <1>3. \A n \in rest :
           [labels |-> n.labels, next |-> AfterPointer(c, n)] \in [labels : Seq(Nat), next : Nat]
    BY <1>1, <1>2
  <1> QED
    BY <1>3, Zenon DEF NameSets, Single, Redirected

(* The place where a pointer at c leads.                                        *)
PointerAt(b, c) == (ByteAt(b, c) - 192) * 256 + ByteAt(b, c + 1)

LEMMA PointerIs ==
    ASSUME NEW b \in Bytes, NEW c \in Nat, c >= kDnsHeaderSize, ByteAt(b, c) >= 192,
           c + 1 < EndOf(b)
    PROVE  PointerAt(b, c) \in Nat
  <1>1. ByteAt(b, c) \in Nat /\ ByteAt(b, c + 1) \in Nat
    BY BytesAre, PlacesAre DEF kDnsHeaderSize
  <1> QED
    BY <1>1 DEF PointerAt

(* The ways the loop goes on at a place.                                        *)
Ends(b, c) == c >= EndOf(b) \/ c < kDnsHeaderSize
IsNull(b, c) == ~ Ends(b, c) /\ ByteAt(b, c) = 0
IsPointer(b, c) ==
    ~ Ends(b, c) /\ ByteAt(b, c) # 0 /\ ByteAt(b, c) >= 192 /\ c + 1 < EndOf(b)
    /\ PointerAt(b, c) < EndOf(b)
IsLabel(b, c) ==
    ~ Ends(b, c) /\ ByteAt(b, c) # 0 /\ ~ (ByteAt(b, c) >= 192)
    /\ ~ (c + 1 + ByteAt(b, c) > EndOf(b))

LEMMA NameCases ==
    ASSUME NEW b \in Bytes, NEW beyond, NEW f, NEW c \in Places(b)
    PROVE  /\ IsNull(b, c) => NameAt(b, beyond, f, c) = EndAt(c)
           /\ IsPointer(b, c) =>
                 /\ PointerAt(b, c) \in Places(b)
                 /\ NameAt(b, beyond, f, c) =
                       Redirected(c, beyond[PointerAt(b, c)])
           /\ IsLabel(b, c) =>
                 /\ c + 1 + ByteAt(b, c) \in Places(b) /\ c + 1 + ByteAt(b, c) > c
                 /\ ByteAt(b, c + 1) \in Nat
                 /\ NameAt(b, beyond, f, c) =
                       Prepended(ByteAt(b, c + 1), f[c + 1 + ByteAt(b, c)])
           /\ ~ (IsNull(b, c) \/ IsPointer(b, c) \/ IsLabel(b, c)) =>
                 NameAt(b, beyond, f, c) = {}
  <1>1. EndOf(b) \in Nat /\ c \in Nat /\ c <= EndOf(b) /\ kDnsHeaderSize = 12
    BY PlacesAre DEF Places, kDnsHeaderSize
  <1>2. IsNull(b, c) => NameAt(b, beyond, f, c) = EndAt(c)
    BY Zenon DEF IsNull, Ends, NameAt
  <1>3. ASSUME IsPointer(b, c)
        PROVE  /\ PointerAt(b, c) \in Places(b)
               /\ NameAt(b, beyond, f, c) =
                     Redirected(c, beyond[PointerAt(b, c)])
    <2>1. PointerAt(b, c) \in Nat
      BY <1>1, <1>3, PointerIs DEF IsPointer, Ends
    <2>2. ~ (c + 1 >= EndOf(b)) /\ ~ (PointerAt(b, c) >= EndOf(b))
      BY <1>1, <1>3, <2>1 DEF IsPointer
    <2>3. PointerAt(b, c) \in Places(b)
      BY <1>1, <1>3, <2>1 DEF IsPointer, Places
    <2> QED
      BY <1>3, <2>2, <2>3, Zenon DEF IsPointer, Ends, NameAt, PointerAt
  <1>4. ASSUME IsLabel(b, c)
        PROVE  /\ c + 1 + ByteAt(b, c) \in Places(b) /\ c + 1 + ByteAt(b, c) > c
               /\ ByteAt(b, c + 1) \in Nat
               /\ NameAt(b, beyond, f, c) =
                     Prepended(ByteAt(b, c + 1), f[c + 1 + ByteAt(b, c)])
    <2>1. c >= kDnsHeaderSize /\ c < EndOf(b)
      BY <1>1, <1>4 DEF IsLabel, Ends
    <2>2. ByteAt(b, c) \in Nat
      BY <1>1, <2>1, BytesAre
    <2>3. c + 1 + ByteAt(b, c) \in Places(b) /\ c + 1 + ByteAt(b, c) > c
      BY <1>1, <1>4, <2>2 DEF IsLabel, Places
    <2>4. c + 1 \in Nat /\ c + 1 >= kDnsHeaderSize /\ c + 1 < EndOf(b)
      BY <1>1, <1>4, <2>1, <2>2 DEF IsLabel
    <2>5. ByteAt(b, c + 1) \in Nat
      BY <2>4, BytesAre
    <2> QED
      BY <1>4, <2>3, <2>5, Zenon DEF IsLabel, Ends, NameAt
  <1>5. ASSUME ~ (IsNull(b, c) \/ IsPointer(b, c) \/ IsLabel(b, c))
        PROVE  NameAt(b, beyond, f, c) = {}
    <2>1. CASE Ends(b, c)
      BY <2>1, Zenon DEF Ends, NameAt
    <2>2. CASE ~ Ends(b, c) /\ ~ (ByteAt(b, c) >= 192)
      BY <1>5, <2>2, Zenon DEF Ends, NameAt, IsNull, IsLabel
    <2>3. CASE ~ Ends(b, c) /\ ByteAt(b, c) >= 192
      <3>1. c + 1 < EndOf(b) => PointerAt(b, c) \in Nat
        BY <1>1, <2>3, PointerIs DEF Ends
      <3>2. c + 1 >= EndOf(b) \/ PointerAt(b, c) >= EndOf(b) \/ ByteAt(b, c) = 0
        BY <1>1, <1>5, <2>3, <3>1 DEF IsPointer, IsNull
      <3>3. ByteAt(b, c) # 0
        BY <1>5, <2>3 DEF IsNull
      <3> QED
        BY <2>3, <3>2, <3>3, Zenon DEF Ends, NameAt, PointerAt
    <2> QED
      BY <2>1, <2>2, <2>3
  <1> QED
    BY <1>2, <1>3, <1>4, <1>5

LEMMA NamesAreWellRead ==
    ASSUME NEW b \in Bytes, NEW beyond, WellRead(b, beyond)
    PROVE  WellRead(b, NamesAt(b, beyond))
  <1> DEFINE f == NamesAt(b, beyond)
             S == {c \in Places(b) : f[c] \in NameSets /\ Single(f[c])}
  <1>1. \A c \in Places(b) : f[c] = NameAt(b, beyond, f, c)
    BY NamesAre
  <1> HIDE DEF f
  <1>2. EndOf(b) \in Nat
    BY PlacesAre
  <1>3. ASSUME NEW c \in 0 .. EndOf(b), \A x \in 0 .. EndOf(b) : x > c => x \in S
        PROVE  c \in S
    <2>1. c \in Places(b) /\ c \in Nat
      BY DEF Places
    <2>2. CASE IsNull(b, c)
      <3>1. f[c] = EndAt(c)
        BY <1>1, <2>1, <2>2, NameCases
      <3>2. <<>> \in Seq(Nat) /\ c + 1 \in Nat
        BY <2>1
      <3>3. [labels |-> <<>>, next |-> c + 1] \in [labels : Seq(Nat), next : Nat]
        BY <3>2
      <3>4. EndAt(c) \in NameSets /\ Single(EndAt(c))
        BY <3>3, Zenon DEF NameSets, Single, EndAt
      <3> QED
        BY <2>1, <3>1, <3>4
    <2>3. CASE IsPointer(b, c)
      <3>1. /\ PointerAt(b, c) \in Places(b)
            /\ f[c] = Redirected(c, beyond[PointerAt(b, c)])
        BY <1>1, <2>1, <2>3, NameCases
      <3>2. beyond[PointerAt(b, c)] \in NameSets /\ Single(beyond[PointerAt(b, c)])
        BY <3>1 DEF WellRead
      <3> QED
        BY <2>1, <3>1, <3>2, PointersAreFollowed
    <2>4. CASE IsLabel(b, c)
      <3>1. /\ c + 1 + ByteAt(b, c) \in Places(b) /\ c + 1 + ByteAt(b, c) > c
            /\ ByteAt(b, c + 1) \in Nat
            /\ f[c] = Prepended(ByteAt(b, c + 1), f[c + 1 + ByteAt(b, c)])
        BY <1>1, <2>1, <2>4, NameCases
      <3> DEFINE y == c + 1 + ByteAt(b, c)
      <3>2. y \in 0 .. EndOf(b) /\ y > c
        BY <3>1 DEF Places
      <3>3. f[y] \in NameSets /\ Single(f[y])
        BY <1>3, <3>2
      <3> HIDE DEF y
      <3>4. f[c] = Prepended(ByteAt(b, c + 1), f[y])
        BY <3>1 DEF y
      <3> QED
        BY <2>1, <3>1, <3>3, <3>4, LabelsArePrepended
    <2>5. CASE ~ (IsNull(b, c) \/ IsPointer(b, c) \/ IsLabel(b, c))
      <3>1. f[c] = {}
        BY <1>1, <2>1, <2>5, NameCases
      <3> QED
        BY <2>1, <3>1 DEF NameSets, Single
    <2> QED
      BY <2>2, <2>3, <2>4, <2>5
  <1> HIDE DEF S
  <1>4. \A c \in 0 .. EndOf(b) : c \in S
    BY <1>2, <1>3, DownwardInduction
  <1> QED
    BY <1>4 DEF S, WellRead, f, Places

(* A packet that goes on where another ends: what is read in the shorter one is   *)
(* read in the longer one.                                                      *)
Extends(b, d) == Len(b) <= Len(d) /\ \A i \in 1 .. Len(b) : d[i] = b[i]
Within(b, f, g) == \A c \in Places(b) : f[c] \subseteq g[c]

LEMMA ExtendedPlaces ==
    ASSUME NEW b \in Bytes, NEW d \in Bytes, Extends(b, d)
    PROVE  /\ Places(b) \subseteq Places(d) /\ EndOf(b) <= EndOf(d)
           /\ \A c \in Nat : c >= kDnsHeaderSize /\ c < EndOf(b) => ByteAt(d, c) = ByteAt(b, c)
  <1>1. EndOf(b) \in Nat /\ EndOf(d) \in Nat /\ EndOf(b) <= EndOf(d)
    BY PlacesAre DEF Extends, EndOf, kDnsHeaderSize, Bytes
  <1>2. Places(b) \subseteq Places(d)
    BY <1>1 DEF Places
  <1>3. ASSUME NEW c \in Nat, c >= kDnsHeaderSize, c < EndOf(b)
        PROVE  ByteAt(d, c) = ByteAt(b, c)
    BY <1>3, BytesAre DEF Extends, ByteAt
  <1> QED
    BY <1>1, <1>2, <1>3

LEMMA NamesGrow ==
    ASSUME NEW b \in Bytes, NEW d \in Bytes, Extends(b, d),
           NEW beyond, NEW further, Within(b, beyond, further)
    PROVE  Within(b, NamesAt(b, beyond), NamesAt(d, further))
  <1> DEFINE f == NamesAt(b, beyond)
             g == NamesAt(d, further)
             S == {c \in Places(b) : f[c] \subseteq g[c]}
  <1>1. \A c \in Places(b) : f[c] = NameAt(b, beyond, f, c)
    BY NamesAre
  <1>2. \A c \in Places(d) : g[c] = NameAt(d, further, g, c)
    BY NamesAre
  <1> HIDE DEF f, g
  <1>3. /\ EndOf(b) \in Nat /\ EndOf(d) \in Nat /\ kDnsHeaderSize = 12
        /\ Places(b) \subseteq Places(d) /\ EndOf(b) <= EndOf(d)
        /\ \A c \in Nat : c >= kDnsHeaderSize /\ c < EndOf(b) => ByteAt(d, c) = ByteAt(b, c)
    BY PlacesAre, ExtendedPlaces DEF kDnsHeaderSize
  <1>4. ASSUME NEW c \in 0 .. EndOf(b), \A x \in 0 .. EndOf(b) : x > c => x \in S
        PROVE  c \in S
    <2>1. c \in Places(b) /\ c \in Places(d) /\ c \in Nat
      BY <1>3 DEF Places
    <2>2. ~ Ends(b, c) => ~ Ends(d, c) /\ ByteAt(d, c) = ByteAt(b, c) /\ ByteAt(b, c) \in Nat
      <3>1. ~ Ends(b, c) => c >= kDnsHeaderSize /\ c < EndOf(b) /\ c < EndOf(d)
        BY <1>3, <2>1 DEF Ends
      <3>2. c >= kDnsHeaderSize /\ c < EndOf(d) => ~ Ends(d, c)
        BY <1>3, <2>1 DEF Ends
      <3> QED
        BY <1>3, <2>1, <3>1, <3>2, BytesAre
    <2>3. ~ Ends(b, c) /\ c + 1 < EndOf(b) =>
             ByteAt(d, c + 1) = ByteAt(b, c + 1) /\ PointerAt(d, c) = PointerAt(b, c)
      <3>1. ~ Ends(b, c) => c + 1 >= kDnsHeaderSize /\ c + 1 \in Nat
        BY <1>3, <2>1 DEF Ends
      <3> QED
        BY <1>3, <2>2, <3>1 DEF PointerAt
    <2>4. CASE IsNull(b, c)
      <3>1. IsNull(d, c)
        BY <2>2, <2>4 DEF IsNull
      <3>2. f[c] = EndAt(c)
        BY <1>1, <2>1, <2>4, NameCases
      <3>3. g[c] = EndAt(c)
        BY <1>2, <2>1, <3>1, NameCases
      <3> QED
        BY <2>1, <3>2, <3>3
    <2>5. CASE IsPointer(b, c)
      <3>1. IsPointer(d, c) /\ PointerAt(d, c) = PointerAt(b, c)
        <4>1. /\ ~ Ends(b, c) /\ ByteAt(b, c) # 0 /\ ByteAt(b, c) >= 192
              /\ c + 1 < EndOf(b) /\ PointerAt(b, c) < EndOf(b)
          BY <2>5 DEF IsPointer
        <4>2. PointerAt(b, c) \in Nat
          BY <2>1, <4>1, <1>3, PointerIs DEF Ends
        <4>3. c + 1 < EndOf(d) /\ PointerAt(b, c) < EndOf(d)
          BY <1>3, <2>1, <4>1, <4>2
        <4> QED
          BY <2>2, <2>3, <4>1, <4>3 DEF IsPointer
      <3>2. /\ PointerAt(b, c) \in Places(b)
            /\ f[c] = Redirected(c, beyond[PointerAt(b, c)])
        BY <1>1, <2>1, <2>5, NameCases
      <3>3. g[c] = Redirected(c, further[PointerAt(b, c)])
        BY <1>2, <2>1, <3>1, NameCases
      <3>4. beyond[PointerAt(b, c)] \subseteq further[PointerAt(b, c)]
        BY <3>2 DEF Within
      <3> QED
        BY <2>1, <3>2, <3>3, <3>4, Zenon DEF Redirected
    <2>6. CASE IsLabel(b, c)
      <3>1. /\ c + 1 + ByteAt(b, c) \in Places(b) /\ c + 1 + ByteAt(b, c) > c
            /\ f[c] = Prepended(ByteAt(b, c + 1), f[c + 1 + ByteAt(b, c)])
        BY <1>1, <2>1, <2>6, NameCases
      <3>2. /\ ~ Ends(b, c) /\ ByteAt(b, c) # 0 /\ ~ (ByteAt(b, c) >= 192)
            /\ ~ (c + 1 + ByteAt(b, c) > EndOf(b))
        BY <2>6 DEF IsLabel
      <3>3. c + 1 < EndOf(b) /\ ~ (c + 1 + ByteAt(b, c) > EndOf(d))
        BY <1>3, <2>1, <2>2, <3>2
      <3>4. IsLabel(d, c) /\ ByteAt(d, c + 1) = ByteAt(b, c + 1) /\ ByteAt(d, c) = ByteAt(b, c)
        BY <2>2, <2>3, <3>2, <3>3 DEF IsLabel
      <3> DEFINE y == c + 1 + ByteAt(b, c)
      <3>5. g[c] = Prepended(ByteAt(d, c + 1), g[c + 1 + ByteAt(d, c)])
        BY <1>2, <2>1, <3>4, NameCases
      <3>6. g[c] = Prepended(ByteAt(b, c + 1), g[y])
        BY <3>4, <3>5, Zenon
      <3>7. y \in 0 .. EndOf(b) /\ y > c
        BY <3>1 DEF Places
      <3>8. f[y] \subseteq g[y]
        BY <1>4, <3>7
      <3>9. f[c] = Prepended(ByteAt(b, c + 1), f[y])
        BY <3>1
      <3> HIDE DEF y
      <3> QED
        BY <2>1, <3>6, <3>8, <3>9, Zenon DEF Prepended
    <2>7. CASE ~ (IsNull(b, c) \/ IsPointer(b, c) \/ IsLabel(b, c))
      <3>1. f[c] = {}
        BY <1>1, <2>1, <2>7, NameCases
      <3> QED
        BY <2>1, <3>1
    <2> QED
      BY <2>4, <2>5, <2>6, <2>7
  <1> HIDE DEF S
  <1>5. \A c \in 0 .. EndOf(b) : c \in S
    BY <1>3, <1>4, DownwardInduction
  <1> QED
    BY <1>5 DEF S, Within, f, g, Places

(* The names that are read with at most j pointers.                             *)
Nowhere(b) == [c \in Places(b) |-> {}]
Level(b, names, j) == NamesAt(b, IF j = 0 THEN Nowhere(b) ELSE names[j - 1])
IsDecoder(b, names) == names = [j \in 0 .. MaxJumps |-> Level(b, names, j)]

LEMMA DecoderExists ==
    ASSUME NEW b
    PROVE  \E names : IsDecoder(b, names)
  <1> DEFINE Stage(m, f) == f = [j \in 0 .. m |-> Level(b, f, j)]
             S == {m \in Nat : \E f : Stage(m, f)}
  <1>1. 0 \in S
    <2> DEFINE f == [j \in 0 .. 0 |-> NamesAt(b, Nowhere(b))]
    <2>1. \A j \in 0 .. 0 : j = 0
      OBVIOUS
    <2>2. \A j \in 0 .. 0 : Level(b, f, j) = NamesAt(b, Nowhere(b))
      BY <2>1, Zenon DEF Level
    <2>3. Stage(0, f)
      BY <2>2, Zenon
    <2> QED
      BY <2>3
  <1>2. ASSUME NEW m \in Nat, m \in S PROVE m + 1 \in S
    <2>1. PICK old : Stage(m, old)
      BY <1>2
    <2> DEFINE step(f, j) == Level(b, f, j)
               new == [j \in 0 .. m + 1 |-> IF j \in 0 .. m THEN old[j] ELSE step(old, j)]
    <2>2. \A j \in 0 .. m : j \in 0 .. m + 1
      OBVIOUS
    <2>3. \A j \in 0 .. m + 1 : j # 0 => j - 1 \in 0 .. m
      OBVIOUS
    <2>4. \A j \in 0 .. m : old[j] = step(old, j)
      BY <2>1, Zenon
    <2> HIDE DEF step
    <2>5. \A j \in 0 .. m : new[j] = old[j]
      BY <2>2, Zenon
    <2>6. \A j \in 0 .. m + 1 : j \notin 0 .. m => new[j] = step(old, j)
      BY Zenon
    <2>7. new = [j \in 0 .. m + 1 |-> new[j]]
      OBVIOUS
    <2> HIDE DEF new
    <2>8. \A j \in 0 .. m + 1 : j # 0 => new[j - 1] = old[j - 1]
      BY <2>3, <2>5, Zenon
    <2>9. \A j \in 0 .. m + 1 : step(new, j) = step(old, j)
      BY <2>8, Zenon DEF step, Level
    <2>10. \A j \in 0 .. m + 1 : new[j] = step(new, j)
      BY <2>4, <2>5, <2>6, <2>9, Zenon
    <2>11. new = [j \in 0 .. m + 1 |-> step(new, j)]
      BY <2>7, <2>10, Zenon
    <2>12. Stage(m + 1, new)
      BY <2>11 DEF step
    <2> QED
      BY <2>12
  <1> HIDE DEF S
  <1>3. MaxJumps \in S
    BY <1>1, <1>2, SetInduction, DnsAssumption DEF DnsAssumption
  <1> QED
    BY <1>3 DEF S, IsDecoder

LEMMA DecodedIs ==
    ASSUME NEW b
    PROVE  /\ DecodedFrom(b)[0] = NamesAt(b, Nowhere(b))
           /\ \A j \in Nat : j + 1 <= MaxJumps =>
                 DecodedFrom(b)[j + 1] = NamesAt(b, DecodedFrom(b)[j])
  <1>1. DecodedFrom(b) = CHOOSE names : IsDecoder(b, names)
    BY Zenon DEF DecodedFrom, IsDecoder, Level, Nowhere, Places
  <1>2. IsDecoder(b, DecodedFrom(b))
    BY <1>1, DecoderExists
  <1> HIDE DEF DecodedFrom
  <1>3. \A j \in 0 .. MaxJumps : DecodedFrom(b)[j] = Level(b, DecodedFrom(b), j)
    BY <1>2, Zenon DEF IsDecoder
  <1>4. 0 \in 0 .. MaxJumps
    BY DnsAssumption DEF DnsAssumption
  <1>5. DecodedFrom(b)[0] = NamesAt(b, Nowhere(b))
    BY <1>3, <1>4, Zenon DEF Level
  <1>6. ASSUME NEW j \in Nat, j + 1 <= MaxJumps
        PROVE  DecodedFrom(b)[j + 1] = NamesAt(b, DecodedFrom(b)[j])
    <2>1. j + 1 \in 0 .. MaxJumps /\ j + 1 # 0 /\ (j + 1) - 1 = j
      BY <1>6, DnsAssumption DEF DnsAssumption
    <2>2. Level(b, DecodedFrom(b), j + 1) = NamesAt(b, DecodedFrom(b)[j])
      BY <2>1, Zenon DEF Level
    <2> QED
      BY <1>3, <2>1, <2>2
  <1> QED
    BY <1>5, <1>6

LEMMA DecodedIsWellRead ==
    ASSUME NEW b \in Bytes, NEW j \in 0 .. MaxJumps
    PROVE  WellRead(b, DecodedFrom(b)[j])
  <1> DEFINE S == {k \in Nat : k <= MaxJumps => WellRead(b, DecodedFrom(b)[k])}
  <1>1. 0 \in S
    <2>1. WellRead(b, Nowhere(b))
      BY DEF WellRead, Nowhere, NameSets, Single
    <2> QED
      BY <2>1, DecodedIs, NamesAreWellRead
  <1>2. ASSUME NEW k \in Nat, k \in S PROVE k + 1 \in S
    <2> SUFFICES ASSUME k + 1 <= MaxJumps PROVE WellRead(b, DecodedFrom(b)[k + 1])
      OBVIOUS
    <2>1. k <= MaxJumps
      BY DnsAssumption DEF DnsAssumption
    <2> QED
      BY <1>2, <2>1, DecodedIs, NamesAreWellRead
  <1> HIDE DEF S
  <1>3. j \in S
    BY <1>1, <1>2, SetInduction, DnsAssumption DEF DnsAssumption
  <1> QED
    BY <1>3 DEF S

LEMMA DecodedGrows ==
    ASSUME NEW b \in Bytes, NEW d \in Bytes, Extends(b, d),
           NEW j \in 0 .. MaxJumps, NEW k \in 0 .. MaxJumps, j <= k
    PROVE  Within(b, DecodedFrom(b)[j], DecodedFrom(d)[k])
  <1> DEFINE S == {m \in Nat : \A n \in 0 .. MaxJumps :
                      m <= n => Within(b, DecodedFrom(b)[m], DecodedFrom(d)[n])}
  <1>0. MaxJumps \in Nat
    BY DnsAssumption DEF DnsAssumption
  <1>1. 0 \in S
    <2> SUFFICES ASSUME NEW n \in 0 .. MaxJumps
                 PROVE  Within(b, DecodedFrom(b)[0], DecodedFrom(d)[n])
      OBVIOUS
    <2>1. \A f : Within(b, Nowhere(b), f)
      BY DEF Within, Nowhere
    <2>2. CASE n = 0
      BY <2>1, <2>2, DecodedIs, NamesGrow
    <2>3. CASE n # 0
      <3>1. n - 1 \in Nat /\ (n - 1) + 1 = n /\ n <= MaxJumps
        BY <1>0, <2>3
      <3>2. DecodedFrom(d)[n] = NamesAt(d, DecodedFrom(d)[n - 1])
        BY <3>1, DecodedIs
      <3> QED
        BY <2>1, <3>2, DecodedIs, NamesGrow
    <2> QED
      BY <2>2, <2>3
  <1>2. ASSUME NEW m \in Nat, m \in S PROVE m + 1 \in S
    <2> SUFFICES ASSUME NEW n \in 0 .. MaxJumps, m + 1 <= n
                 PROVE  Within(b, DecodedFrom(b)[m + 1], DecodedFrom(d)[n])
      OBVIOUS
    <2>1. /\ n - 1 \in Nat /\ n - 1 \in 0 .. MaxJumps /\ (n - 1) + 1 = n
          /\ n <= MaxJumps /\ m <= n - 1 /\ m + 1 <= MaxJumps
      BY <1>0
    <2>2. DecodedFrom(d)[n] = NamesAt(d, DecodedFrom(d)[n - 1])
      BY <2>1, DecodedIs
    <2>3. DecodedFrom(b)[m + 1] = NamesAt(b, DecodedFrom(b)[m])
      BY <2>1, DecodedIs
    <2>4. Within(b, DecodedFrom(b)[m], DecodedFrom(d)[n - 1])
      BY <1>2, <2>1
    <2> QED
      BY <2>2, <2>3, <2>4, NamesGrow
  <1> HIDE DEF S
  <1>3. j \in S
    BY <1>1, <1>2, SetInduction
  <1> QED
    BY <1>3 DEF S

(* decode_name: at most one name, and what it reads is not changed by what       *)
(* follows in the packet.                                                       *)
LEMMA DecodeNameIs ==
    ASSUME NEW b \in Bytes, NEW c \in Nat
    PROVE  DecodeName(b, c) \in NameSets /\ Single(DecodeName(b, c))
  <1>1. CASE c >= EndOf(b)
    BY <1>1 DEF DecodeName, NameSets, Single
  <1>2. CASE ~ (c >= EndOf(b))
    <2>1. c \in Places(b)
      BY <1>2, PlacesAre DEF Places
    <2>2. WellRead(b, DecodedFrom(b)[MaxJumps])
      BY DecodedIsWellRead, DnsAssumption DEF DnsAssumption
    <2>3. DecodeName(b, c) = DecodedFrom(b)[MaxJumps][c]
      BY <1>2, Zenon DEF DecodeName
    <2> QED
      BY <2>1, <2>2, <2>3 DEF WellRead
  <1> QED
    BY <1>1, <1>2

LEMMA DecodeNameGrows ==
    ASSUME NEW b \in Bytes, NEW d \in Bytes, Extends(b, d), NEW c \in Nat
    PROVE  DecodeName(b, c) \subseteq DecodeName(d, c)
  <1>1. CASE c >= EndOf(b)
    BY <1>1 DEF DecodeName
  <1>2. CASE ~ (c >= EndOf(b))
    <2>1. c \in Places(b) /\ ~ (c >= EndOf(d))
      BY <1>2, PlacesAre, ExtendedPlaces DEF Places
    <2>2. Within(b, DecodedFrom(b)[MaxJumps], DecodedFrom(d)[MaxJumps])
      BY DecodedGrows, DnsAssumption DEF DnsAssumption
    <2>3. DecodeName(b, c) = DecodedFrom(b)[MaxJumps][c]
      BY <1>2, Zenon DEF DecodeName
    <2>4. DecodeName(d, c) = DecodedFrom(d)[MaxJumps][c]
      BY <2>1, Zenon DEF DecodeName
    <2> QED
      BY <2>1, <2>2, <2>3, <2>4 DEF Within
  <1> QED
    BY <1>1, <1>2

(* parse_rdata and parse_record: at most one record, the same in every packet    *)
(* that goes on behind it.                                                      *)
LEMMA NumbersAre ==
    ASSUME NEW b \in Bytes, NEW c \in Nat, c >= kDnsHeaderSize, c + 2 <= EndOf(b)
    PROVE  ReadU16(b, c) \in Nat
  <1>1. ByteAt(b, c) \in Nat /\ ByteAt(b, c + 1) \in Nat
    BY BytesAre, PlacesAre DEF kDnsHeaderSize
  <1> QED
    BY <1>1 DEF ReadU16

LEMMA NumbersStay ==
    ASSUME NEW b \in Bytes, NEW d \in Bytes, Extends(b, d),
           NEW c \in Nat, c >= kDnsHeaderSize, c + 2 <= EndOf(b)
    PROVE  ReadU16(d, c) = ReadU16(b, c)
  <1>1. /\ c < EndOf(b) /\ c + 1 < EndOf(b) /\ c + 1 >= kDnsHeaderSize /\ c + 1 \in Nat
    BY PlacesAre DEF kDnsHeaderSize
  <1> QED
    BY <1>1, ExtendedPlaces DEF ReadU16

(* Names cannot begin behind a part that does not begin behind the header.      *)
LEMMA NamesLeaveTheHeader ==
    ASSUME NEW b \in Bytes, NEW c \in Nat, NEW n \in DecodeName(b, c)
    PROVE  n.labels \in Seq(Nat) /\ n.next \in Nat /\ n.next >= kDnsHeaderSize
  <1>1. n.labels \in Seq(Nat) /\ n.next \in Nat
    BY DecodeNameIs DEF NameSets
  <1> DEFINE Behind(s) == \A m \in s : m.next >= kDnsHeaderSize
             f == DecodedFrom(b)[MaxJumps]
             S == {x \in Places(b) : Behind(f[x])}
  <1>2. PICK beyond : f = NamesAt(b, beyond)
    <2>1. CASE MaxJumps = 0
      BY <2>1, DecodedIs
    <2>2. CASE MaxJumps # 0
      <3>1. MaxJumps - 1 \in Nat /\ (MaxJumps - 1) + 1 = MaxJumps /\ MaxJumps <= MaxJumps
        BY <2>2, DnsAssumption DEF DnsAssumption
      <3>2. f = NamesAt(b, DecodedFrom(b)[MaxJumps - 1])
        BY <3>1, DecodedIs
      <3> QED
        BY <3>2
    <2> QED
      BY <2>1, <2>2
  <1>3. \A x \in Places(b) : f[x] = NameAt(b, beyond, f, x)
    BY <1>2, NamesAre
  <1>4. ~ (c >= EndOf(b)) /\ n \in f[c] /\ c \in Places(b) /\ EndOf(b) \in Nat
    <2>1. ~ (c >= EndOf(b))
      BY Zenon DEF DecodeName
    <2> QED
      BY <2>1, PlacesAre DEF DecodeName, Places
  <1> HIDE DEF f
  <1>5. ASSUME NEW x \in 0 .. EndOf(b), \A y \in 0 .. EndOf(b) : y > x => y \in S
        PROVE  x \in S
    <2>1. x \in Places(b) /\ x \in Nat /\ EndOf(b) \in Nat
      BY PlacesAre DEF Places
    <2>2. CASE IsNull(b, x)
      <3>1. f[x] = EndAt(x)
        BY <1>3, <2>1, <2>2, NameCases
      <3>2. x + 1 >= kDnsHeaderSize
        BY <2>1, <2>2 DEF IsNull, Ends, kDnsHeaderSize
      <3>3. Behind(EndAt(x))
        BY <3>2 DEF EndAt
      <3> QED
        BY <2>1, <3>1, <3>3
    <2>3. CASE IsPointer(b, x)
      <3>1. f[x] = Redirected(x, beyond[PointerAt(b, x)])
        BY <1>3, <2>1, <2>3, NameCases
      <3>2. x + 2 >= kDnsHeaderSize
        BY <2>1, <2>3 DEF IsPointer, Ends, kDnsHeaderSize
      <3>3. \A rest : Behind(Redirected(x, rest))
        BY <3>2 DEF Redirected, AfterPointer
      <3> QED
        BY <2>1, <3>1, <3>3
    <2>4. CASE IsLabel(b, x)
      <3>1. /\ x + 1 + ByteAt(b, x) \in Places(b) /\ x + 1 + ByteAt(b, x) > x
            /\ f[x] = Prepended(ByteAt(b, x + 1), f[x + 1 + ByteAt(b, x)])
        BY <1>3, <2>1, <2>4, NameCases
      <3>2. x + 1 + ByteAt(b, x) \in S
        BY <1>5, <3>1 DEF Places
      <3>3. Behind(f[x + 1 + ByteAt(b, x)])
        BY <3>2
      <3>4. Behind(Prepended(ByteAt(b, x + 1), f[x + 1 + ByteAt(b, x)]))
        BY <3>3 DEF Prepended
      <3> QED
        BY <2>1, <3>1, <3>4
    <2>5. CASE ~ (IsNull(b, x) \/ IsPointer(b, x) \/ IsLabel(b, x))
      <3>1. f[x] = {}
        BY <1>3, <2>1, <2>5, NameCases
      <3> QED
        BY <2>1, <3>1
    <2> QED
      BY <2>2, <2>3, <2>4, <2>5
  <1> HIDE DEF S
  <1>6. \A x \in 0 .. EndOf(b) : x \in S
    BY <1>4, <1>5, DownwardInduction
  <1>7. Behind(f[c])
    BY <1>4, <1>6 DEF S, Places
  <1> QED
    BY <1>1, <1>4, <1>7

LEMMA DataIsSingle ==
    ASSUME NEW b \in Bytes, NEW c \in Nat, NEW length, NEW type, NEW name
    PROVE  Single(ParseData(b, c, length, type, name))
  <1>1. Single(DecodeName(b, c)) /\ Single(DecodeName(b, c + 2))
    BY DecodeNameIs
  <1> QED
    BY <1>1, Zenon DEF ParseData, Single

LEMMA DataGrows ==
    ASSUME NEW b \in Bytes, NEW d \in Bytes, Extends(b, d),
           NEW c \in Nat, c >= kDnsHeaderSize, NEW length \in Nat, NEW type, NEW name
    PROVE  ParseData(b, c, length, type, name) \subseteq ParseData(d, c, length, type, name)
  <1>1. CASE c + length > EndOf(b)
    BY <1>1, Zenon DEF ParseData
  <1>2. CASE ~ (c + length > EndOf(b))
    <2>1. ~ (c + length > EndOf(d))
      BY <1>2, PlacesAre, ExtendedPlaces
    <2>2. DecodeName(b, c) \subseteq DecodeName(d, c)
      BY DecodeNameGrows
    <2>3. DecodeName(b, c + 2) \subseteq DecodeName(d, c + 2)
      BY DecodeNameGrows
    <2>4. length >= 3 => ReadU16(d, c) = ReadU16(b, c)
      BY <1>2, PlacesAre, NumbersStay
    <2>5. \A i \in 1 .. length : ByteAt(d, c + i - 1) = ByteAt(b, c + i - 1)
      <3> SUFFICES ASSUME NEW i \in 1 .. length
                   PROVE  ByteAt(d, c + i - 1) = ByteAt(b, c + i - 1)
        OBVIOUS
      <3>1. c + i - 1 \in Nat /\ c + i - 1 >= kDnsHeaderSize /\ c + i - 1 < EndOf(b)
        BY <1>2, PlacesAre DEF kDnsHeaderSize
      <3> QED
        BY <3>1, ExtendedPlaces
    <2>6. [i \in 1 .. length |-> ByteAt(d, c + i - 1)] =
          [i \in 1 .. length |-> ByteAt(b, c + i - 1)]
      BY <2>5, Zenon
    <2> QED
      BY <1>2, <2>1, <2>2, <2>3, <2>4, <2>6, Zenon DEF ParseData
  <1> QED
    BY <1>1, <1>2

LEMMA BehindIsSingle ==
    ASSUME NEW b \in Bytes, NEW n, n.next \in Nat, n.next >= kDnsHeaderSize
    PROVE  Single(ParseBehind(b, n)) /\ \A p \in ParseBehind(b, n) : p.next \in Nat
  <1> DEFINE length == ReadU16(b, n.next + 8)
  <1>1. CASE n.next + 10 > EndOf(b)
    BY <1>1, Zenon DEF ParseBehind, Single
  <1>2. CASE ~ (n.next + 10 > EndOf(b))
    <2>1. length \in Nat
      BY <1>2, NumbersAre, PlacesAre DEF kDnsHeaderSize
    <2>2. n.next + 10 + length \in Nat
      BY <2>1
    <2>3. Single(ParseData(b, n.next + 10, length, ReadU16(b, n.next), n.labels))
      BY DataIsSingle
    <2> DEFINE data == ParseData(b, n.next + 10, length, ReadU16(b, n.next), n.labels)
               next == n.next + 10 + length
    <2>4. ParseBehind(b, n) = {[record |-> r, next |-> next] : r \in data}
      BY <1>2, Zenon DEF ParseBehind
    <2>5. next \in Nat /\ Single(data)
      BY <2>2, <2>3
    <2> HIDE DEF data, next
    <2>6. Single(ParseBehind(b, n))
      BY <2>4, <2>5, Zenon DEF Single
    <2>7. \A p \in ParseBehind(b, n) : p.next \in Nat
      BY <2>4, <2>5
    <2> QED
      BY <2>6, <2>7
  <1> QED
    BY <1>1, <1>2

LEMMA BehindGrows ==
    ASSUME NEW b \in Bytes, NEW d \in Bytes, Extends(b, d),
           NEW n, n.next \in Nat, n.next >= kDnsHeaderSize
    PROVE  ParseBehind(b, n) \subseteq ParseBehind(d, n)
  <1> DEFINE length == ReadU16(b, n.next + 8)
  <1>1. CASE n.next + 10 > EndOf(b)
    BY <1>1, Zenon DEF ParseBehind
  <1>2. CASE ~ (n.next + 10 > EndOf(b))
    <2>1. length \in Nat
      BY <1>2, NumbersAre, PlacesAre DEF kDnsHeaderSize
    <2>2. ReadU16(d, n.next) = ReadU16(b, n.next) /\ ReadU16(d, n.next + 8) = length
      BY <1>2, NumbersStay, PlacesAre DEF kDnsHeaderSize
    <2>3. ~ (n.next + 10 > EndOf(d))
      BY <1>2, PlacesAre, ExtendedPlaces
    <2> HIDE DEF length
    <2>4. n.next + 10 \in Nat /\ n.next + 10 >= kDnsHeaderSize
      BY DEF kDnsHeaderSize
    <2>5. ParseData(b, n.next + 10, length, ReadU16(b, n.next), n.labels)
             \subseteq ParseData(d, n.next + 10, length, ReadU16(b, n.next), n.labels)
      BY <2>1, <2>4, DataGrows
    <2> QED
      BY <1>2, <2>2, <2>3, <2>5, Zenon DEF ParseBehind, length
  <1> QED
    BY <1>1, <1>2

LEMMA RecordIs ==
    ASSUME NEW b \in Bytes, NEW c \in Nat
    PROVE  Single(ParseRecord(b, c)) /\ \A p \in ParseRecord(b, c) : p.next \in Nat
  <1>1. \A n \in DecodeName(b, c) :
           Single(ParseBehind(b, n)) /\ \A p \in ParseBehind(b, n) : p.next \in Nat
    BY NamesLeaveTheHeader, BehindIsSingle
  <1>2. Single(DecodeName(b, c))
    BY DecodeNameIs
  <1>3. ASSUME NEW p \in ParseRecord(b, c), NEW q \in ParseRecord(b, c)
        PROVE  p = q /\ p.next \in Nat
    <2>1. PICK m \in DecodeName(b, c) : p \in ParseBehind(b, m)
      BY Zenon DEF ParseRecord
    <2>2. PICK n \in DecodeName(b, c) : q \in ParseBehind(b, n)
      BY Zenon DEF ParseRecord
    <2>3. m = n
      BY <1>2 DEF Single
    <2> QED
      BY <1>1, <2>1, <2>2, <2>3, Zenon DEF Single
  <1> QED
    BY <1>3, Zenon DEF Single

LEMMA RecordGrows ==
    ASSUME NEW b \in Bytes, NEW d \in Bytes, Extends(b, d), NEW c \in Nat
    PROVE  ParseRecord(b, c) \subseteq ParseRecord(d, c)
  <1>1. \A n \in DecodeName(b, c) : ParseBehind(b, n) \subseteq ParseBehind(d, n)
    BY NamesLeaveTheHeader, BehindGrows
  <1>2. DecodeName(b, c) \subseteq DecodeName(d, c)
    BY DecodeNameGrows
  <1> QED
    BY <1>1, <1>2, Zenon DEF ParseRecord

(* The loop of main.                                                            *)
AnswerStep(b, parsed, i) ==
    IF i = 0 THEN ParseQuestion(b) ELSE UNION {ParseNext(b, s) : s \in parsed[i - 1]}
IsParser(b, parsed) == parsed = [i \in 0 .. MaxAnswers |-> AnswerStep(b, parsed, i)]

LEMMA ParserExists ==
    ASSUME NEW b
    PROVE  \E parsed : IsParser(b, parsed)
  <1> DEFINE Stage(m, f) == f = [i \in 0 .. m |-> AnswerStep(b, f, i)]
             S == {m \in Nat : \E f : Stage(m, f)}
  <1>1. 0 \in S
    <2> DEFINE f == [i \in 0 .. 0 |-> ParseQuestion(b)]
    <2>1. \A i \in 0 .. 0 : i = 0
      OBVIOUS
    <2>2. \A i \in 0 .. 0 : AnswerStep(b, f, i) = ParseQuestion(b)
      BY <2>1, Zenon DEF AnswerStep
    <2>3. Stage(0, f)
      BY <2>2, Zenon
    <2> QED
      BY <2>3
  <1>2. ASSUME NEW m \in Nat, m \in S PROVE m + 1 \in S
    <2>1. PICK old : Stage(m, old)
      BY <1>2
    <2> DEFINE step(f, i) == AnswerStep(b, f, i)
               new == [i \in 0 .. m + 1 |-> IF i \in 0 .. m THEN old[i] ELSE step(old, i)]
    <2>2. \A i \in 0 .. m : i \in 0 .. m + 1
      OBVIOUS
    <2>3. \A i \in 0 .. m + 1 : i # 0 => i - 1 \in 0 .. m
      OBVIOUS
    <2>4. \A i \in 0 .. m : old[i] = step(old, i)
      BY <2>1, Zenon
    <2> HIDE DEF step
    <2>5. \A i \in 0 .. m : new[i] = old[i]
      BY <2>2, Zenon
    <2>6. \A i \in 0 .. m + 1 : i \notin 0 .. m => new[i] = step(old, i)
      BY Zenon
    <2>7. new = [i \in 0 .. m + 1 |-> new[i]]
      OBVIOUS
    <2> HIDE DEF new
    <2>8. \A i \in 0 .. m + 1 : i # 0 => new[i - 1] = old[i - 1]
      BY <2>3, <2>5, Zenon
    <2>9. \A i \in 0 .. m + 1 : step(new, i) = step(old, i)
      BY <2>8, Zenon DEF step, AnswerStep
    <2>10. \A i \in 0 .. m + 1 : new[i] = step(new, i)
      BY <2>4, <2>5, <2>6, <2>9, Zenon
    <2>11. new = [i \in 0 .. m + 1 |-> step(new, i)]
      BY <2>7, <2>10, Zenon
    <2>12. Stage(m + 1, new)
      BY <2>11 DEF step
    <2> QED
      BY <2>12
  <1> HIDE DEF S
  <1>3. MaxAnswers \in S
    BY <1>1, <1>2, SetInduction, DnsAssumption DEF DnsAssumption
  <1> QED
    BY <1>3 DEF S, IsParser

LEMMA AnswersAre ==
    ASSUME NEW b
    PROVE  /\ AnswersFrom(b)[0] = ParseQuestion(b)
           /\ \A i \in Nat : i + 1 <= MaxAnswers =>
                 AnswersFrom(b)[i + 1] = UNION {ParseNext(b, s) : s \in AnswersFrom(b)[i]}
  <1>1. AnswersFrom(b) = CHOOSE parsed : IsParser(b, parsed)
    BY Zenon DEF AnswersFrom, IsParser, AnswerStep
  <1>2. IsParser(b, AnswersFrom(b))
    BY <1>1, ParserExists
  <1> HIDE DEF AnswersFrom
  <1>3. \A i \in 0 .. MaxAnswers : AnswersFrom(b)[i] = AnswerStep(b, AnswersFrom(b), i)
    BY <1>2, Zenon DEF IsParser
  <1>4. 0 \in 0 .. MaxAnswers
    BY DnsAssumption DEF DnsAssumption
  <1>5. AnswersFrom(b)[0] = ParseQuestion(b)
    BY <1>3, <1>4, Zenon DEF AnswerStep
  <1>6. ASSUME NEW i \in Nat, i + 1 <= MaxAnswers
        PROVE  AnswersFrom(b)[i + 1] = UNION {ParseNext(b, s) : s \in AnswersFrom(b)[i]}
    <2>1. i + 1 \in 0 .. MaxAnswers /\ i + 1 # 0 /\ (i + 1) - 1 = i
      BY <1>6, DnsAssumption DEF DnsAssumption
    <2>2. AnswerStep(b, AnswersFrom(b), i + 1)
             = UNION {ParseNext(b, s) : s \in AnswersFrom(b)[i]}
      BY <2>1, Zenon DEF AnswerStep
    <2> QED
      BY <1>3, <2>1, <2>2, Zenon
  <1> QED
    BY <1>5, <1>6, Zenon

(* A list of answers that has been read, and the place behind it.               *)
OneAnswer(s) == Single(s) /\ \A x \in s : x.next \in Nat

LEMMA QuestionIs ==
    ASSUME NEW b \in Bytes
    PROVE  OneAnswer(ParseQuestion(b))
  <1>1. \A n \in DecodeName(b, kDnsHeaderSize) : n.next \in Nat
    BY DecodeNameIs DEF NameSets, kDnsHeaderSize
  <1>2. Single(DecodeName(b, kDnsHeaderSize))
    BY DecodeNameIs DEF kDnsHeaderSize
  <1>3. Single(ParseQuestion(b))
    BY <1>2, Zenon DEF ParseQuestion, Single
  <1>4. \A x \in ParseQuestion(b) : x.next \in Nat
    BY <1>1 DEF ParseQuestion
  <1> QED
    BY <1>3, <1>4 DEF OneAnswer

LEMMA NextIs ==
    ASSUME NEW b \in Bytes, NEW s, s.next \in Nat
    PROVE  OneAnswer(ParseNext(b, s))
  <1>1. Single(ParseRecord(b, s.next)) /\ \A p \in ParseRecord(b, s.next) : p.next \in Nat
    BY RecordIs
  <1>2. Single(ParseNext(b, s))
    BY <1>1, Zenon DEF ParseNext, Single
  <1>3. \A x \in ParseNext(b, s) : x.next \in Nat
    BY <1>1 DEF ParseNext
  <1> QED
    BY <1>2, <1>3 DEF OneAnswer

LEMMA AnswersAreSingle ==
    ASSUME NEW b \in Bytes, NEW i \in 0 .. MaxAnswers
    PROVE  OneAnswer(AnswersFrom(b)[i])
  <1> DEFINE S == {m \in Nat : m <= MaxAnswers => OneAnswer(AnswersFrom(b)[m])}
  <1>0. MaxAnswers \in Nat
    BY DnsAssumption DEF DnsAssumption
  <1>1. 0 \in S
    BY AnswersAre, QuestionIs
  <1>2. ASSUME NEW m \in Nat, m \in S PROVE m + 1 \in S
    <2> SUFFICES ASSUME m + 1 <= MaxAnswers PROVE OneAnswer(AnswersFrom(b)[m + 1])
      OBVIOUS
    <2>1. OneAnswer(AnswersFrom(b)[m])
      BY <1>0, <1>2
    <2> DEFINE old == AnswersFrom(b)[m]
    <2>2. AnswersFrom(b)[m + 1] = UNION {ParseNext(b, s) : s \in old}
      BY AnswersAre, Zenon
    <2>3. \A s \in old : OneAnswer(ParseNext(b, s))
      BY <2>1, NextIs DEF OneAnswer
    <2>4. Single(old)
      BY <2>1 DEF OneAnswer
    <2> HIDE DEF old
    <2>5. ASSUME NEW x \in AnswersFrom(b)[m + 1], NEW y \in AnswersFrom(b)[m + 1]
          PROVE  x = y /\ x.next \in Nat
      <3>1. PICK s \in old : x \in ParseNext(b, s)
        BY <2>2, Zenon
      <3>2. PICK t \in old : y \in ParseNext(b, t)
        BY <2>2, Zenon
      <3>3. s = t
        BY <2>4 DEF Single
      <3> QED
        BY <2>3, <3>1, <3>2, <3>3, Zenon DEF OneAnswer, Single
    <2> QED
      BY <2>5, Zenon DEF OneAnswer, Single
  <1> HIDE DEF S
  <1>3. i \in S
    BY <1>0, <1>1, <1>2, SetInduction
  <1> QED
    BY <1>0, <1>3 DEF S

LEMMA AnswersGrow ==
    ASSUME NEW b \in Bytes, NEW d \in Bytes, Extends(b, d), NEW i \in 0 .. MaxAnswers
    PROVE  AnswersFrom(b)[i] \subseteq AnswersFrom(d)[i]
  <1> DEFINE S == {m \in Nat : m <= MaxAnswers => AnswersFrom(b)[m] \subseteq AnswersFrom(d)[m]}
  <1>0. MaxAnswers \in Nat
    BY DnsAssumption DEF DnsAssumption
  <1>1. 0 \in S
    <2>1. DecodeName(b, kDnsHeaderSize) \subseteq DecodeName(d, kDnsHeaderSize)
      BY DecodeNameGrows DEF kDnsHeaderSize
    <2>2. ParseQuestion(b) \subseteq ParseQuestion(d)
      BY <2>1, Zenon DEF ParseQuestion
    <2> QED
      BY <2>2, AnswersAre
  <1>2. ASSUME NEW m \in Nat, m \in S PROVE m + 1 \in S
    <2> SUFFICES ASSUME m + 1 <= MaxAnswers
                 PROVE  AnswersFrom(b)[m + 1] \subseteq AnswersFrom(d)[m + 1]
      OBVIOUS
    <2> DEFINE old == AnswersFrom(b)[m]
               far == AnswersFrom(d)[m]
    <2>1. old \subseteq far
      BY <1>0, <1>2
    <2>2. \A s \in old : s.next \in Nat
      BY <1>0, AnswersAreSingle DEF OneAnswer
    <2>3. \A s \in old : ParseRecord(b, s.next) \subseteq ParseRecord(d, s.next)
      BY <2>2, RecordGrows
    <2>4. AnswersFrom(b)[m + 1] = UNION {ParseNext(b, s) : s \in old}
      BY AnswersAre, Zenon
    <2>5. AnswersFrom(d)[m + 1] = UNION {ParseNext(d, s) : s \in far}
      BY AnswersAre, Zenon
    <2> HIDE DEF old, far
    <2>6. \A s \in old : ParseNext(b, s) \subseteq ParseNext(d, s)
      BY <2>3, Zenon DEF ParseNext
    <2> QED
      BY <2>1, <2>4, <2>5, <2>6, Zenon
  <1> HIDE DEF S
  <1>3. i \in S
    BY <1>0, <1>1, <1>2, SetInduction
  <1> QED
    BY <1>0, <1>3 DEF S

(* What a server has written is read: a name with the place behind it.          *)
Reads(b, j, c, labels, next) == [labels |-> labels, next |-> next] \in DecodedFrom(b)[j][c]

LEMMA ReadsRemain ==
    ASSUME NEW b \in Bytes, NEW d \in Bytes, Extends(b, d), NEW c \in Places(b),
           NEW j \in 0 .. MaxJumps, NEW k \in 0 .. MaxJumps, j <= k,
           NEW labels, NEW next, Reads(b, j, c, labels, next)
    PROVE  Reads(d, k, c, labels, next)
  <1>1. DecodedFrom(b)[j][c] \subseteq DecodedFrom(d)[k][c]
    BY DecodedGrows DEF Within
  <1> QED
    BY <1>1 DEF Reads

LEMMA LevelIs ==
    ASSUME NEW b, NEW j \in 0 .. MaxJumps
    PROVE  \E beyond : /\ DecodedFrom(b)[j] = NamesAt(b, beyond)
                       /\ j > 0 => beyond = DecodedFrom(b)[j - 1]
  <1>1. CASE j = 0
    BY <1>1, DecodedIs
  <1>2. CASE j # 0
    <2>1. j - 1 \in Nat /\ (j - 1) + 1 = j /\ j <= MaxJumps
      BY <1>2, DnsAssumption DEF DnsAssumption
    <2>2. DecodedFrom(b)[j] = NamesAt(b, DecodedFrom(b)[j - 1])
      BY <2>1, DecodedIs
    <2> QED
      BY <2>2
  <1> QED
    BY <1>1, <1>2

LEMMA ReadsEnd ==
    ASSUME NEW b \in Bytes, NEW j \in 0 .. MaxJumps, NEW c \in Nat,
           c >= kDnsHeaderSize, c < EndOf(b), ByteAt(b, c) = 0
    PROVE  Reads(b, j, c, <<>>, c + 1)
  <1>1. PICK beyond : DecodedFrom(b)[j] = NamesAt(b, beyond)
    BY LevelIs
  <1>2. c \in Places(b) /\ IsNull(b, c)
    BY PlacesAre DEF Places, IsNull, Ends, kDnsHeaderSize
  <1>3. NamesAt(b, beyond)[c] = EndAt(c)
    BY <1>2, NamesAre, NameCases
  <1>4. [labels |-> <<>>, next |-> c + 1] \in EndAt(c)
    BY DEF EndAt
  <1> QED
    BY <1>1, <1>3, <1>4 DEF Reads

LEMMA ReadsLabel ==
    ASSUME NEW b \in Bytes, NEW j \in 0 .. MaxJumps, NEW c \in Nat,
           c >= kDnsHeaderSize, c + 2 <= EndOf(b), ByteAt(b, c) = 1,
           NEW rest, NEW next, Reads(b, j, c + 2, rest, next)
    PROVE  Reads(b, j, c, <<ByteAt(b, c + 1)>> \o rest, next)
  <1>1. PICK beyond : DecodedFrom(b)[j] = NamesAt(b, beyond)
    BY LevelIs
  <1> DEFINE f == NamesAt(b, beyond)
  <1>2. c \in Places(b) /\ IsLabel(b, c) /\ c + 1 + ByteAt(b, c) = c + 2
    BY PlacesAre DEF Places, IsLabel, Ends, kDnsHeaderSize
  <1>3. f[c] = NameAt(b, beyond, f, c)
    BY <1>2, NamesAre
  <1>4. [labels |-> rest, next |-> next] \in f[c + 2]
    BY <1>1 DEF Reads
  <1> HIDE DEF f
  <1>5. f[c] = Prepended(ByteAt(b, c + 1), f[c + 2])
    BY <1>2, <1>3, NameCases
  <1>6. [labels |-> <<ByteAt(b, c + 1)>> \o rest, next |-> next]
           \in Prepended(ByteAt(b, c + 1), f[c + 2])
    <2> DEFINE n == [labels |-> rest, next |-> next]
    <2>1. n.labels = rest /\ n.next = next /\ n \in f[c + 2]
      BY <1>4
    <2> HIDE DEF n
    <2> QED
      BY <2>1, Zenon DEF Prepended
  <1> QED
    BY <1>1, <1>5, <1>6 DEF Reads, f

LEMMA ReadsPointer ==
    ASSUME NEW b \in Bytes, NEW j \in Nat, j + 1 <= MaxJumps, NEW c \in Nat,
           c >= kDnsHeaderSize, c + 2 <= EndOf(b), ByteAt(b, c) >= 192,
           PointerAt(b, c) < EndOf(b),
           NEW labels, NEW next, Reads(b, j, PointerAt(b, c), labels, next)
    PROVE  Reads(b, j + 1, c, labels, c + 2)
  <1> DEFINE beyond == DecodedFrom(b)[j]
             f == NamesAt(b, beyond)
  <1>1. DecodedFrom(b)[j + 1] = f
    BY DecodedIs
  <1>2. c \in Places(b) /\ IsPointer(b, c)
    <2>1. ByteAt(b, c) \in Nat
      BY BytesAre, PlacesAre DEF kDnsHeaderSize
    <2> QED
      BY <2>1, PlacesAre DEF Places, IsPointer, Ends, kDnsHeaderSize
  <1>3. f[c] = NameAt(b, beyond, f, c)
    BY <1>2, NamesAre
  <1>4. [labels |-> labels, next |-> next] \in beyond[PointerAt(b, c)]
    BY DEF Reads
  <1> HIDE DEF f, beyond
  <1>5. f[c] = Redirected(c, beyond[PointerAt(b, c)])
    BY <1>2, <1>3, NameCases
  <1>6. [labels |-> labels, next |-> c + 2] \in Redirected(c, beyond[PointerAt(b, c)])
    <2> DEFINE n == [labels |-> labels, next |-> next]
    <2>1. n.labels = labels /\ n \in beyond[PointerAt(b, c)]
      BY <1>4
    <2> HIDE DEF n
    <2> QED
      BY <2>1, Zenon DEF Redirected, AfterPointer
  <1> QED
    BY <1>1, <1>5, <1>6 DEF Reads

LEMMA JoinedBytes ==
    ASSUME NEW x \in Bytes, NEW y \in Bytes
    PROVE  x \o y \in Bytes /\ Len(x \o y) = Len(x) + Len(y)
  BY DEF Bytes

(* The bytes in x are at position p of the packet.                              *)
Holds(b, p, x) ==
    /\ p \in Nat /\ p >= kDnsHeaderSize /\ p + Len(x) <= EndOf(b)
    /\ \A i \in 1 .. Len(x) : ByteAt(b, p + i - 1) = x[i]

LEMMA HoldsAppended ==
    ASSUME NEW b \in Bytes, NEW x \in Bytes
    PROVE  /\ b \o x \in Bytes /\ Extends(b, b \o x)
           /\ EndOf(b \o x) = EndOf(b) + Len(x)
           /\ Holds(b \o x, EndOf(b), x)
  <1>1. b \o x \in Bytes /\ Len(b \o x) = Len(b) + Len(x)
    BY DEF Bytes
  <1>2. Extends(b, b \o x)
    BY DEF Bytes, Extends
  <1>3. EndOf(b \o x) = EndOf(b) + Len(x)
    BY <1>1 DEF EndOf, kDnsHeaderSize, Bytes
  <1>4. ASSUME NEW i \in 1 .. Len(x) PROVE ByteAt(b \o x, EndOf(b) + i - 1) = x[i]
    <2> DEFINE place == EndOf(b) + i - 1
    <2>1. place - kDnsHeaderSize + 1 = Len(b) + i
      BY DEF EndOf, kDnsHeaderSize, Bytes
    <2> HIDE DEF place
    <2>2. (b \o x)[Len(b) + i] = x[i]
      BY DEF Bytes
    <2>3. ByteAt(b \o x, place) = x[i]
      BY <2>1, <2>2, Zenon DEF ByteAt
    <2> QED
      BY <2>3 DEF place
  <1> QED
    BY <1>1, <1>2, <1>3, <1>4, PlacesAre DEF Holds

LEMMA HoldsParts ==
    ASSUME NEW b \in Bytes, NEW p, NEW x \in Bytes, NEW y \in Bytes, Holds(b, p, x \o y)
    PROVE  Holds(b, p, x) /\ Holds(b, p + Len(x), y)
  <1>1. Len(x \o y) = Len(x) + Len(y) /\ Len(x) \in Nat /\ Len(y) \in Nat
    BY DEF Bytes
  <1>2. p \in Nat /\ p >= kDnsHeaderSize /\ p + Len(x) + Len(y) <= EndOf(b)
        /\ EndOf(b) \in Nat /\ kDnsHeaderSize = 12
    BY <1>1, PlacesAre DEF Holds, kDnsHeaderSize
  <1>3. ASSUME NEW i \in 1 .. Len(x) PROVE ByteAt(b, p + i - 1) = x[i]
    <2>1. i \in 1 .. Len(x \o y) /\ (x \o y)[i] = x[i]
      BY <1>1 DEF Bytes
    <2> QED
      BY <2>1 DEF Holds
  <1>4. ASSUME NEW i \in 1 .. Len(y) PROVE ByteAt(b, p + Len(x) + i - 1) = y[i]
    <2>1. Len(x) + i \in 1 .. Len(x \o y) /\ (x \o y)[Len(x) + i] = y[i]
      BY <1>1 DEF Bytes
    <2>2. p + (Len(x) + i) - 1 = p + Len(x) + i - 1
      BY <1>1, <1>2
    <2>3. ByteAt(b, p + (Len(x) + i) - 1) = (x \o y)[Len(x) + i]
      BY <2>1 DEF Holds
    <2> QED
      BY <2>1, <2>2, <2>3
  <1>5. Holds(b, p, x)
    BY <1>1, <1>2, <1>3 DEF Holds
  <1>6. Holds(b, p + Len(x), y)
    BY <1>1, <1>2, <1>4 DEF Holds
  <1> QED
    BY <1>5, <1>6

LEMMA HoldsLonger ==
    ASSUME NEW b \in Bytes, NEW d \in Bytes, Extends(b, d), NEW p, NEW x \in Bytes,
           Holds(b, p, x)
    PROVE  Holds(d, p, x)
  <1>1. p \in Nat /\ p >= kDnsHeaderSize /\ p + Len(x) <= EndOf(b) /\ Len(x) \in Nat
        /\ EndOf(b) \in Nat /\ EndOf(d) \in Nat /\ EndOf(b) <= EndOf(d) /\ kDnsHeaderSize = 12
    BY PlacesAre, ExtendedPlaces DEF Holds, kDnsHeaderSize, Bytes
  <1>2. ASSUME NEW i \in 1 .. Len(x) PROVE ByteAt(d, p + i - 1) = x[i]
    <2>1. p + i - 1 \in Nat /\ p + i - 1 >= kDnsHeaderSize /\ p + i - 1 < EndOf(b)
      BY <1>1
    <2>2. ByteAt(d, p + i - 1) = ByteAt(b, p + i - 1)
      BY <2>1, ExtendedPlaces
    <2> QED
      BY <2>2 DEF Holds
  <1> QED
    BY <1>1, <1>2 DEF Holds

LEMMA LongerStill ==
    ASSUME NEW b \in Bytes, NEW d \in Bytes, NEW e \in Bytes, Extends(b, d), Extends(d, e)
    PROVE  Extends(b, e)
  BY DEF Extends, Bytes

(* Numbers of two bytes.                                                        *)
LEMMA NumberParts ==
    ASSUME NEW n \in Nat
    PROVE  /\ n \div 256 \in Nat /\ n % 256 \in Nat
           /\ (n \div 256) * 256 + (n % 256) = n
  <1>1. n % 256 \in Nat /\ n \div 256 \in Int
    OBVIOUS
  <1>2. n = 256 * (n \div 256) + (n % 256)
    OBVIOUS
  <1>3. n \div 256 \in Nat
    BY <1>1, <1>2
  <1> QED
    BY <1>1, <1>2, <1>3

LEMMA NumberIs ==
    ASSUME NEW n \in Nat
    PROVE  /\ U16(n) \in Bytes /\ Len(U16(n)) = 2
           /\ U16(n)[1] \in Nat /\ U16(n)[2] \in Nat
           /\ U16(n)[1] * 256 + U16(n)[2] = n
  <1> DEFINE h == n \div 256
             l == n % 256
  <1>1. h \in Nat /\ l \in Nat /\ h * 256 + l = n
    BY NumberParts
  <1>2. U16(n) = <<h, l>>
    BY Zenon DEF U16
  <1> HIDE DEF h, l
  <1> QED
    BY <1>1, <1>2 DEF Bytes

LEMMA NumberIsRead ==
    ASSUME NEW b \in Bytes, NEW p, NEW n \in Nat, Holds(b, p, U16(n))
    PROVE  ReadU16(b, p) = n /\ p + 2 <= EndOf(b)
  <1> DEFINE u == U16(n)
  <1>1. Len(u) = 2 /\ u[1] * 256 + u[2] = n /\ Holds(b, p, u)
    BY NumberIs
  <1> HIDE DEF u
  <1>2. p \in Nat /\ p + 1 - 1 = p /\ p + 2 - 1 = p + 1 /\ p + 2 <= EndOf(b)
    BY <1>1 DEF Holds
  <1>3. 1 \in 1 .. Len(u) /\ 2 \in 1 .. Len(u)
    BY <1>1
  <1>4. ByteAt(b, p) = u[1] /\ ByteAt(b, p + 1) = u[2]
    BY <1>1, <1>2, <1>3 DEF Holds
  <1> QED
    BY <1>1, <1>2, <1>4 DEF ReadU16

(* A name label by label.                                                       *)
Rest(labels, i) == SubSeq(labels, i + 1, Len(labels))

LEMMA RestParts ==
    ASSUME NEW labels \in Seq(Nat), NEW i \in 0 .. Len(labels)
    PROVE  Rest(labels, i) \in Seq(Nat) /\ Len(Rest(labels, i)) = Len(labels) - i
  BY DEF Rest

LEMMA RestElement ==
    ASSUME NEW labels \in Seq(Nat), NEW i \in 0 .. Len(labels),
           NEW k \in 1 .. Len(labels) - i
    PROVE  Rest(labels, i)[k] = labels[i + k]
  <1>1. i + 1 + k - 1 = i + k
    OBVIOUS
  <1> QED
    BY <1>1 DEF Rest

LEMMA SameElements ==
    ASSUME NEW x \in Seq(Nat), NEW y \in Seq(Nat), Len(x) = Len(y),
           \A k \in 1 .. Len(x) : x[k] = y[k]
    PROVE  x = y
  <1>1. x = [k \in 1 .. Len(x) |-> x[k]] /\ y = [k \in 1 .. Len(y) |-> y[k]]
    OBVIOUS
  <1>2. [k \in 1 .. Len(x) |-> x[k]] = [k \in 1 .. Len(x) |-> y[k]]
    OBVIOUS
  <1> QED
    BY <1>1, <1>2

LEMMA RestIs ==
    ASSUME NEW labels \in Seq(Nat), NEW i \in Nat, i < Len(labels)
    PROVE  Rest(labels, i) = <<labels[i + 1]>> \o Rest(labels, i + 1)
  <1> DEFINE n == Len(labels) - i
             x == Rest(labels, i)
             z == Rest(labels, i + 1)
             y == <<labels[i + 1]>> \o z
  <1>1. x \in Seq(Nat) /\ Len(x) = n /\ z \in Seq(Nat) /\ Len(z) = n - 1
    BY RestParts
  <1>2. \A k \in 1 .. n : x[k] = labels[i + k]
    BY RestElement
  <1>3. n \in Nat /\ n >= 1 /\ labels[i + 1] \in Nat
    OBVIOUS
  <1>a. \A k \in 1 .. n - 1 : z[k] = labels[(i + 1) + k]
    <2>1. i + 1 \in 0 .. Len(labels) /\ Len(labels) - (i + 1) = n - 1
      OBVIOUS
    <2> QED
      BY <2>1, RestElement
  <1> HIDE DEF x, z, n
  <1>4. y \in Seq(Nat) /\ Len(y) = n
    BY <1>1, <1>3
  <1>5. ASSUME NEW k \in 1 .. n PROVE x[k] = y[k]
    <2>1. CASE k = 1
      BY <1>1, <1>2, <1>3, <2>1
    <2>2. CASE k # 1
      <3>1. k - 1 \in 1 .. n - 1 /\ (i + 1) + (k - 1) = i + k
        BY <1>3, <2>2
      <3>2. y[k] = z[k - 1]
        BY <1>1, <1>3, <3>1
      <3>3. z[k - 1] = labels[i + k]
        BY <1>a, <3>1
      <3> QED
        BY <1>2, <3>2, <3>3
    <2> QED
      BY <2>1, <2>2
  <1> HIDE DEF y
  <1>6. x = y
    BY <1>1, <1>4, <1>5, SameElements
  <1> QED
    BY <1>6 DEF x, y, z

LEMMA WholeAndNothing ==
    ASSUME NEW labels \in Seq(Nat)
    PROVE  Rest(labels, 0) = labels /\ Rest(labels, Len(labels)) = <<>>
  BY DEF Rest

LEMMA LabelBytes ==
    ASSUME NEW labels \in Seq(Nat), NEW k \in 0 .. Len(labels)
    PROVE  /\ Labels(labels, k) \in Bytes /\ Len(Labels(labels, k)) = 2 * k
           /\ \A i \in Nat : i < k =>
                 /\ 2 * i + 1 \in 1 .. 2 * k /\ Labels(labels, k)[2 * i + 1] = 1
                 /\ 2 * i + 2 \in 1 .. 2 * k /\ Labels(labels, k)[2 * i + 2] = labels[i + 1]
  <1>1. ASSUME NEW i \in 1 .. 2 * k
        PROVE  (IF i % 2 = 1 THEN 1 ELSE labels[i \div 2]) \in Nat
    <2>1. CASE i % 2 = 1
      BY <2>1
    <2>2. CASE i % 2 # 1
      <3>1. i \div 2 \in 1 .. Len(labels)
        BY <2>2
      <3> QED
        BY <2>2, <3>1
    <2> QED
      BY <2>1, <2>2
  <1>2. Labels(labels, k) \in [1 .. 2 * k -> Nat]
    BY <1>1 DEF Labels
  <1>4. Labels(labels, k) \in Bytes /\ Len(Labels(labels, k)) = 2 * k
    <2> DEFINE n == 2 * k
    <2>1. n \in Nat /\ Labels(labels, k) \in [1 .. n -> Nat]
      BY <1>2
    <2> HIDE DEF n
    <2>2. Labels(labels, k) \in Bytes /\ Len(Labels(labels, k)) = n
      BY <2>1 DEF Bytes
    <2> QED
      BY <2>2 DEF n
  <1>5. ASSUME NEW i \in Nat, i < k
        PROVE  /\ 2 * i + 1 \in 1 .. 2 * k /\ Labels(labels, k)[2 * i + 1] = 1
               /\ 2 * i + 2 \in 1 .. 2 * k /\ Labels(labels, k)[2 * i + 2] = labels[i + 1]
    <2>1. 2 * i + 1 \in 1 .. 2 * k /\ 2 * i + 2 \in 1 .. 2 * k
      BY <1>5
    <2>2. (2 * i + 1) % 2 = 1 /\ (2 * i + 2) % 2 # 1 /\ (2 * i + 2) \div 2 = i + 1
      OBVIOUS
    <2> QED
      BY <2>1, <2>2 DEF Labels
  <1> QED
    BY <1>4, <1>5

LEMMA LabelsAreRead ==
    ASSUME NEW b \in Bytes, NEW labels \in Seq(Nat), NEW k \in 0 .. Len(labels),
           NEW p, NEW j \in 0 .. MaxJumps, NEW next,
           Holds(b, p, Labels(labels, k)), Reads(b, j, p + 2 * k, Rest(labels, k), next)
    PROVE  \A i \in 0 .. k : Reads(b, j, p + 2 * i, Rest(labels, i), next)
  <1> DEFINE S == {d \in Nat : d <= k =>
                      Reads(b, j, p + 2 * (k - d), Rest(labels, k - d), next)}
  <1>1. p \in Nat /\ p >= kDnsHeaderSize /\ p + 2 * k <= EndOf(b) /\ EndOf(b) \in Nat
        /\ kDnsHeaderSize = 12
    BY LabelBytes, PlacesAre DEF Holds, kDnsHeaderSize
  <1>2. 0 \in S
    <2>1. k - 0 = k
      OBVIOUS
    <2> QED
      BY <2>1
  <1>3. ASSUME NEW d \in Nat, d \in S PROVE d + 1 \in S
    <2> SUFFICES ASSUME d + 1 <= k
                 PROVE  Reads(b, j, p + 2 * (k - (d + 1)), Rest(labels, k - (d + 1)), next)
      OBVIOUS
    <2> DEFINE i == k - (d + 1)
               c == p + 2 * i
    <2>1. i \in Nat /\ i < k /\ i < Len(labels) /\ k - d = i + 1
      OBVIOUS
    <2>2. c \in Nat /\ c >= kDnsHeaderSize /\ c + 2 <= EndOf(b) /\ p + 2 * (i + 1) = c + 2
      BY <1>1
    <2>3. Reads(b, j, p + 2 * (k - d), Rest(labels, k - d), next)
      BY <1>3
    <2> HIDE DEF i
    <2>4. Reads(b, j, c + 2, Rest(labels, i + 1), next)
      BY <2>1, <2>2, <2>3
    <2> DEFINE l == Labels(labels, k)
               u == 2 * i + 1
               v == 2 * i + 2
    <2>5. /\ ByteAt(b, p + u - 1) = 1
          /\ ByteAt(b, p + v - 1) = labels[i + 1]
      <3>1. Len(l) = 2 * k /\ l[u] = 1 /\ l[v] = labels[i + 1]
        BY <2>1, LabelBytes
      <3>2. u \in 1 .. 2 * k /\ v \in 1 .. 2 * k
        BY <2>1
      <3>3. Holds(b, p, l)
        OBVIOUS
      <3> HIDE DEF l, u, v
      <3>4. ByteAt(b, p + u - 1) = l[u] /\ ByteAt(b, p + v - 1) = l[v]
        BY <3>1, <3>2, <3>3 DEF Holds
      <3> QED
        BY <3>1, <3>4
    <2>6. p + u - 1 = c /\ p + v - 1 = c + 1
      BY <1>1, <2>1
    <2>7. ByteAt(b, c) = 1 /\ ByteAt(b, c + 1) = labels[i + 1]
      <3> HIDE DEF c, u, v
      <3> QED
        BY <2>5, <2>6
    <2>8. Rest(labels, i) = <<labels[i + 1]>> \o Rest(labels, i + 1)
      BY <2>1, RestIs
    <2> HIDE DEF c
    <2>9. Reads(b, j, c, <<ByteAt(b, c + 1)>> \o Rest(labels, i + 1), next)
      BY <2>2, <2>4, <2>7, ReadsLabel
    <2> QED
      BY <2>7, <2>8, <2>9 DEF c, i
  <1> HIDE DEF S
  <1>4. \A d \in Nat : d \in S
    BY <1>2, <1>3, SetInduction
  <1>5. ASSUME NEW i \in 0 .. k
        PROVE  Reads(b, j, p + 2 * i, Rest(labels, i), next)
    <2>1. k - i \in Nat /\ k - i <= k /\ k - (k - i) = i
      OBVIOUS
    <2> DEFINE d == k - i
    <2>2. d \in S /\ d <= k /\ k - d = i
      BY <1>4, <2>1
    <2> HIDE DEF d
    <2> QED
      BY <2>2 DEF S
  <1> QED
    BY <1>5

(* The places a name can be referred to by, all of which can be read.           *)
Readable(b, j, names) ==
    \A n \in names : /\ n.at \in Nat /\ n.at >= kDnsHeaderSize /\ n.at < EndOf(b)
                     /\ \E next : Reads(b, j, n.at, n.labels, next)

LEMMA KnownStays ==
    ASSUME NEW b \in Bytes, NEW d \in Bytes, Extends(b, d), NEW names,
           NEW j \in 0 .. MaxJumps, NEW k \in 0 .. MaxJumps, j <= k, Readable(b, j, names)
    PROVE  Readable(d, k, names)
  <1>1. ASSUME NEW n \in names
        PROVE  /\ n.at \in Nat /\ n.at >= kDnsHeaderSize /\ n.at < EndOf(d)
               /\ \E next : Reads(d, k, n.at, n.labels, next)
    <2>1. /\ n.at \in Nat /\ n.at >= kDnsHeaderSize /\ n.at < EndOf(b)
          /\ \E next : Reads(b, j, n.at, n.labels, next)
      BY DEF Readable
    <2>2. EndOf(b) \in Nat /\ EndOf(d) \in Nat /\ EndOf(b) <= EndOf(d)
      BY PlacesAre, ExtendedPlaces
    <2>3. n.at \in Places(b) /\ n.at < EndOf(d)
      BY <2>1, <2>2 DEF Places
    <2>4. PICK next : Reads(b, j, n.at, n.labels, next)
      BY <2>1
    <2>5. Reads(d, k, n.at, n.labels, next)
      BY <2>3, <2>4, ReadsRemain
    <2> QED
      BY <2>1, <2>3, <2>5
  <1> QED
    BY <1>1 DEF Readable

LEMMA WrittenIsKnown ==
    ASSUME NEW b \in Bytes, NEW labels \in Seq(Nat), NEW k \in 0 .. Len(labels),
           NEW p \in Nat, p >= kDnsHeaderSize, p + 2 * k < EndOf(b),
           NEW j \in 0 .. MaxJumps, NEW next,
           \A i \in 0 .. k : Reads(b, j, p + 2 * i, Rest(labels, i), next)
    PROVE  Readable(b, j, Written(labels, k, p))
  <1> SUFFICES ASSUME NEW n \in Written(labels, k, p)
               PROVE  /\ n.at \in Nat /\ n.at >= kDnsHeaderSize /\ n.at < EndOf(b)
                      /\ \E e : Reads(b, j, n.at, n.labels, e)
    BY DEF Readable
  <1>1. PICK i \in {m \in 1 .. Len(labels) : m <= k + 1} :
           n = [labels |-> SubSeq(labels, i, Len(labels)), at |-> p + 2 * (i - 1)]
    BY Zenon DEF Written
  <1>2. n.labels = SubSeq(labels, i, Len(labels)) /\ n.at = p + 2 * (i - 1)
    BY <1>1
  <1> DEFINE m == i - 1
  <1>3. m \in 0 .. k /\ m + 1 = i
    BY <1>1
  <1>4. n.at = p + 2 * m /\ n.labels = Rest(labels, m)
    BY <1>2, <1>3 DEF Rest
  <1> HIDE DEF m
  <1>5. Reads(b, j, n.at, n.labels, next)
    BY <1>3, <1>4
  <1>6. EndOf(b) \in Nat /\ kDnsHeaderSize = 12
    BY PlacesAre DEF kDnsHeaderSize
  <1>7. n.at \in Nat /\ n.at >= kDnsHeaderSize /\ n.at < EndOf(b)
    BY <1>3, <1>4, <1>6
  <1> QED
    BY <1>5, <1>7

(* The rest of a name is read at its ending: nothing, or what the pointer leads   *)
(* to.                                                                          *)
LEMMA EndingIsRead ==
    ASSUME NEW b \in Bytes, NEW d \in Bytes, Extends(b, d), NEW names, NEW rest,
           NEW j \in Nat, j + 1 <= MaxJumps, Readable(b, j, names),
           NEW ending \in Endings(rest, names), NEW p
    PROVE  /\ ending \in Bytes /\ Len(ending) > 0
           /\ Holds(d, p, ending) => Reads(d, j + 1, p, rest, p + Len(ending))
  <1>0. MaxJumps \in Nat /\ j + 1 \in 0 .. MaxJumps /\ j \in 0 .. MaxJumps /\ kDnsHeaderSize = 12
        /\ EndOf(d) \in Nat
    BY DnsAssumption, PlacesAre DEF DnsAssumption, kDnsHeaderSize
  <1>1. CASE rest = <<>>
    <2>1. ending = <<0>>
      BY <1>1, Zenon DEF Endings
    <2>2. ending \in Bytes /\ Len(ending) = 1 /\ ending[1] = 0 /\ 1 \in 1 .. Len(ending)
      BY <2>1 DEF Bytes
    <2>3. ASSUME Holds(d, p, ending) PROVE Reads(d, j + 1, p, rest, p + Len(ending))
      <3>1. p \in Nat /\ p >= kDnsHeaderSize /\ p < EndOf(d) /\ p + 1 - 1 = p
        BY <1>0, <2>2, <2>3 DEF Holds
      <3>2. ByteAt(d, p) = 0
        BY <2>2, <2>3, <3>1 DEF Holds
      <3> QED
        BY <1>0, <1>1, <2>2, <3>1, <3>2, ReadsEnd
    <2> QED
      BY <2>2, <2>3
  <1>2. CASE rest # <<>>
    <2>1. PICK n \in names : n.labels = rest /\ n.at < 64 * 256 /\ ending = U16(192 * 256 + n.at)
      BY <1>2, Zenon DEF Endings
    <2>2. /\ n.at \in Nat /\ n.at < EndOf(b)
          /\ \E next : Reads(b, j, n.at, n.labels, next)
      BY DEF Readable
    <2> DEFINE x == 192 * 256 + n.at
    <2>3. x \in Nat /\ x \div 256 >= 192
      BY <2>2
    <2>4. /\ ending \in Bytes /\ Len(ending) = 2
          /\ ending[1] * 256 + ending[2] = x /\ ending[1] >= 192
          /\ ending[1] \in Nat /\ ending[2] \in Nat
      <3>1. U16(x)[1] = x \div 256
        BY Zenon DEF U16
      <3> DEFINE h == x \div 256
      <3>2. h >= 192 /\ U16(x)[1] = h /\ ending = U16(x)
        BY <2>1, <2>3, <3>1, Zenon
      <3> HIDE DEF h, x
      <3>3. /\ U16(x) \in Bytes /\ Len(U16(x)) = 2
            /\ U16(x)[1] \in Nat /\ U16(x)[2] \in Nat
            /\ U16(x)[1] * 256 + U16(x)[2] = x
        BY <2>3, NumberIs
      <3> DEFINE u == U16(x)
      <3> HIDE DEF u
      <3>4. /\ u \in Bytes /\ Len(u) = 2 /\ u[1] \in Nat /\ u[2] \in Nat
            /\ u[1] * 256 + u[2] = x /\ h >= 192 /\ u[1] = h /\ ending = u
        BY <3>2, <3>3 DEF u
      <3> QED
        BY <3>4
    <2>5. ASSUME Holds(d, p, ending) PROVE Reads(d, j + 1, p, rest, p + Len(ending))
      <3>1. p \in Nat /\ p >= kDnsHeaderSize /\ p + 2 <= EndOf(d)
        BY <2>4, <2>5 DEF Holds
      <3>2. 1 \in 1 .. Len(ending) /\ 2 \in 1 .. Len(ending) /\ p + 1 - 1 = p /\ p + 2 - 1 = p + 1
        BY <2>4, <3>1
      <3>3. ByteAt(d, p) = ending[1] /\ ByteAt(d, p + 1) = ending[2]
        BY <2>5, <3>2 DEF Holds
      <3>5. (ending[1] - 192) * 256 + ending[2] = n.at
        BY <2>2, <2>4
      <3>6. PointerAt(d, p) = n.at
        BY <3>3, <3>5 DEF PointerAt
      <3>7. PICK next : Reads(b, j, n.at, n.labels, next)
        BY <2>2
      <3>8. n.at \in Places(b) /\ n.at < EndOf(d)
        BY <1>0, <2>2, PlacesAre, ExtendedPlaces DEF Places
      <3>9. Reads(d, j, n.at, rest, next)
        BY <1>0, <2>1, <3>7, <3>8, ReadsRemain
      <3>10. Reads(d, j, PointerAt(d, p), rest, next) /\ PointerAt(d, p) < EndOf(d)
        BY <3>6, <3>8, <3>9
      <3>11. ByteAt(d, p) >= 192
        BY <2>4, <3>3
      <3>12. Reads(d, j + 1, p, rest, p + 2)
        BY <3>1, <3>10, <3>11, ReadsPointer
      <3> QED
        BY <2>4, <3>12
    <2> QED
      BY <2>4, <2>5
  <1> QED
    BY <1>1, <1>2

LEMMA NamesAreNumbers ==
    ASSUME NEW labels \in DnsName
    PROVE  labels \in Seq(Nat)
  <1>1. DnsLabel \subseteq Nat
    BY DnsAssumption DEF DnsAssumption, Byte
  <1>2. labels \in Seq(DnsLabel)
    BY DEF DnsName
  <1> QED
    BY <1>1, <1>2, SeqGrows

(* A name that a server writes is read as it was meant, and so are its tails.     *)
LEMMA SpelledIsRead ==
    ASSUME NEW b \in Bytes, NEW labels \in DnsName, NEW names,
           NEW j \in Nat, j + 1 <= MaxJumps, Readable(b, j, names),
           NEW w \in Spelled(labels, EndOf(b), names)
    PROVE  /\ w.bytes \in Bytes /\ Len(w.bytes) > 0
           /\ Reads(b \o w.bytes, j + 1, EndOf(b), labels, EndOf(b \o w.bytes))
           /\ Readable(b \o w.bytes, j + 1, w.names)
  <1>1. labels \in Seq(Nat)
    BY NamesAreNumbers
  <1> DEFINE Way(k, ending) ==
          [bytes |-> Labels(labels, k) \o ending, names |-> Written(labels, k, EndOf(b))]
  <1>a. PICK k \in 0 .. Len(labels) :
           \E ending \in Endings(Rest(labels, k), names) : w = Way(k, ending)
    BY Zenon DEF Spelled, Rest
  <1>2. PICK ending \in Endings(Rest(labels, k), names) : w = Way(k, ending)
    BY <1>a
  <1>3. w.bytes = Labels(labels, k) \o ending /\ w.names = Written(labels, k, EndOf(b))
    BY <1>2
  <1> DEFINE d == b \o w.bytes
             p == EndOf(b)
  <1>4. Labels(labels, k) \in Bytes /\ Len(Labels(labels, k)) = 2 * k
    BY <1>1, LabelBytes
  <1>5. ending \in Bytes /\ Len(ending) > 0
    BY EndingIsRead DEF Extends
  <1>6. w.bytes \in Bytes /\ Len(w.bytes) = 2 * k + Len(ending)
    BY <1>3, <1>4, <1>5, JoinedBytes
  <1>7. /\ d \in Bytes /\ Extends(b, d) /\ EndOf(d) = p + Len(w.bytes)
        /\ Holds(d, p, w.bytes)
    BY <1>6, HoldsAppended
  <1>8. p \in Nat /\ p >= kDnsHeaderSize /\ j + 1 \in 0 .. MaxJumps /\ Len(ending) \in Nat
    BY <1>5, PlacesAre, DnsAssumption DEF DnsAssumption, Bytes
  <1> HIDE DEF d, p
  <1>9. Holds(d, p, Labels(labels, k)) /\ Holds(d, p + 2 * k, ending)
    <2> DEFINE x == Labels(labels, k)
    <2>1. x \in Bytes /\ Len(x) = 2 * k /\ ending \in Bytes /\ d \in Bytes
          /\ Holds(d, p, x \o ending)
      BY <1>3, <1>4, <1>5, <1>7
    <2> HIDE DEF x
    <2>2. Holds(d, p, x) /\ Holds(d, p + Len(x), ending)
      BY <2>1, HoldsParts
    <2> QED
      BY <2>1, <2>2 DEF x
  <1>10. Reads(d, j + 1, p + 2 * k, Rest(labels, k), p + 2 * k + Len(ending))
    BY <1>7, <1>9, EndingIsRead
  <1>11. p + 2 * k + Len(ending) = EndOf(d) /\ p + 2 * k < EndOf(d)
    BY <1>5, <1>6, <1>7, <1>8
  <1>12. \A i \in 0 .. k : Reads(d, j + 1, p + 2 * i, Rest(labels, i), EndOf(d))
    BY <1>1, <1>7, <1>8, <1>9, <1>10, <1>11, LabelsAreRead
  <1>13. Readable(d, j + 1, w.names)
    BY <1>1, <1>3, <1>7, <1>8, <1>11, <1>12, WrittenIsKnown DEF p
  <1>14. Reads(d, j + 1, p, labels, EndOf(d))
    <2>1. 0 \in 0 .. k /\ p + 2 * 0 = p
      BY <1>8
    <2>2. Reads(d, j + 1, p + 2 * 0, Rest(labels, 0), EndOf(d))
      BY <1>12, <2>1
    <2> QED
      BY <1>1, <2>1, <2>2, WholeAndNothing
  <1>15. Len(w.bytes) > 0
    BY <1>5, <1>6, <1>8
  <1> QED
    BY <1>6, <1>13, <1>14, <1>15 DEF d, p

LEMMA JoinsAssociate ==
    ASSUME NEW x \in Bytes, NEW y \in Bytes, NEW z \in Bytes
    PROVE  x \o (y \o z) = (x \o y) \o z
  <1> DEFINE l == x \o (y \o z)
             r == (x \o y) \o z
  <1>1. l \in Seq(Nat) /\ r \in Seq(Nat) /\ Len(l) = Len(r)
    BY DEF Bytes
  <1>2. ASSUME NEW k \in 1 .. Len(l) PROVE l[k] = r[k]
    BY DEF Bytes
  <1> HIDE DEF l, r
  <1>3. l = r
    BY <1>1, <1>2, SameElements
  <1> QED
    BY <1>3 DEF l, r

LEMMA NameIsDecoded ==
    ASSUME NEW b \in Bytes, NEW j \in 0 .. MaxJumps, NEW c \in Nat, c < EndOf(b),
           NEW labels, NEW next, Reads(b, j, c, labels, next)
    PROVE  [labels |-> labels, next |-> next] \in DecodeName(b, c)
  <1>1. MaxJumps \in 0 .. MaxJumps /\ j <= MaxJumps /\ c \in Places(b) /\ ~ (c >= EndOf(b))
    BY DnsAssumption, PlacesAre DEF DnsAssumption, Places
  <1>2. Extends(b, b)
    BY DEF Extends, Bytes
  <1>3. Reads(b, MaxJumps, c, labels, next)
    BY <1>1, <1>2, ReadsRemain
  <1> QED
    BY <1>1, <1>3, Zenon DEF Reads, DecodeName

(* The data of a record are read as they were meant.                            *)
LEMMA AddressIsRead ==
    ASSUME NEW b \in Bytes, NEW r \in [name : DnsName, type : {A}, address : [1 .. 4 -> Byte]]
    PROVE  /\ r.address \in Bytes /\ Len(r.address) = 4
           /\ r \in ParseData(b \o r.address, EndOf(b), 4, r.type, r.name)
  <1> DEFINE a == r.address
             d == b \o a
  <1>1. /\ a \in [1 .. 4 -> Byte] /\ r.type = A
        /\ r = [name |-> r.name, type |-> r.type, address |-> a]
    OBVIOUS
  <1> HIDE DEF a
  <1>2. a \in Bytes /\ Len(a) = 4 /\ a = [i \in 1 .. 4 |-> a[i]]
    <2>1. Byte \subseteq Nat
      BY DEF Byte
    <2>2. PICK n \in Nat : n = 4
      OBVIOUS
    <2>3. a \in [1 .. n -> Nat]
      BY <1>1, <2>1, <2>2
    <2>4. a \in Bytes /\ Len(a) = n /\ a = [i \in 1 .. n |-> a[i]]
      BY <2>3 DEF Bytes
    <2> QED
      BY <2>2, <2>4
  <1>3. d \in Bytes /\ EndOf(d) = EndOf(b) + 4 /\ Holds(d, EndOf(b), a)
    BY <1>2, HoldsAppended
  <1> HIDE DEF d
  <1>4. \A i \in 1 .. 4 : ByteAt(d, EndOf(b) + i - 1) = a[i]
    BY <1>2, <1>3 DEF Holds
  <1>5. [i \in 1 .. 4 |-> ByteAt(d, EndOf(b) + i - 1)] = a
    <2>1. [i \in 1 .. 4 |-> ByteAt(d, EndOf(b) + i - 1)] = [i \in 1 .. 4 |-> a[i]]
      BY <1>4, Zenon
    <2> QED
      BY <1>2, <2>1
  <1>6. ~ (EndOf(b) + 4 > EndOf(d)) /\ A # CNAME /\ A # MX
    BY <1>3, PlacesAre DEF A, CNAME, MX
  <1>7. ParseData(d, EndOf(b), 4, r.type, r.name)
           = {[name |-> r.name, type |-> r.type, address |-> a]}
    BY <1>1, <1>5, <1>6, Zenon DEF ParseData
  <1>8. r \in ParseData(d, EndOf(b), 4, r.type, r.name)
    BY <1>1, <1>7
  <1> QED
    BY <1>2, <1>8 DEF a, d

LEMMA AliasIsRead ==
    ASSUME NEW b \in Bytes, NEW r \in [name : DnsName, type : {CNAME}, target : DnsName],
           NEW names, NEW j \in Nat, j + 1 <= MaxJumps, Readable(b, j, names),
           NEW w \in Spelled(r.target, EndOf(b), names)
    PROVE  r \in ParseData(b \o w.bytes, EndOf(b), Len(w.bytes), r.type, r.name)
  <1> DEFINE d == b \o w.bytes
  <1>1. r.type = CNAME /\ r.target \in DnsName
        /\ r = [name |-> r.name, type |-> CNAME, target |-> r.target]
    OBVIOUS
  <1>2. /\ w.bytes \in Bytes /\ Len(w.bytes) > 0
        /\ Reads(d, j + 1, EndOf(b), r.target, EndOf(d))
    BY <1>1, SpelledIsRead
  <1>3. d \in Bytes /\ EndOf(d) = EndOf(b) + Len(w.bytes) /\ Len(w.bytes) \in Nat
    BY <1>2, HoldsAppended DEF Bytes
  <1> HIDE DEF d
  <1>4. /\ ~ (EndOf(b) + Len(w.bytes) > EndOf(d)) /\ EndOf(b) < EndOf(d)
        /\ EndOf(b) \in Nat /\ j + 1 \in 0 .. MaxJumps
    BY <1>2, <1>3, PlacesAre, DnsAssumption DEF DnsAssumption
  <1>5. [labels |-> r.target, next |-> EndOf(d)] \in DecodeName(d, EndOf(b))
    BY <1>2, <1>3, <1>4, NameIsDecoded
  <1>6. ParseData(d, EndOf(b), Len(w.bytes), r.type, r.name)
           = {[name |-> r.name, type |-> CNAME, target |-> n.labels] :
                 n \in DecodeName(d, EndOf(b))}
    BY <1>1, <1>4, Zenon DEF ParseData
  <1>7. r \in ParseData(d, EndOf(b), Len(w.bytes), r.type, r.name)
    <2> DEFINE n == [labels |-> r.target, next |-> EndOf(d)]
    <2>1. n \in DecodeName(d, EndOf(b)) /\ n.labels = r.target
      BY <1>5
    <2> HIDE DEF n
    <2>2. r = [name |-> r.name, type |-> CNAME, target |-> n.labels]
      BY <1>1, <2>1, Zenon
    <2> QED
      BY <1>6, <2>1, <2>2, Zenon
  <1> QED
    BY <1>7 DEF d

LEMMA ExchangerIsRead ==
    ASSUME NEW b \in Bytes,
           NEW r \in [name : DnsName, type : {MX}, preference : Word, target : DnsName],
           NEW names, NEW j \in Nat, j + 1 <= MaxJumps, Readable(b, j, names),
           NEW w \in Spelled(r.target, EndOf(b) + 2, names),
           NEW x, x = U16(r.preference) \o w.bytes
    PROVE  /\ x \in Bytes
           /\ Readable(b \o x, j + 1, w.names)
           /\ r \in ParseData(b \o x, EndOf(b), Len(x), r.type, r.name)
  <1> DEFINE u == U16(r.preference)
             c == b \o u
             d == c \o w.bytes
  <1>0. Word \subseteq Nat
    <2>1. \A e : 0 .. e \subseteq Nat
      OBVIOUS
    <2> QED
      BY <2>1, Zenon DEF Word
  <1>1. /\ r.type = MX /\ r.target \in DnsName /\ r.preference \in Nat
        /\ r = [name |-> r.name, type |-> MX, preference |-> r.preference, target |-> r.target]
    BY <1>0
  <1>2. u \in Bytes /\ Len(u) = 2
    BY <1>1, NumberIs
  <1>3. /\ c \in Bytes /\ Extends(b, c) /\ EndOf(c) = EndOf(b) + 2
        /\ Holds(c, EndOf(b), u)
    BY <1>2, HoldsAppended
  <1>4. j \in 0 .. MaxJumps /\ j + 1 \in 0 .. MaxJumps /\ j <= j /\ EndOf(b) \in Nat
    BY PlacesAre, DnsAssumption DEF DnsAssumption
  <1>5. Readable(c, j, names)
    BY <1>3, <1>4, KnownStays
  <1>6. w \in Spelled(r.target, EndOf(c), names)
    BY <1>3
  <1> HIDE DEF u, c
  <1>7. /\ w.bytes \in Bytes /\ Len(w.bytes) > 0
        /\ Reads(d, j + 1, EndOf(c), r.target, EndOf(d))
        /\ Readable(d, j + 1, w.names)
    BY <1>1, <1>3, <1>5, <1>6, SpelledIsRead
  <1>8. /\ d \in Bytes /\ EndOf(d) = EndOf(c) + Len(w.bytes) /\ Len(w.bytes) \in Nat
        /\ Extends(c, d)
    BY <1>3, <1>7, HoldsAppended DEF Bytes
  <1> HIDE DEF d
  <1>9. x \in Bytes /\ Len(x) = 2 + Len(w.bytes)
    BY <1>2, <1>7, JoinedBytes DEF u
  <1>10. d = b \o x
    BY <1>2, <1>7, JoinsAssociate DEF u, c, d
  <1>11. Holds(d, EndOf(b), u)
    BY <1>2, <1>3, <1>8, HoldsLonger
  <1>12. ReadU16(d, EndOf(b)) = r.preference
    BY <1>1, <1>8, <1>11, NumberIsRead DEF u
  <1>13. /\ ~ (EndOf(b) + Len(x) > EndOf(d)) /\ EndOf(c) < EndOf(d) /\ EndOf(c) \in Nat
         /\ Len(x) >= 3
    BY <1>3, <1>4, <1>7, <1>8, <1>9
  <1>14. [labels |-> r.target, next |-> EndOf(d)] \in DecodeName(d, EndOf(b) + 2)
    BY <1>3, <1>4, <1>7, <1>8, <1>13, NameIsDecoded
  <1>15. MX # CNAME
    BY DEF MX, CNAME
  <1>16. ParseData(d, EndOf(b), Len(x), r.type, r.name)
            = {[name |-> r.name, type |-> MX, preference |-> ReadU16(d, EndOf(b)),
                target |-> n.labels] : n \in DecodeName(d, EndOf(b) + 2)}
    BY <1>1, <1>13, <1>15, Zenon DEF ParseData
  <1>17. r \in ParseData(d, EndOf(b), Len(x), r.type, r.name)
    <2> DEFINE n == [labels |-> r.target, next |-> EndOf(d)]
    <2>1. n \in DecodeName(d, EndOf(b) + 2) /\ n.labels = r.target
      BY <1>14
    <2> HIDE DEF n
    <2>2. r = [name |-> r.name, type |-> MX, preference |-> ReadU16(d, EndOf(b)),
               target |-> n.labels]
      BY <1>1, <1>12, <2>1, Zenon
    <2> QED
      BY <1>16, <2>1, <2>2, Zenon
  <1> QED
    BY <1>7, <1>9, <1>10, <1>17

LEMMA DataAreRead ==
    ASSUME NEW b \in Bytes, NEW r \in DnsRecord,
           NEW names, NEW j \in Nat, j + 1 <= MaxJumps, Readable(b, j, names),
           NEW w \in Data(r, EndOf(b), names)
    PROVE  /\ w.bytes \in Bytes
           /\ Readable(b \o w.bytes, j + 1, w.names)
           /\ r \in ParseData(b \o w.bytes, EndOf(b), Len(w.bytes), r.type, r.name)
  <1>0. A # CNAME /\ A # MX /\ CNAME # MX
    BY DEF A, CNAME, MX
  <1>1. CASE r \in [name : DnsName, type : {A}, address : [1 .. 4 -> Byte]]
    <2>1. r.type = A
      BY <1>1
    <2>2. w = [bytes |-> r.address, names |-> {}]
      BY <1>0, <2>1 DEF Data
    <2>3. w.bytes = r.address /\ w.names = {}
      BY <2>2
    <2>4. Readable(b \o w.bytes, j + 1, w.names)
      BY <2>3 DEF Readable
    <2> QED
      BY <1>1, <2>3, <2>4, AddressIsRead
  <1>2. CASE r \in [name : DnsName, type : {CNAME}, target : DnsName]
    <2>1. r.type = CNAME /\ r.target \in DnsName
      BY <1>2
    <2>2. w \in Spelled(r.target, EndOf(b), names)
      BY <1>0, <2>1 DEF Data
    <2>3. w.bytes \in Bytes /\ Readable(b \o w.bytes, j + 1, w.names)
      BY <2>1, <2>2, SpelledIsRead
    <2>4. r \in ParseData(b \o w.bytes, EndOf(b), Len(w.bytes), r.type, r.name)
      BY <1>2, <2>2, AliasIsRead
    <2> QED
      BY <2>3, <2>4
  <1>3. CASE r \in [name : DnsName, type : {MX}, preference : Word, target : DnsName]
    <2>1. r.type = MX
      BY <1>3
    <2>2. PICK v \in Spelled(r.target, EndOf(b) + 2, names) :
             w = [bytes |-> U16(r.preference) \o v.bytes, names |-> v.names]
      BY <1>0, <2>1, Zenon DEF Data
    <2>3. w.bytes = U16(r.preference) \o v.bytes /\ w.names = v.names
      BY <2>2
    <2> DEFINE x == w.bytes
    <2>4. x = U16(r.preference) \o v.bytes
      BY <2>3
    <2> HIDE DEF x
    <2>5. /\ x \in Bytes
          /\ Readable(b \o x, j + 1, v.names)
          /\ r \in ParseData(b \o x, EndOf(b), Len(x), r.type, r.name)
      BY <1>3, <2>4, ExchangerIsRead
    <2> QED
      BY <2>3, <2>5 DEF x
  <1> QED
    BY <1>1, <1>2, <1>3 DEF DnsRecord

(* Between the owner of a record and its data are ten bytes.                     *)
LEMMA RecordIsParsed ==
    ASSUME NEW d \in Bytes, NEW r, NEW c \in Nat, NEW next,
           NEW n \in DecodeName(d, c), NEW length \in Nat,
           n.labels = r.name, ~ (n.next + 10 > EndOf(d)),
           ReadU16(d, n.next) = r.type, ReadU16(d, n.next + 8) = length,
           next = n.next + 10 + length,
           r \in ParseData(d, n.next + 10, length, r.type, r.name)
    PROVE  [record |-> r, next |-> next] \in ParseRecord(d, c)
  <1>1. ParseBehind(d, n)
           = {[record |-> q, next |-> next] :
                 q \in ParseData(d, n.next + 10, length, r.type, r.name)}
    BY Zenon DEF ParseBehind
  <1>2. [record |-> r, next |-> next] \in ParseBehind(d, n)
    BY <1>1, Zenon
  <1> QED
    BY <1>2, Zenon DEF ParseRecord

(* The ten bytes and the data behind the name of the owner, in the bytes o that    *)
(* end with this name.                                                          *)
ClassAndTime == <<0, 1, 0, 0, 0, 9>>
IsHead(head, o, r) == head = (o \o U16(r.type)) \o ClassAndTime
IsBehind(d, head, w) == d = (head \o U16(Len(w.bytes))) \o w.bytes
DataAfter(head, r, names) == Data(r, EndOf(head) + 2, names)
RestIsRead(d, o, r, w) ==
    /\ d \in Bytes /\ Extends(o, d) /\ w.bytes \in Bytes
    /\ ~ (EndOf(o) + 10 > EndOf(d))
    /\ ReadU16(d, EndOf(o)) = r.type
    /\ ReadU16(d, EndOf(o) + 8) = Len(w.bytes)
    /\ EndOf(d) = EndOf(o) + 10 + Len(w.bytes)
    /\ r \in ParseData(d, EndOf(o) + 10, Len(w.bytes), r.type, r.name)

LEMMA RestOfRecord ==
    ASSUME NEW o \in Bytes, NEW r \in DnsRecord,
           NEW names, NEW j \in Nat, j + 1 <= MaxJumps, Readable(o, j, names),
           NEW head, IsHead(head, o, r), NEW w \in DataAfter(head, r, names),
           NEW d, IsBehind(d, head, w)
    PROVE  RestIsRead(d, o, r, w) /\ Readable(d, j + 1, w.names)
  <1> DEFINE t == U16(r.type)
             l == U16(Len(w.bytes))
             ot == o \o t
             hl == head \o l
  <1>0. w \in Data(r, EndOf(head) + 2, names)
    BY DEF DataAfter
  <1>1. r.type \in Nat
    BY DEF DnsRecord, A, CNAME, MX
  <1>2. t \in Bytes /\ Len(t) = 2
    BY <1>1, NumberIs
  <1>3. ClassAndTime \in Bytes /\ Len(ClassAndTime) = 6
    BY DEF ClassAndTime, Bytes
  <1>4. /\ ot \in Bytes /\ Extends(o, ot) /\ EndOf(ot) = EndOf(o) + 2
        /\ Holds(ot, EndOf(o), t)
    BY <1>2, HoldsAppended
  <1> HIDE DEF t
  <1>5. head = ot \o ClassAndTime
    BY DEF t, IsHead
  <1> HIDE DEF ot
  <1>6. /\ head \in Bytes /\ Extends(ot, head) /\ EndOf(head) = EndOf(ot) + 6
    <2> DEFINE y == ClassAndTime
               z == ot \o y
    <2> HIDE DEF y
    <2>1. y \in Bytes /\ Len(y) = 6 /\ ot \in Bytes
      BY <1>3, <1>4 DEF y
    <2>2. z \in Bytes /\ Extends(ot, z) /\ EndOf(z) = EndOf(ot) + Len(y)
      BY <2>1, HoldsAppended
    <2>3. head = z
      BY <1>5 DEF y
    <2> HIDE DEF z
    <2> QED
      BY <2>1, <2>2, <2>3
  <1>7. Extends(o, head)
    BY <1>4, <1>6, LongerStill
  <1>8. EndOf(o) \in Nat /\ EndOf(head) = EndOf(o) + 8 /\ EndOf(head) + 2 = EndOf(o) + 10
    BY <1>4, <1>6, PlacesAre
  <1>9. j \in 0 .. MaxJumps /\ j <= j
    BY DnsAssumption DEF DnsAssumption
  <1>10. \A u \in Bytes : Len(u) = 2 =>
            /\ head \o u \in Bytes /\ EndOf(head \o u) = EndOf(head) + 2
            /\ Holds(head \o u, EndOf(head), u) /\ Extends(head, head \o u)
    BY <1>6, HoldsAppended
  <1>11. Len(w.bytes) \in Nat /\ w.bytes \in Bytes
    <2> DEFINE z == U16(0)
               hz == head \o z
    <2>1. z \in Bytes /\ Len(z) = 2
      BY NumberIs
    <2>2. hz \in Bytes /\ EndOf(hz) = EndOf(head) + 2 /\ Extends(head, hz)
      BY <1>10, <2>1
    <2>3. Extends(o, hz)
      BY <1>6, <1>7, <2>2, LongerStill
    <2> HIDE DEF hz
    <2>4. Readable(hz, j, names)
      BY <1>9, <2>2, <2>3, KnownStays
    <2>5. w \in Data(r, EndOf(hz), names)
      BY <1>0, <2>2
    <2>6. w.bytes \in Bytes
      BY <2>2, <2>4, <2>5, DataAreRead
    <2> QED
      BY <2>6 DEF Bytes
  <1>12. l \in Bytes /\ Len(l) = 2
    BY <1>11, NumberIs
  <1>13. /\ hl \in Bytes /\ EndOf(hl) = EndOf(head) + 2 /\ Extends(head, hl)
         /\ Holds(hl, EndOf(head), l)
    BY <1>10, <1>12
  <1>14. Extends(o, hl)
    BY <1>6, <1>7, <1>13, LongerStill
  <1> HIDE DEF l
  <1>15. d = hl \o w.bytes
    BY DEF l, IsBehind
  <1> HIDE DEF hl
  <1>16. Readable(hl, j, names)
    BY <1>9, <1>13, <1>14, KnownStays
  <1>17. w \in Data(r, EndOf(hl), names)
    BY <1>0, <1>13
  <1>18. /\ Readable(d, j + 1, w.names)
         /\ r \in ParseData(d, EndOf(hl), Len(w.bytes), r.type, r.name)
    BY <1>13, <1>15, <1>16, <1>17, DataAreRead
  <1>19. d \in Bytes /\ Extends(hl, d) /\ EndOf(d) = EndOf(hl) + Len(w.bytes)
    BY <1>11, <1>13, <1>15, HoldsAppended
  <1>20. Extends(o, d) /\ Extends(head, d) /\ Extends(ot, d)
    BY <1>4, <1>6, <1>13, <1>14, <1>19, LongerStill
  <1>21. ReadU16(d, EndOf(o)) = r.type
    <2>1. Holds(d, EndOf(o), t)
      BY <1>2, <1>4, <1>19, <1>20, HoldsLonger
    <2> QED
      BY <1>1, <1>19, <2>1, NumberIsRead DEF t
  <1>22. ReadU16(d, EndOf(head)) = Len(w.bytes)
    <2>1. Holds(d, EndOf(head), l)
      BY <1>12, <1>13, <1>19, HoldsLonger
    <2> QED
      BY <1>11, <1>19, <2>1, NumberIsRead DEF l
  <1>23. EndOf(hl) = EndOf(o) + 10 /\ EndOf(d) = EndOf(o) + 10 + Len(w.bytes)
         /\ ~ (EndOf(o) + 10 > EndOf(d))
    BY <1>8, <1>11, <1>13, <1>19
  <1> QED
    BY <1>8, <1>11, <1>18, <1>19, <1>20, <1>21, <1>22, <1>23 DEF RestIsRead

(* A record that a server writes behind a packet is the next one that is parsed.  *)
LEMMA AddedIsParsed ==
    ASSUME NEW b \in Bytes, NEW r \in DnsRecord,
           NEW names, NEW j \in Nat, j + 2 <= MaxJumps, Readable(b, j, names),
           NEW owner \in Spelled(r.name, EndOf(b), names),
           NEW head, head = b \o RecordHead(r, owner),
           NEW w \in Data(r, EndOf(head) + 2, names \cup owner.names),
           NEW d, d = head \o U16(Len(w.bytes)) \o w.bytes
    PROVE  /\ d \in Bytes /\ Extends(b, d)
           /\ Readable(d, j + 2, (names \cup owner.names) \cup w.names)
           /\ [record |-> r, next |-> EndOf(d)] \in ParseRecord(d, EndOf(b))
  <1> DEFINE o == b \o owner.bytes
             known == names \cup owner.names
             t == U16(r.type)
  <1>1. /\ r.name \in DnsName /\ r.type \in Nat
        /\ j + 1 \in Nat /\ j + 1 <= MaxJumps /\ (j + 1) + 1 = j + 2
        /\ j \in 0 .. MaxJumps /\ j + 1 \in 0 .. MaxJumps /\ j + 2 \in 0 .. MaxJumps
        /\ j <= j + 1 /\ j + 1 <= j + 2
    BY DnsAssumption DEF DnsAssumption, DnsRecord, A, CNAME, MX
  <1>2. /\ owner.bytes \in Bytes /\ Len(owner.bytes) > 0
        /\ Reads(o, j + 1, EndOf(b), r.name, EndOf(o))
        /\ Readable(o, j + 1, owner.names)
    BY <1>1, SpelledIsRead
  <1>3. o \in Bytes /\ Extends(b, o) /\ EndOf(o) = EndOf(b) + Len(owner.bytes)
    BY <1>2, HoldsAppended
  <1>4. t \in Bytes /\ Len(t) = 2
    BY <1>1, NumberIs
  <1>5. ClassAndTime \in Bytes
    BY DEF ClassAndTime, Bytes
  <1>6. head = (o \o t) \o ClassAndTime
    <2> DEFINE x == owner.bytes
    <2>1. RecordHead(r, owner) = (x \o t) \o ClassAndTime
      BY Zenon DEF RecordHead, ClassAndTime
    <2>2. x \in Bytes /\ x \o t \in Bytes
      BY <1>2, <1>4, JoinedBytes
    <2>3. o = b \o x
      OBVIOUS
    <2> HIDE DEF x, t, o
    <2> DEFINE xt == x \o t
               y == ClassAndTime
    <2>4. xt \in Bytes /\ y \in Bytes
      BY <1>5, <2>2
    <2> HIDE DEF xt, y
    <2>5. b \o (xt \o y) = (b \o xt) \o y
      BY <2>4, JoinsAssociate
    <2>6. b \o ((x \o t) \o ClassAndTime) = (b \o (x \o t)) \o ClassAndTime
      BY <2>5 DEF xt, y
    <2>7. b \o (x \o t) = (b \o x) \o t
      BY <1>4, <2>2, JoinsAssociate
    <2> QED
      BY <2>1, <2>3, <2>6, <2>7
  <1> HIDE DEF o
  <1>7. Readable(o, j + 1, names)
    BY <1>1, <1>3, KnownStays
  <1>8. Readable(o, j + 1, known)
    BY <1>2, <1>7 DEF Readable
  <1> HIDE DEF known
  <1>9. w \in Data(r, EndOf(head) + 2, known)
    BY DEF known
  <1>10. /\ d \in Bytes /\ Extends(o, d) /\ w.bytes \in Bytes
         /\ ~ (EndOf(o) + 10 > EndOf(d))
         /\ ReadU16(d, EndOf(o)) = r.type
         /\ ReadU16(d, EndOf(o) + 8) = Len(w.bytes)
         /\ EndOf(d) = EndOf(o) + 10 + Len(w.bytes)
         /\ r \in ParseData(d, EndOf(o) + 10, Len(w.bytes), r.type, r.name)
         /\ Readable(d, (j + 1) + 1, w.names)
    <2> DEFINE k == j + 1
    <2>1. k \in Nat /\ k + 1 <= MaxJumps /\ Readable(o, k, known)
      BY <1>1, <1>8
    <2>2. IsHead(head, o, r) /\ IsBehind(d, head, w) /\ w \in DataAfter(head, r, known)
      BY <1>6, <1>9 DEF IsHead, IsBehind, DataAfter, t
    <2> HIDE DEF k
    <2>3. RestIsRead(d, o, r, w) /\ Readable(d, k + 1, w.names)
      BY <1>3, <2>1, <2>2, RestOfRecord
    <2> QED
      BY <2>3 DEF k, RestIsRead
  <1>11. Extends(b, d)
    BY <1>3, <1>10, LongerStill
  <1>12. Readable(d, j + 2, known) /\ Readable(d, j + 2, w.names)
    BY <1>1, <1>3, <1>8, <1>10, KnownStays
  <1>13. Readable(d, j + 2, known \cup w.names)
    BY <1>12 DEF Readable
  <1>14. /\ EndOf(b) \in Nat /\ EndOf(o) \in Nat /\ EndOf(d) \in Nat
         /\ Len(w.bytes) \in Nat /\ Len(owner.bytes) \in Nat
    <2>1. EndOf(b) \in Nat /\ EndOf(o) \in Nat /\ EndOf(d) \in Nat
      BY <1>3, <1>10, PlacesAre
    <2>2. Len(w.bytes) \in Nat /\ Len(owner.bytes) \in Nat
      BY <1>2, <1>10 DEF Bytes
    <2> QED
      BY <2>1, <2>2
  <1>15. EndOf(b) < EndOf(o) /\ EndOf(b) < EndOf(d) /\ EndOf(b) \in Places(o)
    <2> DEFINE eb == EndOf(b)
               eo == EndOf(o)
               ed == EndOf(d)
               lo == Len(owner.bytes)
               lw == Len(w.bytes)
    <2>1. eb \in Nat /\ lo \in Nat /\ lw \in Nat /\ lo > 0
      BY <1>2, <1>14
    <2>2. eo = eb + lo /\ ed = eo + 10 + lw
      BY <1>3, <1>10
    <2> HIDE DEF eb, eo, ed, lo, lw
    <2>3. eb < eo /\ eb < ed /\ eb \in 0 .. eo
      BY <2>1, <2>2
    <2> QED
      BY <2>3 DEF Places, eb, eo, ed
  <1>16. Reads(d, j + 1, EndOf(b), r.name, EndOf(o))
    BY <1>1, <1>2, <1>3, <1>10, <1>15, ReadsRemain
  <1>17. [labels |-> r.name, next |-> EndOf(o)] \in DecodeName(d, EndOf(b))
    BY <1>1, <1>10, <1>14, <1>15, <1>16, NameIsDecoded
  <1>18. [record |-> r, next |-> EndOf(d)] \in ParseRecord(d, EndOf(b))
    <2> DEFINE n == [labels |-> r.name, next |-> EndOf(o)]
    <2>1. n \in DecodeName(d, EndOf(b)) /\ n.labels = r.name /\ n.next = EndOf(o)
      BY <1>17
    <2> HIDE DEF n
    <2> QED
      BY <1>10, <1>14, <2>1, RecordIsParsed
  <1> QED
    BY <1>10, <1>11, <1>13, <1>18 DEF known

(* The query, and the answer before there is a record in it.                     *)
LEMMA QueryIsRead ==
    /\ BuildQuery \in Bytes
    /\ Readable(BuildQuery, 0, Written(DnsQuestion, Len(DnsQuestion), kDnsHeaderSize))
    /\ [records |-> <<>>, next |-> EndOf(BuildQuery)] \in AnswersFrom(BuildQuery)[0]
  <1> DEFINE q == DnsQuestion
             k == Len(q)
             l == Labels(q, k)
             z == <<0>>
             name == l \o z
             rest == U16(A) \o <<0, 1>>
             b == name \o rest
  <1>1. q \in Seq(Nat) /\ k \in 0 .. Len(q) /\ k \in Nat
    BY NamesAreNumbers, DnsAssumption DEF DnsAssumption
  <1>2. l \in Bytes /\ Len(l) = 2 * k
    BY <1>1, LabelBytes
  <1>3. z \in Bytes /\ Len(z) = 1 /\ z[1] = 0
    BY DEF Bytes
  <1>4. rest \in Bytes /\ Len(rest) = 4
    <2>1. U16(A) \in Bytes /\ Len(U16(A)) = 2
      BY NumberIs DEF A
    <2>2. <<0, 1>> \in Bytes /\ Len(<<0, 1>>) = 2
      BY DEF Bytes
    <2> DEFINE x == U16(A)
               y == <<0, 1>>
    <2> HIDE DEF x, y
    <2>3. x \in Bytes /\ Len(x) = 2 /\ y \in Bytes /\ Len(y) = 2
      BY <2>1, <2>2 DEF x, y
    <2>4. x \o y \in Bytes /\ Len(x \o y) = Len(x) + Len(y)
      BY <2>3, JoinedBytes
    <2>5. rest = x \o y
      BY DEF x, y
    <2>6. Len(x) + Len(y) = 4
      BY <2>3
    <2> HIDE DEF rest
    <2> QED
      BY <2>4, <2>5, <2>6
  <1>5. BuildQuery = b
    <2>1. BuildQuery = (name \o U16(A)) \o <<0, 1>>
      BY Zenon DEF BuildQuery, AppendName
    <2>2. U16(A) \in Bytes /\ <<0, 1>> \in Bytes
      BY NumberIs DEF A, Bytes
    <2>3. name \in Bytes
      BY <1>2, <1>3, JoinedBytes
    <2> HIDE DEF name
    <2>4. name \o (U16(A) \o <<0, 1>>) = (name \o U16(A)) \o <<0, 1>>
      BY <2>2, <2>3, JoinsAssociate
    <2> QED
      BY <2>1, <2>4
  <1> HIDE DEF l, z, rest
  <1>6. name \in Bytes /\ Len(name) = 2 * k + 1
    BY <1>1, <1>2, <1>3, JoinedBytes
  <1> DEFINE p == kDnsHeaderSize
  <1>7. EndOf(name) = p + 2 * k + 1 /\ p \in Nat /\ p >= kDnsHeaderSize
    BY <1>1, <1>6 DEF EndOf, kDnsHeaderSize
  <1>8. Holds(name, p, name)
    <2>1. ASSUME NEW i \in 1 .. Len(name) PROVE ByteAt(name, p + i - 1) = name[i]
      <3> DEFINE place == p + i - 1
      <3>1. place - kDnsHeaderSize + 1 = i
        BY <1>6 DEF kDnsHeaderSize
      <3> HIDE DEF name, place
      <3>2. ByteAt(name, place) = name[i]
        BY <3>1, Zenon DEF ByteAt
      <3> QED
        BY <3>2 DEF place
    <2> QED
      BY <1>6, <1>7, <2>1, PlacesAre DEF Holds, EndOf
  <1> HIDE DEF b
  <1>9. b \in Bytes /\ Extends(name, b) /\ EndOf(b) = EndOf(name) + 4
    <2> HIDE DEF name
    <2> QED
      BY <1>4, <1>6, HoldsAppended DEF b
  <1>10. Holds(b, p, l) /\ Holds(b, p + Len(l), z)
    <2>1. Holds(b, p, l \o z)
      BY <1>6, <1>8, <1>9, HoldsLonger
    <2> QED
      BY <1>2, <1>3, <1>9, <2>1, HoldsParts
  <1> HIDE DEF name
  <1> DEFINE c == p + 2 * k
             next == EndOf(name)
  <1>11. c \in Nat /\ c >= kDnsHeaderSize /\ c < EndOf(b) /\ next = c + 1 /\ EndOf(b) = next + 4
         /\ EndOf(b) \in Nat /\ next \in Nat
    BY <1>1, <1>7, <1>9
  <1>12. ByteAt(b, c) = 0
    <2>1. 1 \in 1 .. Len(z) /\ c + 1 - 1 = c /\ p + Len(l) = c
      BY <1>2, <1>3, <1>11
    <2>2. ByteAt(b, c + 1 - 1) = z[1]
      BY <1>10, <2>1 DEF Holds
    <2> QED
      BY <1>3, <2>1, <2>2
  <1> HIDE DEF c, next
  <1>13. 0 \in 0 .. MaxJumps
    BY DnsAssumption DEF DnsAssumption
  <1>14. Reads(b, 0, c, <<>>, next)
    BY <1>9, <1>11, <1>12, <1>13, ReadsEnd
  <1>15. Rest(q, k) = <<>> /\ Rest(q, 0) = q
    BY <1>1, WholeAndNothing
  <1> HIDE DEF q, k, p
  <1>16. \A i \in 0 .. k : Reads(b, 0, p + 2 * i, Rest(q, i), next)
    BY <1>1, <1>9, <1>10, <1>13, <1>14, <1>15, LabelsAreRead DEF c, l
  <1>17. p + 2 * k < EndOf(b)
    BY <1>11 DEF c
  <1>18. Readable(b, 0, Written(q, k, p))
    BY <1>1, <1>7, <1>9, <1>13, <1>16, <1>17, WrittenIsKnown
  <1>19. Reads(b, 0, p, q, next)
    <2>1. 0 \in 0 .. k /\ p + 2 * 0 = p
      BY <1>1, <1>7
    <2>2. Reads(b, 0, p + 2 * 0, Rest(q, 0), next)
      BY <1>16, <2>1
    <2> QED
      BY <1>15, <2>1, <2>2
  <1>20. p < EndOf(b)
    <2>1. p \in Nat /\ k \in Nat /\ EndOf(b) \in Nat /\ p + 2 * k < EndOf(b)
      BY <1>1, <1>7, <1>11, <1>17
    <2> QED
      BY <2>1
  <1>21. [labels |-> q, next |-> next] \in DecodeName(b, p)
    BY <1>7, <1>9, <1>13, <1>19, <1>20, NameIsDecoded
  <1>22. [records |-> <<>>, next |-> EndOf(b)] \in ParseQuestion(b)
    <2> DEFINE n == [labels |-> q, next |-> next]
    <2>1. n \in DecodeName(b, kDnsHeaderSize) /\ n.next + 4 = EndOf(b)
      BY <1>11, <1>21 DEF p
    <2> HIDE DEF n
    <2> QED
      BY <2>1, Zenon DEF ParseQuestion
  <1>23. [records |-> <<>>, next |-> EndOf(b)] \in AnswersFrom(b)[0]
    BY <1>22, AnswersAre
  <1> QED
    BY <1>5, <1>9, <1>18, <1>23 DEF q, k, p

(* The inductive invariant: every name in the answer can be read, with no more    *)
(* pointers than names have been added, and the answer so far is parsed to the   *)
(* records that were put in.                                                    *)
DnsIInv ==
    /\ dnsAnswer.bytes \in Bytes
    /\ dnsAnswer.records \in Seq(DnsRecord) /\ Len(dnsAnswer.records) <= MaxAnswers
    /\ Readable(dnsAnswer.bytes, 2 * Len(dnsAnswer.records), dnsAnswer.names)
    /\ [records |-> dnsAnswer.records, next |-> EndOf(dnsAnswer.bytes)]
          \in AnswersFrom(dnsAnswer.bytes)[Len(dnsAnswer.records)]
    /\ RecordsAreTrue

LEMMA DnsBegins == DnsInit => DnsIInv
  <1> SUFFICES ASSUME DnsInit PROVE DnsIInv
    OBVIOUS
  <1>1. /\ dnsAnswer.bytes = BuildQuery /\ dnsAnswer.records = <<>>
        /\ dnsAnswer.names = Written(DnsQuestion, Len(DnsQuestion), kDnsHeaderSize)
        /\ dnsResult.kind = "waiting"
    BY DEF DnsInit, Waiting
  <1>2. /\ dnsAnswer.records \in Seq(DnsRecord) /\ Len(dnsAnswer.records) = 0
        /\ 2 * Len(dnsAnswer.records) = 0 /\ 0 <= MaxAnswers
    BY <1>1, DnsAssumption DEF DnsAssumption
  <1>3. RecordsAreTrue
    BY <1>1 DEF RecordsAreTrue
  <1> QED
    BY <1>1, <1>2, <1>3, QueryIsRead DEF DnsIInv

LEMMA DnsAdds ==
    ASSUME DnsIInv, NEW r \in DnsRecords, AddRecord(r)
    PROVE  DnsIInv'
  <1> DEFINE b == dnsAnswer.bytes
             old == dnsAnswer.records
             names == dnsAnswer.names
             j == 2 * Len(old)
  <1>1. r \in DnsRecord
    BY DnsAssumption DEF DnsAssumption
  <1>2. /\ b \in Bytes /\ old \in Seq(DnsRecord) /\ Readable(b, j, names)
        /\ [records |-> old, next |-> EndOf(b)] \in AnswersFrom(b)[Len(old)]
    BY DEF DnsIInv
  <1>3. /\ Len(old) \in Nat /\ Len(old) + 1 <= MaxAnswers /\ j \in Nat /\ j + 2 <= MaxJumps
        /\ MaxAnswers \in Nat
    BY <1>2, DnsAssumption DEF AddRecord, DnsAssumption
  <1>4. PICK owner \in Spelled(r.name, EndOf(b), names) :
           LET head == b \o RecordHead(r, owner)
               known == names \cup owner.names
           IN  \E w \in Data(r, EndOf(head) + 2, known) :
                  dnsAnswer' = [bytes |-> head \o U16(Len(w.bytes)) \o w.bytes,
                                records |-> Append(old, r), names |-> known \cup w.names]
    BY DEF AddRecord
  <1> DEFINE head == b \o RecordHead(r, owner)
             known == names \cup owner.names
  <1>5. PICK w \in Data(r, EndOf(head) + 2, known) :
           dnsAnswer' = [bytes |-> head \o U16(Len(w.bytes)) \o w.bytes,
                         records |-> Append(old, r), names |-> known \cup w.names]
    BY <1>4
  <1> DEFINE d == head \o U16(Len(w.bytes)) \o w.bytes
             new == Append(old, r)
  <1>6. /\ dnsAnswer'.bytes = d /\ dnsAnswer'.records = new
        /\ dnsAnswer'.names = known \cup w.names
    BY <1>5
  <1>7. /\ d \in Bytes /\ Extends(b, d)
        /\ Readable(d, j + 2, known \cup w.names)
        /\ [record |-> r, next |-> EndOf(d)] \in ParseRecord(d, EndOf(b))
    BY <1>1, <1>2, <1>3, AddedIsParsed
  <1>8. /\ new \in Seq(DnsRecord) /\ Len(new) = Len(old) + 1 /\ 2 * Len(new) = j + 2
        /\ Len(new) <= MaxAnswers
    BY <1>1, <1>2, <1>3
  <1>9. [records |-> new, next |-> EndOf(d)] \in AnswersFrom(d)[Len(new)]
    <2> HIDE DEF d, b, old, new
    <2> DEFINE s == [records |-> old, next |-> EndOf(b)]
               p == [record |-> r, next |-> EndOf(d)]
    <2>1. Len(old) \in 0 .. MaxAnswers
      BY <1>3
    <2>2. s \in AnswersFrom(d)[Len(old)]
      BY <1>2, <1>7, <2>1, AnswersGrow
    <2>3. /\ s.records = old /\ s.next = EndOf(b) /\ p.record = r /\ p.next = EndOf(d)
          /\ p \in ParseRecord(d, EndOf(b))
      BY <1>7
    <2> HIDE DEF s, p
    <2>4. [records |-> Append(s.records, p.record), next |-> p.next] \in ParseNext(d, s)
      BY <2>3, Zenon DEF ParseNext
    <2>5. [records |-> new, next |-> EndOf(d)] \in ParseNext(d, s)
      BY <2>3, <2>4 DEF new
    <2>6. AnswersFrom(d)[Len(old) + 1] = UNION {ParseNext(d, t) : t \in AnswersFrom(d)[Len(old)]}
      BY <1>3, AnswersAre
    <2>7. [records |-> new, next |-> EndOf(d)] \in AnswersFrom(d)[Len(old) + 1]
      BY <2>2, <2>5, <2>6, Zenon
    <2> QED
      BY <1>8, <2>7
  <1>10. RecordsAreTrue'
    <2>1. dnsResult' = Waiting /\ Waiting.kind = "waiting"
      BY DEF AddRecord, Waiting
    <2>2. dnsResult'.kind # "printed" /\ dnsResult'.kind # "error"
      BY <2>1
    <2> QED
      BY <2>2 DEF RecordsAreTrue
  <1> HIDE DEF d, new, known, j
  <1>11. Readable(d, 2 * Len(new), known \cup w.names)
    BY <1>7, <1>8
  <1> QED
    BY <1>6, <1>7, <1>8, <1>9, <1>10, <1>11 DEF DnsIInv

(* What the program reads: the answer, or the part of it that the buffer holds.    *)
LEMMA CutIsShorter ==
    ASSUME NEW b \in Bytes, NEW n \in Int, Len(b) > n
    PROVE  SubSeq(b, 1, n) \in Bytes /\ Extends(SubSeq(b, 1, n), b)
  BY DEF Bytes, Extends

LEMMA DnsReceives ==
    ASSUME DnsIInv, Receive
    PROVE  DnsIInv'
  <1> DEFINE b == dnsAnswer.bytes
             old == dnsAnswer.records
             n == Len(old)
             size == ReceiveBuffer - kDnsHeaderSize
             c == IF Len(b) > size THEN SubSeq(b, 1, size) ELSE b
             parsed == ParseAnswers(c, n)
             s == [records |-> old, next |-> EndOf(b)]
  <1>1. b \in Bytes /\ old \in Seq(DnsRecord) /\ n \in 0 .. MaxAnswers /\ s \in AnswersFrom(b)[n]
    BY DnsAssumption DEF DnsIInv, DnsAssumption
  <1>2. size \in Int /\ (~ (Len(b) > size) => c = b)
        /\ (Len(b) > size <=> EndOf(b) > ReceiveBuffer)
    BY <1>1, DnsAssumption DEF EndOf, kDnsHeaderSize, Bytes, DnsAssumption
  <1>3. c \in Bytes /\ Extends(c, b)
    <2>1. CASE Len(b) > size
      BY <1>1, <1>2, <2>1, CutIsShorter
    <2>2. CASE ~ (Len(b) > size)
      BY <1>1, <2>2 DEF Extends, Bytes
    <2> QED
      BY <2>1, <2>2
  <1>4. dnsAnswer' = dnsAnswer /\ dnsResult' \in IF parsed = {} THEN {Failed} ELSE parsed
    BY Zenon DEF Receive
  <1> HIDE DEF c, size
  <1>5. AnswersFrom(c)[n] \subseteq AnswersFrom(b)[n]
    BY <1>1, <1>3, AnswersGrow
  <1>6. Single(AnswersFrom(b)[n])
    BY <1>1, AnswersAreSingle DEF OneAnswer
  <1>7. \A x \in AnswersFrom(c)[n] : x = s
    BY <1>1, <1>5, <1>6, Zenon DEF Single
  <1>8. s.records = old
    OBVIOUS
  <1> HIDE DEF s
  <1>9. \A y \in parsed : y = [kind |-> "printed", records |-> old]
    BY <1>7, <1>8, Zenon DEF ParseAnswers
  <1>10. ~ (Len(b) > size) => [kind |-> "printed", records |-> old] \in parsed
    BY <1>1, <1>2, <1>8, Zenon DEF ParseAnswers
  <1> HIDE DEF parsed, b, old, n
  <1>11. \/ dnsResult' = [kind |-> "printed", records |-> old]
         \/ dnsResult' = Failed /\ Len(b) > size
    BY <1>4, <1>9, <1>10
  <1>12. RecordsAreTrue'
    <2>1. dnsAnswer'.records = old /\ dnsAnswer'.bytes = b
      BY <1>4 DEF old, b
    <2>2. CASE dnsResult' = [kind |-> "printed", records |-> old]
      <3>1. dnsResult'.kind = "printed" /\ dnsResult'.records = old
        BY <2>2
      <3> QED
        BY <2>1, <3>1 DEF RecordsAreTrue
    <2>3. CASE dnsResult' = Failed /\ Len(b) > size
      <3>1. dnsResult'.kind = "error" /\ EndOf(b) > ReceiveBuffer
        BY <1>2, <2>3 DEF Failed
      <3> QED
        BY <2>1, <3>1 DEF RecordsAreTrue
    <2> QED
      BY <1>11, <2>2, <2>3
  <1> QED
    BY <1>4, <1>12 DEF DnsIInv

LEMMA DnsLoses ==
    ASSUME DnsIInv, ReceiveNothing
    PROVE  DnsIInv'
  <1>1. dnsAnswer' = dnsAnswer /\ dnsResult'.kind = "lost"
    BY DEF ReceiveNothing, Failed
  <1>2. RecordsAreTrue'
    BY <1>1 DEF RecordsAreTrue
  <1> QED
    BY <1>1, <1>2 DEF DnsIInv

LEMMA DnsKeeps == DnsIInv /\ [DnsNext]_dnsVars => DnsIInv'
  <1> SUFFICES ASSUME DnsIInv, [DnsNext]_dnsVars PROVE DnsIInv'
    OBVIOUS
  <1>1. CASE \E r \in DnsRecords : AddRecord(r)
    BY <1>1, DnsAdds
  <1>2. CASE Receive
    BY <1>2, DnsReceives
  <1>3. CASE ReceiveNothing
    BY <1>3, DnsLoses
  <1>4. CASE UNCHANGED dnsVars
    BY <1>4 DEF dnsVars, DnsIInv, RecordsAreTrue
  <1> QED
    BY <1>1, <1>2, <1>3, <1>4 DEF DnsNext

(* What is printed is what the server put into its answer, however it compresses  *)
(* the names, and nothing is printed of an answer that does not fit into the     *)
(* buffer (main.cpp:96-154, 260-321, 387-402).                                  *)
THEOREM DnsRecordsAreTrue == DnsSpec => []RecordsAreTrue
  <1>1. DnsIInv => RecordsAreTrue
    BY DEF DnsIInv
  <1> QED
    BY <1>1, DnsBegins, DnsKeeps, PTL DEF DnsSpec
================================================================================
