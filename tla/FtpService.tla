------------------------------- MODULE FtpService ------------------------------
(* The FTP service of ex6: a thread for every connection, one directory for all  *)
(* of them and no lock.  The model has one file of that directory, since names   *)
(* share nothing.  A unit of the file is <<upload, place>>; clients are external. *)
EXTENDS Naturals, Sequences, FiniteSetsExt

CONSTANTS
    Ftp,            \* control connections
    MaxUploads,     \* bound of the uploads
    MaxUnits        \* bound of the units an upload has

ASSUME FtpAssumption == MaxUploads \in Nat /\ MaxUnits \in Nat

VARIABLES
    ftpFile,        \* the units of the file
    ftpThere,       \* the file exists
    ftpUploads,     \* uploads begun so far
    ftpSession,     \* what the thread of each connection has
    ftpLast         \* the last upload, when it ran alone and ended well, and its size

ftpVars == <<ftpFile, ftpThere, ftpUploads, ftpSession, ftpLast>>

NoUpload == [upload |-> 0, size |-> 0]
Hole == <<0, 0>>    \* what a file system puts where nothing was written

\* `setup`, and the locals of a transfer: `moved` units went through the file,
\* `came` arrived from the client or went to it; `crossed` when an upload ran
\* at the same time.
FreshSession ==
    [at |-> "ready", loggedIn |-> FALSE, passive |-> FALSE, wants |-> "none",
     upload |-> 0, came |-> <<>>, moved |-> 0, crossed |-> FALSE]

FtpInit ==
    /\ ftpFile = <<>>
    /\ ftpThere = FALSE
    /\ ftpUploads = 0
    /\ ftpSession = [c \in Ftp |-> [FreshSession EXCEPT !.at = "gone"]]
    /\ ftpLast = NoUpload

At(c, where) == ftpSession[c].at = where
SetAt(c, where) == ftpSession' = [ftpSession EXCEPT ![c].at = where]
FilesStay == UNCHANGED <<ftpFile, ftpThere, ftpUploads, ftpLast>>

FtpConnect(c) ==
    /\ At(c, "gone")
    /\ ftpSession' = [ftpSession EXCEPT ![c] = FreshSession]
    /\ FilesStay

\* QUIT, or the connection ends.
FtpQuit(c) ==
    /\ At(c, "ready")
    /\ SetAt(c, "gone")
    /\ FilesStay

\* The right password; a wrong one changes nothing.
FtpPass(c) ==
    /\ At(c, "ready")
    /\ ftpSession' = [ftpSession EXCEPT ![c].loggedIn = TRUE]
    /\ FilesStay

EnterPassive(c) ==
    /\ At(c, "ready")
    /\ ftpSession[c].loggedIn
    /\ ftpSession' = [ftpSession EXCEPT ![c].passive = TRUE]
    /\ FilesStay

\* LIST, STOR or RETR up to _accept_data, which raises when PASV is missing and
\* then ends the thread.
Transfer(c, wanted) ==
    /\ At(c, "ready")
    /\ ftpSession[c].loggedIn
    /\ wanted = "retrieve" => ftpThere
    /\ wanted = "store" => ftpUploads < MaxUploads
    /\ ftpSession' = [ftpSession EXCEPT
          ![c].at = IF ftpSession[c].passive THEN "accepting" ELSE "gone",
          ![c].wants = wanted]
    /\ FilesStay

Storing == {c \in Ftp : At(c, "storing")}

\* The client connects and the thread reads the directory; the connection may
\* break while the list is sent.
ListFiles(c) ==
    /\ At(c, "accepting")
    /\ ftpSession[c].wants = "list"
    /\ \E after \in {"ready", "gone"} :
          ftpSession' = [ftpSession EXCEPT ![c].at = after, ![c].passive = FALSE]
    /\ FilesStay

\* The client connects and open(..., "wb") empties the file.
Mutant_Opened == ftpFile
Opened == <<>>

StoreBegins(c) ==
    /\ At(c, "accepting")
    /\ ftpSession[c].wants = "store"
    /\ ftpUploads < MaxUploads
    /\ ftpUploads' = ftpUploads + 1
    /\ ftpFile' = Opened
    /\ ftpThere' = TRUE
    /\ ftpLast' = NoUpload
    /\ ftpSession' = [d \in Ftp |->
          IF d = c
          THEN [ftpSession[c] EXCEPT !.at = "storing", !.passive = FALSE, !.came = <<>>,
                  !.upload = ftpUploads', !.moved = 0, !.crossed = Storing # {}]
          ELSE [ftpSession[d] EXCEPT !.crossed = @ \/ ftpSession[d].at \in {"storing", "retrieving"}]]

\* A chunk is received; f.write keeps it until its buffer is full.
StoreReceives(c) ==
    /\ At(c, "storing")
    /\ Len(ftpSession[c].came) < MaxUnits
    /\ ftpSession' = [ftpSession EXCEPT
          ![c].came = Append(@, <<ftpSession[c].upload, Len(@) + 1>>)]
    /\ FilesStay

\* The file when the thread has written all it received up to `place`, from
\* the place where its own file position is.
WrittenUpTo(c, place) ==
    LET new == ftpSession[c].moved + 1 .. place
    IN  IF new = {} THEN ftpFile
        ELSE [i \in 1..Max({Len(ftpFile), place}) |->
                IF i \in new THEN ftpSession[c].came[i]
                ELSE IF i \in DOMAIN ftpFile THEN ftpFile[i] ELSE Hole]

StoreWrites(c) ==
    /\ At(c, "storing")
    /\ \E place \in ftpSession[c].moved + 1 .. Len(ftpSession[c].came) :
          /\ ftpFile' = WrittenUpTo(c, place)
          /\ ftpSession' = [ftpSession EXCEPT ![c].moved = place]
    /\ UNCHANGED <<ftpThere, ftpUploads, ftpLast>>

\* recv returns nothing: the file is closed, and the answer is 226.
StoreEnds(c) ==
    /\ At(c, "storing")
    /\ ftpFile' = WrittenUpTo(c, Len(ftpSession[c].came))
    /\ SetAt(c, "ready")
    /\ ftpLast' = IF ftpSession[c].crossed THEN NoUpload
                  ELSE [upload |-> ftpSession[c].upload, size |-> Len(ftpSession[c].came)]
    /\ UNCHANGED <<ftpThere, ftpUploads>>

\* recv raises: the file is closed on the way out of the thread.
StoreBreaks(c) ==
    /\ At(c, "storing")
    /\ ftpFile' = WrittenUpTo(c, Len(ftpSession[c].came))
    /\ SetAt(c, "gone")
    /\ UNCHANGED <<ftpThere, ftpUploads, ftpLast>>

RetrieveBegins(c) ==
    /\ At(c, "accepting")
    /\ ftpSession[c].wants = "retrieve"
    /\ ftpSession' = [ftpSession EXCEPT
          ![c] = [@ EXCEPT !.at = "retrieving", !.passive = FALSE, !.came = <<>>,
                     !.moved = 0, !.crossed = Storing # {}]]
    /\ FilesStay

RetrieveReads(c) ==
    /\ At(c, "retrieving")
    /\ ftpSession[c].moved < Len(ftpFile)
    /\ ftpSession' = [ftpSession EXCEPT
          ![c].moved = @ + 1,
          ![c].came = Append(@, ftpFile[ftpSession[c].moved + 1])]
    /\ FilesStay

\* The end of the file: 226.
RetrieveEnds(c) ==
    /\ At(c, "retrieving")
    /\ ftpSession[c].moved >= Len(ftpFile)
    /\ SetAt(c, "ready")
    /\ FilesStay

RetrieveBreaks(c) ==
    /\ At(c, "retrieving")
    /\ SetAt(c, "gone")
    /\ FilesStay

FtpNext ==
    \E c \in Ftp :
       \/ FtpConnect(c) \/ FtpQuit(c) \/ FtpPass(c) \/ EnterPassive(c)
       \/ \E wanted \in {"list", "store", "retrieve"} : Transfer(c, wanted)
       \/ ListFiles(c)
       \/ StoreBegins(c) \/ StoreReceives(c) \/ StoreWrites(c) \/ StoreEnds(c)
       \/ StoreBreaks(c)
       \/ RetrieveBegins(c) \/ RetrieveReads(c) \/ RetrieveEnds(c) \/ RetrieveBreaks(c)

FtpSpec == FtpInit /\ [][FtpNext]_ftpVars

-------------------------------------------------------------------------------
\* Types.
FtpState ==
    [at : {"gone", "ready", "accepting", "storing", "retrieving"},
     loggedIn : BOOLEAN, passive : BOOLEAN,
     wants : {"none", "list", "store", "retrieve"},
     upload : Nat, came : Seq(Nat \X Nat), moved : Nat, crossed : BOOLEAN]

FtpTypeOK ==
    /\ ftpFile \in Seq(Nat \X Nat)
    /\ ftpThere \in BOOLEAN
    /\ ftpUploads \in Nat
    /\ ftpSession \in [Ftp -> FtpState]
    /\ ftpLast \in [upload : Nat, size : Nat]

\* A download that is answered with 226, and that no upload of the name ran
\* beside, is the whole of the last upload and nothing else, if that one ended
\* well and alone: whatever came before it (longer files, broken and mixed
\* uploads, a STOR without PASV) has left no trace
\* (lab8_services.py:451-474).
DownloadIsLastUpload ==
    [][\A c \in Ftp :
          /\ At(c, "retrieving") /\ ftpSession'[c].at = "ready"
          /\ ~ftpSession[c].crossed
          /\ ftpLast # NoUpload
          => ftpSession[c].came = [i \in 1..ftpLast.size |-> <<ftpLast.upload, i>>]
      ]_ftpVars
================================================================================
