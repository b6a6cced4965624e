-------------------------------- MODULE LabMail --------------------------------
(* The SMTP and POP3 services of ex6 and the mailbox they share.  Every           *)
(* connection has a thread of its own and nothing is locked.  A POP3 session     *)
(* keeps numbers of messages: places in the mailbox, wherever that has got to.   *)
(* What clients ask for is external; IMAP and the rest of POP3 only read.        *)
EXTENDS Naturals, Sequences, SequencesExt

CONSTANTS
    Pop,            \* POP3 connections
    MaxMails        \* bound of the mails sent

ASSUME LabMailAssumption == MaxMails \in Nat

VARIABLES
    mailbox,        \* ServiceManager.mailbox: numbers of mails
    mailsSent,      \* mails sent so far
    popState,       \* "closed", "open", "quitting"
    popListed,      \* the mailbox as a client has seen it in LIST
    popDeleted,     \* `deleted` of each POP3 handler
    popKept,        \* the list a QUIT has built and is about to store
    popCrossed      \* the mailbox was replaced meanwhile, or grew in mid-QUIT

labVars == <<mailbox, mailsSent, popState, popListed, popDeleted, popKept, popCrossed>>

LabMailInit ==
    /\ mailbox = <<>>
    /\ mailsSent = 0
    /\ popState = [c \in Pop |-> "closed"]
    /\ popListed = [c \in Pop |-> <<>>]
    /\ popDeleted = [c \in Pop |-> {}]
    /\ popKept = [c \in Pop |-> <<>>]
    /\ popCrossed = [c \in Pop |-> FALSE]

\* The end of DATA.
Deliver ==
    /\ mailsSent < MaxMails
    /\ mailsSent' = mailsSent + 1
    /\ mailbox' = Append(mailbox, mailsSent')
    /\ popCrossed' = [c \in Pop |-> popCrossed[c] \/ popState[c] = "quitting"]
    /\ UNCHANGED <<popState, popListed, popDeleted, popKept>>

\* A client connects and lists.
OpenAndList(c) ==
    /\ popState[c] = "closed"
    /\ popState' = [popState EXCEPT ![c] = "open"]
    /\ popListed' = [popListed EXCEPT ![c] = mailbox]
    /\ popDeleted' = [popDeleted EXCEPT ![c] = {}]
    /\ popCrossed' = [popCrossed EXCEPT ![c] = FALSE]
    /\ UNCHANGED <<mailbox, mailsSent, popKept>>

Dele(c, i) ==
    /\ popState[c] = "open"
    /\ popDeleted' = [popDeleted EXCEPT ![c] = @ \cup {i}]
    /\ UNCHANGED <<mailbox, mailsSent, popState, popListed, popKept, popCrossed>>

\* QUIT builds the list of what stays.
Mutant_Stays(c, i) == i - 1 \notin popDeleted[c]
Stays(c, i) == i \notin popDeleted[c]

QuitBuilds(c) ==
    /\ popState[c] = "open"
    /\ popDeleted[c] # {}
    /\ popState' = [popState EXCEPT ![c] = "quitting"]
    /\ popKept' = [popKept EXCEPT ![c] =
          FoldLeft(LAMBDA kept, i : IF Stays(c, i) THEN Append(kept, mailbox[i]) ELSE kept,
                   <<>>, [i \in DOMAIN mailbox |-> i])]
    /\ UNCHANGED <<mailbox, mailsSent, popListed, popDeleted, popCrossed>>

\* The slice assignment of QUIT.
QuitStores(c) ==
    /\ popState[c] = "quitting"
    /\ mailbox' = popKept[c]
    /\ popState' = [popState EXCEPT ![c] = "closed"]
    /\ popCrossed' = [d \in Pop |-> popCrossed[d] \/ popState[d] # "closed"]
    /\ UNCHANGED <<mailsSent, popListed, popDeleted, popKept>>

\* QUIT without deletions, a lost connection, an empty line, or an exception at a
\* number that is not there.
Drop(c) ==
    /\ popState[c] = "open"
    /\ popState' = [popState EXCEPT ![c] = "closed"]
    /\ UNCHANGED <<mailbox, mailsSent, popListed, popDeleted, popKept, popCrossed>>

LabMailNext ==
    \/ Deliver
    \/ \E c \in Pop :
          \/ OpenAndList(c)
          \/ \E i \in DOMAIN popListed[c] : Dele(c, i)
          \/ QuitBuilds(c)
          \/ QuitStores(c)
          \/ Drop(c)

LabMailSpec == LabMailInit /\ [][LabMailNext]_labVars

-------------------------------------------------------------------------------
\* Mails only ever leave the mailbox at a QUIT; and unless another session
\* replaced the mailbox after LIST or a mail arrived in the middle of that QUIT,
\* the mails that leave are those the client meant when it marked numbers, and all
\* of them do: mails that arrive during the session do not disturb it
\* (lab8_services.py:558-568).
OnlyMarkedVanish ==
    [][LET before == ToSet(mailbox)
           after == ToSet(mailbox')
           meant(c) == {popListed[c][i] : i \in popDeleted[c]}
           storing == {c \in Pop : popState[c] = "quitting" /\ popState'[c] = "closed"}
       IN  IF storing = {} THEN before \subseteq after
           ELSE \A c \in storing : popCrossed[c] \/ after = before \ meant(c)
      ]_labVars
================================================================================
