------------------------------ MODULE MailVerify ------------------------------
(* The registration server of LAB16/17: a table of users in the memory of one  *)
(* thread, mails as files in outbox/, and an hour to open the link in a mail.   *)
(* Requests are served one after the other, so each is one action.  The code in *)
(* a link is a function of user and address (main.cpp:236), hence the pair       *)
(* stands for it; that two pairs have one hash is left out.                      *)
EXTENDS Naturals

CONSTANTS
    MailUser,       \* names people register
    MailAddress,    \* addresses, what is left of one cut by a lost connection too
    NoAddress,      \* stands for the address of a name nobody holds
    MailDecoded,    \* what url_decode makes of a name put into a link as it is
    MailHour,       \* how long a link is good
    MailMaxClock    \* bound of the clock

ASSUME MailAssumption ==
    /\ MailDecoded \in [MailUser -> MailUser]
    /\ NoAddress \notin MailAddress
    /\ MailHour \in Nat
    /\ MailMaxClock \in Nat

VARIABLES
    mailUsers,      \* the map `users`; Free stands for "not in the map"
    mailBox,        \* <<user, address>> of every mail written to outbox/ so far
    mailNow         \* std::time

mailVars == <<mailUsers, mailBox, mailNow>>

MailFree == [state |-> "free", email |-> NoAddress, expires |-> 0]

MailRecord ==
    {MailFree} \cup
    [state: {"pending", "active"}, email: MailAddress, expires: Nat]

MailTypeOK ==
    /\ mailUsers \in [MailUser -> MailRecord]
    /\ mailBox \in SUBSET (MailUser \X MailAddress)
    /\ mailNow \in Nat

MailInit ==
    /\ mailUsers = [u \in MailUser |-> MailFree]
    /\ mailBox = {}
    /\ mailNow = 0

\* cleanup_expired: what is left of the table.
Mutant_Cleaned ==
    [u \in MailUser |-> IF mailUsers[u].expires < mailNow
                        THEN MailFree ELSE mailUsers[u]]
Cleaned ==
    [u \in MailUser |-> IF /\ mailUsers[u].state = "pending"
                           /\ mailUsers[u].expires < mailNow
                        THEN MailFree ELSE mailUsers[u]]

\* A request reads the clock when it cleans up and once more further down.
MailSecondReading == {t \in {mailNow, mailNow + 1} : t <= MailMaxClock}

\* register_user for a name that somebody holds.
RegisterTaken(u) ==
    /\ Cleaned[u] # MailFree
    /\ mailUsers' = Cleaned
    /\ UNCHANGED <<mailBox, mailNow>>

\* register_user for a free name.  write_mail comes after the insertion: when
\* it throws, or when the file is not written in full, the name is taken all
\* the same.
RegisterFree(u, a, t) ==
    /\ Cleaned[u] = MailFree
    /\ mailUsers' = [Cleaned EXCEPT ![u] =
                        [state |-> "pending", email |-> a,
                         expires |-> t + MailHour]]
    /\ mailBox' \in {mailBox, mailBox \cup {<<u, a>>}}
    /\ mailNow' = t

\* verify_user after its clean-up, for name u and the code of pair c, when the
\* clock reads t further down.
Mutant_Verified(u, c, t) ==
    IF Cleaned[u].state # "pending" THEN Cleaned
    ELSE IF Cleaned[u].expires < t THEN [Cleaned EXCEPT ![u] = MailFree]
    ELSE [Cleaned EXCEPT ![u].state = "active"]
Verified(u, c, t) ==
    IF Cleaned[u].state # "pending" \/ c # <<u, Cleaned[u].email>> THEN Cleaned
    ELSE IF Cleaned[u].expires < t THEN [Cleaned EXCEPT ![u] = MailFree]
    ELSE [Cleaned EXCEPT ![u].state = "active"]

\* The name that comes out of the link in mail m, which is not encoded there but
\* decoded here (parse_kv).
NamedIn(m) == MailDecoded[m[1]]

\* Somebody opens the link of a mail, at any time and as often as he likes.
Verify(m, t) ==
    /\ mailUsers' = Verified(NamedIn(m), m, t)
    /\ mailNow' = t
    /\ UNCHANGED mailBox

\* users_page, and a registration with an empty field.
ShowUsers ==
    /\ mailUsers' = Cleaned
    /\ UNCHANGED <<mailBox, mailNow>>

MailTick ==
    /\ mailNow < MailMaxClock
    /\ mailNow' = mailNow + 1
    /\ UNCHANGED <<mailUsers, mailBox>>

\* The process dies (send to a peer that has gone raises SIGPIPE) and is
\* started again: the table was in memory only, the mails are files.
MailRestart ==
    /\ mailUsers' = [u \in MailUser |-> MailFree]
    /\ UNCHANGED <<mailBox, mailNow>>

MailNext ==
    \/ \E u \in MailUser : RegisterTaken(u)
    \/ \E u \in MailUser, a \in MailAddress, t \in MailSecondReading :
          RegisterFree(u, a, t)
    \/ \E m \in mailBox, t \in MailSecondReading : Verify(m, t)
    \/ ShowUsers
    \/ MailTick
    \/ MailRestart

MailSpec == MailInit /\ [][MailNext]_mailVars

-------------------------------------------------------------------------------
\* Whoever is active has had the mail of his own name sent to the address in
\* the table: neither a link of an earlier registration, nor one that decodes to
\* another name, nor a restart in between activates another address
\* (main.cpp:262, code comparison).
ActiveWasMailed ==
    \A u \in MailUser :
        mailUsers[u].state = "active" => <<u, mailUsers[u].email>> \in mailBox

\* While the server runs, a registration is only ever changed by its own
\* activation or, its hour having passed before it was activated, by its
\* release: nobody replaces it and no active user is lost (main.cpp:158-167,
\* 228-232, 265-268).
RegistrationKept ==
    [][\/ MailRestart
       \/ \A u \in MailUser :
             LET old == mailUsers[u]
                 new == mailUsers'[u]
             IN  \/ old = new
                 \/ old = MailFree
                 \/ old.state = "pending" /\ new = [old EXCEPT !.state = "active"]
                 \/ old.state = "pending" /\ old.expires < mailNow'
      ]_mailVars
===============================================================================
