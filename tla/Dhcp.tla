---------------------------------- MODULE Dhcp ---------------------------------
(* The DHCP servers of LAB9/50 on one network, each with a table of fixed       *)
(* leases and a default, and clients that follow the protocol (external).  A    *)
(* server keeps nothing: its answer is a function of the message.  Messages are *)
(* lost, doubled and delayed, so a message of the exchange a client is in may be *)
(* answered at any time or never; answers of earlier exchanges have another xid, *)
(* which build_reply copies, and the client drops them.                         *)
EXTENDS Naturals

CONSTANTS
    DhcpServer, DhcpClient,
    DhcpAddress,
    NoIp, NoServer,     \* option or field that is absent
    StaticLease,        \* static_leases of each server, NoIp where there is none
    DefaultIp           \* --default-ip of each server

ASSUME DhcpAssumption ==
    /\ NoIp \notin DhcpAddress /\ NoServer \notin DhcpServer
    /\ StaticLease \in [DhcpServer -> [DhcpClient -> DhcpAddress \cup {NoIp}]]
    /\ DefaultIp \in [DhcpServer -> DhcpAddress]

VARIABLES
    dhcpState,      \* of each client: its state, server and address
    dhcpMessages    \* of each client: what it has sent in its present exchange

dhcpVars == <<dhcpState, dhcpMessages>>

Unbound == [state |-> "init", server |-> NoServer, ip |-> NoIp]

DhcpInit ==
    /\ dhcpState = [c \in DhcpClient |-> Unbound]
    /\ dhcpMessages = [c \in DhcpClient |-> {}]

PlannedIp(s, c) ==
    IF StaticLease[s][c] = NoIp THEN DefaultIp[s] ELSE StaticLease[s][c]

\* A REQUEST without a server identifier is for every server.
Mutant_IsFor(m, s) == TRUE
IsFor(m, s) == m.server \in {NoServer, s}

\* What server s answers to message m of client c: one turn of the loop in main.
\* build_reply puts the planned address into an ACK and an OFFER.
ReplyType(s, c, m) ==
    LET asked == IF m.requested # NoIp THEN m.requested ELSE m.ciaddr
    IN  CASE m.type = "DISCOVER" -> "OFFER"
          [] m.type = "REQUEST" /\ asked \notin {NoIp, PlannedIp(s, c)} -> "NAK"
          [] OTHER -> IF IsFor(m, s) THEN "ACK" ELSE "none"

Message(type, requested, ciaddr, server, to) ==
    [type |-> type, requested |-> requested, ciaddr |-> ciaddr,
     server |-> server, to |-> to]

\* Client c goes to another state and has sent the messages in `sent`.
ClientGoes(c, state, sent) ==
    /\ dhcpState' = [dhcpState EXCEPT ![c] = state]
    /\ dhcpMessages' = [dhcpMessages EXCEPT ![c] = sent]

\* A client looks for servers, for the first time or after a timeout.
Discover(c) ==
    /\ dhcpState[c].state \in {"init", "selecting", "requesting", "rebooting"}
    /\ ClientGoes(c, [Unbound EXCEPT !.state = "selecting"],
                  {Message("DISCOVER", NoIp, NoIp, NoServer, DhcpServer)})

\* A client starts again with an address it once had, from whatever server.
Reboot(c, ip) ==
    /\ dhcpState[c].state = "init"
    /\ ClientGoes(c, [Unbound EXCEPT !.state = "rebooting", !.ip = ip],
                  {Message("REQUEST", ip, NoIp, NoServer, DhcpServer)})

\* A client renews its lease with its server, or with all when that is silent.
Renew(c, to) ==
    /\ dhcpState[c].state \in {"bound", "renewing"}
    /\ ClientGoes(c, [dhcpState[c] EXCEPT !.state = "renewing"],
                  {Message("REQUEST", NoIp, dhcpState[c].ip, NoServer, to)})

\* RELEASE, DECLINE and INFORM change nothing at the server.
Release(c) ==
    /\ dhcpState[c].state = "bound"
    /\ ClientGoes(c, Unbound, {})

\* Servers that may answer client c with `type`, as far as messages go.
Answering(c, type) ==
    {s \in DhcpServer :
        \E m \in dhcpMessages[c] : s \in m.to /\ ReplyType(s, c, m) = type}

\* An OFFER comes; the client asks its server for what it offers, so that the
\* other servers hear it too.
TakeOffer(c, s) ==
    /\ dhcpState[c].state = "selecting"
    /\ s \in Answering(c, "OFFER")
    /\ ClientGoes(c, [state |-> "requesting", server |-> s, ip |-> PlannedIp(s, c)],
          dhcpMessages[c] \cup
          {Message("REQUEST", PlannedIp(s, c), NoIp, s, DhcpServer)})

TakeAck(c, s) ==
    /\ dhcpState[c].state \in {"requesting", "rebooting", "renewing"}
    /\ s \in Answering(c, "ACK")
    /\ ClientGoes(c, [state |-> "bound", server |-> s, ip |-> PlannedIp(s, c)], {})

TakeNak(c, s) ==
    /\ dhcpState[c].state \in {"requesting", "rebooting", "renewing"}
    /\ s \in Answering(c, "NAK")
    /\ ClientGoes(c, Unbound, {})

DhcpNext ==
    \E c \in DhcpClient :
        \/ Discover(c)
        \/ \E ip \in DhcpAddress : Reboot(c, ip)
        \/ \E to \in {{dhcpState[c].server}, DhcpServer} : Renew(c, to)
        \/ Release(c)
        \/ \E s \in DhcpServer :
              TakeOffer(c, s) \/ TakeAck(c, s) \/ TakeNak(c, s)

DhcpSpec == DhcpInit /\ [][DhcpNext]_dhcpVars

-------------------------------------------------------------------------------
\* A client that has chosen a server is bound by that server, to the address it
\* was offered; a client loses an address, offered or held, to a NAK only if some
\* server plans another one for it (dhcp_server.py:253-262: a REQUEST for another
\* server's offer is answered too, and with NAK, when the plans differ).
ChoiceIsKept ==
    [][\A c \in DhcpClient :
          LET old == dhcpState[c]
              new == dhcpState'[c]
          IN  /\ old.state = "requesting" /\ new.state = "bound"
                    => new.server = old.server /\ new.ip = old.ip
              /\ old.state \in {"requesting", "renewing"} /\ new.state = "init"
                    => \E s \in DhcpServer : PlannedIp(s, c) # old.ip
      ]_dhcpVars
================================================================================
