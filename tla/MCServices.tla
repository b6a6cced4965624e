------------------------------- MODULE MCServices ------------------------------
(* The programs of the application layer that have nothing to do with each       *)
(* other, checked in one run: `program` says which of them a behaviour is about, *)
(* and the variables of the others keep their first values.                     *)
EXTENDS MailVerify, Ping, Dhcp, TcpTransfer, LoginSniffer, DnsLookup, LabMail,
        FtpService

VARIABLE program

vars == <<program, mailVars, pingVars, dhcpVars, tcpVars, snifferVars, dnsVars, labVars,
          ftpVars>>

Programs == {"mail", "ping", "dhcp", "tcp", "sniffer", "dns", "labmail", "ftpserver"}

MCInit ==
    /\ program \in Programs
    /\ MailInit /\ DhcpInit /\ DnsInit /\ LabMailInit /\ FtpInit
    /\ IF program = "ping" THEN PingInit ELSE PingStart("ping")
    /\ IF program = "tcp" THEN TcpInit ELSE TcpStart(0)
    /\ IF program = "sniffer" THEN SnifferInit ELSE SnifferStart("ftp")

MCNext ==
    \/ /\ program = "mail" /\ MailNext
       /\ UNCHANGED <<program, pingVars, dhcpVars, tcpVars, snifferVars, dnsVars, labVars,
                      ftpVars>>
    \/ /\ program = "ping" /\ PingNext
       /\ UNCHANGED <<program, mailVars, dhcpVars, tcpVars, snifferVars, dnsVars, labVars,
                      ftpVars>>
    \/ /\ program = "dhcp" /\ DhcpNext
       /\ UNCHANGED <<program, mailVars, pingVars, tcpVars, snifferVars, dnsVars, labVars,
                      ftpVars>>
    \/ /\ program = "tcp" /\ TcpNext
       /\ UNCHANGED <<program, mailVars, pingVars, dhcpVars, snifferVars, dnsVars, labVars,
                      ftpVars>>
    \/ /\ program = "sniffer" /\ SnifferNext
       /\ UNCHANGED <<program, mailVars, pingVars, dhcpVars, tcpVars, dnsVars, labVars,
                      ftpVars>>
    \/ /\ program = "dns" /\ DnsNext
       /\ UNCHANGED <<program, mailVars, pingVars, dhcpVars, tcpVars, snifferVars, labVars,
                      ftpVars>>
    \/ /\ program = "labmail" /\ LabMailNext
       /\ UNCHANGED <<program, mailVars, pingVars, dhcpVars, tcpVars, snifferVars, dnsVars,
                      ftpVars>>
    \/ /\ program = "ftpserver" /\ FtpNext
       /\ UNCHANGED <<program, mailVars, pingVars, dhcpVars, tcpVars, snifferVars, dnsVars,
                      labVars>>

MCSpec == MCInit /\ [][MCNext]_vars

-------------------------------------------------------------------------------
\* One name is decoded to itself and the other, which a link spoils, to it too.
MCMailDecoded == [u \in MailUser |-> 1]

\* Client 1 has the same address on both servers, client 2 has one on server 1 and
\* is offered the default address by server 2.
MCStaticLease ==
    [s \in DhcpServer |-> [c \in DhcpClient |->
        IF c = 1 THEN 11 ELSE IF s = 1 THEN 12 ELSE NoIp]]
MCDefaultIp == [s \in DhcpServer |-> 10]

\* Connections and users of the sniffers may stand for each other.
MCSymmetry == Permutations(Conn) \cup Permutations(User)

\* An alias, its target and a mail exchanger, with names that have common ends.
MCDnsQuestion == <<97, 98>>
MCDnsRecords ==
    {[name |-> <<97, 98>>, type |-> A, address |-> <<10, 0, 0, 1>>],
     [name |-> <<97, 98>>, type |-> CNAME, target |-> <<99, 98>>],
     [name |-> <<99, 98>>, type |-> MX, preference |-> 10, target |-> <<97, 98>>]}
================================================================================
