------------------------------ MODULE NetSocket ------------------------------
(***************************************************************************)
(* The socket of a NetIOudp and the addresses at its two ends: the size of *)
(* its buffer, what it is bound to, the multicast group it joins, where a  *)
(* packet is sent to while IPv6 works and after it turned out not to, the  *)
(* alias table for source addresses, and the text that addresses are       *)
(* exchanged as.  What travels over the socket is in NetIO.                *)
(***************************************************************************)
EXTENDS NetAddrs

CONSTANTS
    Peers,          \* addresses that are sent to and looked up
    Texts,          \* addresses that are written
    LocalAddrs,     \* addresses that the program is told to bind to
    AliasFrom,      \* addresses that are given an alias
    SockBufSizes,   \* sizes of the buffer that are asked for
    KernelMax,      \* the size that anyone may have
    NoAddr

ASSUME NetSocketAssumption ==
    /\ KernelMax \in Nat \ {0} /\ SockBufSizes \subseteq Nat \ {0, 1}
    /\ Peers \cup AliasFrom \cup LocalAddrs \subseteq IpAddrs
    /\ \A a \in Peers \cup AliasFrom : a.body \notin {v4anyaddr, v6anyaddr}
    /\ \A a \in Texts : a \in IpAddrs \/ a = Mac(a.body)

VARIABLES
    socket,     \* the socket and the kernel's side of it
    aliases,    \* the table of aliases, which never has two equal keys
    sentto,     \* the last packet: the address it is for, and the socket address
    from,       \* the address the last packet that arrived is said to be from
    written     \* an address on its way as text

netSocketVars == <<socket, aliases, sentto, from, written>>

NotSent == [meant |-> NoAddr, at |-> NoSockAddr]
NotWritten == [of |-> NoAddr, text |-> Text("none", <<>>, 0), canon |-> FALSE]

\* netioudp_new: an IPv6 socket if there are any, else an IPv4 one
NetSocketInit ==
    /\ socket \in [family : {"v4", "v6"}, v4only : BOOLEAN, bound : {NoAddr}, usable : {TRUE},
                   group : {FALSE}, privileged : BOOLEAN, bufsize : {2 * KernelMax}, asked : {0}]
    /\ socket.v4only = (socket.family = "v4")
    /\ aliases = {} /\ sentto = NotSent /\ from = NoAddr /\ written = NotWritten

NetSocketTypeOK ==
    /\ socket.family \in {"v4", "v6"} /\ socket.v4only \in BOOLEAN
    /\ socket.family = "v4" => socket.v4only
    /\ \A e \in aliases : e.from \in AliasFrom /\ e.to \in Peers
    /\ written.of = NoAddr \/ written.of \in Texts

-----------------------------------------------------------------------------
\* The buffer of the socket

\* setsockopt(SO_RCVBUF): the kernel takes what it allows, and reports it doubled.
KernelSets(size) == 2 * (IF size <= KernelMax THEN size ELSE KernelMax)

\* _netio_maximize_sockbufsize.  Its setsockopt names the UDP level, which knows no
\* such option: only SO_RCVBUFFORCE changes anything, and only root may use it.
Maximized(lowval, highval, size) ==
    LET search[low \in Nat, high \in Nat, set \in Nat] ==
            LET midpoint == (low + high) \div 2
            IN  IF midpoint = low \/ low >= high THEN set
                ELSE IF socket.privileged THEN search[midpoint, high, 2 * midpoint]
                ELSE search[low, midpoint, set]
    IN  search[lowval, highval, size]

\* _netio_setsockbufsize
SetSockBufSize(n) ==
    /\ socket.asked = 0 /\ socket.bound = NoAddr
    /\ LET set == KernelSets(n)
       IN  socket' = [socket EXCEPT !.asked = n,
                         !.bufsize = IF set >= n THEN set ELSE Maximized(set \div 2, n, set)]
    /\ UNCHANGED <<aliases, sentto, from, written>>

-----------------------------------------------------------------------------
\* Binding and joining

\* _netio_bindaddr and _netio_bindaddr_v4: the address that the kernel is asked for
BindsTo(a) ==
    IF IsMcast(a) THEN {} ELSE IF socket.v4only THEN ToIPv4(a) ELSE {Ipv6SockAddr(a)}

\* nanoprobe main: the local address, or any free port when that is permitted and the
\* first is taken; else the program ends.
Bind(a, anyport) ==
    /\ socket.usable /\ socket.bound = NoAddr
    /\ \/ \E b \in BindsTo(a) : socket' = [socket EXCEPT !.bound = b]
       \/ /\ anyport       \* taken
          /\ \E b \in BindsTo(Ipv6(v6anyaddr, 0)) : socket' = [socket EXCEPT !.bound = b]
       \/ ~anyport /\ socket' = [socket EXCEPT !.usable = FALSE]
    /\ UNCHANGED <<aliases, sentto, from, written>>

\* _netio_mcastjoin: of what ismcast knows, all is IPv4.  An IPv6 socket can join too.
McastJoin(a) ==
    /\ socket.bound # NoAddr /\ IsMcast(a)
    /\ socket' = [socket EXCEPT !.group = TRUE]
    /\ UNCHANGED <<aliases, sentto, from, written>>

-----------------------------------------------------------------------------
\* Sending and receiving

\* _netio_sendapacket_v4; the kernel refuses the address that stands for none.
SendV4(dest) ==
    LET at == Ipv4SockAddr(dest)
    IN  IF at = NoSockAddr THEN UNCHANGED sentto ELSE sentto' = [meant |-> dest, at |-> at]

\* _netio_sendapacket: the first EADDRNOTAVAIL means that IPv6 does not work.
SendToAddr(dest) ==
    /\ socket.bound # NoAddr
    /\ \/ socket.v4only /\ SendV4(dest) /\ UNCHANGED socket
       \/ /\ ~socket.v4only
          /\ sentto' = [meant |-> dest, at |-> Ipv6SockAddr(dest)]
          /\ UNCHANGED socket
       \/ /\ ~socket.v4only
          /\ socket' = [socket EXCEPT !.v4only = TRUE]
          /\ SendV4(dest)
    /\ UNCHANGED <<aliases, from, written>>

\* g_hash_table_lookup in the table: the hash is looked at before the equality.
AliasOf(a) == {e \in aliases : AddrHash(e.from) = AddrHash(a) /\ AddrEqual(e.from, a)}

\* _netio_addalias
AddAlias(a, to) ==
    /\ aliases' = (aliases \ AliasOf(a)) \cup {[from |-> a, to |-> to]}
    /\ UNCHANGED <<socket, sentto, from, written>>

\* _netio_recvapacket and _netio_recvframesets: whom a packet from a socket address is
\* said to be from.  An alias keeps the port.
SourceOf(at) ==
    LET src == IF at.body = v4prefix \o v4anyaddr THEN Ipv6(v4prefix \o ipv4loop, at.port) ELSE at
    IN  IF AliasOf(src) = {} THEN src
        ELSE [ToIPv6((CHOOSE e \in AliasOf(src) : TRUE).to) EXCEPT !.port = src.port]

ReceiveFrom(peer) ==
    /\ socket.bound # NoAddr /\ peer.port # 0
    /\ \E at \in IF socket.family = "v6" THEN {Ipv6SockAddr(peer)} ELSE ToIPv4(peer) :
          from' = SourceOf(at)
    /\ UNCHANGED <<socket, aliases, sentto, written>>

-----------------------------------------------------------------------------
\* Addresses in messages between the CMA and the nanoprobes

WriteAddr(a, canon) ==
    /\ written = NotWritten
    /\ written' = [of |-> a, text |-> AddrToString(a, canon), canon |-> canon]
    /\ UNCHANGED <<socket, aliases, sentto, from>>

ReadAddr ==
    /\ written # NotWritten
    /\ written' = NotWritten
    /\ UNCHANGED <<socket, aliases, sentto, from>>

\* A text has nothing to do with the socket: one is looked at while nothing else goes on.
NetSocketNext ==
    \/ /\ written = NotWritten
       /\ \/ \E n \in SockBufSizes : SetSockBufSize(n)
          \/ \E a \in LocalAddrs, anyport \in BOOLEAN : Bind(a, anyport)
          \/ \E a \in LocalAddrs : McastJoin(a)
          \/ \E a \in {p \in Peers \cup ({from} \ {NoAddr}) : p.port # 0} : SendToAddr(a)
          \/ \E a \in AliasFrom, to \in Peers : AddAlias(a, to)
          \/ \E a \in Peers : ReceiveFrom(a)
    \/ /\ socket.bound = NoAddr /\ socket.asked = 0 /\ aliases = {}
       /\ \E a \in Texts, canon \in BOOLEAN : WriteAddr(a, canon)
    \/ ReadAddr

NetSocketSpec == NetSocketInit /\ [][NetSocketNext]_netSocketVars

-----------------------------------------------------------------------------
\* Properties

\* A packet goes to a socket address equal to the address it is for, whichever kind of
\* socket there is and from when on; or, if there is no such address, nowhere.
SentToWhomMeant == sentto # NotSent => AddrEqual(sentto.at, sentto.meant)

\* Addresses that are equal have the same alias: the equality of addresses, with its
\* three loopbacks, is one that a hash table can work with, and the hash goes with it.
EqualAddressesAlike ==
    aliases # {} => \A a, b \in Peers \cup AliasFrom : AddrEqual(a, b) => AliasOf(a) = AliasOf(b)

\* The text of an address is read as this address; the canonical text as an equal one.
TextReadsBack ==
    written # NotWritten =>
        \E a \in StringNew(written.text) :
            AddrEqual(a, written.of) /\ (written.canon \/ a = written.of)
=============================================================================
