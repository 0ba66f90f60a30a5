------------------------------- MODULE MCParts -------------------------------
(***************************************************************************)
(* Constants for checking the parts of the nanoprobe that have a module of *)
(* their own.                                                              *)
(***************************************************************************)
EXTENDS Parts

\* Requests: each class with each operation it treats differently, and requests that
\* are wrong in one respect.
GoodRequest ==
    [class |-> "ocf", instance |-> TRUE, operation |-> "monitor", type |-> "ok",
     provider |-> "ok", environ |-> "ok", argv |-> "none", path |-> "found"]

SomeRequests ==
    {[GoodRequest EXCEPT !.class = c, !.operation = o] :
        c \in {"ocf", "lsb", "nagios"}, o \in {"start", "monitor", "meta-data"}}
    \cup {[GoodRequest EXCEPT !.class = "other"], [GoodRequest EXCEPT !.type = "slash"],
          [GoodRequest EXCEPT !.path = "not found"], [GoodRequest EXCEPT !.operation = "none"],
          [GoodRequest EXCEPT !.instance = FALSE]}

\* Frames: one of a newer version, one whose number needs all its bytes, and one of an
\* address; two of these make a frameset large enough to be compressed.
SomeFrames ==
    {NewerFrame(3)} \cup IntFrame(3, 70000) \cup IpPortFrameNetAddr(ADDR_FAMILY_IPV6, 80)

\* What a constructor makes is valid, and a receiver makes the same of it.
ASSUME MadeIsValid ==
    \A f \in {AddrFrameIpv4, AddrFrameIpv6, AddrFrameMac48, AddrFrameMac64,
              CstringFrame(4, 4), SeqnoNew, SignFrame}
             \cup UNION {IpPortFrameNetAddr(family, 80) :
                            family \in {ADDR_FAMILY_IPV4, ADDR_FAMILY_IPV6, ADDR_FAMILY_802}}
             \cup UNION {IntFrame(bytes, 200) : bytes \in 1 .. 8} :
        IsValid(f) /\ FrameObject(f, NanoRing) = {f}

\* Addresses: a host that has IPv4, written in both ways, the three loopbacks, and a
\* host that has IPv6 only, whose last words look like the IPv4 address.
HostV4 == <<10 * 256, 1>>
HostV6 == <<8193, 0, 0, 0, 0, 0>> \o HostV4

SomePeers ==
    {Ipv4(HostV4, 80), Ipv6(v4prefix \o HostV4, 80), Ipv6(HostV6, 80),
     Ipv4(ipv4loop, 80), Ipv6(ipv6loop, 80), Ipv6(v4prefix \o ipv4loop, 80)}

\* IPv6 addresses with zeros in all places, and one address of each other form
SomeTexts ==
    {Ipv6([i \in 1 .. 8 |-> IF i \in nonzero THEN 1 ELSE 0], 80) : nonzero \in SUBSET (1 .. 8)}
    \cup {Ipv4(HostV4, 80), Ipv6(v4prefix \o HostV4, 80), Mac(<<1, 2, 3>>), Mac(<<1, 2, 3, 4>>)}

SomeLocals == {Ipv6(v6anyaddr, 1984), Ipv4(<<224 * 256, 1>>, 1984)}

\* The aliases that the nanoprobe and the CMA make are for port 0.
LocalHosts == {Ipv4(ipv4loop, 0), Ipv6(ipv6loop, 0), Ipv6(v4prefix \o ipv4loop, 0)}

\* Link packets: of one switch with two ports, by both protocols, and of another one:
\* cut, padded, with a TLV in a place where it is not looked for, or not as required
Tlv(type) == [type |-> type, id |-> NoIds]
Id(type, id) == [type |-> type, id |-> id]
Lldp(chassis, port) == <<Id("CHID", chassis), Id("PID", port), Tlv("TTL")>>
Cdp(device, port) == <<Id("DEVID", device), Tlv("VERS"), Id("PORTID", port), Tlv("PLATFORM"),
                       Tlv("CAPS")>>
LinkPacket(proto, tlvs) == [proto |-> proto, tlvs |-> tlvs, cut |-> FALSE, padded |-> FALSE]
LldpPacket(chassis, port) == LinkPacket("lldp", Lldp(chassis, port) \o <<Tlv("END")>>)

SomeLinkPackets ==
    {LldpPacket("s1", "p1"), LldpPacket("s1", "p2"), LinkPacket("cdp", Cdp("s1", "p1")),
     [LldpPacket("s2", "p1") EXCEPT !.padded = TRUE], [LldpPacket("s2", "p1") EXCEPT !.cut = TRUE],
     [LinkPacket("cdp", Cdp("s2", "p1")) EXCEPT !.cut = TRUE],
     LinkPacket("cdp", <<Tlv("CAPS")>> \o Cdp("s2", "p1")), LinkPacket("lldp", <<Tlv("END")>>),
     LinkPacket("lldp", Lldp("s2", "p1") \o <<Tlv("bad")>>)}
===============================================================================
