------------------------------- MODULE Capture -------------------------------
(***************************************************************************)
(* Discovery by listening (switchdiscovery.c, arpdiscovery.c and the       *)
(* packet capture under them): a nanoprobe tells the CMA which switch and  *)
(* port an interface is connected to, from LLDP and CDP packets, and which *)
(* MAC addresses the ARP packets on it gave to IP addresses.  There is one *)
(* discovery of each kind, which the CMA starts under one instance name.   *)
(* Discovery has the life of such an object; here it is there or it isn't. *)
(***************************************************************************)
EXTENDS Naturals, Sequences, FiniteSets, SequencesExt

CONSTANTS
    LinkPackets,    \* LLDP and CDP packets that switches send
    IPs, Macs,      \* addresses in ARP packets
    NoIds, NoMac

VARIABLES
    switch,     \* the SwitchDiscovery
    arp,        \* the ArpDiscovery
    arpText,    \* the string of its name in the configuration
    cmaKnown,   \* CONFIGNAME_CMADISCOVER is set
    sentIds,    \* what the CMA was sent of the switch
    sentMap,    \* and of the ARP map
    heardIds    \* history: the ids that a packet gave last while the CMA was known

captureVars == <<switch, arp, arpText, cmaKnown, sentIds, sentMap, heardIds>>

Protocols == {"lldp", "cdp"}
NoMap == [ip \in IPs |-> NoMac]
NoSwitch == [is |-> FALSE, protocols |-> {}, ids |-> NoIds]
NoArp == [is |-> FALSE, timer |-> "none", source |-> FALSE, map |-> NoMap, sentyet |-> FALSE]

CaptureInit ==
    /\ switch = NoSwitch /\ arp = NoArp /\ arpText = NoMap
    /\ cmaKnown = FALSE
    /\ sentIds = NoIds /\ sentMap = NoMap /\ heardIds = NoIds

CaptureTypeOK ==
    /\ switch.is \in BOOLEAN /\ switch.protocols \subseteq Protocols
    /\ switch.is \/ switch = NoSwitch
    /\ arp \in [is : BOOLEAN, timer : {"none", "first", "repeat"}, source : BOOLEAN,
                map : [IPs -> Macs \cup {NoMac}], sentyet : BOOLEAN]
    /\ arp.is = (arp.timer # "none") /\ (arp.source => arp.is)
    /\ cmaKnown \in BOOLEAN

-----------------------------------------------------------------------------
\* Link packets: a sequence of TLVs of a type and an id, of which the last may be cut
\* (more than 1500 bytes are not captured) and which may be followed by padding.

LldpRequired == <<"CHID", "PID", "TTL">>

LldpIsType(type) == type \in {"END", "CHID", "PID", "TTL", "other"}

\* What get_lldptlv_first and get_lldptlv_next give: all up to the first END, but what
\* is cut off.
LldpWalk(p) ==
    LET uncut == IF p.cut THEN Front(p.tlvs) ELSE p.tlvs
        ends == {i \in 1 .. Len(uncut) : uncut[i].type = "END"}
    IN  IF p.proto # "lldp" THEN <<>>
        ELSE SubSeq(uncut, 1, IF ends = {} THEN Len(uncut)
                              ELSE CHOOSE i \in ends : \A j \in ends : i <= j)

\* is_valid_lldp_packet.  An END has to be at the end of the packet, and then nothing
\* else is required.
IsValidLldp(p) ==
    LET tlvs == LldpWalk(p)
        atEnd == tlvs # <<>> /\ Last(tlvs).type = "END"
        body == IF atEnd THEN Front(tlvs) ELSE tlvs
    IN  /\ \A i \in 1 .. Len(body) :
              /\ LldpIsType(body[i].type)
              /\ i <= Len(LldpRequired) => body[i].type = LldpRequired[i]
        /\ IF atEnd THEN Len(tlvs) = Len(p.tlvs) /\ ~p.padded
           ELSE Len(body) >= Len(LldpRequired)

\* The id of the first of these TLVs that is of a type, if there is one
FirstOf(tlvs, type) ==
    LET at == {i \in 1 .. Len(tlvs) : tlvs[i].type = type}
    IN  {tlvs[i].id : i \in {j \in at : \A k \in at : j <= k}}

LldpChassisId(p) == FirstOf(LldpWalk(p), "CHID")
LldpPortId(p) == FirstOf(LldpWalk(p), "PID")

CdpRequired == {"DEVID", "PLATFORM", "VERS", "CAPS"}

\* is_valid_cdp_packet: nothing is cut, and what is required is somewhere.
IsValidCdp(p) ==
    /\ p.proto = "cdp" /\ ~p.cut
    /\ CdpRequired \subseteq {p.tlvs[i].type : i \in 1 .. Len(p.tlvs)}

\* The loops of get_cdp_chassis_id and get_cdp_port_id go on to the next TLV twice.
EverySecond(tlvs) == [i \in 1 .. (Len(tlvs) + 1) \div 2 |-> tlvs[2 * i - 1]]

CdpChassisId(p) == FirstOf(EverySecond(p.tlvs), "DEVID")
CdpPortId(p) == FirstOf(EverySecond(p.tlvs), "PORTID")

\* discovery_types: the ids by the first type that a packet is valid for
SwitchIds(p) ==
    IF IsValidLldp(p) THEN LldpChassisId(p) \X LldpPortId(p)
    ELSE IF IsValidCdp(p) THEN CdpChassisId(p) \X CdpPortId(p)
    ELSE {}

\* NoIds stands for ids that no packet has given yet.
ASSUME IdsAssumption == \A p \in LinkPackets : NoIds \notin SwitchIds(p)

-----------------------------------------------------------------------------
\* Starting and stopping.  An object that displaces one of its name is gone at once,
\* together with the old one: _discovery_finalize of the old one takes the new one out
\* of the table, and then nothing holds it.

\* _switchdiscovery_setprotocols: unknown names count for nothing.
SetProtocols(names) == IF names \cap Protocols = {} THEN Protocols ELSE names \cap Protocols

\* create_pcap_listener: what the filter lets through, when the device can be opened
Listens(protocols, opens) == IF opens THEN protocols ELSE {}

\* switchdiscovery_new
StartSwitch(names, opens) ==
    /\ switch' = IF switch.is THEN NoSwitch
                 ELSE [is |-> TRUE, protocols |-> Listens(SetProtocols(names), opens),
                       ids |-> NoIds]
    /\ UNCHANGED <<arp, arpText, cmaKnown, sentIds, sentMap, heardIds>>

\* arpdiscovery_new
StartArp(opens) ==
    /\ arp' = IF arp.is THEN NoArp
              ELSE [NoArp EXCEPT !.is = TRUE, !.timer = "first", !.source = opens]
    /\ UNCHANGED <<switch, arpText, cmaKnown, sentIds, sentMap, heardIds>>

\* The end of both: _switchdiscovery_finalize and _arpdiscovery_finalize
StopCapture ==
    /\ switch' = NoSwitch /\ arp' = NoArp
    /\ UNCHANGED <<arpText, cmaKnown, sentIds, sentMap, heardIds>>

\* A configuration comes with the address.
KnowCma ==
    /\ cmaKnown' = TRUE
    /\ UNCHANGED <<switch, arp, arpText, sentIds, sentMap, heardIds>>

-----------------------------------------------------------------------------
\* Switches

\* _switchdiscovery_cache_info
IsNewSwitch(ids) == switch.ids # ids

\* Mutant: the ids are cached before it is known whether they can be sent.
SwitchDispatchCachesFirst(p) ==
    /\ p.proto \in switch.protocols
    /\ \E ids \in SwitchIds(p) :
          /\ switch' = [switch EXCEPT !.ids = ids]
          /\ sentIds' = IF IsNewSwitch(ids) /\ cmaKnown THEN ids ELSE sentIds
          /\ heardIds' = IF cmaKnown THEN ids ELSE heardIds
    /\ UNCHANGED <<arp, arpText, cmaKnown, sentMap>>

\* g_source_pcap_dispatch and _switchdiscovery_dispatch, for a packet with its ids.
\* Nothing is cached that cannot be sent.
SwitchDispatch(p) ==
    /\ p.proto \in switch.protocols
    /\ \E ids \in SwitchIds(p) :
          /\ switch' = IF cmaKnown THEN [switch EXCEPT !.ids = ids] ELSE switch
          /\ sentIds' = IF cmaKnown /\ IsNewSwitch(ids) THEN ids ELSE sentIds
          /\ heardIds' = IF cmaKnown THEN ids ELSE heardIds
    /\ UNCHANGED <<arp, arpText, cmaKnown, sentMap>>

-----------------------------------------------------------------------------
\* ARP

\* _arpdiscovery_dispatch of a packet in which ip, or what is all zeros, has a MAC
\* address of 6 or 8 bytes; packets of another form are not looked at.
ArpDispatch(ip, mac) ==
    /\ arp.source
    /\ arp' = [arp EXCEPT !.map[ip] = mac]
    /\ UNCHANGED <<switch, arpText, cmaKnown, sentIds, sentMap, heardIds>>

\* Mutant: what is in the configuration counts as sent.
IsNewMapOld(map) == arpText # map

\* _discovery_sendjson sends what it did not send before.
IsNewMap(map) == ~(arp.sentyet /\ arpText = map)

\* _arpdiscovery_sendarpcache
SendArpCache ==
    /\ arpText' = IF IsNewMap(arp.map) THEN arp.map ELSE arpText
    /\ sentMap' = IF IsNewMap(arp.map) /\ cmaKnown THEN arp.map ELSE sentMap
    /\ arp' = [arp EXCEPT !.timer = "repeat", !.sentyet = @ \/ cmaKnown]

\* _arpdiscovery_first_discovery starts the timer of _arpdiscovery_gsourcefunc.
FirstDiscovery == arp.timer = "first" /\ SendArpCache
GSourceFunc == arp.timer = "repeat" /\ SendArpCache

ArpTimer ==
    /\ FirstDiscovery \/ GSourceFunc
    /\ UNCHANGED <<switch, cmaKnown, sentIds, heardIds>>

CaptureNext ==
    \/ \E names \in SUBSET (Protocols \cup {"unknown"}), opens \in BOOLEAN :
          StartSwitch(names, opens)
    \/ \E opens \in BOOLEAN : StartArp(opens)
    \/ StopCapture \/ KnowCma
    \/ \E p \in LinkPackets : SwitchDispatch(p)
    \/ \E ip \in IPs, mac \in Macs : ArpDispatch(ip, mac)
    \/ ArpTimer

CaptureSpec == CaptureInit /\ [][CaptureNext]_captureVars

-----------------------------------------------------------------------------
\* Properties

\* The CMA was sent the switch and port of the last packet that gave them since it is
\* known, however the ids changed back and forth, the protocols took turns, and the
\* discovery was started anew.
SwitchIsKnown == heardIds = sentIds

\* When the timer runs the CMA gets the ARP map as it is then, unless it has it: what
\* was only kept while the CMA was not known, or by an earlier discovery of that name,
\* does not count as sent.
ArpMapIsSent == [][ArpTimer /\ cmaKnown => sentMap' = arp.map]_captureVars
=============================================================================
