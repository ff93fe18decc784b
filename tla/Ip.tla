--------------------------------- MODULE Ip ---------------------------------
(***************************************************************************)
(* The IP layer of src/ip.c as one system: the application configures the *)
(* interface table (ip_iface_alloc, ip_iface_register, IpIface.tla), then *)
(* net_run starts the devices, after which every datagram a device hands  *)
(* up goes through ip_input against the interface of that device.  One   *)
(* device: net_device_get_iface (net.c, not in src/) returns the last IP   *)
(* interface registered to it, the head of ifaces, or NULL.               *)
(***************************************************************************)
EXTENDS IpInput

CONSTANTS
    UnicastStrs,    \* unicast strings given to ip_iface_alloc
    NetmaskStrs,    \* netmask strings given to ip_iface_alloc
    Garbage,        \* contents of the address fields after memory_alloc
    MaxIfaces,      \* bound on registered interfaces
    Datagrams       \* the datagrams the device may hand to ip_input

VARIABLES
    ifaces,     \* the ifaces list of ip.c, head first
    fresh,      \* an interface allocated and not yet registered
    running,    \* net_run has been called
    dgram,      \* the last datagram given to ip_input
    verdict     \* how that call of ip_input ended

vars == <<ifaces, fresh, running, dgram, verdict>>

Iface == INSTANCE IpIface

NoDgram == [none |-> TRUE]

\* net_device_get_iface(dev, NET_IFACE_FAMILY_IP)
DevIface == IF ifaces = <<>> THEN NoIface ELSE Head(ifaces)

Init ==
    /\ Iface!Init
    /\ running = FALSE
    /\ dgram = NoDgram
    /\ verdict = "none"

\* Configuration before net_run (ip_iface_register must not be called after).
Configure ==
    /\ ~running
    /\ \/ \E u \in UnicastStrs, m \in NetmaskStrs : Iface!IfaceAlloc(u, m)
       \/ Iface!IfaceRegister
    /\ UNCHANGED <<running, dgram, verdict>>

\* net_run: the devices are opened and start handing up datagrams.
NetRun ==
    /\ ~running
    /\ fresh = Iface!None
    /\ running' = TRUE
    /\ UNCHANGED <<ifaces, fresh, dgram, verdict>>

\* ip_input(data, len, dev) on datagram d, called by the device's input
\* path once the previous call has returned.
IpInput(d) ==
    /\ running
    /\ verdict = "none"
    /\ dgram' = d
    /\ verdict' = IpInputVerdict(d, DevIface)
    /\ UNCHANGED <<ifaces, fresh, running>>

\* ip_input returns; it keeps nothing from one datagram to the next.
IpReturn ==
    /\ verdict # "none"
    /\ dgram' = NoDgram
    /\ verdict' = "none"
    /\ UNCHANGED <<ifaces, fresh, running>>

Next ==
    \/ Configure
    \/ NetRun
    \/ \E d \in Datagrams : IpInput(d)
    \/ IpReturn

Spec == Init /\ [][Next]_vars

-----------------------------------------------------------------------------
(* Properties *)

Accepted == verdict = "dumped"

\* ip_input never passes on a datagram that spec.md section 4.2 rejects
\* for its length, version, total length or fragmentation: a truncated,
\* non-IPv4 or fragmented datagram (MF set or a non-zero offset) is never
\* handed on, whatever interface was configured.
AcceptsOnlyWholeDatagrams ==
    Accepted =>
        /\ dgram.len >= IP_HDR_SIZE_MIN
        /\ dgram.vhl \div 16 = IP_VERSION_IPV4
        /\ dgram.len >= dgram.total
        /\ dgram.offset % 8192 = 0 /\ (dgram.offset \div 8192) % 2 = 0

\* Only datagrams for this host are accepted (spec.md section 4.2): the
\* destination is the unicast address the interface was configured with,
\* the limited broadcast, or the broadcast ip_iface_alloc derived from the
\* configured netmask.
AcceptsOnlyOwn ==
    Accepted => dgram.dst \in {DevIface.unicast, LimitedBroadcast, DevIface.broadcast}

\* Round trip of the configured addresses (spec.md section 8), on the
\* interfaces the device uses.
CanonicalRoundTrip == Iface!CanonicalRoundTrip

\* The interface spec.md sections 4.2 and 8 give the device: the one the
\* configured strings denote when both are canonical dotted quads, none
\* when either is not (ip_iface_alloc is to fail).
SpecIface ==
    IF ifaces = <<>> \/ ~Canonical(Head(ifaces).ustr) \/ ~Canonical(Head(ifaces).mstr)
    THEN NoIface
    ELSE LET u == AddrOf(Head(ifaces).ustr)
             m == AddrOf(Head(ifaces).mstr)
         IN  [unicast |-> u, netmask |-> m, broadcast |-> Broadcast(u, m)]

\* The acceptance rule of spec.md section 4.2 for a datagram and the
\* interface of the device.
SpecAccepts(d, f) ==
    /\ d.len >= IP_HDR_SIZE_MIN
    /\ d.vhl \div 16 = IP_VERSION_IPV4
    /\ d.len >= HeaderLength(d)
    /\ d.len >= d.total
    /\ d.hsum = Ones
    /\ d.offset % 8192 = 0 /\ (d.offset \div 8192) % 2 = 0
    /\ f # NoIface
    /\ d.dst \in {f.unicast, LimitedBroadcast, f.broadcast}

\* From configuration to ingress, the IP layer accepts exactly the
\* datagrams spec.md accepts for the interface the application asked for:
\* every check of section 4.2 on the header, and the addresses of section
\* 8 for the interface.
IpAcceptsPerSpec ==
    verdict # "none" => (Accepted <=> SpecAccepts(dgram, SpecIface))
=============================================================================
