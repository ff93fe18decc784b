------------------------------- MODULE IpIface -------------------------------
(***************************************************************************)
(* The IP interface table of src/ip.c, configured before net_run:         *)
(* ip_iface_alloc parses the unicast and netmask strings into a fresh     *)
(* struct ip_iface and derives its broadcast address; ip_iface_register   *)
(* attaches it to a device and pushes it on the front of the ifaces list. *)
(*                                                                         *)
(* memory_alloc and net_device_add_iface are not part of src/: the first  *)
(* returns memory whose contents are one of Garbage (or fails), the       *)
(* second may refuse the interface.  Each record keeps, as history, the   *)
(* strings it was made from and what ip_addr_pton returned for them,      *)
(* which ip_iface_alloc itself discards.                                  *)
(***************************************************************************)
EXTENDS IpAddr

CONSTANTS
    UnicastStrs,    \* unicast strings given to ip_iface_alloc
    NetmaskStrs,    \* netmask strings given to ip_iface_alloc
    Garbage,        \* possible contents of the address fields after memory_alloc
    MaxIfaces       \* bound on registered interfaces

VARIABLES
    ifaces,     \* the ifaces list, head first
    fresh       \* the interface ip_iface_alloc returned, not yet registered

vars == <<ifaces, fresh>>

None == [none |-> TRUE]

\* ip_iface_alloc(unicast, netmask): memory_alloc, then both parses with
\* their return values ignored, then the broadcast address.
IfaceAlloc(u, m) ==
    /\ fresh = None
    /\ Len(ifaces) < MaxIfaces
    /\ \E gu, gm \in Garbage :
         LET pu == Pton(u, gu)
             pm == Pton(m, gm)
         IN  fresh' = [unicast |-> pu.n, netmask |-> pm.n,
                       broadcast |-> Broadcast(pu.n, pm.n),
                       ustr |-> u, mstr |-> m, urc |-> pu.rc, mrc |-> pm.rc]
    /\ UNCHANGED ifaces

\* ip_iface_register(dev, iface): net_device_add_iface may fail (-1, the
\* interface is not listed); otherwise it goes to the front of ifaces.
IfaceRegister ==
    /\ fresh # None
    /\ \/ ifaces' = ifaces
       \/ ifaces' = <<fresh>> \o ifaces
    /\ fresh' = None

\* ip_iface_select(addr): walk ifaces from the head and return the first
\* interface whose unicast is addr, or NULL (None).
IfaceSelect(addr) ==
    LET i == SelectInSeq(ifaces, LAMBDA f : f.unicast = addr)
    IN  IF i = 0 THEN None ELSE ifaces[i]

Init ==
    /\ ifaces = <<>>
    /\ fresh = None

Next ==
    \/ \E u \in UnicastStrs, m \in NetmaskStrs : IfaceAlloc(u, m)
    \/ IfaceRegister

Spec == Init /\ [][Next]_vars

-----------------------------------------------------------------------------

Listed == {ifaces[i] : i \in 1 .. Len(ifaces)}

\* Round trip of the configured addresses (spec.md section 8): a canonical
\* dotted quad given to ip_iface_alloc is accepted by ip_addr_pton, and the
\* address the interface holds prints, through ip_addr_ntop, as the same
\* string.
CanonicalRoundTrip ==
    \A f \in Listed :
        /\ Canonical(f.ustr) => f.urc = 0 /\ Ntop(f.unicast) = f.ustr
        /\ Canonical(f.mstr) => f.mrc = 0 /\ Ntop(f.netmask) = f.mstr

\* ip_addr_pton rejects every non-canonical form (spec.md section 8):
\* white space, signs, leading zeros, missing or extra fields.
RejectsNonCanonical ==
    \A f \in Listed :
        /\ f.urc = 0 => Canonical(f.ustr)
        /\ f.mrc = 0 => Canonical(f.mstr)

\* No interface is configured from a string ip_addr_pton rejected: a
\* failed parse is a failure of ip_iface_alloc (spec.md sections 7 and 8),
\* not an interface holding a partly written address over whatever
\* memory_alloc returned.
IfaceFromValidStrings ==
    \A f \in Listed : f.urc = 0 /\ f.mrc = 0
=============================================================================
