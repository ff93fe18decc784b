------------------------------ MODULE IpInput ------------------------------
(***************************************************************************)
(* IPv4 ingress of src/ip.c: the checks of ip_input, in their order, on   *)
(* one datagram handed up by a device, as the verdict they reach; Ip.tla  *)
(* applies them to the datagrams that arrive once net_run has started.    *)
(*                                                                         *)
(* A datagram is abstracted to the header fields ip_input reads and to    *)
(* two one's-complement sums: hsum over the header bytes present and      *)
(* rsum over the bytes after the header up to len.  Checksums are          *)
(* computed on CkBits-bit words (16 in the code); cksum16 is not part of  *)
(* src/ and follows spec.md section 4.1.  Addresses are 4-tuples of bytes *)
(* in network order; the uint32_t the host sees depends on its byte order. *)
(***************************************************************************)
EXTENDS Integers, Bitwise, IpAddr

CONSTANTS
    HostLittleEndian,   \* byte order of the host
    CkBits,             \* width of a checksum word
    NoIface             \* no IP interface on the receiving device

IP_HDR_SIZE_MIN == 20
IP_VERSION_IPV4 == 4
Ones == 2 ^ CkBits - 1      \* the all-ones word, one's-complement zero
LimitedBroadcast == <<255, 255, 255, 255>>

\* The memory position of the k-th most significant byte of a uint32_t.
HostByte(k) == IF HostLittleEndian THEN 5 - k ELSE k

\* a | m on uint32_t values, a stored in network order and the constant m
\* written as its bytes from the most significant one.
Or32(a, m) == [i \in 1 .. 4 |-> a[i] | m[CHOOSE k \in 1 .. 4 : HostByte(k) = i]]

\* ntoh16 of a 16-bit value.
Ntoh16(x) == IF HostLittleEndian THEN (x % 256) * 256 + x \div 256 ELSE x

\* One's-complement addition with end-around carry (spec.md section 4.1).
OnesAdd(a, b) == IF a + b > Ones THEN a + b - Ones ELSE a + b

\* cksum16 over the header bytes present and the rest: the complement of
\* the one's-complement sum.
Cksum16(d) == Ones - OnesAdd(d.hsum, d.rsum)

\* The IHL field in octets, as the header defines it.
HeaderLength(d) == (d.vhl % 16) * 4

-----------------------------------------------------------------------------
(* The checks of ip_input *)

\* hlen = ntoh16(hdr->vhl) & 0x0f * 4, that is ntoh16(vhl) & 60.
CodeHlen(d) == Ntoh16(d.vhl) & 60

\* Mutant: only the fragment-offset field is tested, not MF.
IsFragment_OffsetOnly(off) == (off & 8191) # 0

\* offset & 0x2000 || offset & 0x1fff: MF set or a non-zero offset.
IsFragment(off) == (off & 8192) # 0 \/ (off & 8191) # 0

\* Mutant: the directed broadcast taken as unicast | 0xffff0000.
DstOk_Wide(d, iface) ==
    \/ iface.unicast = d.dst
    \/ d.dst = LimitedBroadcast
    \/ d.dst = Or32(iface.unicast, <<255, 255, 0, 0>>)

\* The destination test: the unicast address, 255.255.255.255, or
\* unicast | 0xff000000 as uint32_t values.
DstOk(d, iface) ==
    \/ iface.unicast = d.dst
    \/ d.dst = LimitedBroadcast
    \/ d.dst = Or32(iface.unicast, <<255, 0, 0, 0>>)

\* The outcome of ip_input(data, len, dev): the first check that fails,
\* or "dumped" when all pass (the datagram is logged by ip_dump and the
\* function returns).
IpInputVerdict(d, iface) ==
    CASE d.len < IP_HDR_SIZE_MIN                 -> "too_short"
      [] d.vhl \div 16 # IP_VERSION_IPV4         -> "not_ipv4"
      [] d.len < CodeHlen(d)                     -> "short_header"
      [] d.len < d.total                         -> "short_total"
      [] Cksum16(d) # 0                          -> "checksum"
      [] IsFragment(d.offset)                    -> "fragment"
      [] iface = NoIface                         -> "no_iface"
      [] ~DstOk(d, iface)                        -> "not_for_us"
      [] OTHER                                   -> "dumped"

=============================================================================
