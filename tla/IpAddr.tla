------------------------------- MODULE IpAddr -------------------------------
(***************************************************************************)
(* Dotted-quad conversion of src/ip.c: ip_addr_pton, with the strtol it    *)
(* relies on, ip_addr_ntop, and the broadcast address of an interface.     *)
(* A C string is a sequence of one-character strings; reading past its     *)
(* end yields the terminating NUL.  An address is the 4-tuple of its       *)
(* bytes in memory (network) order, which is the order in which            *)
(* ip_addr_pton stores them and ip_addr_ntop prints them.                  *)
(*                                                                         *)
(* These are pure operators; IpIface.tla uses them as ip_iface_alloc and   *)
(* ip_iface_register do.  Fields, Canonical and AddrOf are the reference   *)
(* reading of spec.md section 8 that the properties compare with.          *)
(***************************************************************************)
EXTENDS Integers, SequencesExt, Bitwise

Nul == "NUL"
At(s, i) == IF i \in 1 .. Len(s) THEN s[i] ELSE Nul

DigitVal == [c \in {"0", "1", "2", "3", "4", "5", "6", "7", "8", "9"} |->
                CHOOSE v \in 0 .. 9 : <<"0", "1", "2", "3", "4", "5", "6", "7", "8", "9">>[v + 1] = c]
IsDigit(c) == c \in DOMAIN DigitVal

\* isspace() in the C locale.
IsSpace(c) == c \in {" ", "\t", "\n", "\r", "\f"}

\* The first index at or after i that holds no white space (no digit).
RECURSIVE SkipSpace(_, _)
SkipSpace(s, i) == IF IsSpace(At(s, i)) THEN SkipSpace(s, i + 1) ELSE i

RECURSIVE SkipDigits(_, _)
SkipDigits(s, i) == IF IsDigit(At(s, i)) THEN SkipDigits(s, i + 1) ELSE i

\* strtol(s + i - 1, &ep, 10): leading white space, an optional sign, then
\* decimal digits.  Without digits it returns 0 and sets ep to the start.
\* The digit runs of the inputs are short, so LONG_MAX is never reached.
Strtol(s, i) ==
    LET j == SkipSpace(s, i)
        neg == At(s, j) = "-"
        k == IF At(s, j) \in {"+", "-"} THEN j + 1 ELSE j
        e == SkipDigits(s, k)
        mag == FoldLeft(LAMBDA acc, c : 10 * acc + DigitVal[c], 0, SubSeq(s, k, e - 1))
    IN  IF e = k THEN [val |-> 0, end |-> i]
        ELSE [val |-> IF neg THEN -mag ELSE mag, end |-> e]

\* ip_addr_pton(p, n): four fields separated by '.', the last followed by
\* the end of the string.  Bytes are stored as they are parsed, so a
\* failure leaves the earlier ones written into *n.
RECURSIVE PtonLoop(_, _, _, _)

\* Mutant: a field of 255 is rejected (> 254 for > 255).
PtonLoop_Max254(p, sp, idx, n) ==
    IF idx = 4 THEN [rc |-> 0, n |-> n]
    ELSE LET r == Strtol(p, sp)
             delim == IF idx = 3 THEN Nul ELSE "."
         IN  IF r.val < 0 \/ r.val > 254 \/ r.end = sp \/ At(p, r.end) # delim
             THEN [rc |-> -1, n |-> n]
             ELSE PtonLoop(p, r.end + 1, idx + 1, [n EXCEPT ![idx + 1] = r.val])

PtonLoop(p, sp, idx, n) ==
    IF idx = 4 THEN [rc |-> 0, n |-> n]
    ELSE LET r == Strtol(p, sp)
             delim == IF idx = 3 THEN Nul ELSE "."
         IN  IF r.val < 0 \/ r.val > 255 \/ r.end = sp \/ At(p, r.end) # delim
             THEN [rc |-> -1, n |-> n]
             ELSE PtonLoop(p, r.end + 1, idx + 1, [n EXCEPT ![idx + 1] = r.val])

Pton(p, n) == PtonLoop(p, 1, 0, n)

\* "%d" of a byte.
RECURSIVE Decimal(_)
Decimal(b) ==
    LET d == <<"0", "1", "2", "3", "4", "5", "6", "7", "8", "9">>
    IN  IF b < 10 THEN <<d[b + 1]>> ELSE Decimal(b \div 10) \o <<d[(b % 10) + 1]>>

\* ip_addr_ntop(n, p, size): "%d.%d.%d.%d"; IP_ADDR_STR_LEN (16) always
\* holds the 15 characters and the NUL.
Ntop(n) ==
    Decimal(n[1]) \o <<".">> \o Decimal(n[2]) \o <<".">> \o Decimal(n[3]) \o <<".">> \o Decimal(n[4])

\* The canonical dotted quads of spec.md section 8: four fields of decimal
\* digits without a leading zero, each at most 255, separated by single
\* dots and nothing else.
RECURSIVE Fields(_)
Fields(s) ==
    IF \E i \in 1 .. Len(s) : s[i] = "."
    THEN LET i == CHOOSE i \in 1 .. Len(s) : s[i] = "." /\ \A j \in 1 .. i - 1 : s[j] # "."
         IN  <<SubSeq(s, 1, i - 1)>> \o Fields(SubSeq(s, i + 1, Len(s)))
    ELSE <<s>>

\* The value of a field of decimal digits.
FieldValue(f) == FoldLeft(LAMBDA acc, c : 10 * acc + DigitVal[c], 0, f)

CanonicalField(f) ==
    /\ f # <<>>
    /\ \A i \in 1 .. Len(f) : IsDigit(f[i])
    /\ Len(f) = 1 \/ f[1] # "0"
    /\ FieldValue(f) <= 255

Canonical(s) == Len(Fields(s)) = 4 /\ \A i \in 1 .. 4 : CanonicalField(Fields(s)[i])

\* The address a canonical dotted quad denotes.
AddrOf(s) == [i \in 1 .. 4 |-> FieldValue(Fields(s)[i])]

\* ip_iface_alloc: the broadcast address (unicast & netmask) | ~netmask,
\* computed byte by byte.
Broadcast(unicast, netmask) ==
    [i \in 1 .. 4 |-> (unicast[i] & netmask[i]) | (255 - netmask[i])]
=============================================================================
