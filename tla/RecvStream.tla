----------------------------- MODULE RecvStream -----------------------------
(***************************************************************************)
(* What the receive side of a TCP connection promises its reader (spec.md *)
(* sections 1 and 8): per connection, a bounded buffer of the peer's      *)
(* octets, in stream order, without gaps or repeats.  The peer's octets   *)
(* are named by their sequence numbers modulo Mod; nxt is the next one    *)
(* expected.  A connection starts at some sequence number with an empty   *)
(* buffer, receives the next octets while there is room, hands octets to  *)
(* the reader from the head, and ends.                                    *)
(***************************************************************************)
EXTENDS Naturals, Sequences

CONSTANTS
    Conns,      \* connection slots
    Mod,        \* size of the sequence space
    Capacity         \* capacity of a buffer

VARIABLE stream \* stream[c]: [open, nxt, buf]

Closed == [open |-> FALSE, nxt |-> 0, buf |-> <<>>]

\* The k octets of the stream that start at sequence number s.
Octets(s, k) == [i \in 1 .. k |-> (s + i - 1) % Mod]

Init == stream = [c \in Conns |-> Closed]

\* A connection is synchronized at the peer's first sequence number s.
Connect(c, s) ==
    /\ ~stream[c].open
    /\ stream' = [stream EXCEPT ![c] = [open |-> TRUE, nxt |-> s, buf |-> <<>>]]

\* The next k octets arrive and fit in the buffer.
Receive(c, k) ==
    /\ stream[c].open
    /\ Len(stream[c].buf) + k <= Capacity
    /\ stream' = [stream EXCEPT ![c].buf = @ \o Octets(stream[c].nxt, k),
                                ![c].nxt = (@ + k) % Mod]

\* The reader takes the first k octets.
Read(c, k) ==
    /\ stream[c].open
    /\ k <= Len(stream[c].buf)
    /\ stream' = [stream EXCEPT ![c].buf = SubSeq(@, k + 1, Len(@))]

\* The connection ends; what it held is discarded.
Disconnect(c) ==
    /\ stream[c].open
    /\ stream' = [stream EXCEPT ![c] = Closed]

Next ==
    \E c \in Conns :
        \/ \E s \in 0 .. Mod - 1 : Connect(c, s)
        \/ \E k \in 1 .. Capacity : Receive(c, k) \/ Read(c, k)
        \/ Disconnect(c)

Spec == Init /\ [][Next]_stream
=============================================================================
