-------------------------------- MODULE Tcp --------------------------------
(***************************************************************************)
(* The TCP connection engine of src/tcp.c: the PCB table, the             *)
(* segment-arrives state machine run from tcp_input, the user commands    *)
(* tcp_open_rfc793 (passive), tcp_send, tcp_receive and tcp_close, and    *)
(* the event handler that interrupts sleepers.                            *)
(*                                                                         *)
(* Every action is one critical section of the global TCP mutex: it      *)
(* starts at mutex_lock (or at the return of sched_sleep, which           *)
(* reacquires it) and ends at mutex_unlock or at the next sched_sleep.    *)
(* The loop of tcp_send emits one segment per step; lock records the      *)
(* thread that holds the mutex through that loop.                         *)
(*                                                                         *)
(* Data are abstracted to identities: the octet of the peer's stream      *)
(* with sequence number n is the value n, so a receive buffer is the      *)
(* sequence of the sequence numbers of the octets it holds.  Sequence     *)
(* numbers are SeqBits wide and windows WndBits wide, with the code's     *)
(* native (non-modular) comparisons and its wrap-around arithmetic.       *)
(* out is the segment a step hands to ip_output, with the PCB that       *)
(* emitted it; the peer does not read it: it is the set of segments that *)
(* may arrive (Arrivals), derived from the PCB state.                     *)
(***************************************************************************)
EXTENDS Integers, SequencesExt, Sched

CONSTANTS
    NPcb,          \* TCP_PCB_SIZE: PCB ids are 0..NPcb-1
    Threads,       \* user threads calling the TCP user commands
    NoThread,      \* the mutex is free
    SeqBits,       \* width of the uint32_t sequence numbers
    WndBits,       \* width of the uint16_t windows; the buffer holds 2^WndBits-1 octets
    IssValues,     \* the values random() may return for iss
    IfAddr,        \* the unicast address of the interface
    Peers,         \* addresses of remote hosts
    Routed,        \* the peers ip_route_get_iface finds an interface for
    PeerPort,      \* the port remote hosts send from
    Ports,         \* destination ports of arriving segments
    LocalEps,      \* local endpoints given to tcp_open_rfc793
    ForeignEps,    \* foreign endpoints given to tcp_open_rfc793 (Wildcard = none)
    PeerIss,       \* initial sequence numbers of in-order peers
    FlagSets,      \* the flag combinations an arbitrary peer sends
    MaxWnd,        \* largest window a peer advertises
    MaxPayload,    \* largest payload of an arriving segment
    MSS,           \* mtu - (IP_HDR_SIZE_MIN + sizeof(struct tcp_hdr))
    MaxSend,       \* largest len given to tcp_send
    MaxRecv,       \* largest size given to tcp_receive
    InOrderPeer,   \* TRUE: the peer sends in order within the window, FALSE: faulty
    TxMayFail      \* TRUE: ip_output may fail while tcp_send emits

ANY == 0                         \* IP_ADDR_ANY
Mod == 2 ^ SeqBits               \* uint32_t arithmetic
WMod == 2 ^ WndBits              \* uint16_t arithmetic
BUF == WMod - 1                  \* sizeof(pcb->buf) = 65535
U32(x) == x % Mod
U16(x) == x % WMod
SeqSpace == 0 .. Mod - 1
Pcbs == 0 .. NPcb - 1
NoPcb == -1
Wildcard == [addr |-> ANY, port |-> 0]
MinOf(a, b) == IF a < b THEN a ELSE b

States == {"FREE", "CLOSED", "LISTEN", "SYN_SENT", "SYN_RECEIVED", "ESTABLISHED",
           "FIN_WAIT1", "FIN_WAIT2", "CLOSING", "TIME_WAIT", "CLOSE_WAIT", "LAST_ACK"}
Synchronized == {"SYN_RECEIVED", "ESTABLISHED"}

VARIABLES
    pcb,        \* pcbs[]: the PCB table
    thr,        \* per-thread state of the user command it is executing
    lock,       \* the thread holding the mutex inside tcp_send's loop
    releasing,  \* PCBs whose tcp_pcb_release found waiters (history)
    out         \* the segment emitted by the last step, if any (history)

vars == <<pcb, thr, lock, releasing, out>>

\* A zeroed slot: memset(pcb, 0, sizeof(*pcb)).
FreePcb ==
    [state |-> "FREE", local |-> Wildcard, foreign |-> Wildcard,
     sndNxt |-> 0, sndUna |-> 0, sndWnd |-> 0, sndWl1 |-> 0, sndWl2 |-> 0,
     iss |-> 0, rcvNxt |-> 0, rcvWnd |-> 0, irs |-> 0, buf |-> <<>>]

Idle == [pc |-> "idle", id |-> NoPcb, sleep |-> "running", saved |-> "FREE",
         sent |-> 0, len |-> 0]

-----------------------------------------------------------------------------
(* PCB table *)

\* tcp_pcb_alloc: the first FREE slot.
AllocId == Min({p \in Pcbs : pcb[p].state = "FREE"})

\* Mutant: a wildcard LISTEN PCB is preferred to an exact match.
Select_ListenFirst(local, foreign) ==
    LET bound == {p \in Pcbs : /\ pcb[p].local.addr \in {ANY, local.addr}
                               /\ pcb[p].local.port = local.port}
        exact == {p \in bound : pcb[p].foreign = foreign}
        listen == {p \in bound : pcb[p].state = "LISTEN" /\ pcb[p].foreign = Wildcard}
    IN  IF listen # {} THEN Max(listen)
        ELSE IF exact # {} THEN Min(exact) ELSE NoPcb

\* tcp_pcb_select(local, foreign): the first PCB bound to local whose foreign
\* endpoint matches exactly, else the last wildcard LISTEN PCB bound to local.
Select(local, foreign) ==
    LET bound == {p \in Pcbs : /\ pcb[p].local.addr \in {ANY, local.addr}
                               /\ pcb[p].local.port = local.port}
        exact == {p \in bound : pcb[p].foreign = foreign}
        listen == {p \in bound : pcb[p].state = "LISTEN" /\ pcb[p].foreign = Wildcard}
    IN  IF exact # {} THEN Min(exact)
        ELSE IF listen # {} THEN Max(listen) ELSE NoPcb

\* tcp_pcb_release(p) once the record of p is q and the threads are th:
\* sched_ctx_destroy fails while a waiter is present, and then the waiters
\* are woken and the slot is left as it is; otherwise the slot is zeroed.
Release(p, q, th) ==
    IF CtxBusy(th, p)
    THEN /\ pcb' = [pcb EXCEPT ![p] = q]
         /\ thr' = Wakeup(th, p)
         /\ releasing' = releasing \cup {p}
    ELSE /\ pcb' = [pcb EXCEPT ![p] = FreePcb]
         /\ thr' = th
         /\ releasing' = releasing \ {p}

-----------------------------------------------------------------------------
(* Segment emission *)

\* tcp_output_segment: the header handed to ip_output.  The data offset is
\* always 20 octets; the checksum, the dump and the payload octets are left
\* out, the payload is its length.
OutputSegment(seq, ack, flg, wnd, len, local, foreign) ==
    [seq |-> seq, ack |-> ack, flags |-> flg, wnd |-> wnd, len |-> len,
     src |-> local, dst |-> foreign]

\* Mutant: seq is snd.nxt even for a SYN.
Output_NoIss(q, flg, len) ==
    OutputSegment(q.sndNxt, q.rcvNxt, flg, q.rcvWnd, len, q.local, q.foreign)

\* tcp_output(pcb, flg, data, len): seq is iss for a SYN and snd.nxt
\* otherwise; ack and window are rcv.nxt and rcv.wnd.  Nothing is queued
\* for retransmission.
Output(q, flg, len) ==
    OutputSegment(IF "SYN" \in flg THEN q.iss ELSE q.sndNxt, q.rcvNxt, flg, q.rcvWnd,
                  len, q.local, q.foreign)

\* ip_output: a segment reaches the wire when a route to its destination
\* exists, and is lost otherwise.  Recorded beside the segment: the PCB
\* that emitted it (NoPcb for a reply with no PCB) and the flags of the
\* arriving segment it answers ({} when a user command emits it).
Emit(p, re, s) ==
    IF s.dst.addr \in Routed THEN {[by |-> p, re |-> re, seg |-> s]} ELSE {}

-----------------------------------------------------------------------------
(* Segment arrives (RFC 793 3.9 subset) *)

\* The logical length: payload plus one for SYN and one for FIN.
SegLen(seg) == seg.plen + (IF "SYN" \in seg.flags THEN 1 ELSE 0)
                        + (IF "FIN" \in seg.flags THEN 1 ELSE 0)

\* The payload: the octets after the SYN, if any.
Payload(seg) ==
    [i \in 1 .. seg.plen |-> U32(seg.seq + i - 1 + (IF "SYN" \in seg.flags THEN 1 ELSE 0))]

\* The sequence number check, with the code's comparisons on the raw values.
Acceptable(q, seg) ==
    LET nxt == q.rcvNxt
        wnd == q.rcvWnd
        edge == U32(nxt + wnd)
        last == U32(seg.seq + SegLen(seg) - 1)
    IN  IF SegLen(seg) = 0
        THEN IF wnd = 0 THEN seg.seq = nxt ELSE nxt <= seg.seq /\ seg.seq < edge
        ELSE /\ wnd # 0
             /\ \/ nxt <= seg.seq /\ seg.seq < edge
                \/ nxt <= last /\ last < edge

\* The ACK check of SYN_RECEIVED: snd.una <= seg.ack <= snd.nxt.
SynAckOk(q, seg) == q.sndUna <= seg.ack /\ seg.ack <= q.sndNxt

\* The ACK of ESTABLISHED acknowledges new data: snd.una < seg.ack <= snd.nxt.
NewAck(q, seg) == q.sndUna < seg.ack /\ seg.ack <= q.sndNxt

\* The segment passes the ACK step and reaches the text step; otherwise it
\* is dropped (SyncDrop).  ESTABLISHED drops an ACK that is neither new nor
\* old but above snd.nxt.
Proceeds(q, seg) ==
    /\ Acceptable(q, seg)
    /\ "ACK" \in seg.flags
    /\ q.state = "SYN_RECEIVED" => SynAckOk(q, seg)
    /\ q.state = "ESTABLISHED" =>
          NewAck(q, seg) \/ seg.ack < q.sndUna \/ ~(seg.ack > q.sndNxt)

\* The ESTABLISHED ACK step: a new ACK advances snd.una and, when the
\* segment is not older than the last window update, takes its window.
AckEstablished(q, seg) ==
    IF NewAck(q, seg)
    THEN IF q.sndWl1 < seg.seq \/ (q.sndWl1 = seg.seq /\ q.sndWl2 <= seg.ack)
         THEN [q EXCEPT !.sndUna = seg.ack, !.sndWnd = seg.wnd,
                        !.sndWl1 = seg.seq, !.sndWl2 = seg.ack]
         ELSE [q EXCEPT !.sndUna = seg.ack]
    ELSE q

\* memcpy of the payload at offset sizeof(buf) - rcv.wnd.  Octets past the
\* end of buf (an overflow into the rest of the PCB) are not kept.
Store(q, data) ==
    LET off == BUF - q.rcvWnd
        kept == SubSeq(q.buf, 1, MinOf(off, Len(q.buf)))
    IN  kept \o SubSeq(data, 1, MinOf(Len(data), BUF - Len(kept)))

\* The text step of ESTABLISHED.
Text(q, seg) ==
    IF seg.plen > 0
    THEN [q EXCEPT !.buf = Store(q, Payload(seg)),
                   !.rcvNxt = U32(seg.seq + SegLen(seg)),
                   !.rcvWnd = U16(q.rcvWnd - seg.plen)]
    ELSE q

\* Mutant: the ACK is built before the text step updates rcv.nxt and rcv.wnd.
TextAck_Stale(q, seg) == Output(q, {"ACK"}, 0)

\* The ACK the text step sends once it stored data: tcp_output after
\* rcv.nxt and rcv.wnd are updated.
TextAck(q, seg) == Output(Text(q, seg), {"ACK"}, 0)

\* The reply to a segment for no PCB or a CLOSED one: none to a RST; to a
\* segment without ACK, RST|ACK acknowledging it; otherwise RST at seg.ack.
ResetReply(p, seg, local, foreign) ==
    IF "RST" \in seg.flags THEN {}
    ELSE IF "ACK" \notin seg.flags
         THEN Emit(p, seg.flags, OutputSegment(0, U32(seg.seq + SegLen(seg)), {"RST", "ACK"},
                                               0, 0, local, foreign))
         ELSE Emit(p, seg.flags, OutputSegment(seg.ack, 0, {"RST"}, 0, 0, local, foreign))

\* No PCB, or a CLOSED one: reply, and leave the table as it is.
NoConnection(p, seg, local, foreign) ==
    /\ p = NoPcb \/ (p # NoPcb /\ pcb[p].state = "CLOSED")
    /\ out' = ResetReply(p, seg, local, foreign)
    /\ UNCHANGED <<pcb, thr, releasing>>

\* LISTEN and a SYN: take the endpoints and window, pick iss, send SYN|ACK
\* (seq = iss, before snd.nxt is set), then set snd.nxt and snd.una.
ListenSyn(p, seg, local, foreign) ==
    /\ pcb[p].state = "LISTEN"
    /\ {"RST", "ACK"} \cap seg.flags = {}
    /\ "SYN" \in seg.flags
    /\ \E iss \in IssValues :
         LET q == [pcb[p] EXCEPT !.local = local, !.foreign = foreign, !.rcvWnd = BUF,
                                 !.rcvNxt = U32(seg.seq + 1), !.irs = seg.seq, !.iss = iss]
         IN  /\ out' = Emit(p, seg.flags, Output(q, {"SYN", "ACK"}, 0))
             /\ pcb' = [pcb EXCEPT ![p] = [q EXCEPT !.sndNxt = U32(iss + 1), !.sndUna = iss,
                                                    !.state = "SYN_RECEIVED"]]
    /\ UNCHANGED <<thr, releasing>>

\* LISTEN and no SYN to accept: a RST is ignored, an ACK is answered with
\* RST at seg.ack, anything else is dropped.
ListenDrop(p, seg, local, foreign) ==
    /\ pcb[p].state = "LISTEN"
    /\ ~("SYN" \in seg.flags /\ {"RST", "ACK"} \cap seg.flags = {})
    /\ out' = IF "RST" \notin seg.flags /\ "ACK" \in seg.flags
              THEN Emit(p, seg.flags, OutputSegment(seg.ack, 0, {"RST"}, 0, 0, local, foreign))
              ELSE {}
    /\ UNCHANGED <<pcb, thr, releasing>>

\* Mutant: arriving data do not wake the sleepers.
Wakes_NoData(q, seg) == q.state = "SYN_RECEIVED"

\* Mutant: the transition to ESTABLISHED does not wake the sleepers.
Wakes_NoEstablished(q, seg) == seg.plen > 0

\* The segment posts sched_wakeup: it moved SYN_RECEIVED to ESTABLISHED
\* or stored data.  An ACK that only opens the send window does not.
Wakes(q, seg) == q.state = "SYN_RECEIVED" \/ seg.plen > 0

\* SYN_RECEIVED or ESTABLISHED and a segment that reaches the ACK step:
\* SYN_RECEIVED becomes ESTABLISHED (waking the sleepers) and falls through;
\* stored data are acknowledged.
SyncSegment(p, seg) ==
    LET q == pcb[p]
        q1 == AckEstablished([q EXCEPT !.state = "ESTABLISHED"], seg)
    IN  /\ q.state \in Synchronized
        /\ Proceeds(q, seg)
        /\ pcb' = [pcb EXCEPT ![p] = Text(q1, seg)]
        /\ out' = IF seg.plen > 0 THEN Emit(p, seg.flags, TextAck(q1, seg)) ELSE {}
        /\ thr' = IF Wakes(q, seg) THEN Wakeup(thr, p) ELSE thr
        /\ UNCHANGED releasing

\* The reply of the step at which a synchronized PCB drops the segment:
\* an unacceptable segment gets an ACK unless it is a RST; one without ACK
\* gets nothing; in SYN_RECEIVED an ACK outside [snd.una, snd.nxt] gets a
\* RST at seg.ack (whatever the segment's flags); in ESTABLISHED an ACK
\* above snd.nxt gets an ACK.
SyncReply(p, seg, local, foreign) ==
    LET q == pcb[p]
    IN  CASE ~Acceptable(q, seg) ->
               IF "RST" \in seg.flags THEN {} ELSE Emit(p, seg.flags, Output(q, {"ACK"}, 0))
          [] "ACK" \notin seg.flags -> {}
          [] q.state = "SYN_RECEIVED" ->
               Emit(p, seg.flags, OutputSegment(seg.ack, 0, {"RST"}, 0, 0, local, foreign))
          [] OTHER -> Emit(p, seg.flags, Output(q, {"ACK"}, 0))

\* A synchronized PCB that drops the segment.
SyncDrop(p, seg, local, foreign) ==
    /\ pcb[p].state \in Synchronized
    /\ ~Proceeds(pcb[p], seg)
    /\ out' = SyncReply(p, seg, local, foreign)
    /\ UNCHANGED <<pcb, thr, releasing>>

\* tcp_input: the endpoints of the segment, then tcp_segment_arrives under
\* the mutex.  Segments that fail the length, checksum or broadcast checks
\* change nothing and are not generated.  No code sets SYN_SENT, so its
\* branch (drop) is never taken.
SegmentArrives(seg) ==
    LET local == [addr |-> IfAddr, port |-> seg.dport]
        foreign == [addr |-> seg.src, port |-> PeerPort]
        p == Select(local, foreign)
    IN  /\ lock = NoThread
        /\ \/ NoConnection(p, seg, local, foreign)
           \/ p # NoPcb /\ ListenSyn(p, seg, local, foreign)
           \/ p # NoPcb /\ ListenDrop(p, seg, local, foreign)
           \/ p # NoPcb /\ SyncSegment(p, seg)
           \/ p # NoPcb /\ SyncDrop(p, seg, local, foreign)
        /\ UNCHANGED lock

-----------------------------------------------------------------------------
(* User commands; each starts with mutex_lock and a free mutex *)

\* tcp_open_rfc793(local, foreign, 0): allocate, bind, LISTEN, then the
\* AGAIN loop, whose first check always finds the state unchanged: sleep.
OpenPassive(t) ==
    /\ lock = NoThread
    /\ thr[t].pc = "idle"
    /\ \E p \in Pcbs : pcb[p].state = "FREE"
    /\ \E local \in LocalEps, foreign \in ForeignEps :
         pcb' = [pcb EXCEPT ![AllocId] = [FreePcb EXCEPT !.state = "LISTEN",
                                              !.local = local, !.foreign = foreign]]
    /\ thr' = [thr EXCEPT ![t] = [Idle EXCEPT !.pc = "open", !.id = AllocId,
                                              !.sleep = "asleep", !.saved = "LISTEN"]]
    /\ out' = {}
    /\ UNCHANGED <<lock, releasing>>

\* The return of sched_sleep in tcp_open_rfc793.  Interrupted: CLOSED and
\* release.  Otherwise recheck: unchanged, or SYN_RECEIVED (goto AGAIN),
\* sleeps again; ESTABLISHED returns the id; any other state is an error
\* that closes and releases.
OpenResume(t) ==
    LET r == thr[t]
        q == pcb[r.id]
        done == [thr EXCEPT ![t] = Idle]
    IN  /\ lock = NoThread
        /\ r.pc = "open"
        /\ \/ r.sleep = "intr" /\ Release(r.id, [q EXCEPT !.state = "CLOSED"], done)
           \/ /\ r.sleep = "woken"
              /\ q.state \in {r.saved, "SYN_RECEIVED"}
              /\ thr' = [thr EXCEPT ![t] = [SleepOn(r) EXCEPT !.saved = q.state]]
              /\ UNCHANGED <<pcb, releasing>>
           \/ /\ r.sleep = "woken"
              /\ q.state \notin {r.saved, "SYN_RECEIVED", "ESTABLISHED"}
              /\ Release(r.id, [q EXCEPT !.state = "CLOSED"], done)
           \/ /\ r.sleep = "woken"
              /\ q.state = "ESTABLISHED"
              /\ thr' = done
              /\ UNCHANGED <<pcb, releasing>>
        /\ out' = {}
        /\ UNCHANGED lock

\* The ids a caller may pass to tcp_close, tcp_send and tcp_receive: every
\* slot and one past each end.
CallIds == -1 .. NPcb

\* tcp_pcb_get(id): NULL (NoPcb) for an id out of range or a FREE slot.  A
\* call that gets NULL returns -1 having changed nothing, a stutter.
PcbGet(id) == IF id \in Pcbs /\ pcb[id].state # "FREE" THEN id ELSE NoPcb

\* tcp_close(id): send RST and release.
Close(t) ==
    /\ lock = NoThread
    /\ thr[t].pc = "idle"
    /\ \E id \in CallIds : LET p == PcbGet(id) IN
         /\ p # NoPcb
         /\ out' = Emit(p, {}, Output(pcb[p], {"RST"}, 0))
         /\ Release(p, pcb[p], thr)
    /\ UNCHANGED lock

\* remain = sizeof(pcb->buf) - pcb->rcv.wnd
Remain(q) == BUF - q.rcvWnd

\* Mutant: the window is not opened by what was copied out.
Consume_NoWindow(q, size) ==
    [q EXCEPT !.buf = SubSeq(q.buf, MinOf(size, Remain(q)) + 1, Len(q.buf))]

\* Mutant: the octets are taken from the tail of buf instead of its head.
Consume_FromTail(q, size) ==
    LET n == MinOf(size, Remain(q))
    IN  [q EXCEPT !.buf = SubSeq(q.buf, 1, Len(q.buf) - n), !.rcvWnd = U16(q.rcvWnd + n)]

\* Copy min(size, remain) octets from the head of buf, memmove the rest to
\* the front, and open the window by as much.
Consume(q, size) ==
    LET n == MinOf(size, Remain(q))
    IN  [q EXCEPT !.buf = SubSeq(q.buf, n + 1, Len(q.buf)), !.rcvWnd = U16(q.rcvWnd + n)]

\* The RETRY block of tcp_receive for thread t on PCB p with a buffer of size.
RecvRetry(t, p, size) ==
    LET q == pcb[p]
    IN  \/ /\ q.state # "ESTABLISHED"
           /\ thr' = [thr EXCEPT ![t] = Idle]
           /\ UNCHANGED pcb
        \/ /\ q.state = "ESTABLISHED"
           /\ Remain(q) = 0
           /\ thr' = [thr EXCEPT ![t] = [Idle EXCEPT !.pc = "recv", !.id = p,
                                                     !.sleep = "asleep", !.len = size]]
           /\ UNCHANGED pcb
        \/ /\ q.state = "ESTABLISHED"
           /\ Remain(q) > 0
           /\ pcb' = [pcb EXCEPT ![p] = Consume(q, size)]
           /\ thr' = [thr EXCEPT ![t] = Idle]

\* tcp_receive(id, buf, size) on an ESTABLISHED PCB.
RecvCall(t) ==
    /\ lock = NoThread
    /\ thr[t].pc = "idle"
    /\ \E id \in CallIds, size \in 1 .. MaxRecv : LET p == PcbGet(id) IN
         p # NoPcb /\ pcb[p].state = "ESTABLISHED" /\ RecvRetry(t, p, size)
    /\ out' = {}
    /\ UNCHANGED <<lock, releasing>>

\* The return of sched_sleep in tcp_receive: EINTR, or goto RETRY.
RecvResume(t) ==
    LET r == thr[t]
    IN  /\ lock = NoThread
        /\ r.pc = "recv"
        /\ \/ r.sleep = "intr" /\ thr' = [thr EXCEPT ![t] = Idle] /\ UNCHANGED pcb
           \/ r.sleep = "woken" /\ RecvRetry(t, r.id, r.len)
        /\ out' = {}
        /\ UNCHANGED <<lock, releasing>>

\* cap = pcb->snd.wnd - (pcb->snd.nxt - pcb->snd.una), in uint32_t.
Cap(q) == U32(q.sndWnd - U32(q.sndNxt - q.sndUna))

\* The RETRY block of tcp_send for thread t in record r: ESTABLISHED and a
\* route to the peer enter the loop holding the mutex; otherwise return -1.
SendRetry(t, r) ==
    LET q == pcb[r.id]
    IN  \/ /\ q.state = "ESTABLISHED"
           /\ q.foreign.addr \in Routed
           /\ lock' = t
           /\ thr' = [thr EXCEPT ![t] = [r EXCEPT !.sleep = "running"]]
        \/ /\ ~(q.state = "ESTABLISHED" /\ q.foreign.addr \in Routed)
           /\ thr' = [thr EXCEPT ![t] = Idle]
           /\ UNCHANGED lock

\* tcp_send(id, data, len) on an ESTABLISHED PCB.
SendCall(t) ==
    /\ lock = NoThread
    /\ thr[t].pc = "idle"
    /\ \E id \in CallIds, len \in 1 .. MaxSend : LET p == PcbGet(id) IN
         /\ p # NoPcb
         /\ pcb[p].state = "ESTABLISHED"
         /\ SendRetry(t, [Idle EXCEPT !.pc = "send", !.id = p, !.len = len])
    /\ out' = {}
    /\ UNCHANGED <<pcb, releasing>>

\* Mutant: the segment is built after snd.nxt has been advanced.
\* Mutant: snd.nxt is advanced without the uint32_t wrap.
SndAdvance_NoWrap(q, n) == [q EXCEPT !.sndNxt = q.sndNxt + n]

\* pcb->snd.nxt += slen
SndAdvance(q, n) == [q EXCEPT !.sndNxt = U32(q.sndNxt + n)]

\* Mutant: the segment is built after snd.nxt has been advanced.
SendSegment_AfterAdvance(q, n) == Output(SndAdvance(q, n), {"ACK", "PSH"}, n)

\* tcp_output(pcb, TCP_FLG_ACK | TCP_FLG_PSH, data + sent, slen)
SendSegment(q, n) == Output(q, {"ACK", "PSH"}, n)

\* One turn of the while loop of tcp_send, the mutex held: done; no room
\* (sleep); ip_output fails (CLOSED, release, -1); or emit PSH|ACK of
\* min(mss, len - sent, cap) octets and advance snd.nxt.
SendStep(t) ==
    LET r == thr[t]
        q == pcb[r.id]
        slen == MinOf(MinOf(MSS, r.len - r.sent), Cap(q))
    IN  /\ lock = t
        /\ \/ /\ r.sent >= r.len
              /\ lock' = NoThread
              /\ thr' = [thr EXCEPT ![t] = Idle]
              /\ out' = {}
              /\ UNCHANGED <<pcb, releasing>>
           \/ /\ r.sent < r.len
              /\ Cap(q) = 0
              /\ lock' = NoThread
              /\ thr' = [thr EXCEPT ![t] = SleepOn(r)]
              /\ out' = {}
              /\ UNCHANGED <<pcb, releasing>>
           \/ /\ r.sent < r.len
              /\ Cap(q) > 0
              /\ TxMayFail
              /\ lock' = NoThread
              /\ out' = {}
              /\ Release(r.id, [q EXCEPT !.state = "CLOSED"], [thr EXCEPT ![t] = Idle])
           \/ /\ r.sent < r.len
              /\ Cap(q) > 0
              /\ out' = Emit(r.id, {}, SendSegment(q, slen))
              /\ pcb' = [pcb EXCEPT ![r.id] = SndAdvance(q, slen)]
              /\ thr' = [thr EXCEPT ![t].sent = @ + slen]
              /\ UNCHANGED <<lock, releasing>>

\* The return of sched_sleep in tcp_send: interrupted returns -1 when
\* nothing was sent and the count otherwise; woken goes to RETRY.
SendResume(t) ==
    LET r == thr[t]
    IN  /\ lock = NoThread
        /\ r.pc = "send"
        /\ \/ r.sleep = "intr" /\ thr' = [thr EXCEPT ![t] = Idle] /\ UNCHANGED lock
           \/ r.sleep = "woken" /\ SendRetry(t, r)
        /\ out' = {}
        /\ UNCHANGED <<pcb, releasing>>

\* event_handler: sched_interrupt on the context of every PCB not FREE.
EventHandler ==
    /\ lock = NoThread
    /\ thr' = Interrupt(thr, {p \in Pcbs : pcb[p].state # "FREE"})
    /\ out' = {}
    /\ UNCHANGED <<pcb, lock, releasing>>

-----------------------------------------------------------------------------
(* The peer *)

\* A segment as tcp_input sees it once its header is parsed.
Seg(src, dport, flags, seq, ack, wnd, plen) ==
    [src |-> src, dport |-> dport, flags |-> flags, seq |-> seq, ack |-> ack,
     wnd |-> wnd, plen |-> plen]

\* The acknowledgment numbers a peer can send: from iss+1 (our SYN) up to
\* snd.nxt, older ones included since ACKs may be repeated.
AckRange(q) == {U32(q.iss + 1 + k) : k \in 0 .. U32(q.sndNxt - q.iss - 1)}

\* What an in-order peer on a path that neither loses nor reorders data
\* sends to (dport): a SYN when no synchronized PCB takes it; otherwise
\* a retransmitted SYN or an ACK at rcv.nxt whose data fit the window.
InOrderFrom(src, dport) ==
    LET p == Select([addr |-> IfAddr, port |-> dport], [addr |-> src, port |-> PeerPort])
    IN  IF p = NoPcb \/ pcb[p].state \notin Synchronized
        THEN {Seg(src, dport, {"SYN"}, s, 0, w, 0) : s \in PeerIss, w \in 0 .. MaxWnd}
        ELSE {Seg(src, dport, {"SYN"}, pcb[p].irs, 0, MaxWnd, 0)}
             \cup {Seg(src, dport, {"ACK"}, pcb[p].rcvNxt, a, w, l) :
                     a \in AckRange(pcb[p]), w \in 0 .. MaxWnd,
                     l \in 0 .. MinOf(MaxPayload, pcb[p].rcvWnd)}

\* What a faulty peer or a path that duplicates and reorders delivers:
\* any flags; to a synchronized PCB, a sequence number one before, at or
\* one after rcv.nxt, payloads that may exceed the window, and besides
\* the ACKs of AckRange an ACK of iss and one of unsent data.
FaultyFrom(src, dport) ==
    LET p == Select([addr |-> IfAddr, port |-> dport], [addr |-> src, port |-> PeerPort])
    IN  IF p = NoPcb \/ pcb[p].state \notin Synchronized
        THEN {Seg(src, dport, f, s, 0, w, 0) : f \in FlagSets, s \in PeerIss, w \in 0 .. MaxWnd}
        ELSE {Seg(src, dport, f, U32(pcb[p].rcvNxt + d), a, w, l) :
                f \in FlagSets, d \in {Mod - 1, 0, 1},
                a \in AckRange(pcb[p]) \cup {pcb[p].iss, U32(pcb[p].sndNxt + 1)},
                w \in 0 .. MaxWnd, l \in 0 .. MaxPayload}

Arrivals ==
    UNION {IF InOrderPeer THEN InOrderFrom(src, dport) ELSE FaultyFrom(src, dport) :
             src \in Peers, dport \in Ports}

-----------------------------------------------------------------------------

Init ==
    /\ pcb = [p \in Pcbs |-> FreePcb]
    /\ thr = [t \in Threads |-> Idle]
    /\ lock = NoThread
    /\ releasing = {}
    /\ out = {}

Next ==
    \/ \E seg \in Arrivals : SegmentArrives(seg)
    \/ EventHandler
    \/ \E t \in Threads :
         \/ OpenPassive(t) \/ OpenResume(t) \/ Close(t)
         \/ RecvCall(t) \/ RecvResume(t)
         \/ SendCall(t) \/ SendStep(t) \/ SendResume(t)

\* A thread woken from sched_sleep eventually gets the mutex back (strong
\* fairness: other threads may take it in between), and the holder of the
\* mutex in tcp_send's loop keeps running.  Peers, interrupts and new
\* user commands are not assumed to happen.
Fairness ==
    \A t \in Threads :
        /\ SF_vars(OpenResume(t))
        /\ SF_vars(RecvResume(t))
        /\ SF_vars(SendResume(t))
        /\ WF_vars(SendStep(t))

Spec == Init /\ [][Next]_vars /\ Fairness

-----------------------------------------------------------------------------
(* Properties *)

FlagNames == {"FIN", "SYN", "RST", "PSH", "ACK", "URG"}

Endpoints == [addr : {ANY, IfAddr} \cup Peers, port : {0, PeerPort} \cup Ports]

TypeOK ==
    /\ pcb \in [Pcbs -> [state : States, local : Endpoints, foreign : Endpoints,
                         sndNxt : SeqSpace, sndUna : SeqSpace, sndWnd : 0 .. MaxWnd,
                         sndWl1 : SeqSpace, sndWl2 : SeqSpace, iss : SeqSpace,
                         rcvNxt : SeqSpace, rcvWnd : 0 .. BUF, irs : SeqSpace,
                         buf : BoundedSeq(SeqSpace, BUF)]]
    /\ thr \in [Threads -> [pc : {"idle", "open", "recv", "send"}, id : Pcbs \cup {NoPcb},
                            sleep : {"running", "asleep", "woken", "intr"},
                            saved : States, sent : 0 .. MaxSend, len : (0 .. MaxSend) \cup (0 .. MaxRecv)]]
    /\ lock \in Threads \cup {NoThread}
    /\ releasing \subseteq Pcbs
    /\ out \subseteq [by : Pcbs \cup {NoPcb}, re : SUBSET FlagNames,
                     seg : [seq : SeqSpace, ack : SeqSpace, flags : SUBSET FlagNames,
                            wnd : 0 .. BUF, len : 0 .. MaxSend,
                            src : Endpoints, dst : Endpoints]]
    /\ Cardinality(out) <= 1

\* Receive-window accounting (spec.md section 8): for every synchronized
\* PCB, rcv.wnd plus the octets held in buf is sizeof(buf).  Segment
\* arrival shrinks the window by the payload it stores and tcp_receive
\* opens it by what it copies out; an arrival larger than rcv.wnd breaks it.
RcvWindowAccounting ==
    \A p \in Pcbs :
        pcb[p].state \in Synchronized => Len(pcb[p].buf) + pcb[p].rcvWnd = BUF

\* Every ACK a connection sends reports its receiver as the step leaves it
\* (spec.md 4.4, section 8 scenario 2): ack is rcv.nxt and the window is
\* the free space of buf.  This holds for the SYN|ACK (sent after rcv.nxt
\* and rcv.wnd are set), for the ACK of stored data (sent after the text
\* step shrinks the window) and for the ACKs of dropped segments; an ACK
\* built from the PCB before the update would invite the peer to send
\* past the end of buf.
AckAdvertisesFreeSpace ==
    [][\A e \in out' :
         e.by # NoPcb /\ "ACK" \in e.seg.flags /\ "RST" \notin e.seg.flags =>
             /\ e.seg.ack = pcb'[e.by].rcvNxt
             /\ e.seg.wnd = BUF - Len(pcb'[e.by].buf)]_vars

\* The sequence space a connection sends is contiguous (spec.md 4.4 and
\* 4.6): every segment it emits other than a RST ends exactly at snd.nxt
\* as the step leaves it.  So the SYN|ACK occupies iss, a PSH|ACK of
\* tcp_send starts where the previous one ended, and a bare ACK sits at
\* snd.nxt, whatever ACKs, shrinking windows and failed sends came between.
SeqSpaceContiguous ==
    [][\A e \in out' :
         e.by # NoPcb /\ "RST" \notin e.seg.flags =>
             U32(e.seg.seq + e.seg.len + (IF "SYN" \in e.seg.flags THEN 1 ELSE 0))
                 = pcb'[e.by].sndNxt]_vars

\* A reset is never answered with a reset (RFC 793 section 3.4, which the
\* subset of spec.md 4.6 follows: a RST for no PCB is dropped, LISTEN
\* ignores a RST, and an unacceptable RST gets no ACK).  In SYN_RECEIVED
\* the code has no RST check, so an acceptable RST|ACK whose ack lies
\* outside [snd.una, snd.nxt] reaches the ACK check and is answered with
\* RST at seg.ack, while the half-open PCB stays in SYN_RECEIVED.
NoResetForReset ==
    [][\A e \in out' : "RST" \in e.re => "RST" \notin e.seg.flags]_vars

\* The receive side of a PCB as RecvStream sees it: a synchronized PCB is
\* an open connection whose next octet is rcv.nxt and whose buffer is buf.
StreamOf(p) ==
    IF pcb[p].state \in Synchronized
    THEN [open |-> TRUE, nxt |-> pcb[p].rcvNxt, buf |-> pcb[p].buf]
    ELSE [open |-> FALSE, nxt |-> 0, buf |-> <<>>]

Stream == INSTANCE RecvStream WITH Conns <- Pcbs, Mod <- Mod, Capacity <- BUF,
                                   stream <- [p \in Pcbs |-> StreamOf(p)]

\* The receive path implements the byte stream of RecvStream: a segment
\* arrival appends exactly the next octets of the peer's stream and
\* advances rcv.nxt past them, never beyond sizeof(buf); tcp_receive takes
\* octets from the head of buf; SYN starts a connection with an empty
\* buffer and release or close ends it.  Gaps, repeats, reordering or an
\* overrun of buf, over any number of steps, break it.
RecvRefinement == Stream!Spec

\* No lost wakeup in tcp_receive: a thread asleep in tcp_receive has
\* nothing to read; data stored by a segment arrival wake it.
NoLostRecvWakeup ==
    \A t \in Threads :
        thr[t].pc = "recv" /\ thr[t].sleep = "asleep" => Remain(pcb[thr[t].id]) = 0

\* No lost wakeup in tcp_send: a thread asleep in tcp_send's loop has no
\* room in the peer's window (cap = 0); an ACK that opens it wakes it.
NoLostSendWakeup ==
    \A t \in Threads :
        thr[t].pc = "send" /\ thr[t].sleep = "asleep" => Cap(pcb[thr[t].id]) = 0

\* At most one PCB per connection (spec.md section 3): no two PCBs past
\* LISTEN have the same local and foreign endpoints, so tcp_pcb_select
\* can never pick between two copies of one connection.
TupleUnique ==
    \A p, q \in Pcbs :
        /\ p # q
        /\ pcb[p].state \notin {"FREE", "LISTEN"}
        /\ pcb[q].state \notin {"FREE", "LISTEN"}
        => pcb[p].local # pcb[q].local \/ pcb[p].foreign # pcb[q].foreign

\* Release completes (spec.md section 4.3): once tcp_pcb_release found a
\* waiter and left the slot allocated, a waiter is still there to finish
\* the release; the slot is never left allocated with nobody to free it.
ReleaseCompletes ==
    \A p \in releasing : CtxBusy(thr, p)

\* A passive open returns once its connection is ESTABLISHED: the
\* SYN_RECEIVED -> ESTABLISHED transition wakes the opener.
OpenReturns ==
    \A t \in Threads :
        (thr[t].pc = "open" /\ pcb[thr[t].id].state = "ESTABLISHED") ~> thr[t].pc # "open"

\* Sequence numbers compare modulo 2^32 (spec.md sections 4.6 and 9):
\* for every synchronized PCB and every segment, the acceptability test
\* the code computes with native comparisons on the raw values agrees
\* with the modular one.  It fails once rcv.nxt + rcv.wnd wraps.
InWindow(q, s) == U32(s - q.rcvNxt) < q.rcvWnd

ModularAcceptable(q, seg) ==
    LET last == U32(seg.seq + SegLen(seg) - 1)
    IN  IF SegLen(seg) = 0
        THEN IF q.rcvWnd = 0 THEN seg.seq = q.rcvNxt ELSE InWindow(q, seg.seq)
        ELSE q.rcvWnd # 0 /\ (InWindow(q, seg.seq) \/ InWindow(q, last))

SeqCheckModular ==
    \A p \in Pcbs, s \in SeqSpace, l \in 0 .. MaxPayload :
        LET seg == Seg(IfAddr, 0, {"ACK"}, s, 0, 0, l)
        IN  pcb[p].state \in Synchronized =>
                (Acceptable(pcb[p], seg) <=> ModularAcceptable(pcb[p], seg))

\* tcp_send never sends past the peer's window: every step that advances
\* snd.nxt of an ESTABLISHED PCB leaves at most snd.wnd octets
\* unacknowledged.
SendWithinWindow ==
    [][\A p \in Pcbs :
         pcb[p].state = "ESTABLISHED" /\ pcb'[p].sndNxt # pcb[p].sndNxt =>
             U32(pcb'[p].sndNxt - pcb'[p].sndUna) <= pcb'[p].sndWnd]_pcb
=============================================================================
