# TLA+ models of the microps TCP engine and IP layer

This directory holds TLA+ models of `src/tcp.c` and `src/ip.c`, and the
TLC configurations that check them. `PROJECT.json` lists:

- the components;
- the runs and the properties each run checks;
- the mutants that show each property can fail;
- the map from every definition to the source lines it translates;
- the findings;
- the hazards.

## The system

`src/tcp.c` is a small TCP built over a global mutex.

* **PCB table.** `pcbs[TCP_PCB_SIZE]` is the table of connections.
  * `tcp_pcb_alloc` takes the first FREE slot.
  * `tcp_pcb_select` maps a segment's (local, foreign) endpoints to a PCB. It takes the first exact foreign match in slot order, else the last wildcard LISTEN PCB.
  * `tcp_pcb_release` destroys the wait context. If waiters exist, it wakes them and returns; otherwise it zeroes the slot.
* **Segment arrival.** `tcp_input` parses the header. It computes `seg.len` (the payload, plus one for SYN and one for FIN), then calls `tcp_segment_arrives` under the mutex. That function covers the RFC 793 3.9 subset:
  * LISTEN handles RST, ACK and SYN.
  * SYN_SENT drops the segment.
  * SYN_RECEIVED and ESTABLISHED apply the sequence-number check, then the ACK step (SYN_RECEIVED falls through to ESTABLISHED), then the text step. The text step copies the payload into `buf` at `sizeof(buf) - rcv.wnd`.
* **User commands.** They run on user threads, take the mutex, and may sleep in `sched_sleep`. That call releases the mutex and reacquires it on return.
  * `tcp_open_rfc793` (passive open) sleeps until the state of its PCB changes.
  * `tcp_send` emits segments of `min(mss, remaining, cap)` octets, where `cap = snd.wnd - (snd.nxt - snd.una)`. It sleeps when `cap = 0`.
  * `tcp_receive` sleeps while `buf` is empty.
  * `tcp_close` sends a RST and releases the PCB.
* **Segment emission.** `tcp_output` takes `seq` from `iss` for a SYN and from `snd.nxt` otherwise, and `ack`/window from `rcv.nxt`/`rcv.wnd`. `tcp_output_segment` builds the header and calls `ip_output`. Segment arrival replies with RST, RST|ACK, SYN|ACK or a bare ACK depending on the branch; `tcp_send` emits PSH|ACK; `tcp_close` emits RST. Nothing is queued for retransmission.
* **Event handler.** `event_handler` interrupts every sleeper on a non-FREE PCB.
* **Interactions.** The ingress path wakes sleepers in two cases: when SYN_RECEIVED becomes ESTABLISHED, and when data are stored. Every other interaction between the ingress path and the user threads goes through the shared PCB fields under the mutex.

The wait/wake context (`sched_ctx_*`) is not under `src/`. `Sched.tla` models it from the contract in spec.md section 5.

`src/ip.c` is the IPv4 layer below it:

* **Interface table.** Before `net_run`, the application calls `ip_iface_alloc(unicast, netmask)`. It parses both strings with `ip_addr_pton` (four `strtol` fields), ignores what the parses return, and derives `broadcast = (unicast & netmask) | ~netmask`. `ip_iface_register` then attaches the interface to a device, which may refuse it, and pushes it on the front of `ifaces`.
* **Ingress.** `ip_input` checks, in this order: the minimum length, the version, `len < hlen`, `len < total`, `cksum16` over `len` octets, fragmentation, that the device has an interface, and the destination (the unicast address, 255.255.255.255, or `unicast | 0xff000000`). A datagram that passes is logged by `ip_dump`, and the function returns. It is never handed to TCP.

## Modules

| Module | Models |
|---|---|
| `Sched.tla` | The `sched_ctx` operations, as operators on the thread states: `Waiters`, `CtxBusy` (`sched_ctx_destroy` fails), `SleepOn`, `Wakeup` (a broadcast) and `Interrupt`. A sleeping thread is `asleep`, `woken` (waiting for the mutex) or `intr` (will return -1). |
| `Tcp.tla` | The engine. |
| `MCTcp.tla` | Model values and small sets for TLC, and the thread symmetry. |
| `RecvStream.tla` | The abstract receive side of a connection, as spec.md promises it: a bounded buffer of the peer's octets in stream order. The actions are `Connect`, `Receive`, `Read` and `Disconnect`. |
| `IpAddr.tla` | Pure operators. `Strtol` covers white space, an optional sign and digits, and `end = start` when there are no digits. `Pton` stores each field as it is parsed, so a failure leaves the earlier ones in place. The module also has `Ntop` and `Broadcast`. `Canonical`, `Fields` and `AddrOf` are the reference reading of spec.md section 8. |
| `IpInput.tla` | `IpInputVerdict(d, iface)`: the check of `ip_input` that fails first, or `"dumped"`. |
| `IpIface.tla` | The interface table. `IfaceAlloc` does both parses over memory holding one of `Garbage`; `IfaceRegister` may fail or prepend. `IfaceSelect(addr)` is `ip_iface_select`, the first interface from the head whose unicast is `addr`. |
| `Ip.tla` | The IP layer composed: `Configure` (the actions of `IpIface`, by `INSTANCE`), `NetRun`, `IpInput(d)` against the device's interface, and `IpReturn`. |
| `MCIp.tla` | Strings, memory contents and datagrams for TLC. |

In `Tcp.tla`:

* **State.**
  * `pcb`: the table. Each record has the PCB fields the code uses; `buf` is a sequence.
  * `thr`: the command each thread is in. Its fields are the PCB id, the sleep state, and the saved state, `sent` and `len` locals.
  * `lock`: the thread that holds the mutex inside `tcp_send`'s loop.
  * `releasing`: PCBs whose release was deferred. This is history for one property.
  * `out`: the segment the last step handed to `ip_output` (or `{}`), with the emitting PCB (`by`) and the flags of the arrival it answers (`re`). No action reads it; the safety runs exclude it from state identity with `VIEW MCView`.
* **Actions.** Each action is one critical section, from taking the mutex (or returning from `sched_sleep`) to releasing it:
  * `SegmentArrives(seg)`: the whole of `tcp_input` plus `tcp_segment_arrives`. Its outcomes follow the code's branches: `NoConnection` (no PCB or CLOSED, `ResetReply`), `ListenSyn`, `ListenDrop`, `SyncSegment` (with `TextAck` after stored data) and `SyncDrop` (with `SyncReply`).
  * `OpenPassive` and `OpenResume`.
  * `RecvCall` and `RecvResume`.
  * `SendCall`, `SendStep` (one turn of the send loop) and `SendResume`.
  * `Close` and `EventHandler`.
  * `Close`, `RecvCall` and `SendCall` take an id from `CallIds` (every slot and one past each end) and go through `PcbGet`, which is `tcp_pcb_get`: no PCB for an id out of range or a FREE slot. That error return changes nothing, so it is a stutter. A caller may hold an id whose slot was released and reallocated, and the call then acts on the new connection. This is listed as a hazard.
* **Data abstraction.** An octet of the peer's stream is represented by its sequence number, so `buf` is a sequence of sequence numbers and reordering or duplication is visible. Sequence numbers are `SeqBits` wide and windows are `WndBits` wide; `BUF = 2^WndBits - 1` stands for 65535. The code's native `<` comparisons and its wrap-around arithmetic are kept. `random()` for the ISS is a choice from `IssValues`.
* **The peer.** The peer is the set `Arrivals` of segments that may arrive:
  * `InOrderPeer = TRUE`: SYNs, retransmitted SYNs, and ACKs at `rcv.nxt` whose data fit the window.
  * `InOrderPeer = FALSE` (a faulty peer or path): any flags, a sequence number at `rcv.nxt` or one octet off, ACKs that are old, repeated, of `iss` or beyond `snd.nxt`, and payloads larger than the window.
* **Refinement.** `Stream == INSTANCE RecvStream WITH stream <- [p \in Pcbs |-> StreamOf(p)]` maps a synchronized PCB to an open connection whose next octet is `rcv.nxt` and whose buffer is `buf`. Every other state maps to a closed one. `RecvRefinement == Stream!Spec` is checked as a property.
* **Emission.** `OutputSegment` and `Output` build the header fields as the code does; the checksum and the payload octets are abstracted to the payload length. `Emit` puts the segment in `out` when `ip_output` has a route to its destination (`Routed`); an `ip_output` failure in the send loop is the `TxMayFail` branch of `SendStep`. The peer does not read `out`: `Arrivals` is derived from the PCB state.

In the IP modules:

* **Datagrams.** A datagram is the record of the fields `ip_input` reads (`len`, `vhl`, `total`, `offset`, `dst`), plus two one's-complement sums on `CkBits`-bit words: `hsum` over the header octets present and `rsum` over the octets after the header, up to `len`. `cksum16` itself is not under `src/`; it follows spec.md section 4.1.
* **Byte order.** Addresses are 4-tuples of bytes in network order. The host's byte order is the constant `HostLittleEndian`, TRUE for an x86 build. It decides what `ntoh16(vhl) & 0x0f * 4` and `unicast | 0xff000000` compute.
* **Strings.** A string is a sequence of one-character strings.

## Runs

Passing runs:

| Run | Bounds | Checks | What it shows |
|---|---|---|---|
| inorder | 1 PCB, 2 threads, 3-bit seq, BUF = 3, payloads up to 2, send 1, recv 1 | `RcvWindowAccounting`, `RecvRefinement`, `NoLostRecvWakeup`, `AckAdvertisesFreeSpace` | With an in-order peer, the receive path implements `RecvStream`, keeps the window accounting, never leaves a receiver asleep with data in the buffer, and every ACK it sends carries `rcv.nxt` and the free space of `buf` after the step. About 198k states, under 3 minutes. |
| table | 3 PCBs, 2 peers, wildcard listeners, no data | `TupleUnique` | Opens, closes, interrupts and handshakes across slots never create two PCBs for one tuple when listeners are wildcards. |
| any | faulty peer, 1 peer, sends of 1 octet that may fail, no symmetry | `TypeOK`, `SeqSpaceContiguous`, `OpenReturns` | Every segment a connection emits other than a RST ends at `snd.nxt` (the SYN|ACK at `iss`, each PSH|ACK where the last ended); and a passive open returns once its connection is ESTABLISHED, even with a faulty peer. About 29k states. |
| ip | 10 unicast strings, /24 netmask, 2 memory contents, 5760 datagrams | `AcceptsOnlyWholeDatagrams`, `AcceptsOnlyOwn`, `CanonicalRoundTrip` | Whatever string configured the interface, `ip_input` accepts only whole, unfragmented IPv4 datagrams for its unicast address, the limited broadcast, or its broadcast. A canonical address parses and prints back unchanged. About 104k states. |

Violation runs. Each one shows a finding in `PROJECT.json`:

| Run | Property | What the code does |
|---|---|---|
| send_wakeup | `NoLostSendWakeup` | The ACK that opens the window does not wake a blocked `tcp_send` (tcp.c:513). |
| release | `ReleaseCompletes` | `tcp_close` with a waiter leaves the slot allocated until a later `tcp_close` of the same id; no waiter completes the release. The woken opener then returns the handle of a closed connection (tcp.c:170). |
| seq_wrap | `SeqCheckModular` | Native comparisons fail once `rcv.nxt + rcv.wnd` wraps, and the handshake stalls (tcp.c:437). |
| send_window | `SendWithinWindow` | `cap` underflows when the window shrinks, so data go past the peer's window (tcp.c:797). |
| tuple | `TupleUnique` | A LISTEN PCB for a specific peer in a lower slot captures an existing connection (tcp.c:195). |
| rcv_faulty | `RecvRefinement` | With a faulty peer, a segment that overlaps the window is appended whole (tcp.c:550). TLC reports the handshake's ACK carrying two octets from `irs`, one before `rcv.nxt`: both are stored, and the reader gets the SYN's sequence number as data. A segment one past `rcv.nxt` (a gap) and a payload longer than `rcv.wnd` also break the property, but TLC reports only the shortest counterexample. |
| rst_reply | `NoResetForReset` | In SYN_RECEIVED the RST check is empty: an RST\|ACK with an ack outside [snd.una, snd.nxt] is answered with a RST at `seg.ack`, and the half-open PCB stays SYN_RECEIVED (tcp.c:505). RFC 793 never answers a reset with a reset; spec.md 4.6 is silent on this case. |
| ip_spec | `IpAcceptsPerSpec` | From configuration to ingress, the IP layer does not accept exactly what spec.md accepts. TLC reports an interface configured from `"10.0.0"`: `ip_iface_alloc` ignores the parse failure, so the interface keeps the fields parsed before the failure (10, 0, 0) with `memory_alloc`'s contents in the fourth, and datagrams for that address are accepted. The other IP findings violate the same property, but TLC reports one counterexample only, so those behaviours are traced through the modules by hand and not shown by this run: the `hlen` precedence (ip.c:181), the checksum over `len` (ip.c:194), `unicast \| 0xff000000` under a /16 mask (ip.c:218), and non-canonical strings accepted by `strtol` (ip.c:42). |

## Bounds

Why the bounds are enough:

* **Numbers.** A 3-bit sequence space with ISS 3 and peer ISS 1 lets `snd.nxt` and `rcv.nxt` wrap inside the runs. `BUF = 3` with payloads of 1–2 octets reaches both a full buffer and a partly read one.
* **Threads.** Two threads are enough for every pair of roles (opener and closer, receiver and receiver, sender and receiver), and the sleep states are per thread.
* **PCBs.** Three PCBs give the slot-order cases of `tcp_pcb_select`: a listener before and after a connection.
* **IP.** Ten unicast strings are enough to cover every way `ip_addr_pton` ends: canonical, non-canonical but accepted, and rejected after 0 to 3 stored fields. Two memory contents make a partly parsed address visible. The datagrams take every check's both outcomes, including IHL 15 against `len` 20/24, MF alone, a non-zero offset alone, and every pair of 2-bit sums. The destinations are the unicast, the limited broadcast, the /24 and /16 broadcasts, another host, and the network address. `ip_input` keeps nothing between calls, so one datagram at a time (`IpInput`, then `IpReturn`) covers every sequence.
* **Symmetry.** Threads are interchangeable, so `ThreadSymmetry` is used in the safety runs. It is not used in the `any` run, which checks liveness. `out` is history that no action reads, so `VIEW MCView` leaves it out of state identity in `inorder` and `table`; the action properties on `out` are checked on every transition.

## Fairness

A woken thread eventually reacquires the mutex: `SF` on `OpenResume`, `RecvResume` and `SendResume`. The mutex may be taken by others in between, so weak fairness would not be justified. The thread in `tcp_send`'s loop keeps the mutex and runs: `WF` on `SendStep`.

No fairness is assumed for the peer, for interrupts or for new user calls. Nothing in the code makes them happen.

The IP runs check safety only and assume no fairness.

A receive-side liveness property was considered: a receiver beside unread octets eventually returns. Per thread it is false in the code. A second `tcp_receive` on the same id can take the octets while the first receiver is woken but waiting for the mutex, and the first then sleeps again (legal behaviour, not a defect). Stated per PCB (the octets are eventually read, or no receiver is left), it holds on a one-PCB in-order configuration. No existing run checks it, though: the in-order run needs `VIEW`, which is unsound for liveness, and without `VIEW` or with a faulty peer it exceeds the run time. The missed-wakeup half is the invariant `NoLostRecvWakeup`.

## Not modelled

* **TCP:**
  * The checksum of emitted segments and the payload octets they carry; dumps and logging.
  * Active open: it allocates and releases at once, a stuttering step.
  * The table-full error of open, a stuttering step.
  * A peer that reacts to emitted segments. The peer is the set of segments that may arrive, so the effect of the missing retransmission (a lost SYN|ACK stalls the open) and of an interrupted open that releases its SYN_RECEIVED PCB without a RST are listed as hazards without a property.
  * Malformed TCP headers (`hlen` larger than `len`, tcp.c:616). The payload length would wrap to a `size_t` near 2^64.
* **IP:**
  * `ip_dump`: logging only.
  * Upper-layer dispatch: the code has none. `ip_input` ends at `ip_dump`, so in this build no datagram reaches `tcp_input`. `Tcp.tla` models `tcp_input` as spec.md intends it to be reached.
