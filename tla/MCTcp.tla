------------------------------- MODULE MCTcp -------------------------------
(* Instances of Tcp for TLC: one interface address, two remote hosts of   *)
(* which one is routed, one listening port.                               *)
EXTENDS Tcp

CONSTANTS t1, t2, none

MCThreads == {t1, t2}
MCIfAddr == 1
MCPeers == {2, 3}
MCRouted == {2}
MCPeerPort == 5
MCPorts == {7}
\* tcp_open_rfc793 on port 7 of any address, or of the interface address
\* and for host 2 only.
MCLocalEps == {[addr |-> 0, port |-> 7]}
MCForeignEps == {Wildcard, [addr |-> 2, port |-> MCPeerPort]}
MCFlagSets == {{"SYN"}, {"ACK"}, {"RST"}, {"SYN", "ACK"}, {"ACK", "FIN"}}
\* As MCFlagSets, with a reset that carries an ACK.
MCFlagSetsRst == MCFlagSets \cup {{"RST", "ACK"}}
\* Every tcp_open_rfc793 leaves the foreign endpoint unspecified.
MCWildcardOnly == {Wildcard}
\* The threads are interchangeable in safety runs.
ThreadSymmetry == Permutations(MCThreads)
\* out is history: no action reads it, so states that differ only in the
\* segment the last step emitted are one state of the engine.
MCView == <<pcb, thr, lock, releasing>>
\* A single thread and a single remote host.
MCOneThread == {t1}
MCOnePeer == {2}
=============================================================================
