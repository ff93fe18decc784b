CONSTANTS
    t1 = t1
    t2 = t2
    none = none
    NoThread = none
    Threads <- MCThreads
    NPcb = 3
    SeqBits = 3
    WndBits = 2
    IssValues = {3}
    IfAddr <- MCIfAddr
    Peers <- MCPeers
    Routed <- MCRouted
    PeerPort <- MCPeerPort
    Ports <- MCPorts
    LocalEps <- MCLocalEps
    ForeignEps <- MCWildcardOnly
    PeerIss = {1}
    FlagSets <- MCFlagSets
    MaxWnd = 2
    MaxPayload = 1
    MSS = 1
    MaxSend = 0
    MaxRecv = 0
    InOrderPeer = TRUE
    TxMayFail = TRUE
SPECIFICATION Spec
INVARIANT TupleUnique
SYMMETRY ThreadSymmetry
VIEW MCView
