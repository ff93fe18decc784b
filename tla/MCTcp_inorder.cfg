CONSTANTS
    t1 = t1
    t2 = t2
    none = none
    NoThread = none
    Threads <- MCThreads
    NPcb = 1
    SeqBits = 3
    WndBits = 2
    IssValues = {3}
    IfAddr <- MCIfAddr
    Peers <- MCPeers
    Routed <- MCRouted
    PeerPort <- MCPeerPort
    Ports <- MCPorts
    LocalEps <- MCLocalEps
    ForeignEps <- MCWildcardOnly
    PeerIss = {1}
    FlagSets <- MCFlagSets
    MaxWnd = 2
    MaxPayload = 2
    MSS = 1
    MaxSend = 1
    MaxRecv = 1
    InOrderPeer = TRUE
    TxMayFail = TRUE
SPECIFICATION Spec
INVARIANT RcvWindowAccounting
PROPERTY RecvRefinement
INVARIANT NoLostRecvWakeup
PROPERTY AckAdvertisesFreeSpace
SYMMETRY ThreadSymmetry
VIEW MCView
