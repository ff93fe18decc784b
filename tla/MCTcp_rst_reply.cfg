CONSTANTS
    t1 = t1
    t2 = t2
    none = none
    NoThread = none
    Threads <- MCThreads
    NPcb = 1
    SeqBits = 3
    WndBits = 2
    IssValues = {3}
    IfAddr <- MCIfAddr
    Peers <- MCOnePeer
    Routed <- MCRouted
    PeerPort <- MCPeerPort
    Ports <- MCPorts
    LocalEps <- MCLocalEps
    ForeignEps <- MCWildcardOnly
    PeerIss = {1}
    FlagSets <- MCFlagSetsRst
    MaxWnd = 2
    MaxPayload = 0
    MSS = 1
    MaxSend = 0
    MaxRecv = 0
    InOrderPeer = FALSE
    TxMayFail = TRUE
SPECIFICATION Spec
PROPERTY NoResetForReset
