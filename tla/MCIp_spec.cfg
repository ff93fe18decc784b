CONSTANTS
    HostLittleEndian = TRUE
    CkBits = 2
    NoIface = NoIface
    UnicastStrs <- MCUnicastStrs
    NetmaskStrs <- MCMasks
    Garbage <- MCGarbage
    MaxIfaces = 1
    Datagrams <- MCDatagrams
SPECIFICATION Spec
INVARIANT IpAcceptsPerSpec
