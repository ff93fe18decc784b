CONSTANTS
    HostLittleEndian = TRUE
    CkBits = 2
    NoIface = NoIface
    UnicastStrs <- MCUnicastStrs
    NetmaskStrs <- MCMask24
    Garbage <- MCGarbage
    MaxIfaces = 1
    Datagrams <- MCDatagrams
SPECIFICATION Spec
INVARIANT AcceptsOnlyWholeDatagrams
INVARIANT AcceptsOnlyOwn
INVARIANT CanonicalRoundTrip
