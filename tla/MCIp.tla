--------------------------------- MODULE MCIp ---------------------------------
EXTENDS Ip

Dot(a, b) == a \o <<".">> \o b
Quad(a, b, c, d) == Dot(Dot(Dot(a, b), c), d)
F0 == <<"0">>
F10 == <<"1", "0">>

\* Unicast strings: canonical ones (10.0.0.2, and 10.0.0.255 with a field
\* at the top of the range), forms strtol accepts that are not canonical
\* (a leading zero, white space, a sign, "-0"), and strings ip_addr_pton
\* rejects after storing some fields (a missing field, 256, an extra
\* field, a trailing character).
MCUnicastStrs ==
    {Quad(F10, F0, F0, <<"2">>), Quad(F10, F0, F0, <<"2", "5", "5">>),
     Quad(<<"0", "1", "0">>, F0, F0, <<"2">>), Quad(<<" ", "1", "0">>, F0, F0, <<"2">>),
     Quad(<<"+", "1", "0">>, F0, F0, <<"2">>), Quad(F10, F0, F0, <<"-", "0">>),
     Dot(Dot(F10, F0), F0), Quad(F10, F0, F0, <<"2", "5", "6">>),
     Dot(Quad(F10, F0, F0, <<"2">>), <<"1">>), Quad(F10, F0, F0, <<"2", "x">>)}

Mask24 == Quad(<<"2", "5", "5">>, <<"2", "5", "5">>, <<"2", "5", "5">>, F0)
Mask16 == Quad(<<"2", "5", "5">>, <<"2", "5", "5">>, F0, F0)

MCMask24 == {Mask24}
MCMasks == {Mask24, Mask16}

MCGarbage == {<<0, 0, 0, 0>>, <<7, 7, 7, 7>>}

\* Destinations: 10.0.0.2, the limited broadcast, the directed broadcasts
\* of 10.0.0.0/24 and 10.0.0.0/16, another host and the network address.
MCDsts == {<<10, 0, 0, 2>>, LimitedBroadcast, <<10, 0, 0, 255>>, <<10, 0, 255, 255>>,
           <<10, 0, 0, 3>>, <<10, 0, 0, 0>>}

\* vhl 0x45, 0x4f (IHL 15: a 60-octet header) and 0x65 (version 6);
\* offset 0, DF, MF and a fragment offset of 1.  Nothing follows a header
\* that fills len, so its rest sums to zero.
MCDatagrams ==
    {d \in [len : {16, 20, 24, 60}, vhl : {69, 79, 101}, total : {20, 24, 60},
            offset : {0, 16384, 8192, 1}, hsum : 0 .. Ones, rsum : 0 .. Ones,
            dst : MCDsts] :
        d.len <= HeaderLength(d) => d.rsum = 0}
=============================================================================
