---------------------------- MODULE MCCenterWire ----------------------------
EXTENDS CenterWire
MCIds == {-1, 0, 100}
Opt(S) == {<<>>} \union {<<x>> : x \in S}
A == <<65>>
Meta == {<<v, a>> : v \in Opt({0, 300}), a \in Opt({A, <<>>})}
Infos == {<<c, <<A>>, l, f, <<1>>>> : c \in Opt({1}), l \in Opt({0, 2000000000}), f \in Opt({<<0, 0, 1, 1>>})}
Resps == {<<<<1>>, s>> : s \in {<<>>, <<A>>, <<A, A, A>>}}
Clients == {<<a, <<1>>, s, t>> : a \in Opt({<<>>}), s \in {<<>>, <<A>>}, t \in {<<>>, <<A, <<66, 67>>>>}}
Protos == {<<<<A>>, <<s>>, <<a>>, <<1>>, <<1>>, <<c>>, l, i, b>> :
             s \in {0, 1}, a \in {0, 1}, c \in {0, 1}, l \in Opt({A}),
             i \in {<<>>, <<RpcClusterServerSerialize(<<<<1>>, <<A>>, <<>>, <<>>, <<>>>>)>>},
             b \in {<<>>, <<LoadBalancerMetaDataSerialize(<<<<7>>, <<A>>>>)>>}}
Calls(fields) == FlattenSeq([i \in DOMAIN fields |-> [j \in DOMAIN fields[i] |-> <<i, fields[i][j]>>]])
MCSamples ==
    UNION {{k} \X {Calls(f) : f \in
        CASE k = "LoadBalancerMetaData" -> Meta [] k = "RpcClusterServer" -> Infos
          [] k = "CenterResponseCluster" -> Resps [] k = "ClientWithCenter" -> Clients
          [] OTHER -> Protos} : k \in DOMAIN TypeOf}
=============================================================================
