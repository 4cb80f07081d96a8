----------------------------- MODULE CenterWire -----------------------------
(***************************************************************************)
(* A message of the centers on its way: SerializeToString of a copy of it,  *)
(* RpcSend and RpcRecv (or the datagram forms), ParseFromString.            *)
(***************************************************************************)
EXTENDS RpcFraming, CenterMessages

CONSTANTS
    Samples      \* pairs of the name of a message type and the calls that fill it

VARIABLES
    kind, m,     \* the message
    parsed       \* result of ParseFromString, or NotYet

vars == <<frame_vars, kind, m, parsed>>
NotYet == [ok |-> FALSE, m |-> <<>>]

Clear(k) ==
    CASE k = "LoadBalancerMetaData" -> LoadBalancerMetaDataClear
      [] k = "RpcClusterServer" -> RpcClusterServerClear
      [] k = "CenterResponseCluster" -> CenterResponseClusterClear
      [] k = "ClientWithCenter" -> ClientWithCenterClear
      [] OTHER -> CentersProtoClear

Set(k, x, i, v) ==
    CASE k = "LoadBalancerMetaData" -> LoadBalancerMetaDataSet(x, i, v)
      [] k = "RpcClusterServer" -> RpcClusterServerSet(x, i, v)
      [] k = "CenterResponseCluster" -> CenterResponseClusterSet(x, i, v)
      [] k = "ClientWithCenter" -> ClientWithCenterSet(x, i, v)
      [] OTHER -> CentersProtoSet(x, i, v)

\* A new message after "calls" of set_, mutable_ and add_: pairs of a field and a value.
Filled(k, calls) ==
    LET after[n \in 0 .. Len(calls)] ==
            IF n = 0 THEN Clear(k) ELSE Set(k, after[n - 1], calls[n][1], calls[n][2])
    IN after[Len(calls)]

Serialize(k, x) ==
    CASE k = "LoadBalancerMetaData" -> LoadBalancerMetaDataSerialize(x)
      [] k = "RpcClusterServer" -> RpcClusterServerSerialize(x)
      [] k = "CenterResponseCluster" -> CenterResponseClusterSerialize(x)
      [] k = "ClientWithCenter" -> ClientWithCenterSerialize(x)
      [] OTHER -> CentersProtoSerialize(x)

ByteSize(k, x) ==
    CASE k = "LoadBalancerMetaData" -> LoadBalancerMetaDataByteSize(x)
      [] k = "RpcClusterServer" -> RpcClusterServerByteSize(x)
      [] k = "CenterResponseCluster" -> CenterResponseClusterByteSize(x)
      [] k = "ClientWithCenter" -> ClientWithCenterByteSize(x)
      [] OTHER -> CentersProtoByteSize(x)

\* CopyFrom and the copy constructors.
CopyFrom(k, x) ==
    CASE k = "LoadBalancerMetaData" -> LoadBalancerMetaDataMergeFrom(Clear(k), x)
      [] k = "RpcClusterServer" -> RpcClusterServerMergeFrom(Clear(k), x)
      [] k = "CenterResponseCluster" -> CenterResponseClusterMergeFrom(Clear(k), x)
      [] k = "ClientWithCenter" -> ClientWithCenterMergeFrom(Clear(k), x)
      [] OTHER -> CentersProtoMergeFrom(Clear(k), x)

Parse(k, s) ==
    CASE k = "LoadBalancerMetaData" -> LoadBalancerMetaDataParse(s)
      [] k = "RpcClusterServer" -> RpcClusterServerParse(s)
      [] k = "CenterResponseCluster" -> CenterResponseClusterParse(s)
      [] k = "ClientWithCenter" -> ClientWithCenterParse(s)
      [] OTHER -> CentersProtoParse(s)

TypeOf ==
    [LoadBalancerMetaData |-> LoadBalancerMetaData, RpcClusterServer |-> RpcClusterServer,
     CenterResponseCluster |-> CenterResponseCluster, ClientWithCenter |-> ClientWithCenter,
     CentersProto |-> CentersProto]

\* What the setter of a field takes: numbers below 2^32 (clocks and times count seconds),
\* C++ strings, and the four bytes of a float.
Small(n) == n \div 268435456 < 16
Values(f) ==
    CASE f.wire = Varints -> {v \in f.valid : Small(v)}
      [] f.wire = Lengths -> {v \in Seq(0 .. 255) : Small(Len(v))}
      [] OTHER -> [1 .. 4 -> 0 .. 255]

\* The calls are for fields of the message, and nested messages are messages.
ASSUME SamplesAssumption ==
    \A x \in Samples :
        /\ x[1] \in DOMAIN TypeOf /\ Len(x[2]) \in Nat
        /\ \A n \in 1 .. Len(x[2]) :
              LET i == x[2][n][1]
                  v == x[2][n][2]
              IN /\ i \in DOMAIN TypeOf[x[1]] /\ v \in Values(TypeOf[x[1]][i])
                 /\ x[1] = "CentersProto" /\ i = 8 => RpcClusterServerParse(v).ok
                 /\ x[1] = "CentersProto" /\ i = 9 => LoadBalancerMetaDataParse(v).ok

Init ==
    /\ \E x \in Samples : kind = x[1] /\ m = Filled(x[1], x[2])
    /\ InitFraming(Serialize(kind, CopyFrom(kind, m)))
    /\ parsed = NotYet

ParseFromString ==
    /\ rpc = "done" /\ parsed = NotYet
    /\ ret >= 0
    /\ parsed' = Parse(kind, recv_info)
    /\ UNCHANGED <<frame_vars, kind, m>>

Next ==
    \/ FramingNext /\ UNCHANGED <<kind, m, parsed>>
    \/ ParseFromString

Spec == Init /\ [][Next]_vars
\* The receiver goes on reading, with whole reads if it can.
FairSpec == Spec /\ WF_vars(RecvWhole /\ UNCHANGED <<kind, m, parsed>>)
-----------------------------------------------------------------------------
(* Properties *)

\* ByteSize, which SerializeToString trusts for its buffer, is the length of what is
\* written, for a message and its copy.
SizeMatches == ByteSize(kind, m) = Len(data)

\* A message that fits in one frame is parsed as what was sent or refused, though RpcRecv
\* cuts it at its first 0 byte (a zero number or enum value, an empty string): the cut
\* always falls inside a field.
OneFrameNeverWrong ==
    short = 0 /\ Frames = 1 /\ RestLen # 0 /\ ret > 0 /\ parsed.ok => parsed.m = m

\* Without a 0 byte it is always parsed.
NulFreeParsed ==
    short = 0 /\ ~udp /\ NulFree /\ ret > 0 /\ parsed # NotYet => parsed.ok /\ parsed.m = m
=============================================================================
