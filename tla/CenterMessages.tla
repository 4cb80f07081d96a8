--------------------------- MODULE CenterMessages ---------------------------
(***************************************************************************)
(* The messages of the rpc centers as the generated classes encode them: a  *)
(* message is the sequence of its fields' values, a field the sequence of   *)
(* what was set in it (empty when it has not been set, at most one value    *)
(* unless it is repeated). A type lists the fields in the order of their    *)
(* numbers, which are 1, 2, ... in every message here. Bytes are numbers;   *)
(* strings, floats and nested messages are the sequences of their bytes.    *)
(***************************************************************************)
EXTENDS Integers, Sequences, SequencesExt, FiniteSetsExt

Varints == 0   \* wire types
Lengths == 2
Fixed32 == 5

\* A value outside "valid" is kept apart, as an unknown field.
Field(wire, repeated, valid) == [wire |-> wire, repeated |-> repeated, valid |-> valid]
Uint == Field(Varints, FALSE, Nat)
Enum(valid) == Field(Varints, FALSE, valid)
String == Field(Lengths, FALSE, Seq(Nat))
Strings == Field(Lengths, TRUE, Seq(Nat))
Float == Field(Fixed32, FALSE, Seq(Nat))

CenterStatus_IsValid == 0 .. 5
CenterAction_IsValid == 0 .. 7
ClusteAction_IsValid == 1 .. 2
ResponseClusterAction_IsValid == 1 .. 2
ClientClusterAction_IsValid == 1 .. 4

LoadBalancerMetaData == <<Uint, String>>
CentersProto == <<String, Enum(CenterStatus_IsValid), Enum(CenterAction_IsValid), Uint, Uint, Uint,
                  String, Strings, Strings>>
\* connection_num, the last field, is an int32; nothing sets it.
RpcClusterServer == <<Enum(ClusteAction_IsValid), String, Uint, Float, Uint>>
CenterResponseCluster == <<Enum(ResponseClusterAction_IsValid), Strings>>
ClientWithCenter == <<String, Enum(ClientClusterAction_IsValid), Strings, Strings>>
-----------------------------------------------------------------------------
(* The runtime library, as the generated code uses it *)

Varint[n \in Nat] == IF n < 128 THEN <<n>> ELSE <<128 + (n % 128)>> \o Varint[n \div 128]
\* For numbers below 2^35.
VarintSize(n) ==
    IF n < 128 THEN 1 ELSE IF n < 16384 THEN 2 ELSE IF n < 2097152 THEN 3
    ELSE IF n < 268435456 THEN 4 ELSE 5
VarintValue[s \in Seq(Nat)] == IF s = <<>> THEN 0 ELSE (Head(s) % 128) + 128 * VarintValue[Tail(s)]

Fail == [ok |-> FALSE]
Take(s, k) ==
    IF Len(s) < k THEN Fail
    ELSE [ok |-> TRUE, v |-> SubSeq(s, 1, k), rest |-> SubSeq(s, k + 1, Len(s))]

ReadVarint(s) ==
    LET ends == {i \in DOMAIN s : s[i] < 128} IN
    IF ends = {} THEN Fail
    ELSE LET bytes == Take(s, Min(ends)) IN [bytes EXCEPT !.v = VarintValue[bytes.v]]

\* Groups are not used, and a tag of field 0 or an end of group is no end of a message.
ReadValue(wire, s) ==
    CASE wire = Varints -> ReadVarint(s)
      [] wire = Lengths -> LET n == ReadVarint(s) IN IF n.ok THEN Take(n.rest, n.v) ELSE Fail
      [] wire = Fixed32 -> Take(s, 4)
      [] wire = 1 -> Take(s, 8)
      [] OTHER -> Fail

Encode(f, v) ==
    CASE f.wire = Varints -> Varint[v]
      [] f.wire = Lengths -> Varint[Len(v)] \o v
      [] OTHER -> v

Cleared(type) == [i \in DOMAIN type |-> <<>>]

\* set_ and mutable_ of a field, or add_ of a repeated one.
With(type, m, i, v) == [m EXCEPT ![i] = IF type[i].repeated THEN Append(@, v) ELSE <<v>>]

Serialized(type, m) ==
    FlattenSeq([i \in DOMAIN type |->
        FlattenSeq([j \in DOMAIN m[i] |-> <<8 * i + type[i].wire>> \o Encode(type[i], m[i][j])])])

FieldSize(f, v) ==
    1 + (CASE f.wire = Varints -> VarintSize(v)
           [] f.wire = Lengths -> VarintSize(Len(v)) + Len(v)
           [] OTHER -> 4)
Total(s) == LET t[n \in 0 .. Len(s)] == IF n = 0 THEN 0 ELSE t[n - 1] + s[n] IN t[Len(s)]
SizeOf(type, m) ==
    Total([i \in DOMAIN type |-> Total([j \in DOMAIN m[i] |-> FieldSize(type[i], m[i][j])])])

MutMerged(type, to, from) == [i \in DOMAIN type |-> IF from[i] # <<>> THEN from[i] ELSE to[i]]
\* A repeated field is appended to; another one is set if it is set in "from".
Merged(type, to, from) ==
    [i \in DOMAIN type |-> IF type[i].repeated THEN to[i] \o from[i]
                           ELSE IF from[i] # <<>> THEN from[i] ELSE to[i]]

\* Fields come in any order; those of another number or wire type are skipped.
Parsed(type, s) ==
    LET P[x \in Seq(Nat)] ==
        IF x = <<>> THEN [ok |-> TRUE, m |-> Cleared(type)]
        ELSE LET tag == ReadVarint(x)
                 n == tag.v \div 8
                 w == tag.v % 8
                 value == IF tag.ok /\ tag.v >= 8 THEN ReadValue(w, tag.rest) ELSE Fail
                 after == P[value.rest]
             IN IF ~value.ok THEN [ok |-> FALSE, m |-> Cleared(type)]
                ELSE IF n \in DOMAIN type /\ w = type[n].wire /\ value.v \in type[n].valid
                THEN [after EXCEPT !.m = Merged(type, With(type, Cleared(type), n, value.v), @)]
                ELSE after
    IN P[s]
-----------------------------------------------------------------------------
(* The generated methods *)

LoadBalancerMetaDataSet(m, i, v) == With(LoadBalancerMetaData, m, i, v)
LoadBalancerMetaDataSerialize(m) == Serialized(LoadBalancerMetaData, m)
LoadBalancerMetaDataByteSize(m) == SizeOf(LoadBalancerMetaData, m)
LoadBalancerMetaDataMergeFrom(a, b) == Merged(LoadBalancerMetaData, a, b)
LoadBalancerMetaDataClear == Cleared(LoadBalancerMetaData)
LoadBalancerMetaDataParse(s) == Parsed(LoadBalancerMetaData, s)

RpcClusterServerSet(m, i, v) == With(RpcClusterServer, m, i, v)
RpcClusterServerSerialize(m) == Serialized(RpcClusterServer, m)
RpcClusterServerByteSize(m) == SizeOf(RpcClusterServer, m)
RpcClusterServerMergeFrom(a, b) == Merged(RpcClusterServer, a, b)
RpcClusterServerClear == Cleared(RpcClusterServer)
RpcClusterServerParse(s) == Parsed(RpcClusterServer, s)

CenterResponseClusterSet(m, i, v) == With(CenterResponseCluster, m, i, v)
CenterResponseClusterSerialize(m) == Serialized(CenterResponseCluster, m)
CenterResponseClusterByteSize(m) == SizeOf(CenterResponseCluster, m)
CenterResponseClusterMergeFrom(a, b) == Merged(CenterResponseCluster, a, b)
CenterResponseClusterClear == Cleared(CenterResponseCluster)
CenterResponseClusterParse(s) == Parsed(CenterResponseCluster, s)

ClientWithCenterSet(m, i, v) == With(ClientWithCenter, m, i, v)
ClientWithCenterSerialize(m) == Serialized(ClientWithCenter, m)
ClientWithCenterByteSize(m) == SizeOf(ClientWithCenter, m)
ClientWithCenterMergeFrom(a, b) == Merged(ClientWithCenter, a, b)
ClientWithCenterClear == Cleared(ClientWithCenter)
ClientWithCenterParse(s) == Parsed(ClientWithCenter, s)

CentersProtoSet(m, i, v) == With(CentersProto, m, i, v)
CentersProtoSerialize(m) == Serialized(CentersProto, m)
MutCentersProtoByteSize(m) == SizeOf(SubSeq(CentersProto, 1, 8), m)
CentersProtoByteSize(m) == SizeOf(CentersProto, m)
CentersProtoMergeFrom(a, b) == Merged(CentersProto, a, b)
CentersProtoClear == Cleared(CentersProto)
MutCentersProtoParse(s) == [Parsed(CentersProto, s) EXCEPT !.m[9] = <<>>]
\* The nested messages of fields 8 and 9 must parse too.
CentersProtoParse(s) ==
    LET r == Parsed(CentersProto, s) IN
    [r EXCEPT !.ok = /\ @
                     /\ \A i \in DOMAIN r.m[8] : RpcClusterServerParse(r.m[8][i]).ok
                     /\ \A i \in DOMAIN r.m[9] : LoadBalancerMetaDataParse(r.m[9][i]).ok]
=============================================================================
