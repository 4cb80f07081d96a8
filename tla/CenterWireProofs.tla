-------------------------- MODULE CenterWireProofs --------------------------
(***************************************************************************)
(* Theorems about CenterWire: for messages of any length, filled by any     *)
(* calls of the setters, and for every BODY_SIZE, what RpcRecv ends with    *)
(* and what ParseFromString makes of it. Recursive definitions are shown to *)
(* have a value, and facts about sequences proved by induction, from the    *)
(* well-foundedness of < (Recursion, MeasureInduction).                     *)
(***************************************************************************)
EXTENDS CenterWire, WellFoundedInduction, SequenceTheorems, TLAPS

Whole == Len(data) \div Chunk    \* full bodies of the message

(* In front of frame r are r full bodies, and what was read is their text;  *)
(* the stream holds frames r to block - 1 one after the other.              *)
StreamAt(r) ==
    /\ r \in 0 .. block /\ r <= Whole
    /\ wire \in Seq(Int) /\ Len(wire) = (block - r) * MetaSize
    /\ \A b \in 0 .. block - r - 1 : \A p \in 1 .. MetaSize : wire[b * MetaSize + p] = MetaData(r + b)[p]
    /\ NulFree => recv_info = SubSeq(data, 1, r * Chunk)
    /\ r = 0 => recv_info = <<>>

(* Until RpcRecv ends, with whole reads only.                               *)
StreamInv == rpc = "recv" /\ ~udp /\ short = 0 => \E r \in Nat : StreamAt(r)

(* The datagrams on their way are frames that were sent.                    *)
DatagramInv ==
    rpc = "recv" /\ udp =>
        /\ wire \in Seq(Seq(Int))
        /\ \A i \in DOMAIN wire : \E b \in 0 .. block - 1 : wire[i] = MetaData(b)
        /\ Whole = 0 => recv_info = <<>>

(* What RpcRecv ended with: all of the message, or the one frame up to its  *)
(* first 0.                                                                 *)
DoneInv ==
    Completed /\ short = 0 =>
        /\ RestLen # 0
        /\ (udp => Whole = 0) => ret = TransferId /\ (NulFree => recv_info = data)
        /\ Whole = 0 => recv_info = SubSeq(data, 1, Strlen(data))

FrameTypes ==
    /\ data \in Seq(Nat) /\ id \in Int /\ udp \in BOOLEAN /\ short \in Nat
    /\ block \in 0 .. Frames /\ (block > 0 => udp \/ id >= 0)
    /\ rpc \in {"recv", "done"} /\ spc \in {"sending", "sent", "closed", "failed", "refused"}
    /\ rpc = "recv" => ret = 0

FrameInv == FrameTypes /\ StreamInv /\ DatagramInv /\ DoneInv
-----------------------------------------------------------------------------
(* Induction and recursion on a measure, and sequences *)

(* Induction: a set that holds x when it holds all of smaller measure holds *)
(* everything.                                                              *)
LEMMA MeasureInduction ==
    ASSUME NEW D, NEW mu \in [D -> Nat], NEW T,
           \A x \in D : (\A y \in D : mu[y] < mu[x] => y \in T) => x \in T
    PROVE  \A x \in D : x \in T
<1> SUFFICES ASSUME NEW z \in D, z \notin T PROVE FALSE
    OBVIOUS
<1> DEFINE S == {mu[x] : x \in D \ T}
<1>1. S \in SUBSET Nat /\ mu[z] \in S
    OBVIOUS
<1>2. PICK n \in S : \A k \in S : ~(<<k, n>> \in OpToRel(<, Nat))
    BY <1>1, WFMin, NatLessThanWellFounded
<1>3. PICK x \in D \ T : n = mu[x]
    OBVIOUS
<1>4. ASSUME NEW y \in D, mu[y] < mu[x], y \notin T PROVE FALSE
  <2>1. mu[y] \in S
    BY <1>4
  <2>2. ~(<<mu[y], n>> \in {ss \in Nat \X Nat : ss[1] < ss[2]})
    BY <1>2, <2>1 DEF OpToRel
  <2> QED BY <1>3, <1>4, <2>2
<1> QED BY <1>3, <1>4

(* F[x][g] is a value at x computed from the function g, of which it uses   *)
(* only arguments of smaller measure mu.                                    *)
Guarded(D, mu, V, F) ==
    /\ mu \in [D -> Nat] /\ V # {}
    /\ \A x \in D : \A g \in [D -> V] : F[x][g] \in V
    /\ \A x \in D : \A g, h \in [D -> V] :
          (\A y \in D : mu[y] < mu[x] => g[y] = h[y]) => F[x][g] = F[x][h]

(* f is the function that F defines.                                        *)
Computes(f, D, V, F) == f \in [D -> V] /\ \A x \in D : f[x] = F[x][f]

(* A guarded recursive definition, whose value at x depends only on values  *)
(* of smaller measure, has a solution.                                      *)
LEMMA Recursion ==
    ASSUME NEW D, NEW mu, NEW V, NEW F, Guarded(D, mu, V, F)
    PROVE  \E f : Computes(f, D, V, F)
<1> USE DEF Guarded
<1>v. PICK v0 \in V : TRUE
  OBVIOUS
<1> DEFINE Good(g, n) == g \in [D -> V] /\ \A x \in D : mu[x] < n => g[x] = F[x][g]
<1>1. ASSUME NEW n \in Nat, NEW g, NEW h, Good(g, n), Good(h, n)
      PROVE  \A x \in D : mu[x] < n => g[x] = h[x]
  <2> DEFINE T == {x \in D : mu[x] < n => g[x] = h[x]}
  <2>1. ASSUME NEW x \in D, \A y \in D : mu[y] < mu[x] => y \in T PROVE x \in T
    <3> SUFFICES ASSUME mu[x] < n PROVE g[x] = h[x]
      OBVIOUS
    <3>1. \A y \in D : mu[y] < mu[x] => g[y] = h[y]
      BY <2>1
    <3> QED BY <1>1, <3>1
  <2> HIDE DEF T
  <2>2. \A x \in D : x \in T
    BY <2>1, MeasureInduction
  <2> QED BY <2>2 DEF T
<1>2. \A n \in Nat : \E g : Good(g, n)
  <2> DEFINE T == {n \in Nat : \E g : Good(g, n)}
             idf == [n \in Nat |-> n]
  <2>1. ASSUME NEW n \in Nat, \A k \in Nat : idf[k] < idf[n] => k \in T PROVE n \in T
    <3>1. CASE n = 0
      <4>1. Good([x \in D |-> v0], n)
        BY <3>1
      <4> QED BY <4>1
    <3>2. CASE n # 0
      <4>1. n - 1 \in Nat /\ idf[n - 1] < idf[n]
        BY <3>2
      <4>2. PICK g : Good(g, n - 1)
        BY <2>1, <4>1
      <4> DEFINE h == [x \in D |-> F[x][g]]
      <4>3. h \in [D -> V] /\ \A x \in D : mu[x] < n - 1 => h[x] = g[x]
        BY <4>2
      <4>4. ASSUME NEW x \in D, mu[x] < n PROVE h[x] = F[x][h]
        <5>1. \A y \in D : mu[y] < mu[x] => g[y] = h[y]
          BY <4>3, <4>4
        <5>2. F[x][g] = F[x][h]
          BY <4>2, <4>3, <5>1
        <5> QED BY <5>2
      <4>5. Good(h, n)
        BY <4>3, <4>4
      <4> QED BY <4>5
    <3> QED BY <3>1, <3>2
  <2>2. idf \in [Nat -> Nat]
    OBVIOUS
  <2> HIDE DEF T, idf
  <2>3. \A n \in Nat : n \in T
    BY <2>1, <2>2, MeasureInduction
  <2> QED BY <2>3 DEF T
<1> DEFINE G == [n \in Nat |-> CHOOSE g : Good(g, n)]
           f == [x \in D |-> G[mu[x] + 1][x]]
<1>3. \A n \in Nat : Good(G[n], n)
  BY <1>2
<1> HIDE DEF G
<1>4. f \in [D -> V]
  BY <1>3
<1>5. ASSUME NEW x \in D PROVE f[x] = F[x][f]
  <2>1. G[mu[x] + 1] \in [D -> V] /\ G[mu[x] + 1][x] = F[x][G[mu[x] + 1]]
    BY <1>3
  <2>2. ASSUME NEW y \in D, mu[y] < mu[x] PROVE G[mu[x] + 1][y] = f[y]
    <3>0. mu[x] \in Nat /\ mu[y] \in Nat /\ mu[y] < mu[x]
      BY <2>2
    <3>1. Good(G[mu[x] + 1], mu[x] + 1) /\ Good(G[mu[y] + 1], mu[y] + 1)
      BY <1>3, <3>0
    <3>2. Good(G[mu[x] + 1], mu[y] + 1)
      BY <3>0, <3>1
    <3>3. mu[y] + 1 \in Nat /\ mu[y] < mu[y] + 1
      BY <3>0
    <3>4. G[mu[x] + 1][y] = G[mu[y] + 1][y]
      <4> HIDE DEF Good
      <4> QED BY <1>1, <3>1, <3>2, <3>3
    <3> QED BY <3>4
  <2> QED BY <1>4, <2>1, <2>2
<1> QED BY <1>4, <1>5 DEF Computes

(* Varint satisfies its recursion.                                          *)
LEMMA VarintDef ==
    ASSUME NEW n \in Nat
    PROVE  /\ Varint[n] \in Seq(Nat)
           /\ Varint[n] = IF n < 128 THEN <<n>> ELSE <<128 + (n % 128)>> \o Varint[n \div 128]
<1> DEFINE V == Seq(Nat)
           mu == [i \in Nat |-> i]
           Def(g, i) == IF i < 128 THEN <<i>> ELSE <<128 + (i % 128)>> \o g[i \div 128]
           F == [i \in Nat |-> [g \in [Nat -> V] |-> Def(g, i)]]
<1>0. \A i \in Nat : i >= 128 => i \div 128 \in Nat /\ i \div 128 < i /\ i % 128 \in Nat
    OBVIOUS
<1>1. \A i \in Nat : \A g \in [Nat -> V] : F[i][g] = Def(g, i)
    OBVIOUS
<1>2. \A i \in Nat : \A g \in [Nat -> V] : F[i][g] \in V
    BY <1>0
<1>3. \A i \in Nat : \A g, h \in [Nat -> V] :
         (\A y \in Nat : mu[y] < mu[i] => g[y] = h[y]) => F[i][g] = F[i][h]
    BY <1>0
<1>4. mu \in [Nat -> Nat] /\ <<>> \in V
    OBVIOUS
<1>5. PICK f : Computes(f, Nat, V, F)
  <2>1. Guarded(Nat, mu, V, F)
    <3> HIDE DEF F, mu, V
    <3> QED BY <1>2, <1>3, <1>4 DEF Guarded
  <2> HIDE DEF F, mu, V
  <2> QED BY <2>1, Recursion
<1>6. f = [i \in Nat |-> Def(f, i)]
    BY <1>1, <1>5 DEF Computes
<1>7. Varint = [i \in Nat |-> Def(Varint, i)]
    BY <1>6, ZenonT(40) DEF Varint
<1> DEFINE T == {i \in Nat : Varint[i] \in V}
<1>8. ASSUME NEW i \in Nat, \A k \in Nat : mu[k] < mu[i] => k \in T PROVE i \in T
  <2>1. Varint[i] = Def(Varint, i)
    BY <1>7
  <2>2. i >= 128 => Varint[i \div 128] \in V
    BY <1>0, <1>8
  <2>3. Def(Varint, i) \in V
    BY <1>0, <2>2
  <2> QED BY <2>1, <2>3
<1>9. \A i \in Nat : i \in T
  <2> HIDE DEF T, mu
  <2> QED BY <1>4, <1>8, MeasureInduction
<1> QED BY <1>7, <1>9

(* FlattenSeq is the last of the partial concatenations.                    *)
LEMMA FlattenRuns ==
    ASSUME NEW ss \in Seq(Seq(Nat)), ss # <<>>
    PROVE  \E f \in [1 .. Len(ss) -> Seq(Nat)] :
              /\ f[1] = ss[1] /\ \A i \in 2 .. Len(ss) : f[i] = f[i - 1] \o ss[i]
              /\ FlattenSeq(ss) = f[Len(ss)]
<1> DEFINE D == 1 .. Len(ss)
           V == Seq(Nat)
           mu == [i \in D |-> i]
           Def(g, i) == IF i = 1 THEN ss[i] ELSE g[i - 1] \o ss[i]
           F == [i \in D |-> [g \in [D -> V] |-> Def(g, i)]]
<1>0. /\ Len(ss) \in Nat /\ Len(ss) # 0 /\ \A i \in D : ss[i] \in V /\ i \in Nat
      /\ \A i \in D : i # 1 => i - 1 \in D /\ mu[i - 1] < mu[i]
    OBVIOUS
<1>c. \A a, b \in V : a \o b \in V
    BY ConcatProperties
<1>1. \A i \in D : \A g \in [D -> V] : F[i][g] = Def(g, i)
    OBVIOUS
<1>2. \A i \in D : \A g \in [D -> V] : F[i][g] \in V
  <2> SUFFICES ASSUME NEW i \in D, NEW g \in [D -> V] PROVE Def(g, i) \in V
    BY <1>1
  <2>1. ss[i] \in V /\ (i # 1 => g[i - 1] \in V)
    BY <1>0
  <2> HIDE DEF V
  <2> QED BY <1>c, <2>1
<1>3. \A i \in D : \A g, h \in [D -> V] :
         (\A y \in D : mu[y] < mu[i] => g[y] = h[y]) => F[i][g] = F[i][h]
  <2> SUFFICES ASSUME NEW i \in D, NEW g \in [D -> V], NEW h \in [D -> V],
                      \A y \in D : mu[y] < mu[i] => g[y] = h[y]
               PROVE  Def(g, i) = Def(h, i)
    BY <1>1, ZenonT(40)
  <2>1. i # 1 => g[i - 1] = h[i - 1]
    BY <1>0
  <2> QED BY <2>1
<1>4. mu \in [D -> Nat] /\ V # {}
    BY <1>0
<1>5. PICK f : Computes(f, D, V, F)
  <2> HIDE DEF F, mu, V, D
  <2>1. Guarded(D, mu, V, F)
    BY <1>2, <1>3, <1>4 DEF Guarded
  <2> QED BY <2>1, Recursion
<1>6. f = [i \in D |-> Def(f, i)]
    BY <1>1, <1>5 DEF Computes
<1> DEFINE flatten == CHOOSE g : g = [i \in D |-> Def(g, i)]
<1>7. flatten = [i \in D |-> Def(flatten, i)]
    BY <1>6
<1>8. FlattenSeq(ss) = flatten[Len(ss)]
    BY <1>0 DEF FlattenSeq
<1> HIDE DEF flatten
<1> DEFINE T == {i \in D : flatten[i] \in V}
<1>9. ASSUME NEW i \in D, \A k \in D : mu[k] < mu[i] => k \in T PROVE i \in T
  <2>1. flatten[i] = Def(flatten, i)
    BY <1>7
  <2>2. i # 1 => flatten[i - 1] \in V
    BY <1>0, <1>9
  <2>3. Def(flatten, i) \in V
    <3> HIDE DEF V
    <3> QED BY <1>c, <1>0, <2>2
  <2> QED BY <2>1, <2>3
<1>10. \A i \in D : i \in T
  <2> HIDE DEF T, mu, D
  <2> QED BY <1>4, <1>9, MeasureInduction
<1>11. flatten \in [D -> V]
    BY <1>7, <1>10
<1>12. flatten[1] = ss[1] /\ \A i \in 2 .. Len(ss) : flatten[i] = flatten[i - 1] \o ss[i]
  <2>1. \A i \in D : flatten[i] = Def(flatten, i)
    BY <1>7
  <2>2. 1 \in D /\ \A i \in 2 .. Len(ss) : i \in D /\ i # 1
    BY <1>0
  <2> HIDE DEF D
  <2> QED BY <2>1, <2>2
<1> QED BY <1>8, <1>11, <1>12

(* The numbers from a to b, upwards. *)
LEMMA UpTo ==
    ASSUME NEW a \in Int, NEW b \in Int, NEW T, a <= b => a \in T,
           \A i \in a .. b - 1 : i \in T => i + 1 \in T
    PROVE  \A i \in a .. b : i \in T
<1> DEFINE D == a .. b
           mu == [i \in D |-> i - a]
<1>1. mu \in [D -> Nat]
    OBVIOUS
<1>2. ASSUME NEW i \in D, \A k \in D : mu[k] < mu[i] => k \in T PROVE i \in T
  <2>1. CASE i = a
    BY <2>1
  <2>2. CASE i # a
    <3>1. i - 1 \in D /\ mu[i - 1] < mu[i] /\ i - 1 \in a .. b - 1 /\ (i - 1) + 1 = i
      BY <2>2
    <3>2. i - 1 \in T
      BY <1>2, <3>1
    <3> QED BY <3>1, <3>2
  <2> QED BY <2>1, <2>2
<1>3. \A i \in D : i \in T
  <2> HIDE DEF mu, D
  <2> QED BY <1>1, <1>2, MeasureInduction
<1> QED BY <1>3

(* Concatenation is associative.                                            *)
LEMMA Assoc ==
    ASSUME NEW a \in Seq(Nat), NEW b \in Seq(Nat), NEW c \in Seq(Nat)
    PROVE  (a \o b) \o c = a \o (b \o c)
BY ConcatAssociative, SMTT(30)

(* FlattenSeq of a sequence is its first part followed by FlattenSeq of the *)
(* others.                                                                  *)
LEMMA FlattenCons ==
    ASSUME NEW ss \in Seq(Seq(Nat)), NEW t \in Seq(Seq(Nat)), Len(ss) = Len(t) + 1,
           \A i \in 1 .. Len(t) : t[i] = ss[i + 1]
    PROVE  FlattenSeq(ss) = ss[1] \o FlattenSeq(t)
<1>0. Len(t) \in Nat /\ \A i \in 1 .. Len(ss) : ss[i] \in Seq(Nat)
    OBVIOUS
<1>1. ss # <<>>
    BY <1>0
<1>2. PICK f \in [1 .. Len(ss) -> Seq(Nat)] :
              /\ f[1] = ss[1] /\ \A i \in 2 .. Len(ss) : f[i] = f[i - 1] \o ss[i]
              /\ FlattenSeq(ss) = f[Len(ss)]
    BY <1>1, FlattenRuns
<1>3. CASE t = <<>>
  <2>1. FlattenSeq(t) = <<>> /\ Len(ss) = 1
    BY <1>3 DEF FlattenSeq
  <2>2. ss[1] \o <<>> = ss[1]
    BY <1>0, <2>1, ConcatEmptySeq
  <2> QED BY <1>2, <2>1, <2>2
<1>4. CASE t # <<>>
  <2>1. PICK g \in [1 .. Len(t) -> Seq(Nat)] :
              /\ g[1] = t[1] /\ \A i \in 2 .. Len(t) : g[i] = g[i - 1] \o t[i]
              /\ FlattenSeq(t) = g[Len(t)]
    BY <1>4, FlattenRuns
  <2>2. PICK n \in Nat \ {0} : n = Len(t)
    BY <1>4, EmptySeq
  <2> DEFINE T == {i \in 1 .. n : f[i + 1] = ss[1] \o g[i]}
  <2>3. 1 \in T
    <3>1. 2 \in 2 .. Len(ss) /\ 1 \in 1 .. n /\ 2 - 1 = 1 /\ 1 + 1 = 2
      BY <2>2
    <3>2. f[2] = f[1] \o ss[2]
      BY ONLY <1>2, <3>1
    <3>3. g[1] = ss[2]
      BY <2>1, <2>2, <3>1
    <3> QED BY ONLY <1>2, <3>1, <3>2, <3>3
  <2>4. ASSUME NEW i \in 1 .. n - 1, i \in T PROVE i + 1 \in T
    <3>1. /\ i \in 1 .. n /\ i + 1 \in 2 .. n /\ i + 2 \in 2 .. Len(ss) /\ (i + 2) - 1 = i + 1
          /\ (i + 1) - 1 = i /\ (i + 1) + 1 = i + 2 /\ i + 1 \in 1 .. n /\ i + 2 \in 1 .. Len(ss)
      BY <1>0, <2>2
    <3>2. f[i + 2] = (ss[1] \o g[i]) \o ss[i + 2]
      BY <1>2, <2>4, <3>1
    <3>3. g[i + 1] = g[i] \o ss[i + 2]
      BY <2>1, <2>2, <3>1, ZenonT(40)
    <3>4. g[i] \in Seq(Nat) /\ ss[i + 2] \in Seq(Nat) /\ ss[1] \in Seq(Nat)
      <4>1. 1 \in 1 .. Len(ss) /\ i \in 1 .. Len(t)
        BY <1>0, <2>2, <3>1
      <4> QED BY ONLY <1>0, <2>1, <3>1, <4>1
    <3>5. (ss[1] \o g[i]) \o ss[i + 2] = ss[1] \o (g[i] \o ss[i + 2])
      BY <3>4, Assoc
    <3> QED BY ONLY <3>1, <3>2, <3>3, <3>5
  <2> HIDE DEF T
  <2>5. \A i \in 1 .. n : i \in T
    <3>1. 1 \in Int /\ n \in Int
      BY <2>2
    <3> QED BY <2>3, <2>4, <3>1, UpTo
  <2>6. n \in 1 .. n
    BY <2>2
  <2>7. f[n + 1] = ss[1] \o g[n]
    BY ONLY <2>5, <2>6 DEF T
  <2> QED BY <1>2, <2>1, <2>2, <2>7
<1> QED BY <1>3, <1>4

(* FlattenSeq of byte sequences is a byte sequence.                         *)
LEMMA FlattenType ==
    ASSUME NEW ss \in Seq(Seq(Nat))
    PROVE  FlattenSeq(ss) \in Seq(Nat) /\ FlattenSeq(<<>>) = <<>>
<1>1. FlattenSeq(<<>>) = <<>>
    BY DEF FlattenSeq
<1>2. CASE ss # <<>>
  <2>1. Len(ss) \in 1 .. Len(ss)
    BY <1>2
  <2> QED BY <1>1, <1>2, <2>1, FlattenRuns
<1> QED BY <1>1, <1>2

(* Total is the last of the partial sums.                                   *)
LEMMA TotalRuns ==
    ASSUME NEW s \in Seq(Nat)
    PROVE  \E f \in [0 .. Len(s) -> Nat] :
              /\ f[0] = 0 /\ \A i \in 1 .. Len(s) : f[i] = f[i - 1] + s[i]
              /\ Total(s) = f[Len(s)]
<1> DEFINE D == 0 .. Len(s)
           V == Nat
           mu == [i \in D |-> i]
           Def(g, i) == IF i = 0 THEN 0 ELSE g[i - 1] + s[i]
           F == [i \in D |-> [g \in [D -> V] |-> Def(g, i)]]
<1>0. /\ Len(s) \in Nat /\ \A i \in D : i # 0 => s[i] \in Nat
      /\ \A i \in D : i # 0 => i - 1 \in D /\ mu[i - 1] < mu[i]
    OBVIOUS
<1>1. \A i \in D : \A g \in [D -> V] : F[i][g] = Def(g, i)
    OBVIOUS
<1>2. \A i \in D : \A g \in [D -> V] : F[i][g] \in V
  <2> SUFFICES ASSUME NEW i \in D, NEW g \in [D -> V] PROVE Def(g, i) \in V
    BY <1>1
  <2>1. i # 0 => g[i - 1] \in V
    BY <1>0
  <2> QED BY <1>0, <2>1
<1>3. \A i \in D : \A g, h \in [D -> V] :
         (\A y \in D : mu[y] < mu[i] => g[y] = h[y]) => F[i][g] = F[i][h]
  <2> SUFFICES ASSUME NEW i \in D, NEW g \in [D -> V], NEW h \in [D -> V],
                      \A y \in D : mu[y] < mu[i] => g[y] = h[y]
               PROVE  Def(g, i) = Def(h, i)
    BY <1>1
  <2>1. i # 0 => g[i - 1] = h[i - 1]
    BY <1>0
  <2> QED BY <2>1
<1>4. mu \in [D -> Nat] /\ V # {}
    BY <1>0
<1>5. PICK f : Computes(f, D, V, F)
  <2> HIDE DEF F, mu, V, D
  <2>1. Guarded(D, mu, V, F)
    BY <1>2, <1>3, <1>4 DEF Guarded
  <2> QED BY <2>1, Recursion
<1>6. f = [i \in D |-> Def(f, i)]
    BY <1>1, <1>5 DEF Computes
<1> DEFINE t == CHOOSE g : g = [i \in D |-> Def(g, i)]
<1>7. t = [i \in D |-> Def(t, i)]
    BY <1>6
<1>8. Total(s) = t[Len(s)]
    BY <1>0 DEF Total
<1> HIDE DEF t
<1> DEFINE T == {i \in D : t[i] \in V}
<1>9. ASSUME NEW i \in D, \A k \in D : mu[k] < mu[i] => k \in T PROVE i \in T
  <2>1. t[i] = Def(t, i)
    BY <1>7
  <2>2. i # 0 => t[i - 1] \in V
    BY <1>0, <1>9
  <2> QED BY <1>0, <2>1, <2>2
<1>10. \A i \in D : i \in T
  <2> HIDE DEF T, mu, D
  <2> QED BY <1>4, <1>9, MeasureInduction
<1>11. t \in [D -> V]
    BY <1>7, <1>10
<1>12. t[0] = 0 /\ \A i \in 1 .. Len(s) : t[i] = t[i - 1] + s[i]
  <2>1. \A i \in D : t[i] = Def(t, i)
    BY <1>7
  <2>2. 0 \in D /\ \A i \in 1 .. Len(s) : i \in D /\ i # 0
    BY <1>0
  <2> HIDE DEF D
  <2> QED BY <2>1, <2>2
<1> QED BY <1>8, <1>11, <1>12

(* The length of a concatenation is the Total of the lengths.               *)
LEMMA FlattenLen ==
    ASSUME NEW ss \in Seq(Seq(Nat)), NEW s \in Seq(Nat), Len(s) = Len(ss),
           \A i \in 1 .. Len(ss) : s[i] = Len(ss[i])
    PROVE  Len(FlattenSeq(ss)) = Total(s)
<1>1. PICK t \in [0 .. Len(s) -> Nat] :
              /\ t[0] = 0 /\ \A i \in 1 .. Len(s) : t[i] = t[i - 1] + s[i]
              /\ Total(s) = t[Len(s)]
    BY TotalRuns
<1>2. CASE ss = <<>>
  <2>1. FlattenSeq(ss) = <<>> /\ Len(s) = 0
    BY <1>2 DEF FlattenSeq
  <2> QED BY <1>1, <2>1
<1>3. CASE ss # <<>>
  <2>1. PICK f \in [1 .. Len(ss) -> Seq(Nat)] :
              /\ f[1] = ss[1] /\ \A i \in 2 .. Len(ss) : f[i] = f[i - 1] \o ss[i]
              /\ FlattenSeq(ss) = f[Len(ss)]
    BY <1>3, FlattenRuns
  <2>2. PICK n \in Nat \ {0} : n = Len(ss)
    BY <1>3, EmptySeq
  <2> DEFINE T == {i \in 1 .. n : Len(f[i]) = t[i]}
  <2>0. \A i \in 1 .. n : ss[i] \in Seq(Nat)
    BY <2>2
  <2>3. 1 \in T
    <3>1. t[1] = t[0] + s[1]
      <4>1. 1 \in 1 .. Len(s) /\ 1 - 1 = 0
        BY <2>2
      <4> QED BY ONLY <1>1, <4>1
    <3>2. s[1] = Len(ss[1]) /\ s[1] \in Nat
      BY <2>2
    <3> QED BY <1>1, <2>1, <2>2, <3>1, <3>2
  <2>4. ASSUME NEW i \in 1 .. n - 1, i \in T PROVE i + 1 \in T
    <3>1. /\ i \in 1 .. n /\ i + 1 \in 2 .. n /\ (i + 1) - 1 = i /\ i + 1 \in 1 .. n
      BY <2>2
    <3>2. f[i + 1] = f[i] \o ss[i + 1] /\ t[i + 1] = t[i] + s[i + 1]
      BY <1>1, <2>1, <2>2, <3>1
    <3>3. f[i] \in Seq(Nat) /\ ss[i + 1] \in Seq(Nat) /\ s[i + 1] = Len(ss[i + 1])
      BY <2>0, <2>1, <2>2, <3>1
    <3>4. Len(f[i] \o ss[i + 1]) = Len(f[i]) + Len(ss[i + 1])
      BY <3>3, ConcatProperties
    <3> QED BY <2>4, <3>1, <3>2, <3>3, <3>4
  <2> HIDE DEF T
  <2>5. \A i \in 1 .. n : i \in T
    <3>1. 1 \in Int /\ n \in Int
      BY <2>2
    <3> QED BY <2>3, <2>4, <3>1, UpTo
  <2>6. n \in 1 .. n
    BY <2>2
  <2>7. Len(f[n]) = t[n]
    BY ONLY <2>5, <2>6 DEF T
  <2> QED BY <1>1, <2>1, <2>2, <2>7
<1> QED BY <1>2, <1>3

(* A sequence cut in two: the lengths and elements of both parts.           *)
LEMMA Pieces ==
    ASSUME NEW s \in Seq(Nat), NEW k \in 0 .. Len(s)
    PROVE  /\ Len(s) \in Nat /\ DOMAIN s = 1 .. Len(s)
           /\ SubSeq(s, 1, k) \in Seq(Nat) /\ Len(SubSeq(s, 1, k)) = k
           /\ \A i \in 1 .. k : SubSeq(s, 1, k)[i] = s[i]
           /\ SubSeq(s, k + 1, Len(s)) \in Seq(Nat) /\ Len(SubSeq(s, k + 1, Len(s))) = Len(s) - k
           /\ \A i \in 1 .. Len(s) - k : SubSeq(s, k + 1, Len(s))[i] = s[k + i]
<1>1. Len(s) \in Nat /\ DOMAIN s = 1 .. Len(s) /\ \A i \in 1 .. Len(s) : s[i] \in Nat
    BY LenProperties, ElementOfSeq
<1>2. 1 \in Int /\ k \in Int /\ k + 1 \in Int /\ Len(s) \in Int
    BY <1>1
<1>3. (\A i \in 1 .. k : s[i] \in Nat) /\ (\A i \in k + 1 .. Len(s) : s[i] \in Nat)
    BY <1>1
<1>4. /\ SubSeq(s, 1, k) \in Seq(Nat) /\ Len(SubSeq(s, 1, k)) = (IF 1 <= k THEN k - 1 + 1 ELSE 0)
      /\ \A i \in 1 .. k - 1 + 1 : SubSeq(s, 1, k)[i] = s[1 + i - 1]
    BY <1>2, <1>3, SubSeqProperties
<1>5. /\ SubSeq(s, k + 1, Len(s)) \in Seq(Nat)
      /\ Len(SubSeq(s, k + 1, Len(s))) = (IF k + 1 <= Len(s) THEN Len(s) - (k + 1) + 1 ELSE 0)
      /\ \A i \in 1 .. Len(s) - (k + 1) + 1 : SubSeq(s, k + 1, Len(s))[i] = s[k + 1 + i - 1]
    BY <1>2, <1>3, SubSeqProperties
<1> DEFINE p == SubSeq(s, 1, k)
           q == SubSeq(s, k + 1, Len(s))
<1>6. p \in Seq(Nat) /\ q \in Seq(Nat)
    BY <1>4, <1>5
<1> HIDE DEF p, q
<1>7. Len(p) = k /\ \A i \in 1 .. k : p[i] = s[i]
  <2>1. k - 1 + 1 = k /\ (1 <= k \/ k = 0) /\ \A i \in 1 .. k : 1 + i - 1 = i
    BY <1>1
  <2> QED BY <1>4, <2>1 DEF p
<1>8. Len(q) = Len(s) - k /\ \A i \in 1 .. Len(s) - k : q[i] = s[k + i]
  <2>0. PICK n \in Nat : n = Len(s) /\ k \in 0 .. n
    BY <1>1
  <2>1. n - (k + 1) + 1 = n - k
    BY ONLY <2>0
  <2>2. k + 1 <= n \/ n - k = 0
    BY ONLY <2>0
  <2>3. \A i \in 1 .. n - k : k + 1 + i - 1 = k + i
    BY ONLY <2>0
  <2> QED BY <1>5, <2>0, <2>1, <2>2, <2>3 DEF q
<1> QED BY <1>1, <1>6, <1>7, <1>8 DEF p, q

(* The length and the elements of a concatenation.                          *)
LEMMA Joined ==
    ASSUME NEW a \in Seq(Nat), NEW b \in Seq(Nat)
    PROVE  /\ a \o b \in Seq(Nat) /\ Len(a \o b) = Len(a) + Len(b)
           /\ Len(a) \in Nat /\ Len(b) \in Nat /\ Len(a \o b) \in Nat
           /\ DOMAIN (a \o b) = 1 .. Len(a) + Len(b)
           /\ \A i \in 1 .. Len(a) : (a \o b)[i] = a[i]
           /\ \A i \in 1 .. Len(b) : (a \o b)[Len(a) + i] = b[i]
<1>1. /\ a \o b \in Seq(Nat) /\ Len(a \o b) = Len(a) + Len(b)
      /\ \A i \in 1 .. Len(a) + Len(b) : (a \o b)[i] = IF i <= Len(a) THEN a[i] ELSE b[i - Len(a)]
    BY ConcatProperties
<1>2. Len(a) \in Nat /\ Len(b) \in Nat /\ DOMAIN (a \o b) = 1 .. Len(a) + Len(b)
    BY <1>1, LenProperties
<1>3. \A i \in 1 .. Len(a) : (a \o b)[i] = a[i]
    BY <1>1, <1>2
<1>4. ASSUME NEW i \in 1 .. Len(b) PROVE (a \o b)[Len(a) + i] = b[i]
  <2>1. Len(a) + i \in 1 .. Len(a) + Len(b) /\ ~(Len(a) + i <= Len(a)) /\ (Len(a) + i) - Len(a) = i
    BY <1>2
  <2> QED BY <1>1, <2>1
<1> QED BY <1>1, <1>2, <1>3, <1>4

(* Sequences of equal length and elements are equal.                        *)
LEMMA Same ==
    ASSUME NEW s \in Seq(Nat), NEW t \in Seq(Nat), Len(s) = Len(t), \A i \in 1 .. Len(s) : s[i] = t[i]
    PROVE  s = t
BY SeqEqual

(* Of two sequences, one after the other, the first, the second, and what    *)
(* ends inside one of them. *)
LEMMA JoinedPieces ==
    ASSUME NEW a \in Seq(Nat), NEW b \in Seq(Nat)
    PROVE  /\ SubSeq(a \o b, 1, Len(a)) = a
           /\ SubSeq(a \o b, Len(a) + 1, Len(a \o b)) = b
           /\ \A k \in 0 .. Len(a) : SubSeq(a \o b, 1, k) = SubSeq(a, 1, k)
           /\ \A k \in 0 .. Len(b) : SubSeq(a \o b, 1, Len(a) + k) = a \o SubSeq(b, 1, k)
<1> DEFINE c == a \o b
<1>1. /\ c \in Seq(Nat) /\ Len(c) = Len(a) + Len(b) /\ Len(a) \in Nat /\ Len(b) \in Nat
      /\ \A i \in 1 .. Len(a) : c[i] = a[i]
      /\ \A i \in 1 .. Len(b) : c[Len(a) + i] = b[i]
    BY Joined
<1> HIDE DEF c
<1>2. SubSeq(c, 1, Len(a)) = a
  <2>1. Len(a) \in 0 .. Len(c)
    BY <1>1
  <2>2. SubSeq(c, 1, Len(a)) \in Seq(Nat) /\ Len(SubSeq(c, 1, Len(a))) = Len(a)
        /\ \A i \in 1 .. Len(a) : SubSeq(c, 1, Len(a))[i] = c[i]
    BY <1>1, <2>1, Pieces
  <2>3. \A i \in 1 .. Len(a) : SubSeq(c, 1, Len(a))[i] = a[i]
    BY <1>1, <2>2
  <2> QED BY <2>2, <2>3, Same
<1>3. SubSeq(c, Len(a) + 1, Len(c)) = b
  <2>1. Len(a) \in 0 .. Len(c)
    BY <1>1
  <2>2. /\ SubSeq(c, Len(a) + 1, Len(c)) \in Seq(Nat)
        /\ Len(SubSeq(c, Len(a) + 1, Len(c))) = Len(c) - Len(a)
        /\ \A i \in 1 .. Len(c) - Len(a) : SubSeq(c, Len(a) + 1, Len(c))[i] = c[Len(a) + i]
    BY <1>1, <2>1, Pieces
  <2>3. Len(c) - Len(a) = Len(b)
    BY <1>1
  <2>4. \A i \in 1 .. Len(b) : SubSeq(c, Len(a) + 1, Len(c))[i] = b[i]
    BY <1>1, <2>2, <2>3
  <2> QED BY <2>2, <2>3, <2>4, Same
<1>4. ASSUME NEW k \in 0 .. Len(a) PROVE SubSeq(c, 1, k) = SubSeq(a, 1, k)
  <2>1. k \in 0 .. Len(c)
    BY <1>1
  <2>2. SubSeq(c, 1, k) \in Seq(Nat) /\ Len(SubSeq(c, 1, k)) = k
        /\ \A i \in 1 .. k : SubSeq(c, 1, k)[i] = c[i]
    BY <1>1, <2>1, Pieces
  <2>3. SubSeq(a, 1, k) \in Seq(Nat) /\ Len(SubSeq(a, 1, k)) = k
        /\ \A i \in 1 .. k : SubSeq(a, 1, k)[i] = a[i]
    BY Pieces
  <2>4. \A i \in 1 .. k : SubSeq(c, 1, k)[i] = SubSeq(a, 1, k)[i]
    BY <1>1, <2>2, <2>3
  <2> QED BY <2>2, <2>3, <2>4, Same
<1>5. ASSUME NEW k \in 0 .. Len(b) PROVE SubSeq(c, 1, Len(a) + k) = a \o SubSeq(b, 1, k)
  <2>1. Len(a) + k \in 0 .. Len(c) /\ k \in Nat
    BY <1>1
  <2> DEFINE l == SubSeq(c, 1, Len(a) + k)
             p == SubSeq(b, 1, k)
  <2>2. l \in Seq(Nat) /\ Len(l) = Len(a) + k
        /\ \A i \in 1 .. Len(a) + k : l[i] = c[i]
    BY <1>1, <2>1, Pieces
  <2>3. p \in Seq(Nat) /\ Len(p) = k /\ \A i \in 1 .. k : p[i] = b[i]
    BY Pieces
  <2> HIDE DEF l, p
  <2>4. /\ a \o p \in Seq(Nat) /\ Len(a \o p) = Len(a) + k
        /\ \A i \in 1 .. Len(a) : (a \o p)[i] = a[i]
        /\ \A i \in 1 .. k : (a \o p)[Len(a) + i] = p[i]
    BY <2>3, Joined
  <2>5. ASSUME NEW i \in 1 .. Len(a) + k PROVE l[i] = (a \o p)[i]
    <3>1. CASE i <= Len(a)
      <4>1. i \in 1 .. Len(a)
        BY <1>1, <2>1, <3>1
      <4> QED BY <1>1, <2>2, <2>4, <4>1
    <3>2. CASE ~(i <= Len(a))
      <4>1. PICK j \in 1 .. k : i = Len(a) + j
        <5>1. i - Len(a) \in 1 .. k /\ i = Len(a) + (i - Len(a))
          BY <1>1, <2>1, <3>2
        <5> QED BY <5>1
      <4>2. j \in 1 .. Len(b)
        BY <1>1, <4>1
      <4> QED BY <1>1, <2>2, <2>3, <2>4, <4>1, <4>2, ZenonT(40)
    <3> QED BY <3>1, <3>2
  <2>6. l = a \o p
    BY <2>2, <2>4, <2>5, Same
  <2> QED BY <2>6 DEF l, p
<1> QED BY <1>2, <1>3, <1>4, <1>5 DEF c

(* A byte put before a sequence.                                            *)
LEMMA HeadAndTail ==
    ASSUME NEW a \in Nat, NEW b \in Seq(Nat)
    PROVE  /\ <<a>> \in Seq(Nat) /\ <<a>> \o b \in Seq(Nat) /\ <<a>> \o b # <<>>
           /\ Len(b) \in Nat /\ Len(<<a>> \o b) = Len(b) + 1
           /\ Head(<<a>> \o b) = a /\ Tail(<<a>> \o b) = b /\ (<<a>> \o b)[1] = a
           /\ \A i \in 1 .. Len(b) : (<<a>> \o b)[i + 1] = b[i]
<1> DEFINE c == <<a>> \o b
<1>1. <<a>> \in Seq(Nat) /\ Len(<<a>>) = 1 /\ <<a>>[1] = a
    OBVIOUS
<1>2. /\ c \in Seq(Nat) /\ Len(c) = 1 + Len(b) /\ Len(b) \in Nat
      /\ \A i \in 1 .. 1 : c[i] = <<a>>[i]
      /\ \A i \in 1 .. Len(b) : c[1 + i] = b[i]
    BY <1>1, Joined
<1> HIDE DEF c
<1>3. c # <<>> /\ Len(c) = Len(b) + 1 /\ c[1] = a
    BY <1>1, <1>2
<1>4. Tail(c) \in Seq(Nat) /\ Len(Tail(c)) = Len(c) - 1 /\ \A i \in 1 .. Len(Tail(c)) : Tail(c)[i] = c[i + 1]
    BY <1>2, <1>3, HeadTailProperties
<1>5. \A i \in 1 .. Len(b) : c[i + 1] = b[i]
  <2> SUFFICES ASSUME NEW i \in 1 .. Len(b) PROVE c[i + 1] = b[i]
    OBVIOUS
  <2>1. 1 + i = i + 1
    BY <1>2
  <2> QED BY <1>2, <2>1
<1>6. Tail(c) = b
  <2>1. Len(Tail(c)) = Len(b)
    BY <1>2, <1>4
  <2>2. \A i \in 1 .. Len(Tail(c)) : Tail(c)[i] = b[i]
    BY <1>4, <1>5, <2>1
  <2> QED BY <1>4, <2>1, <2>2, Same
<1>7. Head(c) = a
    BY <1>2, <1>3
<1> QED BY <1>1, <1>2, <1>3, <1>5, <1>6, <1>7 DEF c

-----------------------------------------------------------------------------
(* Arithmetic on frames, kept apart from the state. *)

(* A set of numbers that is not empty has a least one, which Min chooses.   *)
LEMMA MinIs ==
    ASSUME NEW S \in SUBSET Nat, S # {}
    PROVE  Min(S) \in S /\ \A y \in S : Min(S) <= y
<1>1. PICK x \in S : \A y \in S : ~(<<y, x>> \in OpToRel(<, Nat))
    BY WFMin, NatLessThanWellFounded
<1>2. ASSUME NEW y \in S PROVE x <= y
  <2>1. ~(<<y, x>> \in {ss \in Nat \X Nat : ss[1] < ss[2]})
    BY <1>1 DEF OpToRel
  <2>2. x \in Nat /\ y \in Nat
    OBVIOUS
  <2> QED BY <2>1, <2>2
<1> QED BY <1>2 DEF Min

(* Quotient and remainder. *)
LEMMA Division ==
    ASSUME NEW a \in Nat, NEW b \in Nat \ {0}
    PROVE  /\ a \div b \in Nat /\ a % b \in 0 .. b - 1
           /\ a = ((a \div b) * b) + (a % b)
OBVIOUS

(* The next multiple. *)
LEMMA NextMultiple ==
    ASSUME NEW b \in Int, NEW k \in Nat
    PROVE  (b + 1) * k = b * k + k /\ b * k \in Int /\ (b >= 0 => b * k >= 0)
OBVIOUS

(* A smaller multiple leaves room for one more. *)
LEMMA SmallerMultiple ==
    ASSUME NEW b \in Nat, NEW n \in Nat, b < n, NEW k \in Nat
    PROVE  b * k + k <= n * k
OBVIOUS

(* A place in the stream is in the first n frames or in the one that        *)
(* follows them.                                                            *)
LEMMA PlaceIsUnique ==
    ASSUME NEW n \in Nat, NEW k \in Nat \ {0}, NEW b \in 0 .. n, NEW p \in 1 .. k
    PROVE  b * k + p <= n * k <=> b < n
OBVIOUS

(* The constants, and the quotient and the remainder of the length.         *)
LEMMA Sizes ==
    ASSUME data \in Seq(Nat)
    PROVE  /\ Chunk \in Nat \ {0} /\ MetaSize = Chunk + 2 /\ MetaSize \in Nat \ {0}
           /\ BODY_SIZE = Chunk + 1 /\ BODY_SIZE \in Nat
           /\ Whole \in Nat /\ RestLen \in 0 .. Chunk - 1
           /\ Len(data) = Whole * Chunk + RestLen
           /\ Frames = IF RestLen = 0 THEN Whole ELSE Whole + 1
<1>1. Chunk \in Nat \ {0} /\ MetaSize = Chunk + 2 /\ MetaSize \in Nat \ {0}
      /\ BODY_SIZE = Chunk + 1 /\ BODY_SIZE \in Nat
    BY FramingAssumption DEF Chunk, MetaSize
<1>2. Len(data) \in Nat
    OBVIOUS
<1>3. Whole \in Nat /\ RestLen \in 0 .. Chunk - 1 /\ Len(data) = Whole * Chunk + RestLen
    BY <1>1, <1>2, Division DEF Whole, RestLen
<1>4. Frames = IF RestLen = 0 THEN Whole ELSE Whole + 1
    BY <1>3 DEF Frames, Whole
<1> QED BY <1>1, <1>3, <1>4

(* A code in front of a body.                                               *)
LEMMA CodeAndBody ==
    ASSUME NEW c \in Int, NEW n \in Nat, NEW body \in [1 .. n -> Nat]
    PROVE  /\ body \in Seq(Nat) /\ Len(body) = n
           /\ <<c>> \o body \in Seq(Int) /\ Len(<<c>> \o body) = n + 1
           /\ Head(<<c>> \o body) = c /\ Tail(<<c>> \o body) = body
<1>1. body \in Seq(Nat) /\ Len(body) = n
    OBVIOUS
<1>2. body \in Seq(Int) /\ <<c>> \in Seq(Int) /\ Len(<<c>>) = 1
    BY <1>1
<1>3. /\ <<c>> \o body \in Seq(Int) /\ Len(<<c>> \o body) = n + 1
      /\ Head(<<c>> \o body) = c
    BY <1>1, <1>2
<1>4. Tail(<<c>> \o body) = body
  <2> DEFINE t == Tail(<<c>> \o body)
  <2>1. <<c>> \o body # <<>>
    BY <1>3
  <2>2. t \in Seq(Int) /\ Len(t) = n /\ \A k \in 1 .. Len(t) : t[k] = (<<c>> \o body)[k + 1]
    BY <1>3, <2>1, HeadTailProperties
  <2>3. \A k \in 1 .. n : (<<c>> \o body)[k + 1] = body[k]
    BY <1>1, <1>2
  <2> QED BY <1>1, <1>2, <2>2, <2>3, SeqEqual
<1> QED BY <1>1, <1>3, <1>4

(* A MetaData is a code and a body, and the body holds Chunk bytes of the   *)
(* message and then 0.                                                      *)
LEMMA FrameFacts ==
    ASSUME data \in Seq(Nat), id \in Int, NEW i \in Nat
    PROVE  /\ MetaData(i) \in Seq(Int) /\ Len(MetaData(i)) = MetaSize
           /\ Head(MetaData(i)) = IF i = Whole THEN -TransferId ELSE i
           /\ Tail(MetaData(i)) \in Seq(Nat) /\ Len(Tail(MetaData(i))) = BODY_SIZE
           /\ \A j \in 1 .. BODY_SIZE : Tail(MetaData(i))[j] =
                IF j <= Chunk /\ i * Chunk + j <= Len(data) THEN data[i * Chunk + j] ELSE 0
<1> DEFINE code == IF i = Whole THEN -TransferId ELSE i
           body == [j \in 1 .. BODY_SIZE |->
                IF j <= Chunk /\ i * Chunk + j <= Len(data) THEN data[i * Chunk + j] ELSE 0]
<1>1. code \in Int
    BY DEF TransferId
<1>2. i * Chunk \in Nat
    BY Sizes, NextMultiple
<1>3. body \in [1 .. BODY_SIZE -> Nat]
  <2>1. ASSUME NEW j \in 1 .. BODY_SIZE, i * Chunk + j <= Len(data)
        PROVE  data[i * Chunk + j] \in Nat
    <3>1. PICK o \in Nat : o = i * Chunk + j
      BY <1>2, Sizes
    <3>2. o \in 1 .. Len(data)
      BY <1>2, <2>1, <3>1, Sizes
    <3> QED BY <3>1, <3>2
  <2> QED BY <2>1
<1>4. MetaData(i) = <<code>> \o body
    BY DEF MetaData, Whole
<1>5. \A j \in 1 .. BODY_SIZE : body[j] =
                IF j <= Chunk /\ i * Chunk + j <= Len(data) THEN data[i * Chunk + j] ELSE 0
    OBVIOUS
<1> HIDE DEF body, code
<1>6. /\ body \in Seq(Nat) /\ Len(body) = BODY_SIZE
      /\ MetaData(i) \in Seq(Int) /\ Len(MetaData(i)) = BODY_SIZE + 1
      /\ Head(MetaData(i)) = code /\ Tail(MetaData(i)) = body
  <2>1. BODY_SIZE \in Nat
    BY Sizes
  <2> QED BY <1>1, <1>3, <1>4, <2>1, CodeAndBody, SMTT(30)
<1> QED BY <1>5, <1>6 DEF code, MetaSize

(* A body of k + 1 bytes that holds n bytes of d, none of them 0, after the *)
(* first o: k bytes, or all that are left.                                  *)
Holds(body, k, d, o, n) ==
    /\ \A j \in DOMAIN d : d[j] # 0
    /\ n <= k /\ o + n <= Len(d) /\ (n < k => o + n = Len(d))
    /\ Len(body) = k + 1
    /\ \A j \in 1 .. k + 1 : body[j] = IF j <= k /\ o + j <= Len(d) THEN d[o + j] ELSE 0

(* They are what RpcRecv appends of the body.                               *)
LEMMA BodyText ==
    ASSUME NEW k \in Nat, NEW d \in Seq(Nat),
           NEW o \in Nat, NEW n \in Nat, NEW body \in Seq(Nat), Holds(body, k, d, o, n)
    PROVE  Strlen(body) = n /\ SubSeq(body, 1, n) = SubSeq(d, o + 1, o + n)
<1> USE DEF Holds
<1>1. PICK len \in Nat : len = Len(d)
    OBVIOUS
<1>2. \A j \in 1 .. len : d[j] \in Nat /\ d[j] # 0
    BY <1>1
<1>3. \A j \in 1 .. k + 1 : body[j] = 0 <=> j > n
  <2> SUFFICES ASSUME NEW j \in 1 .. k + 1 PROVE body[j] = 0 <=> j > n
    OBVIOUS
  <2>1. CASE j <= n
    <3>1. o + j \in 1 .. len /\ j <= k
      BY <1>1, <2>1
    <3> QED BY <1>1, <1>2, <2>1, <3>1
  <2>2. CASE j > n
    BY <1>1, <2>2
  <2> QED BY <2>1, <2>2
<1>4. Strlen(body) = n
  <2> DEFINE zeros == {j \in DOMAIN body : body[j] = 0}
  <2>1. zeros = {j \in 1 .. k + 1 : j > n}
    BY <1>3
  <2>2. n + 1 \in zeros /\ zeros \in SUBSET Nat /\ \A j \in zeros : n + 1 <= j
    BY <2>1
  <2>3. zeros # {} /\ Strlen(body) = Min(zeros) - 1
    BY <2>2 DEF Strlen
  <2> HIDE DEF zeros
  <2>4. Min(zeros) = n + 1
    <3>1. Min(zeros) \in zeros /\ \A y \in zeros : Min(zeros) <= y
      BY <2>2, <2>3, MinIs
    <3>2. Min(zeros) \in Nat
      BY <2>2, <3>1
    <3> QED BY <2>2, <3>1, <3>2
  <2> QED BY <2>3, <2>4
<1>5. SubSeq(body, 1, n) \in Seq(Nat) /\ Len(SubSeq(body, 1, n)) = n
      /\ \A j \in 1 .. n : SubSeq(body, 1, n)[j] = body[j]
  <2>1. \A j \in 1 .. n : body[j] \in Nat
    OBVIOUS
  <2> QED BY <2>1, SubSeqProperties
<1>6. SubSeq(d, o + 1, o + n) \in Seq(Nat) /\ Len(SubSeq(d, o + 1, o + n)) = n
      /\ \A j \in 1 .. n : SubSeq(d, o + 1, o + n)[j] = d[o + j]
  <2>1. \A j \in o + 1 .. o + n : d[j] \in Nat
    BY <1>1, <1>2
  <2>2. PICK a \in Int, b \in Int : a = o + 1 /\ b = o + n
    OBVIOUS
  <2>3. /\ SubSeq(d, a, b) \in Seq(Nat) /\ Len(SubSeq(d, a, b)) = IF a <= b THEN b - a + 1 ELSE 0
        /\ \A j \in 1 .. b - a + 1 : SubSeq(d, a, b)[j] = d[a + j - 1]
    BY <2>1, <2>2, SubSeqProperties
  <2>4. b - a + 1 = n /\ (~(a <= b) => n = 0) /\ \A j \in 1 .. n : a + j - 1 = o + j
    BY <2>2
  <2> QED BY <2>2, <2>3, <2>4
<1>7. \A j \in 1 .. n : body[j] = d[o + j]
  <2> SUFFICES ASSUME NEW j \in 1 .. n PROVE body[j] = d[o + j]
    OBVIOUS
  <2>1. j \in 1 .. k + 1 /\ j <= k /\ o + j <= Len(d)
    BY <1>1
  <2> QED BY <2>1
<1>8. SubSeq(body, 1, n) = SubSeq(d, o + 1, o + n)
    BY <1>5, <1>6, <1>7, SeqEqual
<1> QED BY <1>4, <1>8

(* The text of body is d up to its first 0.                                 *)
LEMMA CutText ==
    ASSUME NEW d \in Seq(Nat), NEW body \in Seq(Nat), Len(body) > Len(d),
           \A j \in 1 .. Len(body) : body[j] = IF j <= Len(d) THEN d[j] ELSE 0
    PROVE  /\ Strlen(d) \in 0 .. Len(d)
           /\ SubSeq(body, 1, Strlen(body)) = SubSeq(d, 1, Strlen(d))
<1>1. PICK l \in Nat, n \in Nat : /\ l = Len(d) /\ DOMAIN d = 1 .. l /\ n = Len(body) /\ DOMAIN body = 1 .. n
                                  /\ n > l
    BY LenProperties
<1>2. PICK zb : zb = {j \in DOMAIN body : body[j] = 0}
    OBVIOUS
<1>3. PICK zd : zd = {j \in DOMAIN d : d[j] = 0}
    OBVIOUS
<1>4. /\ zb \in SUBSET Nat /\ zd \in SUBSET Nat /\ l + 1 \in zb
      /\ \A j \in zb : j \in zd \/ j > l
      /\ \A j \in zd : j \in zb /\ j >= 1 /\ j <= l
  <2>1. \A j \in 1 .. n : body[j] = IF j <= l THEN d[j] ELSE 0
    BY <1>1
  <2>2. l + 1 \in 1 .. n /\ ~(l + 1 <= l) /\ \A j \in 1 .. l : j \in 1 .. n /\ j <= l
    BY <1>1
  <2>3. l + 1 \in zb
    BY <1>1, <1>2, <2>1, <2>2
  <2>4. ASSUME NEW j \in zb PROVE j \in zd \/ j > l
    <3>1. j \in 1 .. n /\ body[j] = 0
      BY <1>1, <1>2
    <3>2. CASE j <= l
      <4>1. j \in 1 .. l
        BY <3>1, <3>2
      <4> QED BY <1>1, <1>3, <2>1, <3>1, <3>2, <4>1
    <3> QED BY <1>1, <3>1, <3>2
  <2>5. ASSUME NEW j \in zd PROVE j \in zb /\ j >= 1 /\ j <= l
    <3>1. j \in 1 .. l /\ d[j] = 0
      BY <1>1, <1>3
    <3> QED BY <1>1, <1>2, <2>1, <2>2, <3>1
  <2> QED BY <1>1, <1>2, <1>3, <2>3, <2>4, <2>5
<1>5. PICK b \in Nat : b = Min(zb) /\ b \in zb /\ \A j \in zb : b <= j
    BY <1>4, MinIs
<1>6. Strlen(body) = b - 1
    BY <1>2, <1>4, <1>5 DEF Strlen
<1>7. Strlen(d) = b - 1 /\ b - 1 \in 0 .. l
  <2>1. CASE zd = {}
    <3>1. b = l + 1
      BY <1>4, <1>5, <2>1
    <3> QED BY <1>1, <1>3, <2>1, <3>1 DEF Strlen
  <2>2. CASE zd # {}
    <3>1. PICK c \in Nat : c = Min(zd) /\ c \in zd /\ \A j \in zd : c <= j
      BY <1>4, <2>2, MinIs
    <3>2. Strlen(d) = c - 1
      BY <1>3, <2>2, <3>1 DEF Strlen
    <3>3. b <= c /\ c <= l /\ c >= 1
      BY <1>4, <1>5, <3>1
    <3>4. b \in zd
      BY <1>4, <1>5, <3>3
    <3>5. c = b
      BY <3>1, <3>3, <3>4
    <3> QED BY <3>2, <3>3, <3>5
  <2> QED BY <2>1, <2>2
<1>8. PICK k \in 0 .. l : k = b - 1
    BY <1>7
<1>9. /\ SubSeq(body, 1, k) \in Seq(Nat) /\ Len(SubSeq(body, 1, k)) = k
      /\ \A i \in 1 .. k : SubSeq(body, 1, k)[i] = body[i]
  <2>1. k \in 0 .. Len(body)
    BY <1>1, <1>8
  <2> QED BY <2>1, Pieces
<1>10. /\ SubSeq(d, 1, k) \in Seq(Nat) /\ Len(SubSeq(d, 1, k)) = k
       /\ \A i \in 1 .. k : SubSeq(d, 1, k)[i] = d[i]
    BY <1>1, <1>8, Pieces
<1>11. \A i \in 1 .. k : body[i] = d[i]
  <2>1. \A i \in 1 .. k : i \in 1 .. n /\ i <= l
    BY <1>1, <1>8
  <2> QED BY <1>1, <2>1
<1>12. SubSeq(body, 1, k) = SubSeq(d, 1, k)
  <2> PICK p \in Seq(Nat) : p = SubSeq(body, 1, k)
    BY <1>9
  <2> PICK q \in Seq(Nat) : q = SubSeq(d, 1, k)
    BY <1>10
  <2>1. Len(p) = k /\ Len(q) = k /\ \A i \in 1 .. k : p[i] = q[i]
    BY <1>9, <1>10, <1>11
  <2>2. p = q
    BY <2>1, Same
  <2> QED BY <2>2
<1> QED BY <1>1, <1>6, <1>7, <1>8, <1>12

(* What is left of a sequence that is cut at its first 0.                   *)
LEMMA StrlenIs ==
    ASSUME NEW d \in Seq(Nat)
    PROVE  \/ (\A j \in DOMAIN d : d[j] # 0) /\ SubSeq(d, 1, Strlen(d)) = d
           \/ \E z \in 1 .. Len(d) : d[z] = 0 /\ Strlen(d) = z - 1
<1>1. PICK zeros : zeros = {j \in DOMAIN d : d[j] = 0}
    OBVIOUS
<1>2. Len(d) \in Nat /\ DOMAIN d = 1 .. Len(d)
    BY LenProperties
<1>3. CASE zeros = {}
  <2>1. Strlen(d) = Len(d)
    BY <1>1, <1>3 DEF Strlen
  <2>2. SubSeq(d, 1, Len(d)) = d
    BY SubSeqFull
  <2> QED BY <1>1, <1>3, <2>1, <2>2
<1>4. CASE zeros # {}
  <2>1. zeros \in SUBSET Nat
    BY <1>1, <1>2
  <2>2. PICK z : z = Min(zeros) /\ z \in zeros
    BY <1>4, <2>1, MinIs
  <2>3. Strlen(d) = z - 1
    BY <1>1, <1>4, <2>2 DEF Strlen
  <2>4. z \in 1 .. Len(d) /\ d[z] = 0
    BY <1>1, <1>2, <2>2
  <2> QED BY <2>3, <2>4
<1> QED BY <1>3, <1>4

(* The text of a message of one frame is cut at its first 0.                *)
LEMMA FirstText ==
    ASSUME data \in Seq(Nat), id \in Int, Whole = 0
    PROVE  /\ SubSeq(Tail(MetaData(0)), 1, Strlen(Tail(MetaData(0)))) = SubSeq(data, 1, Strlen(data))
           /\ <<>> \o SubSeq(data, 1, Strlen(data)) = SubSeq(data, 1, Strlen(data))
<1>1. PICK k \in Nat \ {0} : k = Chunk /\ BODY_SIZE = k + 1 /\ Len(data) < k /\ Len(data) \in Nat
  <2>1. Chunk \in Nat \ {0} /\ BODY_SIZE = Chunk + 1 /\ RestLen \in 0 .. Chunk - 1
        /\ Len(data) = 0 * Chunk + RestLen
    BY Sizes
  <2>2. 0 * Chunk = 0
    BY <2>1
  <2> QED BY <2>1, <2>2
<1>2. PICK body \in Seq(Nat) : body = Tail(MetaData(0)) /\ Len(body) = k + 1
    BY <1>1, FrameFacts
<1>3. \A j \in 1 .. k + 1 : body[j] = IF j <= k /\ 0 * Chunk + j <= Len(data) THEN data[0 * Chunk + j] ELSE 0
    BY <1>1, <1>2, FrameFacts
<1>4. \A j \in 1 .. k + 1 : body[j] = IF j <= Len(data) THEN data[j] ELSE 0
  <2>1. \A j \in 1 .. k + 1 : 0 * k + j = j /\ (j <= Len(data) => j <= k)
    BY <1>1
  <2> QED BY <1>1, <1>3, <2>1
<1>5. Len(body) > Len(data)
    BY <1>1, <1>2
<1>6. Strlen(data) \in 0 .. Len(data) /\ SubSeq(body, 1, Strlen(body)) = SubSeq(data, 1, Strlen(data))
    BY <1>2, <1>4, <1>5, CutText
<1>7. SubSeq(data, 1, Strlen(data)) \in Seq(Nat)
    BY <1>6, Pieces
<1>8. <<>> \o SubSeq(data, 1, Strlen(data)) = SubSeq(data, 1, Strlen(data))
    BY <1>7, ConcatEmptySeq
<1> QED BY <1>2, <1>6, <1>8

(* The text of frame i continues the text in front of it.                   *)
LEMMA TextGrows ==
    ASSUME data \in Seq(Nat), id \in Int, NulFree, NEW i \in Nat, i <= Whole
    PROVE  SubSeq(data, 1, i * Chunk) \o SubSeq(Tail(MetaData(i)), 1, Strlen(Tail(MetaData(i))))
             = IF i < Whole THEN SubSeq(data, 1, (i + 1) * Chunk) ELSE data
<1>1. PICK k \in Nat \ {0} : k = Chunk
    BY Sizes
<1>2. PICK w \in Nat : w = Whole
    BY Sizes
<1>3. PICK r \in 0 .. k - 1 : r = RestLen
    BY <1>1, Sizes
<1>4. PICK o \in Nat : o = i * k
    BY NextMultiple
<1>5. PICK len \in Nat : len = Len(data)
    OBVIOUS
<1>6. len = w * k + r /\ BODY_SIZE = k + 1
    BY <1>1, <1>2, <1>3, <1>5, Sizes
<1>7. PICK n \in 0 .. k : n = IF i < w THEN k ELSE r
    BY <1>3
<1>8. o + n <= len /\ (n < k => o + n = len) /\ (i < w => (i + 1) * k = o + n) /\ (i >= w => o + n = len)
  <2>1. CASE i < w
    <3>1. i * k + k <= w * k /\ (i + 1) * k = i * k + k
      BY <2>1, SmallerMultiple, NextMultiple
    <3>2. w * k \in Nat
      BY NextMultiple
    <3> QED BY <1>4, <1>6, <1>7, <2>1, <3>1, <3>2
  <2>2. CASE i = w
    BY <1>4, <1>6, <1>7, <2>2
  <2> QED BY <1>2, <2>1, <2>2
<1>9. SubSeq(Tail(MetaData(i)), 1, Strlen(Tail(MetaData(i)))) = SubSeq(data, o + 1, o + n)
  <2>1. PICK body \in Seq(Nat) : body = Tail(MetaData(i))
    BY FrameFacts
  <2>2. Len(body) = k + 1 /\ \A j \in 1 .. k + 1 : body[j] =
          IF j <= k /\ o + j <= Len(data) THEN data[o + j] ELSE 0
    BY <1>1, <1>4, <1>6, <2>1, FrameFacts
  <2>3. \A j \in DOMAIN data : data[j] # 0
    BY DEF NulFree
  <2>4. k \in Nat /\ n \in Nat /\ n <= k /\ o + n <= Len(data) /\ (n < k => o + n = Len(data))
    BY <1>5, <1>7, <1>8
  <2>5. Holds(body, k, data, o, n)
    BY <2>2, <2>3, <2>4 DEF Holds
  <2>6. Strlen(body) = n /\ SubSeq(body, 1, n) = SubSeq(data, o + 1, o + n)
    BY <2>4, <2>5, BodyText
  <2> QED BY <2>1, <2>6
<1>10. SubSeq(data, 1, o) \o SubSeq(data, o + 1, o + n) = SubSeq(data, 1, o + n)
  <2>1. 1 \in 1 .. Len(data) + 1 /\ o \in 1 - 1 .. Len(data) /\ o + n \in o .. Len(data)
    BY <1>5, <1>7, <1>8
  <2> QED BY <2>1, ConcatAdjacentSubSeq
<1>11. SubSeq(data, 1, Len(data)) = data
    BY SubSeqFull
<1>12. SubSeq(data, 1, i * Chunk) \o SubSeq(Tail(MetaData(i)), 1, Strlen(Tail(MetaData(i)))) = SubSeq(data, 1, o + n)
    BY <1>1, <1>4, <1>9, <1>10
<1>13. CASE i < Whole
    BY <1>1, <1>2, <1>8, <1>12, <1>13
<1>14. CASE ~(i < Whole)
  <2>1. o + n = Len(data)
    BY <1>2, <1>5, <1>8, <1>14
  <2> QED BY <1>11, <1>12, <1>14, <2>1
<1> QED BY <1>13, <1>14

-----------------------------------------------------------------------------
(* The stream and the datagrams *)

(* w is n frames of k units.                                                *)
Units(w, n, k) == w \in Seq(Int) /\ Len(w) = n * k

(* t is the n frames of w and then frame f.                                 *)
Longer(t, w, f, n, k) ==
    /\ Units(t, n + 1, k)
    /\ \A b \in 0 .. n - 1 : \A p \in 1 .. k : t[b * k + p] = w[b * k + p]
    /\ \A p \in 1 .. k : t[n * k + p] = f[p]

(* w is frame h and then the n - 1 frames of t.                             *)
Shorter(t, w, h, n, k) ==
    /\ h \in Seq(Int) /\ Len(h) = k /\ (\A p \in 1 .. k : h[p] = w[p])
    /\ Units(t, n - 1, k)
    /\ \A b \in 0 .. n - 2 : \A p \in 1 .. k : t[b * k + p] = w[(b + 1) * k + p]

(* A frame sent behind a stream of n frames.                                *)
LEMMA FrameAppended ==
    ASSUME NEW k \in Nat \ {0}, NEW n \in Nat, NEW w, Units(w, n, k), NEW f \in Seq(Int), Len(f) = k
    PROVE  Longer(w \o f, w, f, n, k)
<1> USE DEF Units, Longer
<1>1. PICK l \in Nat : l = n * k
    BY NextMultiple
<1>2. w \o f \in Seq(Int) /\ Len(w \o f) = l + k
      /\ \A q \in 1 .. l + k : (w \o f)[q] = IF q <= l THEN w[q] ELSE f[q - l]
  <2>1. Len(w) = l /\ Len(f) = k
    BY <1>1
  <2>2. /\ w \o f \in Seq(Int) /\ Len(w \o f) = Len(w) + Len(f)
        /\ \A q \in 1 .. Len(w) + Len(f) : (w \o f)[q] = IF q <= Len(w) THEN w[q] ELSE f[q - Len(w)]
    BY ConcatProperties
  <2> QED BY <2>1, <2>2
<1>3. (n + 1) * k = l + k
    BY <1>1, NextMultiple
<1>4. ASSUME NEW b \in 0 .. n - 1, NEW p \in 1 .. k
      PROVE  (w \o f)[b * k + p] = w[b * k + p]
  <2>1. b \in Int /\ k \in Nat /\ b \in 0 .. n /\ b < n
    OBVIOUS
  <2>2. PICK o \in Nat : o = b * k
    BY <2>1, NextMultiple
  <2>3. PICK q \in Nat : q = o + p
    OBVIOUS
  <2>4. q = b * k + p
    BY <2>2, <2>3
  <2>5. q <= l
    BY <1>1, <2>1, <2>4, PlaceIsUnique
  <2>6. q >= 1
    BY <2>3
  <2>7. w[q] = (w \o f)[q]
    BY <1>2, <2>5, <2>6
  <2> QED BY <2>4, <2>7
<1>5. ASSUME NEW p \in 1 .. k
      PROVE  (w \o f)[n * k + p] = f[p]
  <2>1. PICK q \in Nat : q = l + p
    OBVIOUS
  <2>2. q \in 1 .. l + k /\ ~(q <= l) /\ q - l = p
    BY <2>1
  <2>3. (w \o f)[q] = f[p]
    BY <1>2, <2>2
  <2> QED BY <1>1, <2>1, <2>3
<1> QED BY <1>2, <1>3, <1>4, <1>5

(* The first frame read from a stream of n frames.                          *)
LEMMA FrameTaken ==
    ASSUME NEW k \in Nat \ {0}, NEW n \in Nat \ {0}, NEW w, Units(w, n, k)
    PROVE  Shorter(SubSeq(w, k + 1, Len(w)), w, SubSeq(w, 1, k), n, k)
<1> USE DEF Units, Shorter
<1>1. PICK l \in Nat : l = (n - 1) * k
    BY NextMultiple
<1>2. Len(w) = l + k
  <2>1. n * k = (n - 1) * k + k
    BY NextMultiple
  <2> QED BY <1>1, <2>1
<1>3. \A q \in 1 .. l + k : w[q] \in Int
    BY <1>2
<1>4. SubSeq(w, 1, k) \in Seq(Int) /\ Len(SubSeq(w, 1, k)) = k
      /\ \A p \in 1 .. k : SubSeq(w, 1, k)[p] = w[p]
  <2>1. \A q \in 1 .. k : w[q] \in Int
    BY <1>3
  <2> QED BY <2>1, SubSeqProperties
<1> DEFINE t == SubSeq(w, k + 1, Len(w))
<1>5. t \in Seq(Int) /\ Len(t) = l /\ \A q \in 1 .. l : t[q] = w[k + q]
  <2>1. PICK a \in Int, e \in Int : a = k + 1 /\ e = l + k
    OBVIOUS
  <2>2. \A q \in a .. e : w[q] \in Int
    BY <1>3, <2>1
  <2>3. /\ SubSeq(w, a, e) \in Seq(Int) /\ Len(SubSeq(w, a, e)) = IF a <= e THEN e - a + 1 ELSE 0
        /\ \A q \in 1 .. e - a + 1 : SubSeq(w, a, e)[q] = w[a + q - 1]
    BY <2>2, SubSeqProperties
  <2>4. e - a + 1 = l /\ (~(a <= e) => l = 0) /\ \A q \in 1 .. l : a + q - 1 = k + q
    BY <2>1
  <2>5. t = SubSeq(w, a, e)
    BY <1>2, <2>1
  <2> QED BY <2>3, <2>4, <2>5
<1> HIDE DEF t
<1>6. ASSUME NEW b \in 0 .. n - 2, NEW p \in 1 .. k
      PROVE  t[b * k + p] = w[(b + 1) * k + p]
  <2>1. PICK q \in Nat : q = b * k + p
    BY NextMultiple
  <2>2. q <= l
    <3>1. n - 1 \in Nat /\ b \in 0 .. n - 1 /\ b < n - 1
      OBVIOUS
    <3> QED BY <1>1, <2>1, <3>1, PlaceIsUnique
  <2>3. q >= 1
    BY <2>1, NextMultiple
  <2>4. (b + 1) * k + p = k + q
    BY <2>1, NextMultiple
  <2> QED BY <1>5, <2>1, <2>2, <2>3, <2>4
<1> QED BY <1>1, <1>4, <1>5, <1>6 DEF t

(* What is left of a sequence was in it.                                    *)
LEMMA LeftWas ==
    ASSUME NEW S, NEW s \in Seq(S), NEW i \in DOMAIN s
    PROVE  /\ RemoveAt(s, i) \in Seq(S)
           /\ \A j \in DOMAIN RemoveAt(s, i) : \E q \in DOMAIN s : RemoveAt(s, i)[j] = s[q]
<1>1. PICK n \in Nat : n = Len(s)
    OBVIOUS
<1>2. i \in 1 .. n /\ DOMAIN s = 1 .. n /\ \A q \in 1 .. n : s[q] \in S
    BY <1>1
<1> DEFINE u == SubSeq(s, 1, i - 1)
           v == SubSeq(s, i + 1, n)
<1>3. u \in Seq(S) /\ Len(u) = i - 1 /\ \A q \in 1 .. i - 1 : u[q] = s[q]
  <2>1. \A q \in 1 .. i - 1 : s[q] \in S
    BY <1>2
  <2> QED BY <1>2, <2>1, SubSeqProperties
<1>4. v \in Seq(S) /\ Len(v) = n - i /\ \A q \in 1 .. n - i : v[q] = s[i + q]
  <2>1. PICK a \in Int : a = i + 1
    BY <1>2
  <2>2. \A q \in a .. n : s[q] \in S
    BY <1>2, <2>1
  <2>3. /\ SubSeq(s, a, n) \in Seq(S) /\ Len(SubSeq(s, a, n)) = IF a <= n THEN n - a + 1 ELSE 0
        /\ \A q \in 1 .. n - a + 1 : SubSeq(s, a, n)[q] = s[a + q - 1]
    BY <2>2, SubSeqProperties
  <2>4. n - a + 1 = n - i /\ (~(a <= n) => n - i = 0) /\ \A q \in 1 .. n - i : a + q - 1 = i + q
    BY <1>2, <2>1
  <2> QED BY <2>1, <2>3, <2>4
<1>5. RemoveAt(s, i) = u \o v
    BY <1>1 DEF RemoveAt
<1> HIDE DEF u, v
<1>6. u \o v \in Seq(S) /\ Len(u \o v) = n - 1
      /\ \A j \in 1 .. n - 1 : (u \o v)[j] = IF j <= i - 1 THEN u[j] ELSE v[j - (i - 1)]
  <2>1. PICK a \in Nat, e \in Nat : a = i - 1 /\ e = n - i
    BY <1>2
  <2>2. Len(u) = a /\ Len(v) = e /\ a + e = n - 1
    BY <1>2, <1>3, <1>4, <2>1
  <2>3. /\ u \o v \in Seq(S) /\ Len(u \o v) = Len(u) + Len(v)
        /\ \A j \in 1 .. Len(u) + Len(v) : (u \o v)[j] = IF j <= Len(u) THEN u[j] ELSE v[j - Len(u)]
    BY <1>3, <1>4, ConcatProperties
  <2> QED BY <2>1, <2>2, <2>3
<1>7. ASSUME NEW j \in 1 .. n - 1 PROVE \E q \in 1 .. n : (u \o v)[j] = s[q]
  <2>1. CASE j <= i - 1
    BY <1>2, <1>3, <1>6, <2>1
  <2>2. CASE ~(j <= i - 1)
    <3>1. PICK q \in 1 .. n - i : q = j - (i - 1)
      BY <1>2, <2>2
    <3>2. i + q \in 1 .. n
      BY <1>2, <3>1
    <3> QED BY <1>4, <1>6, <2>2, <3>1, <3>2
  <2> QED BY <2>1, <2>2
<1>8. DOMAIN RemoveAt(s, i) = 1 .. n - 1
    BY <1>5, <1>6, <1>2
<1> QED BY <1>2, <1>5, <1>6, <1>7, <1>8

-----------------------------------------------------------------------------
(* The steps *)

(* What is to be sent does not change.                                      *)
LEMMA SameMessage ==
    FramingNext => /\ UNCHANGED <<data, id, udp, Whole, RestLen, Frames, TransferId, NulFree>>
                   /\ \A i : MetaData(i)' = MetaData(i)
<1> SUFFICES ASSUME FramingNext
             PROVE  /\ UNCHANGED <<data, id, udp, Whole, RestLen, Frames, TransferId, NulFree>>
                    /\ \A i : MetaData(i)' = MetaData(i)
    OBVIOUS
<1>1. UNCHANGED <<data, id, udp>>
    BY DEF FramingNext, SendRefused, SendFrame, SendReturns, SendFails, RpcRecv, RecvClosed,
           RecvError, RpcRecvFrom, LoseDatagram
<1>2. UNCHANGED <<Whole, RestLen, TransferId, NulFree>>
    BY <1>1 DEF Whole, RestLen, TransferId, NulFree
<1>3. Frames' = Frames
    BY <1>1 DEF Frames, RestLen
<1>4. ASSUME NEW i PROVE MetaData(i)' = MetaData(i)
    BY <1>1 DEF MetaData, TransferId
<1> QED BY <1>1, <1>2, <1>3, <1>4

(* Every step keeps the types, and a frame is sent only if there is one.    *)
LEMMA TypesStep == FrameTypes /\ FramingNext => FrameTypes'
<1> SUFFICES ASSUME FrameTypes, FramingNext PROVE FrameTypes'
    OBVIOUS
<1>1. UNCHANGED <<data, id, udp, Frames>>
    BY SameMessage
<1>2. Frames \in Nat
    BY Sizes DEF FrameTypes
<1> USE <1>1, <1>2 DEF FrameTypes
<1>3. CASE SendRefused \/ SendReturns \/ SendFails
    BY <1>3 DEF SendRefused, SendReturns, SendFails, AfterSend
<1>4. CASE SendFrame
    BY <1>4 DEF SendFrame
<1>5. ASSUME NEW n \in 1 .. MetaSize, RpcRecv(n) PROVE FrameTypes'
    BY <1>5 DEF RpcRecv, Received
<1>6. CASE RecvClosed \/ RecvError
    BY <1>6 DEF RecvClosed, RecvError
<1>7. ASSUME NEW i \in DOMAIN wire, RpcRecvFrom(i) \/ LoseDatagram(i) PROVE FrameTypes'
    BY <1>7 DEF RpcRecvFrom, LoseDatagram, Received
<1> QED BY <1>3, <1>4, <1>5, <1>6, <1>7 DEF FramingNext

(* A frame that was sent ends the message or not, and its id is positive.   *)
LEMMA SentFrame ==
    ASSUME FrameTypes, NEW i \in Nat, i < block
    PROVE  /\ i <= Whole /\ (i = Whole => RestLen # 0)
           /\ TransferId \in Nat \ {0}
           /\ Head(MetaData(i)) < 0 <=> i = Whole
           /\ i = Whole => -Head(MetaData(i)) = TransferId
<1>1. i <= Whole /\ (i = Whole => RestLen # 0)
    BY Sizes, SMTT(30) DEF FrameTypes
<1>2. TransferId \in Nat \ {0}
    BY DEF FrameTypes, TransferId
<1>3. Head(MetaData(i)) = IF i = Whole THEN -TransferId ELSE i
    BY FrameFacts DEF FrameTypes
<1> QED BY <1>1, <1>2, <1>3

(* SendFrame writes the next frame behind those in the stream.              *)
LEMMA SendFrameStep == FrameInv /\ FramingNext /\ SendFrame => StreamInv' /\ DatagramInv'
<1> SUFFICES ASSUME FrameInv, FramingNext, SendFrame PROVE StreamInv' /\ DatagramInv'
    OBVIOUS
<1>1. data \in Seq(Nat) /\ id \in Int /\ block \in Nat
    BY Sizes DEF FrameInv, FrameTypes
<1>2. block' = block + 1 /\ UNCHANGED <<rpc, recv_info, short>>
    BY DEF SendFrame
<1>3. MetaData(block) \in Seq(Int) /\ Len(MetaData(block)) = MetaSize
    BY <1>1, FrameFacts
<1>4. ASSUME rpc = "recv", ~udp, short = 0 PROVE \E r \in Nat : StreamAt(r)'
  <2>1. PICK r \in Nat : StreamAt(r)
    BY <1>4 DEF FrameInv, StreamInv
  <2>2. PICK n \in Nat : n = block - r
    BY <1>1, <2>1 DEF StreamAt
  <2>3. wire \in Seq(Int) /\ Len(wire) = n * MetaSize /\ wire' = wire \o MetaData(block)
    BY <1>4, <2>1, <2>2 DEF StreamAt, SendFrame
  <2>4. /\ wire' \in Seq(Int) /\ Len(wire') = (n + 1) * MetaSize
        /\ \A b \in 0 .. n - 1 : \A p \in 1 .. MetaSize : wire'[b * MetaSize + p] = wire[b * MetaSize + p]
        /\ \A p \in 1 .. MetaSize : wire'[n * MetaSize + p] = MetaData(block)[p]
    <3>1. MetaSize \in Nat \ {0} /\ Units(wire, n, MetaSize)
      BY <1>1, <2>3, Sizes DEF Units
    <3>2. Longer(wire', wire, MetaData(block), n, MetaSize)
      BY <1>3, <2>3, <3>1, FrameAppended
    <3> QED BY <3>2 DEF Longer, Units
  <2>5. ASSUME NEW b \in 0 .. n, NEW p \in 1 .. MetaSize
        PROVE  wire'[b * MetaSize + p] = MetaData(r + b)[p]
    <3>1. CASE b = n
      <4>1. r + b = block
        BY <1>1, <2>2, <3>1
      <4> QED BY <2>4, <3>1, <4>1
    <3>2. CASE b # n
      <4>1. b \in 0 .. n - 1 /\ b \in 0 .. block - r - 1
        BY <2>2, <3>2
      <4>2. wire[b * MetaSize + p] = MetaData(r + b)[p]
        BY <2>1, <4>1 DEF StreamAt
      <4> QED BY <2>4, <4>1, <4>2
    <3> QED BY <3>1, <3>2
  <2>6. block' - r = n + 1 /\ block' - r - 1 = n /\ r \in 0 .. block'
    BY <1>1, <1>2, <2>2
  <2>7. r <= Whole /\ (NulFree => recv_info = SubSeq(data, 1, r * Chunk)) /\ (r = 0 => recv_info = <<>>)
    BY <2>1 DEF StreamAt
  <2>8. (r <= Whole)' /\ (NulFree => recv_info = SubSeq(data, 1, r * Chunk))' /\ (r = 0 => recv_info = <<>>)'
    BY <1>2, <2>7, SameMessage
  <2>9. (r \in 0 .. block /\ wire \in Seq(Int) /\ Len(wire) = (block - r) * MetaSize)'
    BY <2>4, <2>6
  <2>10. (\A b \in 0 .. block - r - 1 : \A p \in 1 .. MetaSize : wire[b * MetaSize + p] = MetaData(r + b)[p])'
    BY <2>5, <2>6, SameMessage
  <2>11. StreamAt(r)'
    BY <2>8, <2>9, <2>10 DEF StreamAt
  <2> QED BY <2>11
<1>5. ASSUME rpc = "recv", udp PROVE DatagramInv'
  <2>1. wire' = Append(wire, MetaData(block)) /\ wire \in Seq(Seq(Int))
        /\ (\A i \in DOMAIN wire : \E b \in 0 .. block - 1 : wire[i] = MetaData(b))
        /\ (Whole = 0 => recv_info = <<>>)
    BY <1>5 DEF FrameInv, DatagramInv, SendFrame
  <2>2. PICK n \in Nat : n = Len(wire) /\ DOMAIN wire = 1 .. n
    BY <2>1
  <2>3. wire' \in Seq(Seq(Int)) /\ DOMAIN wire' = 1 .. n + 1
        /\ \A i \in 1 .. n + 1 : wire'[i] = IF i = n + 1 THEN MetaData(block) ELSE wire[i]
    BY <1>3, <2>1, <2>2, AppendProperties
  <2>4. ASSUME NEW i \in 1 .. n + 1 PROVE \E b \in 0 .. block : wire'[i] = MetaData(b)
    <3>1. CASE i = n + 1
      BY <1>1, <2>3, <3>1
    <3>2. CASE i # n + 1
      <4>1. i \in DOMAIN wire
        BY <2>2, <3>2
      <4>2. PICK b \in 0 .. block - 1 : wire[i] = MetaData(b)
        BY <2>1, <4>1
      <4>3. b \in 0 .. block
        BY <1>1
      <4> QED BY <2>3, <3>2, <4>2, <4>3
    <3> QED BY <3>1, <3>2
  <2>5. block' - 1 = block
    BY <1>1, <1>2
  <2>6. \A i \in DOMAIN wire' : \E b \in 0 .. block' - 1 : wire'[i] = MetaData(b)'
    BY <2>3, <2>4, <2>5, SameMessage
  <2>7. (Whole = 0 => recv_info = <<>>)'
    BY <1>2, <2>1, SameMessage
  <2> QED BY <2>3, <2>6, <2>7 DEF DatagramInv
<1>6. StreamInv'
    BY <1>2, <1>4, SameMessage DEF StreamInv
<1>7. DatagramInv'
    BY <1>2, <1>5, SameMessage DEF DatagramInv
<1> QED BY <1>6, <1>7

(* A whole read takes frame r: it ends the message, or frame r + 1 is next. *)
LEMMA RpcRecvStep ==
    ASSUME FrameInv, FramingNext, NEW n \in 1 .. MetaSize, RpcRecv(n)
    PROVE  StreamInv' /\ DoneInv'
<1>1. data \in Seq(Nat) /\ id \in Int /\ block \in Nat /\ short \in Nat /\ MetaSize \in Nat \ {0}
    BY Sizes DEF FrameInv, FrameTypes
<1>2. rpc = "recv" /\ ~udp /\ n <= Len(wire) /\ wire' = SubSeq(wire, n + 1, Len(wire))
      /\ Received(SubSeq(wire, 1, n)) /\ block' = block
    BY DEF RpcRecv
<1>3. CASE n < MetaSize \/ short # 0
  <2>1. short' # 0
    BY <1>1, <1>3 DEF RpcRecv
  <2> QED BY <2>1 DEF StreamInv, DoneInv
<1>4. CASE n = MetaSize /\ short = 0
  <2>1. PICK r \in Nat : StreamAt(r)
    BY <1>2, <1>4 DEF FrameInv, StreamInv
  <2>2. PICK f \in Nat \ {0} : f = block - r
    <3>1. PICK g \in Nat : g = block - r
      BY <1>1, <2>1 DEF StreamAt
    <3>2. g # 0
      BY <1>1, <1>2, <1>4, <2>1, <3>1 DEF StreamAt
    <3> QED BY <3>1, <3>2
  <2>3. Units(wire, f, MetaSize)
    BY <2>1, <2>2 DEF StreamAt, Units
  <2>4. Shorter(wire', wire, SubSeq(wire, 1, MetaSize), f, MetaSize)
    BY <1>1, <1>2, <1>4, <2>3, FrameTaken
  <2>5. r < block /\ \A p \in 1 .. MetaSize : wire[p] = MetaData(r)[p]
    <3>1. r < block /\ 0 \in 0 .. block - r - 1
      BY <1>1, <2>2
    <3>2. ASSUME NEW p \in 1 .. MetaSize PROVE wire[p] = MetaData(r)[p]
      <4>1. wire[0 * MetaSize + p] = MetaData(r + 0)[p]
        BY <2>1, <3>1 DEF StreamAt
      <4>2. 0 * MetaSize + p = p /\ r + 0 = r
        BY <1>1
      <4> QED BY <4>1, <4>2
    <3> QED BY <3>1, <3>2
  <2>6. SubSeq(wire, 1, MetaSize) = MetaData(r)
    <3>1. MetaData(r) \in Seq(Int) /\ Len(MetaData(r)) = MetaSize
      BY <1>1, FrameFacts
    <3>2. /\ SubSeq(wire, 1, MetaSize) \in Seq(Int) /\ Len(SubSeq(wire, 1, MetaSize)) = MetaSize
          /\ \A p \in 1 .. MetaSize : SubSeq(wire, 1, MetaSize)[p] = MetaData(r)[p]
      BY <2>4, <2>5 DEF Shorter
    <3> QED BY <3>1, <3>2, SeqEqual
  <2>7. Received(MetaData(r))
    BY <1>2, <1>4, <2>6
  <2>8. /\ r <= Whole /\ (r = Whole => RestLen # 0)
        /\ Head(MetaData(r)) < 0 <=> r = Whole
        /\ r = Whole => -Head(MetaData(r)) = TransferId
    BY <1>1, <2>5, SentFrame DEF FrameInv
  <2>9. NulFree => recv_info' = IF r < Whole THEN SubSeq(data, 1, (r + 1) * Chunk) ELSE data
    <3> SUFFICES ASSUME NulFree
                 PROVE  recv_info' = IF r < Whole THEN SubSeq(data, 1, (r + 1) * Chunk) ELSE data
      OBVIOUS
    <3>1. recv_info = SubSeq(data, 1, r * Chunk)
      BY <2>1 DEF StreamAt
    <3>2. recv_info' = recv_info \o SubSeq(Tail(MetaData(r)), 1, Strlen(Tail(MetaData(r))))
      BY <2>7 DEF Received
    <3> QED BY <1>1, <2>8, <3>1, <3>2, TextGrows
  <2>10. CASE r = Whole
    <3>1. rpc' = "done" /\ ret' = TransferId /\ RestLen # 0
      BY <2>7, <2>8, <2>10 DEF Received
    <3>2. NulFree => recv_info' = data
      BY <1>1, <2>9, <2>10, Sizes
    <3>3. ASSUME Whole = 0 PROVE recv_info' = SubSeq(data, 1, Strlen(data))
      <4>1. r = 0 /\ recv_info = <<>>
        BY <2>1, <2>10, <3>3 DEF StreamAt
      <4>2. recv_info' = <<>> \o SubSeq(Tail(MetaData(0)), 1, Strlen(Tail(MetaData(0))))
        BY <2>7, <4>1 DEF Received
      <4> QED BY <1>1, <3>3, <4>2, FirstText
    <3> QED BY <3>1, <3>2, <3>3, SameMessage DEF StreamInv, DoneInv
  <2>11. CASE r # Whole
    <3>1. rpc' = "recv" /\ r < Whole
      BY <1>1, <1>2, <2>7, <2>8, <2>11, Sizes DEF Received
    <3>2. block' - (r + 1) = f - 1 /\ block' - (r + 1) - 1 = f - 2 /\ r + 1 \in 0 .. block' /\ r + 1 <= Whole
      BY <1>1, <1>2, <2>2, <2>5, <3>1, Sizes
    <3>3. ASSUME NEW b \in 0 .. f - 2, NEW p \in 1 .. MetaSize
          PROVE  wire'[b * MetaSize + p] = MetaData((r + 1) + b)[p]
      <4>1. wire'[b * MetaSize + p] = wire[(b + 1) * MetaSize + p]
        BY <2>4 DEF Shorter
      <4>2. b + 1 \in 0 .. block - r - 1
        BY <1>1, <2>2
      <4>3. wire[(b + 1) * MetaSize + p] = MetaData(r + (b + 1))[p]
        BY <2>1, <4>2 DEF StreamAt
      <4>4. r + (b + 1) = (r + 1) + b
        OBVIOUS
      <4> QED BY <4>1, <4>3, <4>4
    <3>4. wire' \in Seq(Int) /\ Len(wire') = (f - 1) * MetaSize
      BY <2>4 DEF Shorter, Units
    <3>5. NulFree => recv_info' = SubSeq(data, 1, (r + 1) * Chunk)
      BY <2>9, <3>1
    <3>6. PICK q \in Nat : q = r + 1
      OBVIOUS
    <3>7. StreamAt(q)'
      <4>1. \A b \in 0 .. block' - q - 1 : \A p \in 1 .. MetaSize : wire'[b * MetaSize + p] = MetaData(q + b)'[p]
        BY <3>2, <3>3, <3>6, SameMessage
      <4>2. q \in 0 .. block' /\ q <= Whole' /\ wire' \in Seq(Int) /\ Len(wire') = (block' - q) * MetaSize
        BY <3>2, <3>4, <3>6, SameMessage
      <4>3. (NulFree => recv_info = SubSeq(data, 1, q * Chunk))' /\ q # 0
        BY <3>5, <3>6, SameMessage
      <4> QED BY <4>1, <4>2, <4>3 DEF StreamAt
    <3> QED BY <3>1, <3>7 DEF StreamInv, DoneInv, Completed
  <2> QED BY <2>10, <2>11
<1> QED BY <1>1, <1>3, <1>4

(* A datagram that ends the message is its last frame, for a message of one *)
(* frame the first that arrives.                                            *)
LEMMA RpcRecvFromStep ==
    ASSUME FrameInv, FramingNext, NEW i \in DOMAIN wire, RpcRecvFrom(i) \/ LoseDatagram(i)
    PROVE  DatagramInv' /\ DoneInv'
<1>1. data \in Seq(Nat) /\ id \in Int /\ block \in Nat
    BY Sizes DEF FrameInv, FrameTypes
<1>2. rpc = "recv" /\ udp /\ wire' = RemoveAt(wire, i) /\ block' = block
    BY DEF RpcRecvFrom, LoseDatagram
<1>3. /\ wire \in Seq(Seq(Int))
      /\ \A j \in DOMAIN wire : \E b \in 0 .. block - 1 : wire[j] = MetaData(b)
      /\ Whole = 0 => recv_info = <<>>
    BY <1>2 DEF FrameInv, DatagramInv
<1>4. wire' \in Seq(Seq(Int)) /\ \A j \in DOMAIN wire' : \E q \in DOMAIN wire : wire'[j] = wire[q]
    BY <1>2, <1>3, LeftWas
<1>5. \A j \in DOMAIN wire' : \E b \in 0 .. block' - 1 : wire'[j] = MetaData(b)'
    BY <1>2, <1>3, <1>4, SameMessage
<1>6. CASE LoseDatagram(i)
  <2>1. UNCHANGED <<rpc, recv_info>>
    BY <1>6 DEF LoseDatagram
  <2> QED BY <1>2, <1>3, <1>4, <1>5, <2>1, SameMessage DEF DatagramInv, DoneInv, Completed
<1>7. CASE RpcRecvFrom(i)
  <2>1. PICK b \in Nat : b < block /\ wire[i] = MetaData(b)
    BY <1>1, <1>3
  <2>2. Received(MetaData(b))
    BY <1>7, <2>1 DEF RpcRecvFrom
  <2>3. /\ b <= Whole /\ (b = Whole => RestLen # 0)
        /\ Head(MetaData(b)) < 0 <=> b = Whole
        /\ b = Whole => -Head(MetaData(b)) = TransferId
    BY <2>1, SentFrame DEF FrameInv
  <2>4. CASE b = Whole
    <3>1. rpc' = "done" /\ ret' = TransferId /\ RestLen # 0
      BY <2>2, <2>3, <2>4 DEF Received
    <3>2. ASSUME Whole = 0, NulFree PROVE recv_info' = data
      <4>1. recv_info' = <<>> \o SubSeq(Tail(MetaData(b)), 1, Strlen(Tail(MetaData(b))))
        BY <1>3, <2>2, <3>2 DEF Received
      <4>2. SubSeq(data, 1, b * Chunk) = <<>>
        <5>1. b * Chunk = 0
          BY <1>1, <2>4, <3>2, Sizes
        <5> QED BY <1>1, <5>1, SubSeqEmpty
      <4>3. ~(b < Whole)
        BY <1>1, <2>4, Sizes
      <4>4. SubSeq(data, 1, b * Chunk) \o SubSeq(Tail(MetaData(b)), 1, Strlen(Tail(MetaData(b)))) = data
        BY <1>1, <2>3, <3>2, <4>3, TextGrows
      <4> QED BY <4>1, <4>2, <4>4
    <3>3. ASSUME Whole = 0 PROVE recv_info' = SubSeq(data, 1, Strlen(data))
      <4>1. recv_info' = <<>> \o SubSeq(Tail(MetaData(0)), 1, Strlen(Tail(MetaData(0))))
        BY <1>3, <2>2, <2>4, <3>3 DEF Received
      <4> QED BY <1>1, <3>3, <4>1, FirstText
    <3> QED BY <1>2, <3>1, <3>2, <3>3, SameMessage DEF DatagramInv, DoneInv
  <2>5. CASE b # Whole
    <3>1. rpc' = "recv" /\ Whole # 0
      BY <1>1, <1>2, <2>2, <2>3, <2>5, Sizes DEF Received
    <3> QED BY <1>2, <1>4, <1>5, <3>1, SameMessage DEF DatagramInv, DoneInv, Completed
  <2> QED BY <2>4, <2>5
<1> QED BY <1>6, <1>7

(* The invariant holds at first and is kept by every step.                  *)
LEMMA FrameInvStep == FrameInv /\ [FramingNext]_frame_vars => FrameInv'
<1> SUFFICES ASSUME FrameInv, [FramingNext]_frame_vars PROVE FrameInv'
    OBVIOUS
<1>1. CASE UNCHANGED frame_vars
  <2>1. UNCHANGED <<Whole, RestLen, Frames, TransferId, NulFree, Completed>> /\ \A i : MetaData(i)' = MetaData(i)
    BY <1>1 DEF frame_vars, Whole, RestLen, Frames, TransferId, NulFree, Completed, MetaData
  <2>2. FrameTypes' /\ DatagramInv' /\ DoneInv'
    BY <1>1, <2>1 DEF frame_vars, FrameInv, FrameTypes, DatagramInv, DoneInv
  <2>3. \A r : StreamAt(r)' <=> StreamAt(r)
    BY <1>1, <2>1 DEF frame_vars, StreamAt
  <2>4. StreamInv'
    BY <1>1, <2>3 DEF frame_vars, FrameInv, StreamInv
  <2> QED BY <2>2, <2>4 DEF FrameInv
<1>2. CASE FramingNext
  <2>1. FrameTypes'
    BY <1>2, TypesStep DEF FrameInv
  <2>2. CASE SendRefused \/ SendReturns \/ SendFails
    <3>1. UNCHANGED <<wire, block, rpc, recv_info, ret, short>>
      BY <2>2 DEF SendRefused, SendReturns, SendFails
    <3>2. DatagramInv' /\ DoneInv'
      BY <1>2, <3>1, SameMessage DEF FrameInv, DatagramInv, DoneInv, Completed
    <3>3. \A r : StreamAt(r)' <=> StreamAt(r)
      BY <1>2, <3>1, SameMessage DEF StreamAt
    <3>4. StreamInv'
      BY <1>2, <3>1, <3>3, SameMessage DEF FrameInv, StreamInv
    <3> QED BY <2>1, <3>2, <3>4 DEF FrameInv
  <2>3. CASE SendFrame
    <3>1. DoneInv'
      BY <1>2, <2>3, SameMessage DEF SendFrame, FrameInv, DoneInv, Completed
    <3> QED BY <1>2, <2>1, <2>3, <3>1, SendFrameStep DEF FrameInv
  <2>4. ASSUME NEW n \in 1 .. MetaSize, RpcRecv(n) PROVE FrameInv'
    <3>1. DatagramInv'
      BY <1>2, <2>4, SameMessage DEF RpcRecv, DatagramInv
    <3> QED BY <1>2, <2>1, <2>4, <3>1, RpcRecvStep DEF FrameInv
  <2>5. CASE RecvClosed \/ RecvError
    <3>1. rpc' = "done" /\ ~(ret' > 0)
      BY <2>5 DEF RecvClosed, RecvError, ERROR_RECV
    <3> QED BY <2>1, <3>1 DEF FrameInv, StreamInv, DatagramInv, DoneInv, Completed
  <2>6. ASSUME NEW i \in DOMAIN wire, RpcRecvFrom(i) \/ LoseDatagram(i) PROVE FrameInv'
    <3>1. StreamInv'
      BY <1>2, <2>6, SameMessage DEF RpcRecvFrom, LoseDatagram, StreamInv
    <3> QED BY <1>2, <2>1, <2>6, <3>1, RpcRecvFromStep DEF FrameInv
  <2> QED BY <1>2, <2>2, <2>3, <2>4, <2>5, <2>6 DEF FramingNext
<1> QED BY <1>1, <1>2

(* At first nothing was sent or read.                                       *)
LEMMA FrameInvInit ==
    ASSUME NEW payload \in Seq(Nat), InitFraming(payload)
    PROVE  FrameInv
<1>1. /\ data \in Seq(Nat) /\ id \in Int /\ udp \in BOOLEAN /\ block = 0 /\ wire = <<>>
      /\ rpc = "recv" /\ recv_info = <<>> /\ ret = 0 /\ short = 0 /\ spc = "sending"
    BY FramingAssumption DEF InitFraming
<1>2. FrameTypes
    BY <1>1, Sizes DEF FrameTypes
<1>3. DatagramInv /\ DoneInv
    BY <1>1 DEF DatagramInv, DoneInv, Completed
<1>4. StreamAt(0)
  <2>1. (block - 0) * MetaSize = 0 /\ 0 * Chunk = 0 /\ block - 0 - 1 = -1
    BY <1>1, Sizes
  <2>2. SubSeq(data, 1, 0) = <<>>
    BY <1>1, SubSeqEmpty
  <2> QED BY <1>1, <2>1, <2>2, Sizes DEF StreamAt
<1> QED BY <1>2, <1>3, <1>4 DEF FrameInv, StreamInv

-----------------------------------------------------------------------------
(* The encoding of messages *)

(* VarintValue satisfies its recursion. *)
LEMMA VarintValueDef ==
    ASSUME NEW s \in Seq(Nat)
    PROVE  /\ VarintValue[s] \in Nat
           /\ VarintValue[s] = IF s = <<>> THEN 0 ELSE (Head(s) % 128) + 128 * VarintValue[Tail(s)]
<1> DEFINE D == Seq(Nat)
           mu == [x \in D |-> Len(x)]
           Def(g, x) == IF x = <<>> THEN 0 ELSE (Head(x) % 128) + 128 * g[Tail(x)]
           F == [x \in D |-> [g \in [D -> Nat] |-> Def(g, x)]]
<1>0. \A x \in D : x # <<>> => Head(x) % 128 \in Nat /\ Tail(x) \in D /\ mu[Tail(x)] < mu[x]
  <2> SUFFICES ASSUME NEW x \in D, x # <<>>
               PROVE  Head(x) % 128 \in Nat /\ Tail(x) \in D /\ mu[Tail(x)] < mu[x]
    OBVIOUS
  <2>1. Head(x) \in Nat /\ Tail(x) \in D /\ Len(Tail(x)) = Len(x) - 1 /\ Len(x) \in Nat
    BY HeadTailProperties, LenProperties
  <2> QED BY <2>1
<1>1. \A x \in D : \A g \in [D -> Nat] : F[x][g] = Def(g, x)
    OBVIOUS
<1>2. \A x \in D : \A g \in [D -> Nat] : F[x][g] \in Nat
  <2> SUFFICES ASSUME NEW x \in D, NEW g \in [D -> Nat] PROVE Def(g, x) \in Nat
    BY <1>1
  <2>1. x # <<>> => g[Tail(x)] \in Nat /\ Head(x) % 128 \in Nat
    BY <1>0
  <2> QED BY <2>1
<1>3. \A x \in D : \A g, h \in [D -> Nat] :
         (\A y \in D : mu[y] < mu[x] => g[y] = h[y]) => F[x][g] = F[x][h]
  <2> SUFFICES ASSUME NEW x \in D, NEW g \in [D -> Nat], NEW h \in [D -> Nat],
                      \A y \in D : mu[y] < mu[x] => g[y] = h[y]
               PROVE  F[x][g] = F[x][h]
    OBVIOUS
  <2>1. x # <<>> => g[Tail(x)] = h[Tail(x)]
    BY <1>0
  <2>2. Def(g, x) = Def(h, x)
    BY <2>1
  <2> QED BY <1>1, <2>2
<1>4. mu \in [D -> Nat] /\ Nat # {}
    BY LenProperties
<1>5. PICK f : Computes(f, D, Nat, F)
  <2> HIDE DEF F, mu, D
  <2>1. Guarded(D, mu, Nat, F)
    BY <1>2, <1>3, <1>4 DEF Guarded
  <2> QED BY <2>1, Recursion
<1>6. f = [x \in D |-> Def(f, x)]
    BY <1>1, <1>5 DEF Computes
<1>7. VarintValue = [x \in D |-> Def(VarintValue, x)]
    BY <1>6 DEF VarintValue
<1> DEFINE T == {x \in D : VarintValue[x] \in Nat}
<1>8. ASSUME NEW x \in D, \A y \in D : mu[y] < mu[x] => y \in T PROVE x \in T
  <2>1. VarintValue[x] = Def(VarintValue, x)
    BY <1>7
  <2>2. x # <<>> => VarintValue[Tail(x)] \in Nat /\ Head(x) % 128 \in Nat
    BY <1>0, <1>8
  <2> QED BY <2>1, <2>2, SMTT(30)
<1>9. \A x \in D : x \in T
  <2> HIDE DEF T, mu, D
  <2> QED BY <1>4, <1>8, MeasureInduction
<1> QED BY <1>7, <1>9

(* The bytes of a varint: all but the last have the high bit, and together   *)
(* they give the number back. *)
VarintOk(n) ==
    /\ Varint[n] \in Seq(Nat) /\ Len(Varint[n]) \in Nat \ {0}
    /\ Varint[n][Len(Varint[n])] < 128
    /\ \A i \in 1 .. Len(Varint[n]) - 1 : Varint[n][i] >= 128
    /\ VarintValue[Varint[n]] = n

(* Every number is written as VarintOk says.                                *)
LEMMA VarintBytes ==
    ASSUME NEW n \in Nat PROVE VarintOk(n)
<1> DEFINE T == {i \in Nat : VarintOk(i)}
           mu == [i \in Nat |-> i]
<1>1. ASSUME NEW i \in Nat, \A k \in Nat : mu[k] < mu[i] => k \in T PROVE i \in T
  <2>1. CASE i < 128
    <3>1. Varint[i] = <<i>>
      BY <2>1, VarintDef
    <3>2. Len(<<i>>) = 1 /\ <<i>>[1] = i /\ Head(<<i>>) = i /\ Tail(<<i>>) = <<>> /\ <<i>> # <<>>
          /\ <<i>> \in Seq(Nat) /\ <<>> \in Seq(Nat)
      OBVIOUS
    <3>3. VarintValue[<<>>] = 0
      BY <3>2, VarintValueDef
    <3>4. VarintValue[<<i>>] = (i % 128) + 128 * 0
      BY <3>2, <3>3, VarintValueDef, ZenonT(40)
    <3>5. i % 128 = i
      BY <2>1
    <3>6. VarintValue[<<i>>] = i
      BY <3>4, <3>5
    <3>7. VarintOk(i)
      BY <2>1, <3>1, <3>2, <3>6 DEF VarintOk
    <3> QED BY <3>7
  <2>2. CASE ~(i < 128)
    <3> DEFINE q == i \div 128
               r == i % 128
    <3>1. q \in Nat /\ r \in 0 .. 127 /\ i = q * 128 + r /\ q < i
      BY <2>2
    <3>2. VarintOk(q)
      BY <1>1, <3>1
    <3>3. Varint[i] = <<128 + r>> \o Varint[q]
      BY <2>2, VarintDef
    <3> HIDE DEF q, r
    <3>4. PICK b \in Seq(Nat) : b = Varint[q]
      BY <3>2 DEF VarintOk
    <3>5. PICK c : c = <<128 + r>> \o b
      OBVIOUS
    <3>6. 128 + r \in Nat
      BY <3>1
    <3>7. /\ c \in Seq(Nat) /\ c # <<>> /\ Len(b) \in Nat \ {0} /\ Len(c) = Len(b) + 1
          /\ Head(c) = 128 + r /\ Tail(c) = b /\ c[1] = 128 + r
          /\ \A k \in 1 .. Len(b) : c[k + 1] = b[k]
      <4>1. Len(b) \in Nat \ {0}
        BY <3>2, <3>4 DEF VarintOk
      <4>2. PICK p \in Nat : p = 128 + r
        BY <3>6
      <4>3. c = <<p>> \o b
        BY <3>5, <4>2
      <4>4. /\ c \in Seq(Nat) /\ c # <<>> /\ Len(c) = Len(b) + 1
            /\ Head(c) = p /\ Tail(c) = b /\ c[1] = p
            /\ \A k \in 1 .. Len(b) : c[k + 1] = b[k]
        <5>1. /\ <<p>> \o b \in Seq(Nat) /\ <<p>> \o b # <<>> /\ Len(<<p>> \o b) = Len(b) + 1
              /\ Head(<<p>> \o b) = p /\ Tail(<<p>> \o b) = b /\ (<<p>> \o b)[1] = p
              /\ \A k \in 1 .. Len(b) : (<<p>> \o b)[k + 1] = b[k]
          BY HeadAndTail
        <5> QED BY ONLY <4>3, <5>1
      <4> QED BY <4>1, <4>2, <4>4
    <3>8. VarintValue[c] = i
      <4>1. VarintValue[c] = ((128 + r) % 128) + 128 * q
        <5>1. VarintValue[c] = (Head(c) % 128) + 128 * VarintValue[Tail(c)]
          BY <3>7, VarintValueDef
        <5>2. VarintValue[b] = q
          BY <3>2, <3>4 DEF VarintOk
        <5> QED BY <3>7, <5>1, <5>2
      <4>2. (128 + r) % 128 = r
        BY <3>1
      <4> QED BY <3>1, <4>1, <4>2
    <3>9. c[Len(c)] < 128
      <4>1. Len(b) \in 1 .. Len(b)
        BY <3>7
      <4> QED BY <3>2, <3>4, <3>7, <4>1 DEF VarintOk
    <3>10. ASSUME NEW k \in 1 .. Len(c) - 1 PROVE c[k] >= 128
      <4>1. CASE k = 1
        BY <3>1, <3>7, <4>1
      <4>2. CASE k # 1
        <5>1. k - 1 \in 1 .. Len(b) - 1 /\ k - 1 \in 1 .. Len(b) /\ (k - 1) + 1 = k
          BY <3>7, <4>2
        <5>2. c[k] = b[k - 1]
          BY <3>7, <5>1
        <5> QED BY <3>2, <3>4, <5>1, <5>2 DEF VarintOk
      <4> QED BY <4>1, <4>2
    <3>11. Varint[i] = c
      BY <3>3, <3>4, <3>5
    <3>12. Len(c) \in Nat \ {0}
      BY <3>7
    <3>13. VarintOk(i)
      BY <3>7, <3>8, <3>9, <3>10, <3>11, <3>12 DEF VarintOk
    <3> QED BY <3>13
  <2> QED BY <2>1, <2>2
<1>2. mu \in [Nat -> Nat]
    OBVIOUS
<1>3. \A i \in Nat : i \in T
  <2> HIDE DEF T, mu
  <2> QED BY <1>1, <1>2, MeasureInduction
<1> QED BY <1>3

(* Every seven bits of a number are a byte.                                 *)
LEMMA VarintLenBy ==
    ASSUME NEW i \in Nat
    PROVE  Len(Varint[i]) = IF i < 128 THEN 1 ELSE 1 + Len(Varint[i \div 128])
<1>1. CASE i < 128
  <2>1. Varint[i] = <<i>>
    BY <1>1, VarintDef
  <2>2. Len(<<i>>) = 1
    OBVIOUS
  <2> QED BY <1>1, <2>1, <2>2
<1>2. CASE ~(i < 128)
  <2>1. i \div 128 \in Nat /\ 128 + (i % 128) \in Nat
    OBVIOUS
  <2>2. Varint[i] = <<128 + (i % 128)>> \o Varint[i \div 128]
    BY <1>2, VarintDef
  <2>3. Varint[i \div 128] \in Seq(Nat)
    BY <2>1, VarintDef
  <2>4. PICK p \in Nat, b \in Seq(Nat) : p = 128 + (i % 128) /\ b = Varint[i \div 128]
    BY <2>1, <2>3
  <2>5. Len(<<p>> \o b) = Len(b) + 1 /\ Len(b) \in Nat
    BY HeadAndTail
  <2> QED BY <1>2, <2>2, <2>4, <2>5
<1> QED BY <1>1, <1>2

(* What was read, and what is left. *)
Got(v, rest) == [ok |-> TRUE, v |-> v, rest |-> rest]

(* Replacing the value of what was read.                                    *)
LEMMA GotExcept ==
    ASSUME NEW v, NEW rest, NEW x
    PROVE  [Got(v, rest) EXCEPT !.v = x] = Got(x, rest) /\ Got(v, rest).v = v
<1> PICK b : b = TRUE
    OBVIOUS
<1>1. Got(v, rest) = [ok |-> b, v |-> v, rest |-> rest] /\ Got(x, rest) = [ok |-> b, v |-> x, rest |-> rest]
    BY Zenon DEF Got
<1> PICK g : g = Got(v, rest)
    OBVIOUS
<1> PICK h : h = Got(x, rest)
    OBVIOUS
<1>2. g = [ok |-> b, v |-> v, rest |-> rest] /\ h = [ok |-> b, v |-> x, rest |-> rest]
    BY <1>1
<1>3. [g EXCEPT !.v = x] = h /\ g.v = v
    BY ONLY <1>2
<1> QED BY <1>3

(* Taking the length of a gives a, and leaves what follows.                 *)
LEMMA TakeIs ==
    ASSUME NEW a \in Seq(Nat), NEW b \in Seq(Nat)
    PROVE  Take(a \o b, Len(a)) = Got(a, b)
<1>1. ~(Len(a \o b) < Len(a))
    BY Joined
<1>2. SubSeq(a \o b, 1, Len(a)) = a /\ SubSeq(a \o b, Len(a) + 1, Len(a \o b)) = b
    BY JoinedPieces
<1> QED BY <1>1, <1>2 DEF Take, Got

(* What Take takes is as long as it was asked for.                          *)
LEMMA TakeType ==
    ASSUME NEW s \in Seq(Nat), NEW k \in Nat, Take(s, k).ok
    PROVE  \E v, rest \in Seq(Nat) :
              Take(s, k) = Got(v, rest) /\ Len(rest) = Len(s) - k /\ Len(v) = k /\ k <= Len(s)
<1>1. ~(Len(s) < k)
    BY DEF Take, Fail
<1>2. k \in 0 .. Len(s)
    BY <1>1, LenProperties
<1>3. /\ SubSeq(s, 1, k) \in Seq(Nat) /\ Len(SubSeq(s, 1, k)) = k
      /\ SubSeq(s, k + 1, Len(s)) \in Seq(Nat) /\ Len(SubSeq(s, k + 1, Len(s))) = Len(s) - k
    BY <1>2, Pieces
<1>4. Take(s, k) = Got(SubSeq(s, 1, k), SubSeq(s, k + 1, Len(s)))
    BY <1>1 DEF Take, Got
<1>5. PICK v \in Seq(Nat) : v = SubSeq(s, 1, k) /\ Len(v) = k
    BY <1>3
<1>6. PICK r \in Seq(Nat) : r = SubSeq(s, k + 1, Len(s)) /\ Len(r) = Len(s) - k
    BY <1>3
<1>7. k <= Len(s)
    BY <1>2
<1>8. Take(s, k) = Got(v, r)
    BY <1>4, <1>5, <1>6
<1> QED BY ONLY <1>5, <1>6, <1>7, <1>8

(* A number is read back, and what follows it is left.                      *)
LEMMA ReadVarintIs ==
    ASSUME NEW n \in Nat, NEW t \in Seq(Nat)
    PROVE  ReadVarint(Varint[n] \o t) = Got(n, t)
<1>1. PICK b \in Seq(Nat) : /\ b = Varint[n] /\ Len(b) \in Nat \ {0} /\ b[Len(b)] < 128
                            /\ (\A i \in 1 .. Len(b) - 1 : b[i] >= 128) /\ VarintValue[b] = n
    BY VarintBytes DEF VarintOk
<1>2. PICK s \in Seq(Nat) :
         /\ s = b \o t /\ DOMAIN s = 1 .. Len(b) + Len(t) /\ Len(t) \in Nat
         /\ \A i \in 1 .. Len(b) : s[i] = b[i]
    BY Joined
<1>3. PICK E : E = {i \in DOMAIN s : s[i] < 128}
    OBVIOUS
<1>4. Len(b) \in E /\ E \in SUBSET Nat
  <2>1. Len(b) \in 1 .. Len(b) /\ Len(b) \in DOMAIN s
    BY <1>1, <1>2
  <2> QED BY <1>1, <1>2, <1>3, <2>1
<1>5. Min(E) = Len(b)
  <2>1. PICK x : x = Min(E) /\ x \in E /\ \A y \in E : x <= y
    BY <1>4, MinIs
  <2>2. x \in DOMAIN s /\ s[x] < 128
    BY <1>3, <2>1
  <2>3. x \in Nat /\ x <= Len(b) /\ x >= 1
    BY <1>1, <1>2, <1>4, <2>1, <2>2
  <2>4. CASE x < Len(b)
    <3>1. x \in 1 .. Len(b) - 1 /\ x \in 1 .. Len(b)
      BY <1>1, <2>3, <2>4
    <3>2. s[x] = b[x] /\ b[x] >= 128
      BY <1>1, <1>2, <3>1
    <3>3. b[x] \in Nat
      BY <3>1, ElementOfSeq
    <3> QED BY <2>2, <3>2, <3>3
  <2> QED BY <1>1, <2>1, <2>3, <2>4
<1>6. Take(s, Min(E)) = Got(b, t)
    BY <1>2, <1>5, TakeIs
<1>7. ReadVarint(s) = [Got(b, t) EXCEPT !.v = VarintValue[Got(b, t).v]]
    BY <1>3, <1>4, <1>6 DEF ReadVarint
<1> QED BY <1>1, <1>2, <1>7, GotExcept

(* A number that is cut short is refused.                                   *)
LEMMA ReadVarintCut ==
    ASSUME NEW n \in Nat, NEW k \in 0 .. Len(Varint[n]) - 1
    PROVE  ReadVarint(SubSeq(Varint[n], 1, k)) = Fail
<1>1. PICK b \in Seq(Nat) : /\ b = Varint[n] /\ Len(b) \in Nat \ {0}
                            /\ (\A i \in 1 .. Len(b) - 1 : b[i] >= 128)
    BY VarintBytes DEF VarintOk
<1>2. k \in 0 .. Len(b) /\ k \in Nat /\ k <= Len(b) - 1
    BY <1>1
<1>3. PICK s \in Seq(Nat) : s = SubSeq(b, 1, k) /\ Len(s) = k /\ DOMAIN s = 1 .. k
                            /\ \A i \in 1 .. k : s[i] = b[i]
  <2>1. SubSeq(b, 1, k) \in Seq(Nat) /\ Len(SubSeq(b, 1, k)) = k
        /\ \A i \in 1 .. k : SubSeq(b, 1, k)[i] = b[i]
    BY <1>1, <1>2, Pieces
  <2>2. PICK s \in Seq(Nat) : s = SubSeq(b, 1, k)
    BY <2>1
  <2>3. DOMAIN s = 1 .. Len(s)
    BY LenProperties
  <2> QED BY ONLY <2>1, <2>2, <2>3
<1>4. {i \in DOMAIN s : s[i] < 128} = {}
  <2> SUFFICES ASSUME NEW i \in 1 .. k, s[i] < 128 PROVE FALSE
    BY <1>3
  <2>1. i \in 1 .. Len(b) - 1 /\ i \in 1 .. Len(b)
    BY <1>1, <1>2, SMTT(30)
  <2>2. s[i] = b[i] /\ b[i] >= 128 /\ b[i] \in Nat
    BY <1>1, <1>3, <2>1
  <2> QED BY <2>2
<1> QED BY <1>1, <1>3, <1>4 DEF ReadVarint

(* A number that was read has left a shorter rest.                          *)
LEMMA ReadVarintType ==
    ASSUME NEW s \in Seq(Nat), ReadVarint(s).ok
    PROVE  \E v \in Nat, rest \in Seq(Nat) : ReadVarint(s) = Got(v, rest) /\ Len(rest) < Len(s)
<1>1. PICK E : E = {i \in DOMAIN s : s[i] < 128}
    OBVIOUS
<1>2. E # {} /\ ReadVarint(s) = [Take(s, Min(E)) EXCEPT !.v = VarintValue[Take(s, Min(E)).v]]
    BY <1>1 DEF ReadVarint, Fail
<1>3. DOMAIN s = 1 .. Len(s) /\ Len(s) \in Nat
    BY LenProperties
<1>4. Min(E) \in 1 .. Len(s)
  <2>1. E \in SUBSET Nat
    BY <1>1, <1>3
  <2> QED BY <1>1, <1>2, <1>3, <2>1, MinIs
<1>5. Min(E) \in Nat /\ Take(s, Min(E)).ok
    BY <1>3, <1>4 DEF Take
<1>6. PICK v, rest \in Seq(Nat) : Take(s, Min(E)) = Got(v, rest) /\ Len(rest) = Len(s) - Min(E)
    BY <1>5, TakeType
<1>7. ReadVarint(s) = Got(VarintValue[v], rest)
    BY ONLY <1>2, <1>6, GotExcept
<1>8. VarintValue[v] \in Nat /\ Len(rest) < Len(s)
    BY <1>3, <1>4, <1>6, VarintValueDef
<1> QED BY <1>7, <1>8

(* ReadValue by wire type.                                                  *)
LEMMA ReadBy ==
    ASSUME NEW w, NEW s
    PROVE  /\ w = Varints => ReadValue(w, s) = ReadVarint(s)
           /\ w = Lengths => ReadValue(w, s) = IF ReadVarint(s).ok
                                             THEN Take(ReadVarint(s).rest, ReadVarint(s).v) ELSE Fail
           /\ w = Fixed32 => ReadValue(w, s) = Take(s, 4)
           /\ w = 1 => ReadValue(w, s) = Take(s, 8)
<1>1. w = Varints => ReadValue(w, s) = ReadVarint(s)
    BY DEF ReadValue, Varints, Lengths, Fixed32
<1>2. w = Lengths => ReadValue(w, s) = IF ReadVarint(s).ok
                                     THEN Take(ReadVarint(s).rest, ReadVarint(s).v) ELSE Fail
    BY DEF ReadValue, Varints, Lengths, Fixed32
<1>3. (w = Fixed32 => ReadValue(w, s) = Take(s, 4)) /\ (w = 1 => ReadValue(w, s) = Take(s, 8))
    BY DEF ReadValue, Varints, Lengths, Fixed32
<1> QED BY <1>1, <1>2, <1>3

(* A value is a number, a sequence of bytes or four bytes. *)
AnyValue == Nat \cup Seq(Nat)

(* A value that was read has left no more than there was.                   *)
LEMMA ReadValueType ==
    ASSUME NEW w, NEW s \in Seq(Nat), ReadValue(w, s).ok
    PROVE  \E v \in AnyValue, rest \in Seq(Nat) : ReadValue(w, s) = Got(v, rest) /\ Len(rest) <= Len(s)
<1>0. Len(s) \in Nat
    BY LenProperties
<1>1. CASE w = Varints
  <2>1. ReadValue(w, s) = ReadVarint(s)
    BY <1>1, ReadBy
  <2>2. PICK v \in Nat, rest \in Seq(Nat) : ReadVarint(s) = Got(v, rest) /\ Len(rest) < Len(s)
    BY <2>1, ReadVarintType
  <2>3. Len(rest) <= Len(s) /\ v \in AnyValue
    BY <1>0, <2>2, LenProperties DEF AnyValue
  <2> QED BY <2>1, <2>2, <2>3
<1>2. CASE w = Lengths
  <2>1. ReadValue(w, s) = IF ReadVarint(s).ok THEN Take(ReadVarint(s).rest, ReadVarint(s).v) ELSE Fail
    BY <1>2, ReadBy
  <2>2. ReadVarint(s).ok
    BY <2>1 DEF Fail
  <2>3. PICK n \in Nat, x \in Seq(Nat) : ReadVarint(s) = Got(n, x) /\ Len(x) < Len(s)
    BY <2>2, ReadVarintType
  <2>4. ReadValue(w, s) = Take(x, n)
    BY <2>1, <2>2, <2>3 DEF Got
  <2>5. PICK v, rest \in Seq(Nat) : Take(x, n) = Got(v, rest) /\ Len(rest) = Len(x) - n
    BY <2>4, TakeType
  <2>6. Len(rest) <= Len(s)
    BY <1>0, <2>3, <2>5, LenProperties
  <2> QED BY <2>4, <2>5, <2>6 DEF AnyValue
<1>3. CASE w = Fixed32
  <2>1. ReadValue(w, s) = Take(s, 4)
    BY <1>3, ReadBy
  <2>2. PICK v, rest \in Seq(Nat) : Take(s, 4) = Got(v, rest) /\ Len(rest) = Len(s) - 4
    BY <2>1, TakeType
  <2>3. Len(rest) <= Len(s) /\ v \in AnyValue
    BY <1>0, <2>2, LenProperties DEF AnyValue
  <2> QED BY <2>1, <2>2, <2>3
<1>4. CASE w = 1
  <2>1. ReadValue(w, s) = Take(s, 8)
    BY <1>4, ReadBy
  <2>2. PICK v, rest \in Seq(Nat) : Take(s, 8) = Got(v, rest) /\ Len(rest) = Len(s) - 8
    BY <2>1, TakeType
  <2>3. Len(rest) <= Len(s) /\ v \in AnyValue
    BY <1>0, <2>2, LenProperties DEF AnyValue
  <2> QED BY <2>1, <2>2, <2>3
<1>5. CASE w \notin {Varints, Lengths, Fixed32, 1}
  <2>1. ReadValue(w, s) = Fail
    BY <1>5 DEF ReadValue
  <2> QED BY <2>1 DEF Fail
<1> QED BY <1>1, <1>2, <1>3, <1>4, <1>5

(* A value that a field of this wire type can have. *)
Carries(f, v) ==
    \/ f.wire = Varints /\ v \in Nat
    \/ f.wire = Lengths /\ v \in Seq(Nat)
    \/ f.wire = Fixed32 /\ v \in Seq(Nat) /\ Len(v) = 4

(* Encode by wire type.                                                     *)
LEMMA EncodeBy ==
    ASSUME NEW f, NEW v
    PROVE  /\ f.wire = Varints => Encode(f, v) = Varint[v]
           /\ f.wire = Lengths => Encode(f, v) = Varint[Len(v)] \o v
           /\ f.wire = Fixed32 => Encode(f, v) = v
<1> PICK w : w = f.wire
    OBVIOUS
<1> QED BY DEF Encode, Varints, Lengths, Fixed32

(* Every value that its field carries is encoded as bytes.                  *)
LEMMA EncodeIs ==
    ASSUME NEW f, NEW v, Carries(f, v)
    PROVE  Encode(f, v) \in Seq(Nat)
<1>1. CASE f.wire = Varints /\ v \in Nat
  <2>1. Varint[v] \in Seq(Nat)
    BY <1>1, VarintDef
  <2> QED BY <1>1, <2>1, EncodeBy
<1>2. CASE f.wire = Lengths /\ v \in Seq(Nat)
  <2>1. Len(v) \in Nat
    BY <1>2, LenProperties
  <2>2. Varint[Len(v)] \in Seq(Nat)
    BY <2>1, VarintDef
  <2>3. Varint[Len(v)] \o v \in Seq(Nat)
    BY <1>2, <2>2, Joined
  <2> QED BY <1>2, <2>3, EncodeBy
<1>3. CASE f.wire = Fixed32 /\ v \in Seq(Nat) /\ Len(v) = 4
    BY <1>3, EncodeBy
<1> QED BY <1>1, <1>2, <1>3 DEF Carries

(* What was encoded is read. *)
LEMMA ReadValueIs ==
    ASSUME NEW f, NEW v, Carries(f, v), NEW t \in Seq(Nat)
    PROVE  ReadValue(f.wire, Encode(f, v) \o t) = Got(v, t)
<1> PICK w : w = f.wire
    OBVIOUS
<1>1. CASE w = Varints /\ v \in Nat
  <2>1. ReadVarint(Varint[v] \o t) = Got(v, t)
    BY <1>1, ReadVarintIs
  <2>2. Encode(f, v) = Varint[v]
    BY <1>1, EncodeBy
  <2> QED BY <1>1, <2>1, <2>2, ReadBy
<1>2. CASE w = Lengths /\ v \in Seq(Nat)
  <2>1. Len(v) \in Nat
    BY <1>2, LenProperties
  <2>2. PICK b \in Seq(Nat) : b = Varint[Len(v)]
    BY <2>1, VarintDef
  <2>3. v \o t \in Seq(Nat)
    BY <1>2, Joined
  <2>4. Encode(f, v) = b \o v
    BY <1>2, <2>2, EncodeBy
  <2>5. Encode(f, v) \o t = b \o (v \o t)
    <3>1. (b \o v) \o t = b \o (v \o t)
      BY <1>2, Assoc
    <3> QED BY ONLY <2>4, <3>1
  <2>6. ReadVarint(Encode(f, v) \o t) = Got(Len(v), v \o t)
    BY <2>1, <2>2, <2>3, <2>5, ReadVarintIs
  <2>7. ReadValue(w, Encode(f, v) \o t) = Take(v \o t, Len(v))
    <3> DEFINE x == Encode(f, v) \o t
    <3>1. ReadVarint(x).ok /\ ReadVarint(x).rest = v \o t /\ ReadVarint(x).v = Len(v)
      BY <2>6 DEF Got
    <3> HIDE DEF x
    <3>2. ReadValue(w, x) = Take(v \o t, Len(v))
      BY <1>2, <3>1, ReadBy
    <3> QED BY <3>2 DEF x
  <2> QED BY <1>2, <2>7, TakeIs
<1>3. CASE w = Fixed32 /\ v \in Seq(Nat) /\ Len(v) = 4
  <2>1. Encode(f, v) = v
    BY <1>3, EncodeBy
  <2>2. ReadValue(w, v \o t) = Take(v \o t, Len(v))
    BY <1>3, ReadBy
  <2> QED BY <1>3, <2>1, <2>2, TakeIs
<1> QED BY <1>1, <1>2, <1>3 DEF Carries

(* No shorter text is taken for a value. *)
LEMMA ReadValueCut ==
    ASSUME NEW f, NEW v, Carries(f, v), NEW k \in 0 .. Len(Encode(f, v)) - 1
    PROVE  ReadValue(f.wire, SubSeq(Encode(f, v), 1, k)) = Fail
<1> PICK w : w = f.wire
    OBVIOUS
<1>e. PICK e \in Seq(Nat) : e = Encode(f, v) /\ Len(e) \in Nat
  <2>1. Encode(f, v) \in Seq(Nat)
    BY EncodeIs
  <2> QED BY <2>1, LenProperties
<1>0. k \in 0 .. Len(e) /\ k \in Nat /\ k < Len(e)
    BY <1>e
<1>1. CASE w = Varints /\ v \in Nat
  <2>1. e = Varint[v]
    BY <1>1, <1>e, EncodeBy
  <2>2. k \in 0 .. Len(Varint[v]) - 1
    BY <1>e, <2>1
  <2>3. ReadVarint(SubSeq(e, 1, k)) = Fail
    BY <1>1, <2>1, <2>2, ReadVarintCut
  <2> QED BY <1>1, <1>e, <2>3, ReadBy
<1>2. CASE w = Lengths /\ v \in Seq(Nat)
  <2>0. Len(v) \in Nat
    BY <1>2, LenProperties
  <2>1. PICK b \in Seq(Nat) : b = Varint[Len(v)]
    BY <2>0, VarintDef
  <2>2. e = b \o v /\ Len(b) \in Nat /\ Len(e) = Len(b) + Len(v)
    <3>1. Encode(f, v) = b \o v
      BY <1>2, <2>1, EncodeBy
    <3>2. Len(b) \in Nat /\ Len(b \o v) = Len(b) + Len(v)
      BY <1>2, Joined
    <3> QED BY <1>e, <3>1, <3>2
  <2>3. PICK s : s = SubSeq(b \o v, 1, k)
    OBVIOUS
  <2>4. CASE k < Len(b)
    <3>1. k \in 0 .. Len(b) - 1 /\ k \in 0 .. Len(b)
      BY <1>0, <2>2, <2>4
    <3>2. s = SubSeq(b, 1, k)
      BY <1>2, <2>3, <3>1, JoinedPieces
    <3>3. ReadVarint(s) = Fail
      BY <2>0, <2>1, <3>1, <3>2, ReadVarintCut
    <3>4. ~ReadVarint(s).ok
      BY <3>3 DEF Fail
    <3>5. ReadValue(w, s) = Fail
      BY <1>2, <3>4, ReadBy
    <3> QED BY <1>e, <2>2, <2>3, <3>5
  <2>5. CASE ~(k < Len(b))
    <3>1. PICK j \in 0 .. Len(v) : k = Len(b) + j /\ j < Len(v)
      <4>1. k - Len(b) \in 0 .. Len(v) /\ k = Len(b) + (k - Len(b)) /\ k - Len(b) < Len(v)
        BY <1>0, <2>0, <2>2, <2>5
      <4> QED BY <4>1
    <3>2. PICK p \in Seq(Nat) : p = SubSeq(v, 1, j) /\ Len(p) = j
      BY <1>2, <3>1, Pieces
    <3>3. s = b \o p
      <4>1. \A i \in 0 .. Len(v) : SubSeq(b \o v, 1, Len(b) + i) = b \o SubSeq(v, 1, i)
        BY <1>2, JoinedPieces
      <4> QED BY <2>3, <3>1, <3>2, <4>1
    <3>4. ReadVarint(s) = Got(Len(v), p)
      BY <2>0, <2>1, <3>2, <3>3, ReadVarintIs
    <3>5. Take(p, Len(v)) = Fail
      BY <3>1, <3>2 DEF Take
    <3>6. ReadVarint(s).ok /\ ReadVarint(s).rest = p /\ ReadVarint(s).v = Len(v)
      BY <3>4 DEF Got
    <3>7. ReadValue(w, s) = Fail
      BY <1>2, <3>5, <3>6, ReadBy
    <3> QED BY <1>e, <2>2, <2>3, <3>7
  <2> QED BY <2>4, <2>5
<1>3. CASE w = Fixed32 /\ v \in Seq(Nat) /\ Len(v) = 4
  <2>1. e = v
    BY <1>e, <1>3, EncodeBy
  <2>2. PICK s : s = SubSeq(v, 1, k)
    OBVIOUS
  <2>3. Len(s) = k
    BY <1>0, <1>3, <2>1, <2>2, Pieces
  <2>4. Take(s, 4) = Fail
    BY <1>0, <1>3, <2>1, <2>3 DEF Take
  <2>5. ReadValue(w, s) = Fail
    BY <1>3, <2>4, ReadBy
  <2> QED BY <1>e, <2>1, <2>2, <2>5
<1> QED BY <1>1, <1>2, <1>3 DEF Carries

Messages(type) == [DOMAIN type -> Seq(AnyValue)]
Results(type) == [ok : BOOLEAN, m : Messages(type)]

(* The value of the first field of s. *)
FirstValue(s) ==
    LET tag == ReadVarint(s)
    IN IF tag.ok /\ tag.v >= 8 THEN ReadValue(tag.v % 8, tag.rest) ELSE Fail
(* The first field of s, with value v, is a field of the type.              *)
Known(type, s, v) ==
    /\ ReadVarint(s).v \div 8 \in DOMAIN type
    /\ ReadVarint(s).v % 8 = type[ReadVarint(s).v \div 8].wire
    /\ v \in type[ReadVarint(s).v \div 8].valid
(* A message with one value, and a result with it merged in front.          *)
One(type, i, v) == With(type, Cleared(type), i, v)
Prefixed(type, i, v, r) == [r EXCEPT !.m = Merged(type, One(type, i, v), r.m)]

(* The first field of some bytes leaves a shorter rest.                     *)
LEMMA FirstValueType ==
    ASSUME NEW s \in Seq(Nat), FirstValue(s).ok
    PROVE  \E v \in AnyValue, rest \in Seq(Nat) : FirstValue(s) = Got(v, rest) /\ Len(rest) < Len(s)
<1>1. PICK tag : tag = ReadVarint(s)
    OBVIOUS
<1>2. tag.ok /\ FirstValue(s) = ReadValue(tag.v % 8, tag.rest)
    BY <1>1 DEF FirstValue, Fail
<1>3. PICK n \in Nat, x \in Seq(Nat) : tag = Got(n, x) /\ Len(x) < Len(s)
    BY <1>1, <1>2, ReadVarintType
<1>4. FirstValue(s) = ReadValue(tag.v % 8, x)
    BY <1>2, <1>3 DEF Got
<1>5. PICK v \in AnyValue, rest \in Seq(Nat) : FirstValue(s) = Got(v, rest) /\ Len(rest) <= Len(x)
    BY <1>4, ReadValueType
<1>6. Len(rest) < Len(s)
    BY <1>3, <1>5, LenProperties
<1> QED BY <1>5, <1>6

(* MergeFrom makes a message of two.                                        *)
LEMMA MergedType ==
    ASSUME NEW type, NEW a \in Messages(type), NEW b \in Messages(type)
    PROVE  Merged(type, a, b) \in Messages(type)
<1> PICK V : V = Seq(AnyValue)
    OBVIOUS
<1>1. \A i \in DOMAIN type : a[i] \in V /\ b[i] \in V /\ a[i] \o b[i] \in V
    BY ConcatProperties DEF Messages
<1> QED BY <1>1 DEF Merged, Messages

(* A message with one value, as With makes it from a cleared one.           *)
LEMMA OneType ==
    ASSUME NEW type, NEW i \in DOMAIN type, NEW v \in AnyValue
    PROVE  One(type, i, v) \in Messages(type) /\ Cleared(type) \in Messages(type)
           /\ One(type, i, v) = [j \in DOMAIN type |-> IF j = i THEN <<v>> ELSE <<>>]
<1>1. <<>> \in Seq(AnyValue) /\ <<v>> \in Seq(AnyValue) /\ Append(<<>>, v) = <<v>>
    BY AppendProperties
<1>2. Cleared(type) \in Messages(type)
    BY <1>1 DEF Cleared, Messages
<1>3. One(type, i, v) = [j \in DOMAIN type |-> IF j = i THEN <<v>> ELSE <<>>]
    BY <1>1 DEF One, With, Cleared
<1> QED BY <1>1, <1>2, <1>3 DEF Messages

(* Parsing satisfies its recursion. *)
LEMMA ParsedDef ==
    ASSUME NEW type, NEW s \in Seq(Nat)
    PROVE  /\ Parsed(type, s) \in Results(type)
           /\ s = <<>> => Parsed(type, s) = [ok |-> TRUE, m |-> Cleared(type)]
           /\ s # <<>> => Parsed(type, s) =
                IF ~FirstValue(s).ok THEN [ok |-> FALSE, m |-> Cleared(type)]
                ELSE IF Known(type, s, FirstValue(s).v)
                THEN Prefixed(type, ReadVarint(s).v \div 8, FirstValue(s).v, Parsed(type, FirstValue(s).rest))
                ELSE Parsed(type, FirstValue(s).rest)
<1> DEFINE D == Seq(Nat)
           V == Results(type)
           mu == [x \in D |-> Len(x)]
           Empty == [ok |-> TRUE, m |-> Cleared(type)]
           Bad == [ok |-> FALSE, m |-> Cleared(type)]
           Def(g, x) ==
             IF x = <<>> THEN Empty ELSE IF ~FirstValue(x).ok THEN Bad
             ELSE IF Known(type, x, FirstValue(x).v)
             THEN Prefixed(type, ReadVarint(x).v \div 8, FirstValue(x).v, g[FirstValue(x).rest])
             ELSE g[FirstValue(x).rest]
           F == [x \in D |-> [g \in [D -> V] |-> Def(g, x)]]
<1>0. ASSUME NEW x \in D, FirstValue(x).ok
      PROVE  FirstValue(x).v \in AnyValue /\ FirstValue(x).rest \in D /\ mu[FirstValue(x).rest] < mu[x]
  <2>1. PICK v \in AnyValue, rest \in Seq(Nat) : FirstValue(x) = Got(v, rest) /\ Len(rest) < Len(x)
    BY <1>0, FirstValueType
  <2>2. FirstValue(x).v = v /\ FirstValue(x).rest = rest
    BY <2>1 DEF Got
  <2> QED BY <2>1, <2>2
<1>v. Cleared(type) \in Messages(type) /\ Empty \in V /\ Bad \in V
    BY DEF Cleared, Messages, Results
<1>p. ASSUME NEW x \in D, NEW r \in V, FirstValue(x).ok, Known(type, x, FirstValue(x).v)
      PROVE  Prefixed(type, ReadVarint(x).v \div 8, FirstValue(x).v, r) \in V
  <2>1. PICK i \in DOMAIN type : i = ReadVarint(x).v \div 8
    BY <1>p DEF Known
  <2>2. PICK v \in AnyValue : v = FirstValue(x).v
    BY <1>0, <1>p
  <2>3. r.m \in Messages(type) /\ One(type, i, v) \in Messages(type)
    BY OneType DEF Results
  <2>4. Merged(type, One(type, i, v), r.m) \in Messages(type)
    BY <2>3, MergedType
  <2>5. Prefixed(type, i, v, r) \in V
    BY <2>4 DEF Prefixed, Results
  <2> QED BY <2>1, <2>2, <2>5
<1>1. \A x \in D : \A g \in [D -> V] : F[x][g] = Def(g, x)
    OBVIOUS
<1>2. \A x \in D : \A g \in [D -> V] : F[x][g] \in V
  <2> SUFFICES ASSUME NEW x \in D, NEW g \in [D -> V] PROVE Def(g, x) \in V
    BY <1>1
  <2> HIDE DEF D, V, mu, Empty, Bad
  <2>1. FirstValue(x).ok => g[FirstValue(x).rest] \in V
    BY <1>0
  <2> QED BY <1>v, <1>p, <2>1
<1>3. \A x \in D : \A g, h \in [D -> V] :
         (\A y \in D : mu[y] < mu[x] => g[y] = h[y]) => F[x][g] = F[x][h]
  <2>1. ASSUME NEW x \in D, NEW g \in [D -> V], NEW h \in [D -> V],
               \A y \in D : mu[y] < mu[x] => g[y] = h[y]
        PROVE  Def(g, x) = Def(h, x)
    <3> HIDE DEF D, V, mu, Empty, Bad
    <3>1. FirstValue(x).ok => g[FirstValue(x).rest] = h[FirstValue(x).rest]
      BY <1>0, <2>1
    <3> QED BY <3>1
  <2> HIDE DEF Def, F, D, V, mu
  <2> QED BY <1>1, <2>1
<1>4. mu \in [D -> Nat] /\ V # {}
    BY <1>v, LenProperties
<1>5. PICK f : Computes(f, D, V, F)
  <2> HIDE DEF F, mu, V, D
  <2>1. Guarded(D, mu, V, F)
    BY <1>2, <1>3, <1>4 DEF Guarded
  <2> QED BY <2>1, Recursion
<1>6. f = [x \in D |-> Def(f, x)]
    BY <1>1, <1>5 DEF Computes
<1> DEFINE P == CHOOSE g : g = [x \in D |-> Def(g, x)]
<1>7. P = [x \in D |-> Def(P, x)]
    BY <1>6
<1>8. \A x \in D : Parsed(type, x) = P[x]
    BY DEF Parsed, FirstValue, Known, Prefixed, One
<1> HIDE DEF P
<1> DEFINE T == {x \in D : P[x] \in V}
<1>9. ASSUME NEW x \in D, \A y \in D : mu[y] < mu[x] => y \in T PROVE x \in T
  <2>1. P[x] = Def(P, x)
    BY <1>7
  <2>2. FirstValue(x).ok => P[FirstValue(x).rest] \in V
    BY <1>0, <1>9
  <2> HIDE DEF D, V, mu, Empty, Bad
  <2>3. Def(P, x) \in V
    BY <1>v, <1>p, <2>2
  <2> QED BY <2>1, <2>3
<1>10. \A x \in D : x \in T
  <2> HIDE DEF T, mu, D
  <2> QED BY <1>4, <1>9, MeasureInduction
<1>11. Parsed(type, s) = Def(P, s) /\ Parsed(type, s) \in Results(type)
    BY <1>7, <1>8, <1>10
<1>12. FirstValue(s).ok => P[FirstValue(s).rest] = Parsed(type, FirstValue(s).rest)
    BY <1>0, <1>8
<1> HIDE DEF D, V, mu
<1> QED BY <1>11, <1>12

(* Tags of fields are single bytes. *)
IsType(type) ==
    \A i \in DOMAIN type : i \in 1 .. 15 /\ type[i].wire \in {Varints, Lengths, Fixed32}
(* What a field can be set to, and what is written of it: tag and value.    *)
Sendable(f, v) == Carries(f, v) /\ v \in f.valid
Item(type, i, v) == <<8 * i + type[i].wire>> \o Encode(type[i], v)

(* A tag is one byte, and is read back as field number and wire type.       *)
LEMMA TagIs ==
    ASSUME NEW i \in 1 .. 15, NEW w \in {Varints, Lengths, Fixed32}, NEW t \in Seq(Nat)
    PROVE  /\ 8 * i + w \in Nat /\ 8 * i + w >= 8 /\ (8 * i + w) \div 8 = i /\ (8 * i + w) % 8 = w
           /\ ReadVarint(<<8 * i + w>> \o t) = Got(8 * i + w, t)
           /\ FirstValue(<<8 * i + w>> \o t) = ReadValue(w, t)
<1>1. PICK n \in Nat : n = 8 * i + w /\ n >= 8 /\ n < 128 /\ n \div 8 = i /\ n % 8 = w
  <2>1. w \in {0, 2, 5}
    BY DEF Varints, Lengths, Fixed32
  <2>2. 8 * i + w \in Nat /\ 8 * i + w >= 8 /\ 8 * i + w < 128
    BY <2>1
  <2>3. (8 * i + w) \div 8 = i /\ (8 * i + w) % 8 = w
    BY <2>1
  <2> QED BY <2>2, <2>3
<1>2. Varint[n] = <<n>>
    BY <1>1, VarintDef
<1>3. ReadVarint(<<n>> \o t) = Got(n, t)
    BY <1>2, ReadVarintIs
<1>4. PICK g : g = ReadVarint(<<n>> \o t) /\ g.ok /\ g.v = n /\ g.rest = t
    BY <1>3 DEF Got
<1>5. FirstValue(<<n>> \o t) = ReadValue(n % 8, t)
    BY <1>1, <1>4 DEF FirstValue
<1> QED BY <1>1, <1>3, <1>5

(* A written field is bytes, none of them first a 0.                        *)
LEMMA ItemType ==
    ASSUME NEW type, IsType(type), NEW i \in DOMAIN type, NEW v, Sendable(type[i], v)
    PROVE  /\ 8 * i + type[i].wire \in Nat /\ Encode(type[i], v) \in Seq(Nat)
           /\ Item(type, i, v) \in Seq(Nat) /\ Len(Item(type, i, v)) = Len(Encode(type[i], v)) + 1
           /\ Len(Encode(type[i], v)) \in Nat /\ Item(type, i, v)[1] >= 8
<1>1. i \in 1 .. 15 /\ type[i].wire \in {Varints, Lengths, Fixed32}
    BY DEF IsType
<1>2. Encode(type[i], v) \in Seq(Nat)
    BY EncodeIs DEF Sendable
<1>3. 8 * i + type[i].wire \in Nat /\ 8 * i + type[i].wire >= 8
    BY <1>1, <1>2, TagIs
<1> QED BY <1>2, <1>3, HeadAndTail DEF Item

(* A field that stands before t is merged before what t is parsed to.       *)
LEMMA ParsedField ==
    ASSUME NEW type, IsType(type), NEW i \in DOMAIN type, NEW v, Sendable(type[i], v), NEW t \in Seq(Nat)
    PROVE  Parsed(type, Item(type, i, v) \o t) = Prefixed(type, i, v, Parsed(type, t))
<1>1. i \in 1 .. 15 /\ type[i].wire \in {Varints, Lengths, Fixed32}
    BY DEF IsType
<1>2. PICK e \in Seq(Nat) : e = Encode(type[i], v)
    BY EncodeIs DEF Sendable
<1>3. PICK w \in {Varints, Lengths, Fixed32} : w = type[i].wire
    BY <1>1
<1>4. PICK n \in Nat : n = 8 * i + w
    BY <1>1, <1>2, TagIs
<1>5. e \o t \in Seq(Nat) /\ <<n>> \in Seq(Nat)
    BY Joined, HeadAndTail
<1>6. PICK s \in Seq(Nat) : s = <<n>> \o (e \o t) /\ s # <<>>
    BY <1>5, HeadAndTail
<1>7. Item(type, i, v) \o t = s
  <2>1. (<<n>> \o e) \o t = <<n>> \o (e \o t)
    BY <1>5, Assoc, SMTT(30)
  <2> QED BY <1>2, <1>3, <1>4, <1>6, <2>1 DEF Item
<1>8. ReadVarint(s) = Got(n, e \o t) /\ n \div 8 = i /\ n % 8 = w /\ FirstValue(s) = ReadValue(w, e \o t)
    BY <1>1, <1>4, <1>5, <1>6, TagIs, ZenonT(40)
<1>9. FirstValue(s) = Got(v, t)
    BY <1>2, <1>3, <1>8, ReadValueIs DEF Sendable
<1>10. FirstValue(s).ok /\ FirstValue(s).v = v /\ FirstValue(s).rest = t /\ ReadVarint(s).v = n
    BY <1>8, <1>9 DEF Got
<1>11. Known(type, s, v)
    BY <1>3, <1>8, <1>10 DEF Known, Sendable
<1>12. Parsed(type, s) = Prefixed(type, n \div 8, v, Parsed(type, t))
    BY <1>6, <1>10, <1>11, ParsedDef
<1> QED BY <1>7, <1>8, <1>12

(* A field that is cut after its tag, or later but before its end, is       *)
(* refused.                                                                 *)
LEMMA ParsedCut ==
    ASSUME NEW type, IsType(type), NEW i \in DOMAIN type, NEW v, Sendable(type[i], v),
           NEW k \in 1 .. Len(Item(type, i, v)) - 1
    PROVE  ~Parsed(type, SubSeq(Item(type, i, v), 1, k)).ok
<1>1. i \in 1 .. 15 /\ type[i].wire \in {Varints, Lengths, Fixed32}
    BY DEF IsType
<1>2. PICK e \in Seq(Nat) : e = Encode(type[i], v) /\ Len(e) \in Nat /\ Len(Item(type, i, v)) = Len(e) + 1
    BY ItemType
<1>3. PICK w \in {Varints, Lengths, Fixed32} : w = type[i].wire
    BY <1>1
<1>4. PICK n \in Nat : n = 8 * i + w
    BY <1>1, <1>2, TagIs
<1>5. PICK j \in 0 .. Len(e) - 1 : k = 1 + j /\ j \in 0 .. Len(e)
  <2>1. k - 1 \in 0 .. Len(e) - 1 /\ k = 1 + (k - 1) /\ k - 1 \in 0 .. Len(e)
    BY <1>2
  <2> QED BY <2>1
<1>6. PICK p \in Seq(Nat) : p = SubSeq(e, 1, j)
    BY <1>5, Pieces
<1>7. SubSeq(<<n>> \o e, 1, k) = <<n>> \o p
  <2>1. <<n>> \in Seq(Nat) /\ Len(<<n>>) = 1
    OBVIOUS
  <2>2. SubSeq(<<n>> \o e, 1, 1 + j) = <<n>> \o SubSeq(e, 1, j)
    BY <1>5, <2>1, JoinedPieces, ZenonT(40)
  <2> QED BY <1>5, <1>6, <2>2
<1>8. PICK s \in Seq(Nat) : s = <<n>> \o p /\ s # <<>>
    BY <1>6, HeadAndTail
<1>9. FirstValue(s) = ReadValue(w, p)
    BY <1>1, <1>4, <1>8, TagIs
<1>10. ReadValue(w, p) = Fail
    BY <1>2, <1>3, <1>5, <1>6, ReadValueCut DEF Sendable
<1>11. ~FirstValue(s).ok
    BY <1>9, <1>10 DEF Fail
<1>12. Parsed(type, s) = [ok |-> FALSE, m |-> Cleared(type)]
    BY <1>8, <1>11, ParsedDef
<1>13. ~Parsed(type, s).ok
    BY <1>12
<1>14. SubSeq(Item(type, i, v), 1, k) = s
    BY <1>2, <1>3, <1>4, <1>7, <1>8 DEF Item
<1> QED BY <1>13, <1>14

(* Parsing t gives M, and t cut at one of its 0 bytes is refused. *)
Reads(type, t, M) ==
    /\ t \in Seq(Nat) /\ M \in Messages(type)
    /\ Parsed(type, t).ok /\ Parsed(type, t).m = M
    /\ \A z \in 1 .. Len(t) : t[z] = 0 => ~Parsed(type, SubSeq(t, 1, z - 1)).ok

(* A field put before a result changes the message and not the verdict.     *)
LEMMA PrefixedIs ==
    ASSUME NEW type, NEW i, NEW v, NEW r \in Results(type)
    PROVE  /\ Prefixed(type, i, v, r).ok = r.ok
           /\ Prefixed(type, i, v, r).m = Merged(type, One(type, i, v), r.m)
BY DEF Prefixed, Results

(* No bytes are a cleared message.                                          *)
LEMMA ReadsNothing ==
    ASSUME NEW type
    PROVE  Reads(type, <<>>, Cleared(type))
<1>1. <<>> \in Seq(Nat) /\ Len(<<>>) = 0
    OBVIOUS
<1>2. Parsed(type, <<>>) = [ok |-> TRUE, m |-> Cleared(type)] /\ Parsed(type, <<>>) \in Results(type)
    BY <1>1, ParsedDef
<1>3. Parsed(type, <<>>).ok /\ Parsed(type, <<>>).m = Cleared(type)
    BY <1>2
<1>4. Cleared(type) \in Messages(type)
    BY <1>2, <1>3 DEF Results
<1> QED BY <1>1, <1>3, <1>4 DEF Reads

(* Bytes that are read as M are read with one more field in front of them,  *)
(* and a cut at a 0 of that field falls after its tag.                      *)
LEMMA ReadsField ==
    ASSUME NEW type, IsType(type), NEW i \in DOMAIN type, NEW v, Sendable(type[i], v),
           NEW t, NEW M, Reads(type, t, M)
    PROVE  Reads(type, Item(type, i, v) \o t, Merged(type, One(type, i, v), M))
<1>1. PICK a \in Seq(Nat) : a = Item(type, i, v) /\ a[1] >= 8 /\ Len(a) \in Nat \ {0}
    BY ItemType
<1>2. t \in Seq(Nat) /\ M \in Messages(type) /\ Parsed(type, t).ok /\ Parsed(type, t).m = M
    BY DEF Reads
<1>3. \A x \in Seq(Nat) : /\ Parsed(type, a \o x).ok = Parsed(type, x).ok
                          /\ Parsed(type, a \o x).m = Merged(type, One(type, i, v), Parsed(type, x).m)
  <2> SUFFICES ASSUME NEW x \in Seq(Nat)
               PROVE  /\ Parsed(type, a \o x).ok = Parsed(type, x).ok
                      /\ Parsed(type, a \o x).m = Merged(type, One(type, i, v), Parsed(type, x).m)
    OBVIOUS
  <2>1. Parsed(type, a \o x) = Prefixed(type, i, v, Parsed(type, x))
    BY <1>1, ParsedField
  <2>2. Parsed(type, x) \in Results(type)
    BY ParsedDef
  <2> QED BY <2>1, <2>2, PrefixedIs
<1>4. Merged(type, One(type, i, v), M) \in Messages(type)
  <2>1. v \in AnyValue
    BY DEF Sendable, Carries, AnyValue
  <2> QED BY <1>2, <2>1, OneType, MergedType
<1>5. PICK s \in Seq(Nat) :
         /\ s = a \o t /\ Len(s) = Len(a) + Len(t) /\ Len(t) \in Nat
         /\ \A z \in 1 .. Len(a) : s[z] = a[z]
         /\ \A z \in 1 .. Len(t) : s[Len(a) + z] = t[z]
    BY <1>2, Joined
<1>6. ASSUME NEW z \in 1 .. Len(s), s[z] = 0 PROVE ~Parsed(type, SubSeq(s, 1, z - 1)).ok
  <2>1. CASE z <= Len(a)
    <3>1. z \in 1 .. Len(a) /\ 1 \in 1 .. Len(a)
      BY <1>1, <2>1
    <3>2. z # 1
      BY <1>1, <1>5, <1>6, <3>1
    <3>3. z - 1 \in 1 .. Len(a) - 1 /\ z - 1 \in 0 .. Len(a)
      BY <1>1, <3>1, <3>2
    <3>4. SubSeq(s, 1, z - 1) = SubSeq(a, 1, z - 1)
      BY <1>2, <1>5, <3>3, JoinedPieces
    <3> QED BY <1>1, <3>3, <3>4, ParsedCut
  <2>2. CASE ~(z <= Len(a))
    <3>1. PICK y \in 1 .. Len(t) : z = Len(a) + y
      <4>1. z - Len(a) \in 1 .. Len(t) /\ z = Len(a) + (z - Len(a))
        BY <1>1, <1>5, <2>2
      <4> QED BY <4>1
    <3>2. y - 1 \in 0 .. Len(t) /\ z - 1 = Len(a) + (y - 1)
      BY <1>1, <1>5, <3>1
    <3>3. PICK p \in Seq(Nat) : p = SubSeq(t, 1, y - 1)
      BY <1>2, <3>2, Pieces
    <3>4. SubSeq(s, 1, z - 1) = a \o p
      <4>1. SubSeq(a \o t, 1, Len(a) + (y - 1)) = a \o SubSeq(t, 1, y - 1)
        <5>1. \A k \in 0 .. Len(t) : SubSeq(a \o t, 1, Len(a) + k) = a \o SubSeq(t, 1, k)
          BY <1>2, JoinedPieces, ZenonT(40)
        <5> QED BY ONLY <3>2, <5>1
      <4> QED BY ONLY <1>5, <3>2, <3>3, <4>1
    <3>5. ~Parsed(type, p).ok
      BY <1>5, <1>6, <3>1, <3>3 DEF Reads
    <3> QED BY <1>3, <3>4, <3>5
  <2> QED BY <2>1, <2>2
<1>7. Parsed(type, s).ok /\ Parsed(type, s).m = Merged(type, One(type, i, v), M)
    BY <1>2, <1>3, <1>5
<1> QED BY <1>1, <1>4, <1>5, <1>6, <1>7 DEF Reads

(* All that is written of field i, and the messages the setters can make.   *)
Items(type, i, x) == FlattenSeq([j \in DOMAIN x |-> Item(type, i, x[j])])
WellFormed(type, x) ==
    /\ x \in Messages(type)
    /\ \A i \in DOMAIN type :
          /\ \A j \in 1 .. Len(x[i]) : Sendable(type[i], x[i][j])
          /\ ~type[i].repeated => Len(x[i]) <= 1
Put(M, i, x) == [M EXCEPT ![i] = x]

(* A value merged before a field's other values.                            *)
LEMMA MergedPut ==
    ASSUME NEW type, NEW i \in DOMAIN type, NEW M \in Messages(type), M[i] = <<>>,
           NEW v \in AnyValue, NEW y \in Seq(AnyValue), ~type[i].repeated => y = <<>>
    PROVE  Merged(type, One(type, i, v), Put(M, i, y)) = Put(M, i, <<v>> \o y)
<1>1. One(type, i, v) = [j \in DOMAIN type |-> IF j = i THEN <<v>> ELSE <<>>]
    BY OneType
<1>2. \A x \in Seq(AnyValue) : <<>> \o x = x
    BY ConcatEmptySeq
<1>3. <<v>> \o <<>> = <<v>>
  <2>1. <<v>> \in Seq(AnyValue)
    OBVIOUS
  <2> QED BY <2>1, ConcatEmptySeq
<1>4. M = [j \in DOMAIN type |-> M[j]] /\ \A j \in DOMAIN type : M[j] \in Seq(AnyValue)
    BY DEF Messages
<1> PICK o : o = One(type, i, v)
    OBVIOUS
<1> PICK p : p = Put(M, i, y)
    OBVIOUS
<1>5. p = [j \in DOMAIN type |-> IF j = i THEN y ELSE M[j]]
    BY <1>4 DEF Put
<1>6. Put(M, i, <<v>> \o y) = [j \in DOMAIN type |-> IF j = i THEN <<v>> \o y ELSE M[j]]
    BY <1>4 DEF Put
<1>7. ASSUME NEW j \in DOMAIN type
      PROVE  (IF type[j].repeated THEN o[j] \o p[j] ELSE IF p[j] # <<>> THEN p[j] ELSE o[j])
             = IF j = i THEN <<v>> \o y ELSE M[j]
  <2>1. CASE j = i
    <3>1. o[j] = <<v>> /\ p[j] = y
      BY <1>1, <1>5, <2>1
    <3> QED BY <1>3, <2>1, <3>1
  <2>2. CASE j # i
    <3>1. o[j] = <<>> /\ p[j] = M[j] /\ M[j] \in Seq(AnyValue)
      BY <1>1, <1>4, <1>5, <2>2
    <3>2. <<>> \o M[j] = M[j]
      BY <1>2, <3>1
    <3> QED BY <2>2, <3>1, <3>2
  <2> QED BY <2>1, <2>2
<1> QED BY <1>6, <1>7 DEF Merged

(* A function on 1 .. n is a sequence.                                      *)
LEMMA SeqIs ==
    ASSUME NEW S, NEW n \in Nat, NEW f, f = [i \in 1 .. n |-> f[i]], \A i \in 1 .. n : f[i] \in S
    PROVE  f \in Seq(S) /\ Len(f) = n /\ DOMAIN f = 1 .. n
OBVIOUS

(* A sequence of values is its first value and the others.                  *)
LEMMA HeadTailParts ==
    ASSUME NEW n \in Nat, NEW x \in Seq(AnyValue), Len(x) = n + 1
    PROVE  \E y \in Seq(AnyValue) : /\ Len(y) = n /\ DOMAIN y = 1 .. n /\ DOMAIN x = 1 .. n + 1
                             /\ x[1] \in AnyValue /\ x = <<x[1]>> \o y
                             /\ \A j \in 1 .. n : y[j] = x[j + 1]
<1>1. x # <<>> /\ DOMAIN x = 1 .. n + 1 /\ x[1] \in AnyValue
    OBVIOUS
<1>2. /\ Head(x) = x[1] /\ Tail(x) \in Seq(AnyValue) /\ Len(Tail(x)) = n
      /\ \A j \in 1 .. n : Tail(x)[j] = x[j + 1]
  <2>1. /\ Head(x) = x[1] /\ Tail(x) \in Seq(AnyValue) /\ Len(Tail(x)) = Len(x) - 1
        /\ \A j \in 1 .. Len(Tail(x)) : Tail(x)[j] = x[j + 1]
    BY <1>1, HeadTailProperties
  <2>2. Len(x) - 1 = n
    OBVIOUS
  <2> QED BY <2>1, <2>2
<1>3. PICK y \in Seq(AnyValue) : y = Tail(x)
    BY <1>2
<1>4. DOMAIN y = 1 .. n
    BY <1>2, <1>3, LenProperties
<1>5. PICK h \in AnyValue : h = x[1]
    BY <1>1
<1>6. x = <<h>> \o y
  <2>1. <<h>> \in Seq(AnyValue) /\ Len(<<h>>) = 1 /\ <<h>>[1] = h
    OBVIOUS
  <2>2. /\ <<h>> \o y \in Seq(AnyValue) /\ Len(<<h>> \o y) = 1 + n
        /\ \A i \in 1 .. 1 + n : (<<h>> \o y)[i] = IF i <= 1 THEN <<h>>[i] ELSE y[i - 1]
    BY <1>2, <1>3, <2>1, ConcatProperties
  <2>3. PICK c \in Seq(AnyValue) : c = <<h>> \o y
    BY <2>2
  <2>4. ASSUME NEW i \in 1 .. n + 1 PROVE c[i] = x[i]
    <3>1. CASE i = 1
      BY <1>5, <2>1, <2>2, <2>3, <3>1
    <3>2. CASE i # 1
      <4>1. i - 1 \in 1 .. n /\ (i - 1) + 1 = i /\ ~(i <= 1) /\ i \in 1 .. 1 + n
        BY <3>2
      <4> QED BY <1>2, <1>3, <2>2, <2>3, <4>1
    <3> QED BY <3>1, <3>2
  <2>5. Len(c) = n + 1
    BY <2>2, <2>3
  <2>6. c = x
    BY <2>4, <2>5, SeqEqual
  <2> QED BY <2>3, <2>6
<1> QED BY <1>1, <1>2, <1>3, <1>4, <1>5, <1>6

(* The values of a field are written one after the other.                   *)
LEMMA ItemsCons ==
    ASSUME NEW type, IsType(type), NEW i \in DOMAIN type, NEW n \in Nat,
           NEW x \in Seq(AnyValue), Len(x) = n + 1, \A j \in 1 .. n + 1 : Sendable(type[i], x[j]),
           NEW y \in Seq(AnyValue), Len(y) = n, \A j \in 1 .. n : y[j] = x[j + 1]
    PROVE  /\ Items(type, i, x) = Item(type, i, x[1]) \o Items(type, i, y)
           /\ Items(type, i, x) \in Seq(Nat) /\ Items(type, i, y) \in Seq(Nat)
<1>1. DOMAIN x = 1 .. n + 1 /\ DOMAIN y = 1 .. n
    BY LenProperties
<1>2. PICK X : X = [j \in 1 .. n + 1 |-> Item(type, i, x[j])]
    OBVIOUS
<1>3. PICK Y : Y = [j \in 1 .. n |-> Item(type, i, y[j])]
    OBVIOUS
<1>4. \A j \in 1 .. n + 1 : Item(type, i, x[j]) \in Seq(Nat)
    BY ItemType
<1>5. \A j \in 1 .. n : Item(type, i, y[j]) \in Seq(Nat) /\ Y[j] = X[j + 1]
  <2>1. \A j \in 1 .. n : j + 1 \in 1 .. n + 1
    OBVIOUS
  <2> QED BY <1>2, <1>3, <1>4, <2>1
<1>6. X \in Seq(Seq(Nat)) /\ Len(X) = n + 1 /\ Y \in Seq(Seq(Nat)) /\ Len(Y) = n
  <2>1. n + 1 \in Nat
    OBVIOUS
  <2> PICK S : S = Seq(Nat)
    OBVIOUS
  <2>2. X = [j \in 1 .. n + 1 |-> X[j]] /\ \A j \in 1 .. n + 1 : X[j] \in S
    BY <1>2, <1>4
  <2>3. Y = [j \in 1 .. n |-> Y[j]] /\ \A j \in 1 .. n : Y[j] \in S
    BY <1>3, <1>5
  <2>4. X \in Seq(S) /\ Len(X) = n + 1
    BY ONLY <2>1, <2>2, SeqIs
  <2>5. Y \in Seq(S) /\ Len(Y) = n
    BY ONLY <2>3, SeqIs, n \in Nat
  <2> QED BY <2>4, <2>5
<1>7. FlattenSeq(X) = X[1] \o FlattenSeq(Y)
    BY <1>5, <1>6, FlattenCons
<1>8. X[1] = Item(type, i, x[1])
    BY <1>2
<1>9. FlattenSeq(X) \in Seq(Nat) /\ FlattenSeq(Y) \in Seq(Nat)
    BY <1>6, FlattenType
<1>10. Items(type, i, x) = FlattenSeq(X) /\ Items(type, i, y) = FlattenSeq(Y)
    BY <1>1, <1>2, <1>3 DEF Items
<1> QED BY <1>7, <1>8, <1>9, <1>10

(* The items of field i, in front of a text that has none of it. *)
LEMMA ReadsItems ==
    ASSUME NEW type, IsType(type), NEW i \in DOMAIN type, NEW t, NEW M, Reads(type, t, M), M[i] = <<>>,
           NEW N \in Nat
    PROVE  \A x \in Seq(AnyValue) :
              /\ Len(x) = N /\ (~type[i].repeated => N <= 1)
              /\ \A j \in 1 .. N : Sendable(type[i], x[j])
              => Reads(type, Items(type, i, x) \o t, Put(M, i, x))
<1> DEFINE Sent(x, n) == /\ Len(x) = n /\ (~type[i].repeated => n <= 1)
                         /\ \A j \in 1 .. n : Sendable(type[i], x[j])
           T == {n \in 0 .. N : \A x \in Seq(AnyValue) :
                    Sent(x, n) => Reads(type, Items(type, i, x) \o t, Put(M, i, x))}
<1>0. t \in Seq(Nat) /\ M \in Messages(type)
    BY DEF Reads
<1>1. 0 \in T
  <2> SUFFICES ASSUME NEW x \in Seq(AnyValue), Len(x) = 0
               PROVE  Reads(type, Items(type, i, x) \o t, Put(M, i, x))
    OBVIOUS
  <2>1. x = <<>>
    BY EmptySeq
  <2>2. Items(type, i, x) = <<>>
    <3>1. [j \in DOMAIN x |-> Item(type, i, x[j])] = <<>>
      BY <2>1
    <3>2. FlattenSeq(<<>>) = <<>>
      BY DEF FlattenSeq
    <3> QED BY <3>1, <3>2 DEF Items
  <2>3. <<>> \o t = t
    BY <1>0, ConcatEmptySeq
  <2>4. Put(M, i, x) = M
    BY <1>0, <2>1 DEF Put, Messages
  <2> QED BY <2>2, <2>3, <2>4
<1>2. ASSUME NEW n \in 0 .. N - 1, n \in T PROVE n + 1 \in T
  <2>0. n \in Nat /\ n + 1 \in 0 .. N
    OBVIOUS
  <2> SUFFICES ASSUME NEW x \in Seq(AnyValue), Sent(x, n + 1)
               PROVE  Reads(type, Items(type, i, x) \o t, Put(M, i, x))
    BY <2>0
  <2>1. PICK y \in Seq(AnyValue) : /\ Len(y) = n /\ x[1] \in AnyValue /\ x = <<x[1]>> \o y
                              /\ \A j \in 1 .. n : y[j] = x[j + 1]
    <3>1. Len(x) = n + 1
      OBVIOUS
    <3>2. n \in Nat
      BY <2>0
    <3> HIDE DEF Sent
    <3>3. \E y \in Seq(AnyValue) :
             /\ Len(y) = n /\ DOMAIN y = 1 .. n /\ DOMAIN x = 1 .. n + 1
             /\ x[1] \in AnyValue /\ x = <<x[1]>> \o y
             /\ \A j \in 1 .. n : y[j] = x[j + 1]
      BY <3>1, <3>2, HeadTailParts, Zenon
    <3> QED BY <3>3, Zenon
  <2>2. PICK v \in AnyValue : v = x[1]
    BY <2>1
  <2>3. Sendable(type[i], v) /\ \A j \in 1 .. n : Sendable(type[i], y[j])
    <3>1. 1 \in 1 .. n + 1 /\ \A j \in 1 .. n : j + 1 \in 1 .. n + 1
      BY <2>0
    <3> QED BY <2>1, <2>2, <3>1
  <2>4. ~type[i].repeated => n = 0 /\ y = <<>>
    <3>1. ~type[i].repeated => n = 0
      BY <2>0
    <3> QED BY <2>1, <3>1, EmptySeq
  <2>5. Reads(type, Items(type, i, y) \o t, Put(M, i, y))
    <3>1. Sent(y, n)
      BY <2>1, <2>3, <2>4
    <3> HIDE DEF Sent
    <3> QED BY <1>2, <3>1
  <2>6. /\ Items(type, i, x) = Item(type, i, v) \o Items(type, i, y)
        /\ Items(type, i, y) \in Seq(Nat)
    BY <2>0, <2>1, <2>2, ItemsCons
  <2>7. Reads(type, Item(type, i, v) \o (Items(type, i, y) \o t),
              Merged(type, One(type, i, v), Put(M, i, y)))
    BY <2>3, <2>5, ReadsField
  <2>8. Item(type, i, v) \o (Items(type, i, y) \o t) = Items(type, i, x) \o t
    <3>1. Item(type, i, v) \in Seq(Nat)
      BY <2>3, ItemType
    <3>2. (Item(type, i, v) \o Items(type, i, y)) \o t = Item(type, i, v) \o (Items(type, i, y) \o t)
      BY <1>0, <2>6, <3>1, Assoc
    <3> QED BY <2>6, <3>2
  <2>9. Merged(type, One(type, i, v), Put(M, i, y)) = Put(M, i, x)
    <3>1. Merged(type, One(type, i, v), Put(M, i, y)) = Put(M, i, <<v>> \o y)
      BY <1>0, <2>4, MergedPut
    <3> QED BY ONLY <2>1, <2>2, <3>1
  <2> QED BY <2>7, <2>8, <2>9
<1>3. \A n \in 0 .. N : n \in T
  <2> HIDE DEF T
  <2>1. 0 \in Int /\ N \in Int
    OBVIOUS
  <2> QED BY <1>1, <1>2, <2>1, UpTo
<1> QED BY <1>3

(* The fields of a message are written one after the other.                 *)
LEMMA SerializedIs ==
    ASSUME NEW type, NEW n \in Nat, DOMAIN type = 1 .. n, NEW x
    PROVE  Serialized(type, x) = FlattenSeq([i \in 1 .. n |-> Items(type, i, x[i])])
BY DEF Serialized, Items, Item

(* The fields after the first n - k of a message, and the message of them.   *)
LastFields(n, k, x) == [i \in 1 .. n |-> IF i > n - k THEN x[i] ELSE <<>>]

(* The written values of a field are bytes.                                 *)
LEMMA ItemsType ==
    ASSUME NEW type, IsType(type), NEW i \in DOMAIN type, NEW x \in Seq(AnyValue),
           \A j \in 1 .. Len(x) : Sendable(type[i], x[j])
    PROVE  Items(type, i, x) \in Seq(Nat)
<1>1. PICK n \in Nat : n = Len(x) /\ DOMAIN x = 1 .. n
    BY LenProperties
<1>2. \A j \in 1 .. n : Item(type, i, x[j]) \in Seq(Nat)
    BY <1>1, ItemType
<1> PICK S : S = Seq(Nat)
    OBVIOUS
<1> PICK X : X = [j \in 1 .. n |-> Item(type, i, x[j])]
    OBVIOUS
<1>3. X = [j \in 1 .. n |-> X[j]] /\ \A j \in 1 .. n : X[j] \in S
    BY <1>2
<1>4. X \in Seq(S)
    BY ONLY <1>3, SeqIs, n \in Nat
<1>5. Items(type, i, x) = FlattenSeq(X)
    BY <1>1 DEF Items
<1> QED BY <1>4, <1>5, FlattenType

(* What is written of a message is read as that message, and refused when   *)
(* it is cut at a 0: by induction on the fields from the last and, in a     *)
(* field, on its values.                                                    *)
LEMMA RoundTrip ==
    ASSUME NEW type, IsType(type), NEW n \in Nat, DOMAIN type = 1 .. n, NEW x, WellFormed(type, x)
    PROVE  Reads(type, Serialized(type, x), x)
<1>0. ASSUME NEW i \in 1 .. n
      PROVE  /\ x[i] \in Seq(AnyValue) /\ Items(type, i, x[i]) \in Seq(Nat)
             /\ Len(x[i]) \in Nat /\ \A j \in 1 .. Len(x[i]) : Sendable(type[i], x[i][j])
             /\ ~type[i].repeated => Len(x[i]) <= 1
  <2>1. /\ x[i] \in Seq(AnyValue) /\ \A j \in 1 .. Len(x[i]) : Sendable(type[i], x[i][j])
        /\ ~type[i].repeated => Len(x[i]) <= 1
    BY DEF WellFormed, Messages
  <2> QED BY <2>1, ItemsType, LenProperties
<1> DEFINE B(k) == [i \in 1 .. k |-> Items(type, n - k + i, x[n - k + i])]
           T == {k \in 0 .. n : Reads(type, FlattenSeq(B(k)), LastFields(n, k, x))}
<1> PICK S : S = Seq(Nat)
    OBVIOUS
<1>b. ASSUME NEW k \in 0 .. n PROVE B(k) \in Seq(S) /\ Len(B(k)) = k
  <2> PICK X : X = B(k)
    OBVIOUS
  <2>1. \A i \in 1 .. k : n - k + i \in 1 .. n
    OBVIOUS
  <2>2. X = [i \in 1 .. k |-> X[i]] /\ \A i \in 1 .. k : X[i] \in S
    BY <1>0, <2>1
  <2>3. k \in Nat
    OBVIOUS
  <2>4. X \in Seq(S) /\ Len(X) = k
    BY ONLY <2>2, <2>3, SeqIs
  <2> QED BY <2>4
<1>1. 0 \in T
  <2>1. B(0) = <<>>
    OBVIOUS
  <2>2. FlattenSeq(<<>>) = <<>>
    BY DEF FlattenSeq
  <2>3. LastFields(n, 0, x) = Cleared(type)
    BY DEF LastFields, Cleared
  <2> QED BY <2>1, <2>2, <2>3, ReadsNothing
<1>2. ASSUME NEW k \in 0 .. n - 1, k \in T PROVE k + 1 \in T
  <2>1. PICK p \in 1 .. n : p = n - k
    <3>1. n - k \in 1 .. n
      OBVIOUS
    <3> QED BY <3>1
  <2>2. k \in Nat /\ k \in 0 .. n /\ k + 1 \in 0 .. n /\ n - (k + 1) + 1 = p
        /\ n - k = p /\ n - (k + 1) = p - 1
    BY <2>1
  <2>3. PICK X \in Seq(S) : X = B(k + 1) /\ Len(X) = k + 1
    BY <1>b, <2>2
  <2>4. PICK Y \in Seq(S) : Y = B(k) /\ Len(Y) = k
    BY <1>b, <2>2
  <2>5. X[1] = Items(type, p, x[p])
    <3>1. 1 \in 1 .. k + 1
      BY <2>2
    <3> QED BY <2>2, <2>3, <3>1
  <2>6. ASSUME NEW i \in 1 .. k PROVE Y[i] = X[i + 1]
    <3>1. i + 1 \in 1 .. k + 1 /\ n - (k + 1) + (i + 1) = n - k + i
      BY <2>2
    <3> QED BY <2>3, <2>4, <3>1
  <2> PICK M : M = LastFields(n, k, x)
    OBVIOUS
  <2>7. Reads(type, FlattenSeq(Y), M)
    BY <1>2, <2>4
  <2> HIDE DEF B, T
  <2>8. FlattenSeq(X) = Items(type, p, x[p]) \o FlattenSeq(Y)
    BY <2>3, <2>4, <2>5, <2>6, FlattenCons
  <2>9. M[p] = <<>>
    BY <2>1, <2>2 DEF LastFields
  <2>10. Reads(type, Items(type, p, x[p]) \o FlattenSeq(Y), Put(M, p, x[p]))
    BY <1>0, <2>1, <2>7, <2>9, ReadsItems
  <2>11. Put(M, p, x[p]) = LastFields(n, k + 1, x)
    <3>1. \A i \in 1 .. n : i > n - (k + 1) <=> (i = p \/ i > n - k)
      BY <2>1, <2>2
    <3> QED BY <2>1, <3>1 DEF Put, LastFields
  <2>12. Reads(type, FlattenSeq(B(k + 1)), LastFields(n, k + 1, x))
    BY <2>3, <2>8, <2>10, <2>11
  <2> QED BY <2>2, <2>12 DEF T
<1>3. \A k \in 0 .. n : k \in T
  <2> HIDE DEF T
  <2>1. 0 \in Int /\ n \in Int
    OBVIOUS
  <2> QED BY <1>1, <1>2, <2>1, UpTo
<1>4. Reads(type, FlattenSeq(B(n)), LastFields(n, n, x))
  <2>1. n \in 0 .. n
    OBVIOUS
  <2> HIDE DEF B
  <2> QED BY <1>3, <2>1
<1>5. LastFields(n, n, x) = x
  <2>1. x = [i \in 1 .. n |-> x[i]]
    BY DEF WellFormed, Messages
  <2>2. \A i \in 1 .. n : i > n - n
    OBVIOUS
  <2> QED BY <2>1, <2>2 DEF LastFields
<1>6. B(n) = [i \in 1 .. n |-> Items(type, i, x[i])]
  <2>1. \A i \in 1 .. n : n - n + i = i
    OBVIOUS
  <2> QED BY <2>1
<1> QED BY <1>4, <1>5, <1>6, SerializedIs

(* The number of bytes, as VarintSize counts them.                          *)
LEMMA VarintLen ==
    ASSUME NEW n \in Nat, Small(n)
    PROVE  Len(Varint[n]) = VarintSize(n)
<1> DEFINE size == [i \in Nat |-> Len(Varint[i])]
<1>1. \A i \in Nat : size[i] = Len(Varint[i])
    BY SMT
<1> HIDE DEF size
<1>2. \A i \in Nat : size[i] = IF i < 128 THEN 1 ELSE 1 + Len(Varint[i \div 128])
    BY <1>1, VarintLenBy, SMT
<1>3. ASSUME NEW i \in Nat PROVE i \div 128 \in Nat /\ (~(i < 128) => size[i] = 1 + size[i \div 128])
  <2>1. i \div 128 \in Nat
    BY SMT
  <2> QED BY <1>1, <1>2, <2>1, SMT
<1>4. ASSUME NEW i \in Nat, i < 128 PROVE size[i] = 1
    BY <1>2, <1>4, SMT
<1>5. ASSUME NEW i \in Nat, 128 <= i, i < 16384 PROVE size[i] = 2
  <2>1. ~(i < 128) /\ i \div 128 \in Nat /\ i \div 128 < 128
    BY <1>5, SMT
  <2> QED BY <1>3, <1>4, <2>1, SMT
<1>6. ASSUME NEW i \in Nat, 16384 <= i, i < 2097152 PROVE size[i] = 3
  <2>1. ~(i < 128) /\ i \div 128 \in Nat /\ 128 <= i \div 128 /\ i \div 128 < 16384
    BY <1>6, SMT
  <2> QED BY <1>3, <1>5, <2>1, SMT
<1>7. ASSUME NEW i \in Nat, 2097152 <= i, i < 268435456 PROVE size[i] = 4
  <2>1. ~(i < 128) /\ i \div 128 \in Nat /\ 16384 <= i \div 128 /\ i \div 128 < 2097152
    BY <1>7, SMT
  <2> QED BY <1>3, <1>6, <2>1, SMT
<1>8. ASSUME NEW i \in Nat, 268435456 <= i, i \div 268435456 < 128 PROVE size[i] = 5
  <2>1. ~(i < 128) /\ i \div 128 \in Nat /\ 2097152 <= i \div 128 /\ i \div 128 < 268435456
    BY <1>8, SMT
  <2> QED BY <1>3, <1>7, <2>1, SMT
<1>9. size[n] = VarintSize(n)
    BY <1>4, <1>5, <1>6, <1>7, <1>8, SMT DEF VarintSize, Small
<1> QED BY <1>1, <1>9, SMT

(* What the generated code sets: a value that can be sent, with a length of   *)
(* at most five bytes. *)
Sized(f, v) ==
    /\ Sendable(f, v)
    /\ f.wire = Varints => Small(v)
    /\ f.wire = Lengths => Small(Len(v))

(* FieldSize by wire type.                                                  *)
LEMMA FieldSizeBy ==
    ASSUME NEW f, NEW v
    PROVE  /\ f.wire = Varints => FieldSize(f, v) = 1 + VarintSize(v)
           /\ f.wire = Lengths => FieldSize(f, v) = 1 + (VarintSize(Len(v)) + Len(v))
           /\ f.wire = Fixed32 => FieldSize(f, v) = 1 + 4
<1> PICK w : w = f.wire
    OBVIOUS
<1>1. w = Varints => FieldSize(f, v) = 1 + VarintSize(v)
    BY DEF FieldSize, Varints, Lengths, Fixed32
<1>2. w = Lengths => FieldSize(f, v) = 1 + (VarintSize(Len(v)) + Len(v))
    BY DEF FieldSize, Varints, Lengths, Fixed32
<1>3. w = Fixed32 => FieldSize(f, v) = 1 + 4
    BY DEF FieldSize, Varints, Lengths, Fixed32
<1> QED BY <1>1, <1>2, <1>3

(* FieldSize is the length of a written value with its tag.                 *)
LEMMA FieldSizeIs ==
    ASSUME NEW type, IsType(type), NEW i \in DOMAIN type, NEW v, Sized(type[i], v)
    PROVE  Len(Item(type, i, v)) = FieldSize(type[i], v) /\ FieldSize(type[i], v) \in Nat
<1>1. Sendable(type[i], v)
    BY DEF Sized
<1>2. /\ Len(Item(type, i, v)) = Len(Encode(type[i], v)) + 1
      /\ Len(Encode(type[i], v)) \in Nat
    BY <1>1, ItemType
<1> PICK w : w = type[i].wire
    OBVIOUS
<1>3. CASE w = Varints /\ v \in Nat
  <2>1. Encode(type[i], v) = Varint[v] /\ FieldSize(type[i], v) = 1 + VarintSize(v)
    BY <1>3, EncodeBy, FieldSizeBy
  <2>2. Small(v)
    BY <1>3 DEF Sized
  <2>3. Len(Varint[v]) = VarintSize(v)
    BY <1>3, <2>2, VarintLen
  <2> QED BY <1>2, <2>1, <2>3
<1>4. CASE w = Lengths /\ v \in Seq(Nat)
  <2>1. /\ Encode(type[i], v) = Varint[Len(v)] \o v
        /\ FieldSize(type[i], v) = 1 + (VarintSize(Len(v)) + Len(v))
    BY <1>4, EncodeBy, FieldSizeBy
  <2>2. Len(v) \in Nat /\ Small(Len(v))
    BY <1>4, LenProperties DEF Sized
  <2>3. Len(Varint[Len(v)]) = VarintSize(Len(v)) /\ Varint[Len(v)] \in Seq(Nat)
    BY <2>2, VarintLen, VarintDef
  <2>4. Len(Varint[Len(v)] \o v) = VarintSize(Len(v)) + Len(v)
    BY <1>4, <2>3, Joined
  <2> QED BY <1>2, <2>1, <2>4
<1>5. CASE w = Fixed32 /\ v \in Seq(Nat) /\ Len(v) = 4
  <2>1. Encode(type[i], v) = v /\ FieldSize(type[i], v) = 1 + 4
    BY <1>5, EncodeBy, FieldSizeBy
  <2>2. Len(Encode(type[i], v)) = 4 /\ FieldSize(type[i], v) = 5
    BY <1>5, <2>1
  <2>3. Len(Item(type, i, v)) = 4 + 1
    BY <1>2, <2>2
  <2> QED BY <2>2, <2>3
<1> QED BY <1>1, <1>3, <1>4, <1>5 DEF Sendable, Carries

(* A message none of whose values is too long for a size of five bytes.     *)
WellSized(type, x) ==
    /\ WellFormed(type, x)
    /\ \A i \in DOMAIN type : \A j \in 1 .. Len(x[i]) : Sized(type[i], x[i][j])

FieldSizes(f, x) == [j \in DOMAIN x |-> FieldSize(f, x[j])]

(* The sizes of a field's values add up to what is written of it.           *)
LEMMA ItemsSize ==
    ASSUME NEW type, IsType(type), NEW i \in DOMAIN type, NEW x \in Seq(AnyValue),
           \A j \in 1 .. Len(x) : Sized(type[i], x[j])
    PROVE  Len(Items(type, i, x)) = Total(FieldSizes(type[i], x)) /\ Items(type, i, x) \in Seq(Nat)
<1>1. PICK n \in Nat : n = Len(x) /\ DOMAIN x = 1 .. n
    BY LenProperties
<1>2. \A j \in 1 .. n : /\ Item(type, i, x[j]) \in Seq(Nat)
                        /\ Len(Item(type, i, x[j])) = FieldSize(type[i], x[j])
                        /\ FieldSize(type[i], x[j]) \in Nat
    BY <1>1, ItemType, FieldSizeIs DEF Sized
<1> PICK S : S = Seq(Nat)
    OBVIOUS
<1> PICK X : X = [j \in 1 .. n |-> Item(type, i, x[j])]
    OBVIOUS
<1> PICK Y : Y = [j \in 1 .. n |-> FieldSize(type[i], x[j])]
    OBVIOUS
<1>3. X = [j \in 1 .. n |-> X[j]] /\ \A j \in 1 .. n : X[j] \in S
    BY <1>2
<1>4. X \in Seq(S) /\ Len(X) = n
    BY ONLY <1>3, SeqIs, n \in Nat
<1>5. Y = [j \in 1 .. n |-> Y[j]] /\ \A j \in 1 .. n : Y[j] \in Nat
    BY <1>2
<1>6. Y \in Seq(Nat) /\ Len(Y) = n
    BY ONLY <1>5, SeqIs, n \in Nat
<1>7. \A j \in 1 .. n : Y[j] = Len(X[j])
    BY <1>2
<1>8. Len(FlattenSeq(X)) = Total(Y) /\ FlattenSeq(X) \in Seq(Nat)
    BY <1>4, <1>6, <1>7, FlattenLen, FlattenType
<1>9. Items(type, i, x) = FlattenSeq(X) /\ FieldSizes(type[i], x) = Y
    BY <1>1 DEF Items, FieldSizes
<1> QED BY <1>8, <1>9

(* Total of numbers is a number.                                            *)
LEMMA TotalType ==
    ASSUME NEW s \in Seq(Nat)
    PROVE  Total(s) \in Nat
<1>1. Len(s) \in 0 .. Len(s)
    BY LenProperties
<1> QED BY <1>1, TotalRuns

(* SizeOf is the length of what is written.                                 *)
LEMMA SizeIs ==
    ASSUME NEW type, IsType(type), NEW n \in Nat, DOMAIN type = 1 .. n, NEW x, WellSized(type, x)
    PROVE  SizeOf(type, x) = Len(Serialized(type, x))
<1>1. ASSUME NEW i \in 1 .. n
      PROVE  /\ Items(type, i, x[i]) \in Seq(Nat)
             /\ Len(Items(type, i, x[i])) = Total(FieldSizes(type[i], x[i]))
  <2>1. x[i] \in Seq(AnyValue) /\ \A j \in 1 .. Len(x[i]) : Sized(type[i], x[i][j])
    BY DEF WellSized, WellFormed, Messages
  <2> QED BY <2>1, ItemsSize
<1> PICK S : S = Seq(Nat)
    OBVIOUS
<1> PICK X : X = [i \in 1 .. n |-> Items(type, i, x[i])]
    OBVIOUS
<1> PICK Y : Y = [i \in 1 .. n |-> Total(FieldSizes(type[i], x[i]))]
    OBVIOUS
<1>2. X = [j \in 1 .. n |-> X[j]] /\ \A j \in 1 .. n : X[j] \in S
    BY <1>1
<1>3. X \in Seq(S) /\ Len(X) = n
    BY ONLY <1>2, SeqIs, n \in Nat
<1>4. Y = [j \in 1 .. n |-> Y[j]] /\ \A j \in 1 .. n : Y[j] \in Nat
  <2>1. \A j \in 1 .. n : Len(Items(type, j, x[j])) \in Nat
    BY <1>1, LenProperties
  <2> QED BY <1>1, <2>1
<1>5. Y \in Seq(Nat) /\ Len(Y) = n
    BY ONLY <1>4, SeqIs, n \in Nat
<1>6. \A j \in 1 .. n : Y[j] = Len(X[j])
    BY <1>1
<1>7. Len(FlattenSeq(X)) = Total(Y)
    BY <1>3, <1>5, <1>6, FlattenLen
<1>8. Serialized(type, x) = FlattenSeq(X) /\ SizeOf(type, x) = Total(Y)
  <2>1. Serialized(type, x) = FlattenSeq(X)
    BY SerializedIs
  <2>2. SizeOf(type, x) = Total([i \in DOMAIN type |-> Total(FieldSizes(type[i], x[i]))])
    BY DEF SizeOf, FieldSizes
  <2> QED BY <2>1, <2>2
<1> QED BY <1>7, <1>8

(* A copy is equal. *)
LEMMA MergedCleared ==
    ASSUME NEW type, NEW x \in Messages(type)
    PROVE  Merged(type, Cleared(type), x) = x
<1>1. \A y \in Seq(AnyValue) : <<>> \o y = y
    BY ConcatEmptySeq
<1>2. ASSUME NEW i \in DOMAIN type
      PROVE  (IF type[i].repeated THEN Cleared(type)[i] \o x[i]
              ELSE IF x[i] # <<>> THEN x[i] ELSE Cleared(type)[i]) = x[i]
  <2>1. Cleared(type)[i] = <<>> /\ x[i] \in Seq(AnyValue)
    BY DEF Cleared, Messages
  <2> QED BY <1>1, <2>1
<1>3. x = [i \in DOMAIN type |-> x[i]]
    BY DEF Messages
<1> QED BY <1>2, <1>3 DEF Merged

(* Setting a field keeps a message well formed. *)
LEMMA WithWellSized ==
    ASSUME NEW type, NEW x, WellSized(type, x), NEW i \in DOMAIN type, NEW v, Sized(type[i], v)
    PROVE  WellSized(type, With(type, x, i, v))
<1>1. v \in AnyValue
    BY DEF Sized, Sendable, Carries, AnyValue
<1>2. x[i] \in Seq(AnyValue) /\ x = [j \in DOMAIN type |-> x[j]]
    BY DEF WellSized, WellFormed, Messages
<1> PICK b : b = IF type[i].repeated THEN Append(x[i], v) ELSE <<v>>
    OBVIOUS
<1>3. b \in Seq(AnyValue) /\ \A j \in 1 .. Len(b) : Sized(type[i], b[j])
  <2>1. CASE type[i].repeated
    <3>1. /\ Append(x[i], v) \in Seq(AnyValue) /\ Len(Append(x[i], v)) = Len(x[i]) + 1
          /\ Append(x[i], v)[Len(x[i]) + 1] = v
          /\ \A j \in 1 .. Len(x[i]) : Append(x[i], v)[j] = x[i][j]
      BY <1>1, <1>2, AppendProperties
    <3>2. b = Append(x[i], v)
      BY <2>1
    <3>3. \A j \in 1 .. Len(x[i]) + 1 : j \in 1 .. Len(x[i]) \/ j = Len(x[i]) + 1
      BY <1>2, LenProperties
    <3>4. \A j \in 1 .. Len(x[i]) : Sized(type[i], x[i][j])
      BY DEF WellSized
    <3> QED BY ONLY <3>1, <3>2, <3>3, <3>4, Sized(type[i], v)
  <2>2. CASE ~type[i].repeated
    <3>1. b = <<v>> /\ Len(<<v>>) = 1 /\ <<v>>[1] = v /\ <<v>> \in Seq(AnyValue)
      BY <1>1, <2>2
    <3>2. Len(b) = 1 /\ b[1] = v /\ b \in Seq(AnyValue)
      BY <3>1
    <3>3. \A j \in 1 .. 1 : j = 1
      OBVIOUS
    <3> QED BY ONLY <3>2, <3>3, Sized(type[i], v)
  <2> QED BY <2>1, <2>2
<1>4. ~type[i].repeated => Len(b) <= 1
    OBVIOUS
<1>5. With(type, x, i, v) = [j \in DOMAIN type |-> IF j = i THEN b ELSE x[j]]
    BY <1>2 DEF With
<1>6. With(type, x, i, v) \in Messages(type)
  <2>1. \A j \in DOMAIN type : x[j] \in Seq(AnyValue)
    BY DEF WellSized, WellFormed, Messages
  <2> QED BY <1>3, <1>5, <2>1 DEF Messages
<1> PICK y : y = With(type, x, i, v)
    OBVIOUS
<1>7. ASSUME NEW k \in DOMAIN type
      PROVE  /\ \A j \in 1 .. Len(y[k]) : Sized(type[k], y[k][j])
             /\ ~type[k].repeated => Len(y[k]) <= 1
  <2>1. CASE k = i
    <3>1. y[k] = b
      BY <1>5, <2>1
    <3> QED BY <1>3, <1>4, <2>1, <3>1
  <2>2. CASE k # i
    <3>1. y[k] = x[k]
      BY <1>5, <2>2
    <3>2. /\ \A j \in 1 .. Len(x[k]) : Sized(type[k], x[k][j])
          /\ ~type[k].repeated => Len(x[k]) <= 1
      BY DEF WellSized, WellFormed
    <3> QED BY <3>1, <3>2
  <2> QED BY <2>1, <2>2
<1>8. \A k \in DOMAIN type : \A j \in 1 .. Len(y[k]) : Sized(type[k], y[k][j]) /\ Sendable(type[k], y[k][j])
    BY <1>7 DEF Sized
<1> QED BY <1>6, <1>7, <1>8 DEF WellSized, WellFormed

(* A cleared message has no value that is too long.                         *)
LEMMA ClearedWellSized ==
    ASSUME NEW type
    PROVE  WellSized(type, Cleared(type))
<1>1. <<>> \in Seq(AnyValue) /\ Len(<<>>) = 0 /\ 1 .. 0 = {}
    OBVIOUS
<1>2. Cleared(type) \in Messages(type)
    BY <1>1 DEF Cleared, Messages
<1>3. \A i \in DOMAIN type : Cleared(type)[i] = <<>>
    BY DEF Cleared
<1> QED BY <1>1, <1>2, <1>3 DEF WellSized, WellFormed

(* The kinds of fields the generated messages have.                         *)
Plain(f) ==
    /\ f.wire \in {Varints, Lengths, Fixed32}
    /\ f.wire = Varints => f.valid \in SUBSET Nat
    /\ f.wire # Varints => f.valid = Seq(Nat)

(* The fields of the generated messages are of these kinds.                 *)
LEMMA Fields ==
    /\ Plain(Uint) /\ Plain(String) /\ Plain(Strings) /\ Plain(Float)
    /\ \A S \in SUBSET Nat : Plain(Enum(S))
BY DEF Plain, Uint, String, Strings, Float, Enum, Field, Varints, Lengths, Fixed32

(* Values by wire type.                                                     *)
LEMMA ValuesBy ==
    ASSUME NEW f
    PROVE  /\ f.wire = Varints => Values(f) = {v \in f.valid : Small(v)}
           /\ f.wire = Lengths => Values(f) = {v \in Seq(0 .. 255) : Small(Len(v))}
           /\ f.wire = Fixed32 => Values(f) = [1 .. 4 -> 0 .. 255]
<1> PICK w : w = f.wire
    OBVIOUS
<1>1. w = Varints => Values(f) = {v \in f.valid : Small(v)}
    BY DEF Values, Varints, Lengths, Fixed32
<1>2. w = Lengths => Values(f) = {v \in Seq(0 .. 255) : Small(Len(v))}
    BY DEF Values, Varints, Lengths, Fixed32
<1>3. w = Fixed32 => Values(f) = [1 .. 4 -> 0 .. 255]
    BY DEF Values, Varints, Lengths, Fixed32
<1> QED BY <1>1, <1>2, <1>3

(* Every value a setter takes can be sent.                                  *)
LEMMA ValuesSized ==
    ASSUME NEW f, Plain(f), NEW v \in Values(f)
    PROVE  Sized(f, v)
<1> PICK w : w = f.wire
    OBVIOUS
<1>1. CASE w = Varints
  <2>0. v \in {u \in f.valid : Small(u)}
    BY <1>1, ValuesBy, Zenon
  <2>1. v \in f.valid /\ Small(v)
    BY <2>0, Zenon
  <2>2. v \in Nat
    BY <1>1, <2>1 DEF Plain
  <2>3. w # Lengths
    BY <1>1 DEF Varints, Lengths
  <2> QED BY <1>1, <2>1, <2>2, <2>3 DEF Sized, Sendable, Carries
<1>2. CASE w = Lengths
  <2>0. v \in {u \in Seq(0 .. 255) : Small(Len(u))}
    BY <1>2, ValuesBy, Zenon
  <2>1. v \in Seq(0 .. 255) /\ Small(Len(v))
    BY <2>0, Zenon
  <2>2. v \in Seq(Nat)
    <3>0. \A b \in 0 .. 255 : b \in Nat
      OBVIOUS
    <3> PICK S : S = 0 .. 255
      OBVIOUS
    <3>1. v \in Seq(S)
      BY <2>1
    <3>2. Len(v) \in Nat /\ v = [j \in 1 .. Len(v) |-> v[j]] /\ \A j \in 1 .. Len(v) : v[j] \in S
      BY ONLY <3>1
    <3>3. \A j \in 1 .. Len(v) : v[j] \in Nat
      BY <3>0, <3>2
    <3> QED BY ONLY <3>2, <3>3, SeqIs
  <2>3. w # Varints
    BY <1>2 DEF Varints, Lengths
  <2>4. v \in f.valid
    BY <2>2, <2>3 DEF Plain
  <2> QED BY <1>2, <2>1, <2>2, <2>3, <2>4 DEF Sized, Sendable, Carries
<1>3. CASE w = Fixed32
  <2>1. v \in [1 .. 4 -> 0 .. 255]
    BY <1>3, ValuesBy
  <2>2. v \in Seq(Nat) /\ Len(v) = 4
    <3>1. v = [j \in 1 .. 4 |-> v[j]] /\ \A j \in 1 .. 4 : v[j] \in 0 .. 255
      BY <2>1
    <3>2. \A j \in 1 .. 4 : v[j] \in Nat
      BY <3>1
    <3>3. 4 \in Nat
      OBVIOUS
    <3> QED BY ONLY <3>1, <3>2, <3>3, SeqIs
  <2>3. w # Varints /\ w # Lengths
    BY <1>3 DEF Varints, Lengths, Fixed32
  <2>4. v \in f.valid
    BY <2>2, <2>3 DEF Plain
  <2> QED BY <1>3, <2>2, <2>3, <2>4 DEF Sized, Sendable, Carries
<1> QED BY <1>1, <1>2, <1>3 DEF Plain

(* The types of the messages. *)
LEMMA Types ==
    ASSUME NEW k \in DOMAIN TypeOf
    PROVE  /\ k \in {"LoadBalancerMetaData", "RpcClusterServer", "CenterResponseCluster",
                     "ClientWithCenter", "CentersProto"}
           /\ k = "LoadBalancerMetaData" => TypeOf[k] = LoadBalancerMetaData
           /\ k = "RpcClusterServer" => TypeOf[k] = RpcClusterServer
           /\ k = "CenterResponseCluster" => TypeOf[k] = CenterResponseCluster
           /\ k = "ClientWithCenter" => TypeOf[k] = ClientWithCenter
           /\ k = "CentersProto" => TypeOf[k] = CentersProto
BY DEF TypeOf

(* The message types have at most 15 fields, all of the known kinds.        *)
LEMMA TypesPlain ==
    ASSUME NEW k \in DOMAIN TypeOf
    PROVE  \E n \in Nat : /\ n <= 15 /\ DOMAIN TypeOf[k] = 1 .. n
                          /\ \A i \in 1 .. n : Plain(TypeOf[k][i])
<1>e. /\ Plain(Enum(CenterStatus_IsValid)) /\ Plain(Enum(CenterAction_IsValid))
      /\ Plain(Enum(ClusteAction_IsValid)) /\ Plain(Enum(ResponseClusterAction_IsValid))
      /\ Plain(Enum(ClientClusterAction_IsValid))
  <2>1. /\ CenterStatus_IsValid \in SUBSET Nat /\ CenterAction_IsValid \in SUBSET Nat
        /\ ClusteAction_IsValid \in SUBSET Nat /\ ResponseClusterAction_IsValid \in SUBSET Nat
        /\ ClientClusterAction_IsValid \in SUBSET Nat
    BY DEF CenterStatus_IsValid, CenterAction_IsValid, ClusteAction_IsValid,
           ResponseClusterAction_IsValid, ClientClusterAction_IsValid
  <2> QED BY <2>1, Fields
<1>f. Plain(Uint) /\ Plain(String) /\ Plain(Strings) /\ Plain(Float)
    BY Fields
<1> PICK t : t = TypeOf[k]
    OBVIOUS
<1>1. CASE k = "LoadBalancerMetaData"
  <2>1. t = <<Uint, String>>
    BY <1>1, Types DEF LoadBalancerMetaData
  <2>2. DOMAIN t = 1 .. 2 /\ \A i \in 1 .. 2 : Plain(t[i])
    BY <1>f, <2>1
  <2> QED BY <2>2
<1>2. CASE k = "RpcClusterServer"
  <2>1. t = <<Enum(ClusteAction_IsValid), String, Uint, Float, Uint>>
    BY <1>2, Types DEF RpcClusterServer
  <2>2. DOMAIN t = 1 .. 5 /\ \A i \in 1 .. 5 : Plain(t[i])
    BY <1>e, <1>f, <2>1
  <2> QED BY <2>2
<1>3. CASE k = "CenterResponseCluster"
  <2>1. t = <<Enum(ResponseClusterAction_IsValid), Strings>>
    BY <1>3, Types DEF CenterResponseCluster
  <2>2. DOMAIN t = 1 .. 2 /\ \A i \in 1 .. 2 : Plain(t[i])
    BY <1>e, <1>f, <2>1
  <2> QED BY <2>2
<1>4. CASE k = "ClientWithCenter"
  <2>1. t = <<String, Enum(ClientClusterAction_IsValid), Strings, Strings>>
    BY <1>4, Types DEF ClientWithCenter
  <2>2. DOMAIN t = 1 .. 4 /\ \A i \in 1 .. 4 : Plain(t[i])
    BY <1>e, <1>f, <2>1
  <2> QED BY <2>2
<1>5. CASE k = "CentersProto"
  <2>1. t = <<String, Enum(CenterStatus_IsValid), Enum(CenterAction_IsValid), Uint, Uint, Uint,
              String, Strings, Strings>>
    BY <1>5, Types DEF CentersProto
  <2>2. DOMAIN t = 1 .. 9 /\ \A i \in 1 .. 9 : Plain(t[i])
    BY <1>e, <1>f, <2>1
  <2> QED BY <2>2
<1> QED BY <1>1, <1>2, <1>3, <1>4, <1>5, Types

(* The message types are types in the sense of the lemmas above.            *)
LEMMA TypesAre ==
    ASSUME NEW k \in DOMAIN TypeOf
    PROVE  IsType(TypeOf[k])
BY TypesPlain DEF IsType, Plain

(* The generated methods are those of the type. *)
LEMMA Methods ==
    ASSUME NEW k \in DOMAIN TypeOf, NEW x, NEW i, NEW v, NEW s
    PROVE  /\ Clear(k) = Cleared(TypeOf[k])
           /\ Set(k, x, i, v) = With(TypeOf[k], x, i, v)
           /\ Serialize(k, x) = Serialized(TypeOf[k], x)
           /\ ByteSize(k, x) = SizeOf(TypeOf[k], x)
           /\ CopyFrom(k, x) = Merged(TypeOf[k], Cleared(TypeOf[k]), x)
           /\ k # "CentersProto" => Parse(k, s) = Parsed(TypeOf[k], s)
           /\ k = "CentersProto" => Parse(k, s) = CentersProtoParse(s)
<1>1. CASE k = "LoadBalancerMetaData"
  <2>1. TypeOf[k] = LoadBalancerMetaData /\ k # "CentersProto"
    BY <1>1, Types
  <2> QED BY <1>1, <2>1 DEF Clear, Set, Serialize, ByteSize, CopyFrom, Parse,
        LoadBalancerMetaDataClear, LoadBalancerMetaDataSet, LoadBalancerMetaDataSerialize,
        LoadBalancerMetaDataByteSize, LoadBalancerMetaDataMergeFrom, LoadBalancerMetaDataParse
<1>2. CASE k = "RpcClusterServer"
  <2>1. TypeOf[k] = RpcClusterServer /\ k # "CentersProto"
    BY <1>2, Types
  <2> QED BY <1>2, <2>1 DEF Clear, Set, Serialize, ByteSize, CopyFrom, Parse,
        RpcClusterServerClear, RpcClusterServerSet, RpcClusterServerSerialize,
        RpcClusterServerByteSize, RpcClusterServerMergeFrom, RpcClusterServerParse
<1>3. CASE k = "CenterResponseCluster"
  <2>1. TypeOf[k] = CenterResponseCluster /\ k # "CentersProto"
    BY <1>3, Types
  <2> QED BY <1>3, <2>1 DEF Clear, Set, Serialize, ByteSize, CopyFrom, Parse,
        CenterResponseClusterClear, CenterResponseClusterSet, CenterResponseClusterSerialize,
        CenterResponseClusterByteSize, CenterResponseClusterMergeFrom, CenterResponseClusterParse
<1>4. CASE k = "ClientWithCenter"
  <2>1. TypeOf[k] = ClientWithCenter /\ k # "CentersProto"
    BY <1>4, Types
  <2> QED BY <1>4, <2>1 DEF Clear, Set, Serialize, ByteSize, CopyFrom, Parse,
        ClientWithCenterClear, ClientWithCenterSet, ClientWithCenterSerialize,
        ClientWithCenterByteSize, ClientWithCenterMergeFrom, ClientWithCenterParse
<1>5. CASE k = "CentersProto"
  <2>1. TypeOf[k] = CentersProto
    BY <1>5, Types
  <2> QED BY <1>5, <2>1 DEF Clear, Set, Serialize, ByteSize, CopyFrom, Parse,
        CentersProtoClear, CentersProtoSet, CentersProtoSerialize,
        CentersProtoByteSize, CentersProtoMergeFrom, CentersProtoParse
<1> QED BY <1>1, <1>2, <1>3, <1>4, <1>5, Types

(* A setter's message has the values of the old one and the new value.      *)
LEMMA WithElements ==
    ASSUME NEW type, NEW x \in Messages(type), NEW i \in DOMAIN type, NEW v \in AnyValue,
           NEW q \in DOMAIN type, NEW j \in 1 .. Len(With(type, x, i, v)[q])
    PROVE  \/ q = i /\ With(type, x, i, v)[q][j] = v
           \/ j \in 1 .. Len(x[q]) /\ With(type, x, i, v)[q][j] = x[q][j]
<1> PICK y : y = With(type, x, i, v)
    OBVIOUS
<1>1. x[i] \in Seq(AnyValue) /\ x = [r \in DOMAIN type |-> x[r]]
    BY DEF Messages
<1>2. y[q] = IF q = i THEN (IF type[i].repeated THEN Append(x[i], v) ELSE <<v>>) ELSE x[q]
    BY <1>1 DEF With
<1>3. CASE q # i
    BY <1>2, <1>3
<1>4. CASE q = i /\ type[i].repeated
  <2>1. /\ Len(Append(x[i], v)) = Len(x[i]) + 1 /\ Append(x[i], v)[Len(x[i]) + 1] = v
        /\ \A r \in 1 .. Len(x[i]) : Append(x[i], v)[r] = x[i][r]
    BY <1>1, AppendProperties
  <2>2. y[q] = Append(x[i], v)
    BY <1>2, <1>4
  <2>3. j \in 1 .. Len(x[i]) + 1
    BY <2>1, <2>2
  <2>4. j \in 1 .. Len(x[i]) \/ j = Len(x[i]) + 1
    BY <1>1, <2>3, LenProperties
  <2> QED BY ONLY y = With(type, x, i, v), <1>4, <2>1, <2>2, <2>4
<1>5. CASE q = i /\ ~type[i].repeated
  <2>1. y[q] = <<v>> /\ Len(<<v>>) = 1 /\ <<v>>[1] = v
    BY <1>2, <1>5
  <2>2. j = 1
    BY <2>1
  <2> QED BY <1>5, <2>1, <2>2
<1> QED BY <1>3, <1>4, <1>5

(* The nested messages of a CentersProto parse. *)
Nested(k, x) ==
    k = "CentersProto" =>
        /\ \A j \in 1 .. Len(x[8]) : RpcClusterServerParse(x[8][j]).ok
        /\ \A j \in 1 .. Len(x[9]) : LoadBalancerMetaDataParse(x[9][j]).ok
(* What calls of the setters make of a message, and such a call.            *)
GoodMessage(k, x) == WellSized(TypeOf[k], x) /\ Nested(k, x)
GoodCall(k, i, v) ==
    /\ i \in DOMAIN TypeOf[k] /\ Sized(TypeOf[k][i], v)
    /\ k = "CentersProto" /\ i = 8 => RpcClusterServerParse(v).ok
    /\ k = "CentersProto" /\ i = 9 => LoadBalancerMetaDataParse(v).ok

(* The nested messages of CentersProto are its fields 8 and 9.              *)
LEMMA ProtoFields ==
    "CentersProto" \in DOMAIN TypeOf /\ TypeOf["CentersProto"] = CentersProto
    /\ 8 \in DOMAIN CentersProto /\ 9 \in DOMAIN CentersProto
BY DEF TypeOf, CentersProto

(* A setter keeps a message good.                                           *)
LEMMA SetGood ==
    ASSUME NEW k \in DOMAIN TypeOf, NEW x, GoodMessage(k, x), NEW i, NEW v, GoodCall(k, i, v)
    PROVE  GoodMessage(k, Set(k, x, i, v))
<1> PICK type : type = TypeOf[k]
    OBVIOUS
<1>1. i \in DOMAIN type /\ Sized(type[i], v) /\ WellSized(type, x)
    BY DEF GoodCall, GoodMessage
<1>2. Set(k, x, i, v) = With(type, x, i, v)
    BY Methods
<1>3. WellSized(type, With(type, x, i, v))
    BY <1>1, WithWellSized
<1>4. x \in Messages(type) /\ v \in AnyValue
    BY <1>1 DEF WellSized, WellFormed, Sized, Sendable, Carries, AnyValue
<1> PICK y : y = With(type, x, i, v)
    OBVIOUS
<1>5. ASSUME k = "CentersProto"
      PROVE  /\ \A j \in 1 .. Len(y[8]) : RpcClusterServerParse(y[8][j]).ok
             /\ \A j \in 1 .. Len(y[9]) : LoadBalancerMetaDataParse(y[9][j]).ok
  <2>1. 8 \in DOMAIN type /\ 9 \in DOMAIN type
    BY <1>5, ProtoFields
  <2>2. /\ \A j \in 1 .. Len(x[8]) : RpcClusterServerParse(x[8][j]).ok
        /\ \A j \in 1 .. Len(x[9]) : LoadBalancerMetaDataParse(x[9][j]).ok
    BY <1>5 DEF GoodMessage, Nested
  <2>3. ASSUME NEW j \in 1 .. Len(y[8]) PROVE RpcClusterServerParse(y[8][j]).ok
    <3>1. \/ 8 = i /\ y[8][j] = v
          \/ j \in 1 .. Len(x[8]) /\ y[8][j] = x[8][j]
      BY <1>1, <1>4, <2>1, WithElements
    <3> QED BY <1>5, <2>2, <3>1 DEF GoodCall
  <2>4. ASSUME NEW j \in 1 .. Len(y[9]) PROVE LoadBalancerMetaDataParse(y[9][j]).ok
    <3>1. \/ 9 = i /\ y[9][j] = v
          \/ j \in 1 .. Len(x[9]) /\ y[9][j] = x[9][j]
      BY <1>1, <1>4, <2>1, WithElements
    <3> QED BY <1>5, <2>2, <3>1 DEF GoodCall
  <2> QED BY <2>3, <2>4
<1> QED BY <1>2, <1>3, <1>5 DEF GoodMessage, Nested

(* A new message is good.                                                   *)
LEMMA ClearGood ==
    ASSUME NEW k \in DOMAIN TypeOf
    PROVE  GoodMessage(k, Clear(k))
<1>1. Clear(k) = Cleared(TypeOf[k])
    BY Methods
<1>2. WellSized(TypeOf[k], Cleared(TypeOf[k]))
    BY ClearedWellSized
<1>3. ASSUME k = "CentersProto"
      PROVE  Cleared(TypeOf[k])[8] = <<>> /\ Cleared(TypeOf[k])[9] = <<>>
    BY <1>3, ProtoFields DEF Cleared
<1>4. Len(<<>>) = 0 /\ 1 .. 0 = {}
    OBVIOUS
<1> QED BY <1>1, <1>2, <1>3, <1>4 DEF GoodMessage, Nested

(* A message that calls of the setters have filled. *)
LEMMA FilledGood ==
    ASSUME NEW k \in DOMAIN TypeOf, NEW calls, Len(calls) \in Nat,
           \A n \in 1 .. Len(calls) : GoodCall(k, calls[n][1], calls[n][2])
    PROVE  GoodMessage(k, Filled(k, calls))
<1> DEFINE D == 0 .. Len(calls)
           V == {x \in Messages(TypeOf[k]) : GoodMessage(k, x)}
           mu == [i \in D |-> i]
           Def(g, i) == IF i = 0 THEN Clear(k) ELSE Set(k, g[i - 1], calls[i][1], calls[i][2])
           F == [i \in D |-> [g \in [D -> V] |-> Def(g, i)]]
<1>0. \A i \in D : i # 0 => i - 1 \in D /\ mu[i - 1] < mu[i] /\ i \in 1 .. Len(calls)
    OBVIOUS
<1>c. \A x : GoodMessage(k, x) => x \in V
    BY DEF GoodMessage, WellSized, WellFormed
<1>v. Clear(k) \in V
    BY <1>c, ClearGood
<1>s. ASSUME NEW x \in V, NEW i \in 1 .. Len(calls) PROVE Set(k, x, calls[i][1], calls[i][2]) \in V
  <2>1. GoodMessage(k, x) /\ GoodCall(k, calls[i][1], calls[i][2])
    OBVIOUS
  <2>2. GoodMessage(k, Set(k, x, calls[i][1], calls[i][2]))
    BY <2>1, SetGood
  <2> HIDE DEF V
  <2> QED BY <1>c, <2>2
<1>1. \A i \in D : \A g \in [D -> V] : F[i][g] = Def(g, i)
    OBVIOUS
<1>2. \A i \in D : \A g \in [D -> V] : F[i][g] \in V
  <2>1. ASSUME NEW i \in D, NEW g \in [D -> V] PROVE Def(g, i) \in V
    <3>1. i # 0 => i \in 1 .. Len(calls) /\ g[i - 1] \in V
      BY <1>0
    <3> HIDE DEF D, V, mu
    <3> QED BY <1>s, <1>v, <3>1
  <2> HIDE DEF Def, F, D, V
  <2> QED BY <1>1, <2>1
<1>3. \A i \in D : \A g, h \in [D -> V] :
         (\A y \in D : mu[y] < mu[i] => g[y] = h[y]) => F[i][g] = F[i][h]
  <2>1. ASSUME NEW i \in D, NEW g \in [D -> V], NEW h \in [D -> V],
               \A y \in D : mu[y] < mu[i] => g[y] = h[y]
        PROVE  Def(g, i) = Def(h, i)
    <3>1. i # 0 => g[i - 1] = h[i - 1]
      BY <1>0, <2>1
    <3> QED BY <3>1
  <2> HIDE DEF Def, F, D, V, mu
  <2> QED BY <1>1, <2>1
<1>4. mu \in [D -> Nat] /\ V # {}
    BY <1>v
<1>5. PICK f : Computes(f, D, V, F)
  <2> HIDE DEF F, mu, V, D
  <2>1. Guarded(D, mu, V, F)
    BY <1>2, <1>3, <1>4 DEF Guarded
  <2> QED BY <2>1, Recursion
<1>6. f = [i \in D |-> Def(f, i)]
    BY <1>1, <1>5 DEF Computes
<1> DEFINE after == CHOOSE g : g = [i \in D |-> Def(g, i)]
<1>7. after = [i \in D |-> Def(after, i)]
    BY <1>6
<1>8. Filled(k, calls) = after[Len(calls)]
    BY DEF Filled
<1> HIDE DEF after
<1> DEFINE T == {i \in D : after[i] \in V}
<1>9. ASSUME NEW i \in D, \A y \in D : mu[y] < mu[i] => y \in T PROVE i \in T
  <2>1. after[i] = Def(after, i)
    BY <1>7
  <2>2. i # 0 => i \in 1 .. Len(calls) /\ after[i - 1] \in V
    BY <1>0, <1>9
  <2> HIDE DEF D, V, mu
  <2>3. Def(after, i) \in V
    BY <1>s, <1>v, <2>2
  <2> QED BY <2>1, <2>3
<1>10. \A i \in D : i \in T
  <2> HIDE DEF T, mu, D
  <2> QED BY <1>4, <1>9, MeasureInduction
<1>11. Len(calls) \in D
    OBVIOUS
<1>12. after[Len(calls)] \in V
  <2> HIDE DEF D, V
  <2> QED BY <1>10, <1>11
<1> QED BY <1>8, <1>12

-----------------------------------------------------------------------------
(* Messages on the wire *)

(* Parsing a CentersProto needs its nested messages to parse.               *)
LEMMA NestedParse ==
    ASSUME NEW s \in Seq(Nat)
    PROVE  /\ CentersProtoParse(s).m = Parsed(CentersProto, s).m
           /\ CentersProtoParse(s).ok <=>
                /\ Parsed(CentersProto, s).ok
                /\ \A i \in DOMAIN Parsed(CentersProto, s).m[8] :
                      RpcClusterServerParse(Parsed(CentersProto, s).m[8][i]).ok
                /\ \A i \in DOMAIN Parsed(CentersProto, s).m[9] :
                      LoadBalancerMetaDataParse(Parsed(CentersProto, s).m[9][i]).ok
<1>1. PICK r \in Results(CentersProto) : r = Parsed(CentersProto, s)
    BY ParsedDef
<1> DEFINE A == \A i \in DOMAIN r.m[8] : RpcClusterServerParse(r.m[8][i]).ok
           B == \A i \in DOMAIN r.m[9] : LoadBalancerMetaDataParse(r.m[9][i]).ok
<1>2. CentersProtoParse(s) = [r EXCEPT !.ok = r.ok /\ A /\ B]
    BY <1>1 DEF CentersProtoParse
<1> HIDE DEF A, B
<1>3. PICK b \in BOOLEAN : b <=> r.ok /\ A /\ B
    OBVIOUS
<1>4. [r EXCEPT !.ok = r.ok /\ A /\ B] = [r EXCEPT !.ok = b]
    BY <1>3
<1>5. [r EXCEPT !.ok = b].m = r.m /\ [r EXCEPT !.ok = b].ok = b
    BY DEF Results
<1>6. CentersProtoParse(s).m = r.m /\ (CentersProtoParse(s).ok <=> r.ok /\ A /\ B)
    BY <1>2, <1>3, <1>4, <1>5
<1> QED BY <1>1, <1>6 DEF A, B

(* What SerializeToString writes of a message is parsed to the message, and *)
(* refused when it is cut at one of its 0 bytes.                            *)
LEMMA ParseIs ==
    ASSUME NEW k \in DOMAIN TypeOf, NEW x, GoodMessage(k, x)
    PROVE  /\ Serialize(k, x) \in Seq(Nat)
           /\ Parse(k, Serialize(k, x)).ok /\ Parse(k, Serialize(k, x)).m = x
           /\ \A z \in 1 .. Len(Serialize(k, x)) :
                 Serialize(k, x)[z] = 0 => ~Parse(k, SubSeq(Serialize(k, x), 1, z - 1)).ok
<1>1. PICK n \in Nat : DOMAIN TypeOf[k] = 1 .. n
    BY TypesPlain
<1>2. IsType(TypeOf[k]) /\ WellFormed(TypeOf[k], x)
    BY TypesAre DEF GoodMessage, WellSized
<1>3. Reads(TypeOf[k], Serialized(TypeOf[k], x), x)
    BY <1>1, <1>2, RoundTrip
<1>4. PICK s \in Seq(Nat) :
         /\ s = Serialize(k, x) /\ Parsed(TypeOf[k], s).ok /\ Parsed(TypeOf[k], s).m = x
         /\ \A z \in 1 .. Len(s) : s[z] = 0 => ~Parsed(TypeOf[k], SubSeq(s, 1, z - 1)).ok
    BY <1>3, Methods DEF Reads
<1>5. ASSUME NEW z \in 1 .. Len(s) PROVE SubSeq(s, 1, z - 1) \in Seq(Nat)
  <2>1. z - 1 \in 0 .. Len(s)
    BY LenProperties
  <2> QED BY <2>1, Pieces
<1>6. CASE k # "CentersProto"
  <2>1. \A t : Parse(k, t) = Parsed(TypeOf[k], t)
    BY <1>6, Methods
  <2> QED BY <1>4, <2>1
<1>7. CASE k = "CentersProto"
  <2>1. TypeOf[k] = CentersProto /\ \A t : Parse(k, t) = CentersProtoParse(t)
    BY <1>7, Methods, ProtoFields
  <2>2. \A t \in Seq(Nat) : CentersProtoParse(t).ok => Parsed(CentersProto, t).ok
    BY NestedParse
  <2>3. Parse(k, s).m = x
    BY <1>4, <2>1, NestedParse
  <2>4. \A z \in 1 .. Len(s) : s[z] = 0 => ~Parse(k, SubSeq(s, 1, z - 1)).ok
    BY <1>4, <1>5, <2>1, <2>2
  <2>5. x[8] \in Seq(AnyValue) /\ x[9] \in Seq(AnyValue)
    BY <1>2, <2>1, ProtoFields DEF WellFormed, Messages
  <2>6. DOMAIN x[8] = 1 .. Len(x[8]) /\ DOMAIN x[9] = 1 .. Len(x[9])
    BY <2>5, LenProperties
  <2>7. /\ \A i \in DOMAIN x[8] : RpcClusterServerParse(x[8][i]).ok
        /\ \A i \in DOMAIN x[9] : LoadBalancerMetaDataParse(x[9][i]).ok
    BY <1>7, <2>6 DEF GoodMessage, Nested
  <2>8. Parse(k, s).ok
    BY <1>4, <2>1, <2>7, NestedParse
  <2> QED BY <1>4, <2>3, <2>4, <2>8
<1> QED BY <1>6, <1>7

(* Every sample is a message that its calls have filled.                    *)
LEMMA SampleGood ==
    ASSUME NEW x \in Samples
    PROVE  x[1] \in DOMAIN TypeOf /\ GoodMessage(x[1], Filled(x[1], x[2]))
<1>1. x[1] \in DOMAIN TypeOf /\ Len(x[2]) \in Nat
    BY SamplesAssumption
<1>2. PICK k \in DOMAIN TypeOf : k = x[1]
    BY <1>1
<1>3. PICK calls : calls = x[2]
    OBVIOUS
<1>4. ASSUME NEW n \in 1 .. Len(calls) PROVE GoodCall(k, calls[n][1], calls[n][2])
  <2>1. PICK i, v : i = calls[n][1] /\ v = calls[n][2]
    OBVIOUS
  <2>2. /\ i \in DOMAIN TypeOf[k] /\ v \in Values(TypeOf[k][i])
        /\ k = "CentersProto" /\ i = 8 => RpcClusterServerParse(v).ok
        /\ k = "CentersProto" /\ i = 9 => LoadBalancerMetaDataParse(v).ok
    BY <1>2, <1>3, <2>1, SamplesAssumption
  <2>3. Plain(TypeOf[k][i])
    BY <2>2, TypesPlain
  <2>4. Sized(TypeOf[k][i], v)
    BY <2>2, <2>3, ValuesSized
  <2> QED BY <2>1, <2>2, <2>4 DEF GoodCall
<1>5. GoodMessage(k, Filled(k, calls))
    BY <1>1, <1>3, <1>4, FilledGood
<1> QED BY <1>2, <1>3, <1>5

(* The message, its bytes, and what was made of them.                       *)
WireInv ==
    /\ FrameInv
    /\ kind \in DOMAIN TypeOf /\ GoodMessage(kind, m) /\ data = Serialize(kind, m)
    /\ parsed = NotYet \/ (rpc = "done" /\ parsed = Parse(kind, recv_info))

(* At first the message is serialized, from a copy.                         *)
LEMMA WireInit == Init => WireInv
<1> SUFFICES ASSUME Init PROVE WireInv
    OBVIOUS
<1>1. PICK x \in Samples : kind = x[1] /\ m = Filled(x[1], x[2])
    BY DEF Init
<1>2. kind \in DOMAIN TypeOf /\ GoodMessage(kind, m)
    BY <1>1, SampleGood
<1>3. CopyFrom(kind, m) = m
  <2>1. m \in Messages(TypeOf[kind])
    BY <1>2 DEF GoodMessage, WellSized, WellFormed
  <2>2. Merged(TypeOf[kind], Cleared(TypeOf[kind]), m) = m
    BY <2>1, MergedCleared
  <2> QED BY <1>2, <2>2, Methods
<1>4. InitFraming(Serialize(kind, m)) /\ parsed = NotYet
    BY <1>3 DEF Init
<1>5. Serialize(kind, m) \in Seq(Nat)
    BY <1>2, ParseIs
<1>6. FrameInv
    BY <1>4, <1>5, FrameInvInit
<1>7. data = Serialize(kind, m)
    BY <1>4 DEF InitFraming
<1> QED BY <1>2, <1>4, <1>6, <1>7 DEF WireInv

(* Nothing is read once RpcRecv has returned.                               *)
LEMMA DoneStays == rpc = "done" /\ FramingNext => UNCHANGED <<rpc, recv_info>>
BY DEF FramingNext, SendRefused, SendFrame, SendReturns, SendFails, RpcRecv, RecvClosed, RecvError,
       RpcRecvFrom, LoseDatagram

(* Every step keeps the invariant.                                          *)
LEMMA WireStep == WireInv /\ [Next]_vars => WireInv'
<1> SUFFICES ASSUME WireInv, [Next]_vars PROVE WireInv'
    OBVIOUS
<1>1. UNCHANGED <<kind, m>> /\ [FramingNext]_frame_vars
    BY DEF Next, vars, ParseFromString
<1>2. FrameInv'
    BY <1>1, FrameInvStep DEF WireInv
<1>3. data' = data
  <2>1. FramingNext => data' = data
    BY SameMessage
  <2> QED BY <1>1, <2>1 DEF frame_vars
<1>4. (parsed = NotYet \/ (rpc = "done" /\ parsed = Parse(kind, recv_info)))'
  <2>1. CASE FramingNext /\ UNCHANGED <<kind, m, parsed>>
    BY <2>1, DoneStays DEF WireInv, NotYet
  <2>2. CASE ParseFromString
    BY <2>2 DEF ParseFromString, frame_vars
  <2>3. CASE UNCHANGED vars
    BY <2>3 DEF WireInv, vars, frame_vars, NotYet
  <2> QED BY <2>1, <2>2, <2>3 DEF Next
<1>5. (kind \in DOMAIN TypeOf /\ GoodMessage(kind, m) /\ data = Serialize(kind, m))'
    BY <1>1, <1>3 DEF WireInv
<1> QED BY <1>2, <1>4, <1>5 DEF WireInv

-----------------------------------------------------------------------------
(* What was parsed *)

(* Parsed bytes were received whole, or cut at the first 0 of the message.  *)
LEMMA ParsedWas ==
    ASSUME WireInv, parsed # NotYet, ret > 0, short = 0
    PROVE  /\ Completed /\ parsed = Parse(kind, recv_info)
           /\ ~udp /\ NulFree => recv_info = data
           /\ Whole = 0 => recv_info = SubSeq(data, 1, Strlen(data))
<1>1. rpc = "done" /\ parsed = Parse(kind, recv_info)
    BY DEF WireInv
<1>2. Completed
    BY <1>1 DEF Completed
<1> QED BY <1>1, <1>2 DEF WireInv, FrameInv, DoneInv

(* Every message the generated classes can hold is parsed to itself from    *)
(* what SerializeToString writes, and never from that cut at a 0 byte.      *)
THEOREM EveryMessageParsed ==
    ASSUME NEW x \in Samples
    PROVE  LET k == x[1]
               s == Serialize(k, Filled(k, x[2]))
           IN /\ Parse(k, s).ok /\ Parse(k, s).m = Filled(k, x[2])
              /\ \A z \in 1 .. Len(s) : s[z] = 0 => ~Parse(k, SubSeq(s, 1, z - 1)).ok
BY SampleGood, ParseIs

(* ByteSize is the length of what SerializeToString writes, for every       *)
(* message of every type and its copy.                                      *)
THEOREM SizeAlwaysMatches == Spec => []SizeMatches
<1>1. WireInv => SizeMatches
  <2> SUFFICES ASSUME WireInv PROVE ByteSize(kind, m) = Len(data)
    BY DEF SizeMatches
  <2>1. kind \in DOMAIN TypeOf /\ WellSized(TypeOf[kind], m) /\ data = Serialize(kind, m)
    BY DEF WireInv, GoodMessage
  <2>2. PICK n \in Nat : DOMAIN TypeOf[kind] = 1 .. n
    BY <2>1, TypesPlain
  <2>3. SizeOf(TypeOf[kind], m) = Len(Serialized(TypeOf[kind], m))
    BY <2>1, <2>2, TypesAre, SizeIs
  <2> QED BY <2>1, <2>3, Methods
<1> QED BY <1>1, WireInit, WireStep, PTL DEF Spec

(* A message of one frame that RpcRecv completed and ParseFromString        *)
(* accepted is the message that was sent, wherever its 0 bytes are.         *)
THEOREM OneFrameNeverEverWrong == Spec => []OneFrameNeverWrong
<1>1. WireInv => OneFrameNeverWrong
  <2> SUFFICES ASSUME WireInv, short = 0, Frames = 1, RestLen # 0, ret > 0, parsed.ok
               PROVE  parsed.m = m
    BY DEF OneFrameNeverWrong
  <2>1. parsed # NotYet
    BY DEF NotYet
  <2>2. Whole = 0
    BY Sizes, SMTT(30) DEF WireInv, FrameInv, FrameTypes
  <2>3. parsed = Parse(kind, recv_info) /\ recv_info = SubSeq(data, 1, Strlen(data))
    BY <2>1, <2>2, ParsedWas
  <2>4. kind \in DOMAIN TypeOf /\ GoodMessage(kind, m) /\ data = Serialize(kind, m)
    BY DEF WireInv
  <2>5. /\ data \in Seq(Nat) /\ Parse(kind, data).m = m
        /\ \A z \in 1 .. Len(data) : data[z] = 0 => ~Parse(kind, SubSeq(data, 1, z - 1)).ok
    BY <2>4, ParseIs
  <2>6. CASE SubSeq(data, 1, Strlen(data)) = data
    BY <2>3, <2>5, <2>6
  <2>7. CASE \E z \in 1 .. Len(data) : data[z] = 0 /\ Strlen(data) = z - 1
    <3>1. PICK z \in 1 .. Len(data) : data[z] = 0 /\ Strlen(data) = z - 1
      BY <2>7
    <3>2. ~Parse(kind, SubSeq(data, 1, Strlen(data))).ok
      BY <2>5, <3>1
    <3> QED BY <2>3, <3>2
  <2> QED BY <2>5, <2>6, <2>7, StrlenIs
<1> QED BY <1>1, WireInit, WireStep, PTL DEF Spec

(* A message without a 0 byte, of any number of frames, that RpcRecv        *)
(* completed from whole reads is parsed to what was sent.                   *)
THEOREM NulFreeAlwaysParsed == Spec => []NulFreeParsed
<1>1. WireInv => NulFreeParsed
  <2> SUFFICES ASSUME WireInv, short = 0, ~udp, NulFree, ret > 0, parsed # NotYet
               PROVE  parsed.ok /\ parsed.m = m
    BY DEF NulFreeParsed
  <2>1. parsed = Parse(kind, recv_info) /\ recv_info = data
    BY ParsedWas
  <2>2. kind \in DOMAIN TypeOf /\ GoodMessage(kind, m) /\ data = Serialize(kind, m)
    BY DEF WireInv
  <2> QED BY <2>1, <2>2, ParseIs
<1> QED BY <1>1, WireInit, WireStep, PTL DEF Spec

(* However many frames a message takes and whatever bytes it has: when the  *)
(* reads were whole, RpcRecv ends with the id of RpcSend and, without a 0   *)
(* in the message, with the message; RpcRecvFrom does for one frame.        *)
THEOREM WholeReadsAlwaysIntact ==
    ASSUME NEW payload \in Seq(Nat)
    PROVE  FramingSpec(payload) => []WholeReadsIntact
<1>1. InitFraming(payload) => FrameInv
    BY FrameInvInit
<1>2. FrameInv => WholeReadsIntact
  <2> SUFFICES ASSUME FrameInv, Completed, short = 0, udp => Frames = 1
               PROVE  ret = TransferId /\ (NulFree => recv_info = data)
    BY DEF WholeReadsIntact
  <2>1. RestLen # 0
    BY DEF FrameInv, DoneInv
  <2>2. udp => Whole = 0
    BY <2>1, Sizes, SMTT(30) DEF FrameInv, FrameTypes
  <2> QED BY <2>2 DEF FrameInv, DoneInv
<1> QED BY <1>1, <1>2, FrameInvStep, PTL DEF FramingSpec

(* A message whose length is a multiple of BODY_SIZE - 1 is never completed *)
(* by whole reads, over a connection or in datagrams.                       *)
THEOREM BoundaryNeverEverCompletes ==
    ASSUME NEW payload \in Seq(Nat)
    PROVE  FramingSpec(payload) => []BoundaryNeverCompletes
<1>1. InitFraming(payload) => FrameInv
    BY FrameInvInit
<1>2. FrameInv => BoundaryNeverCompletes
    BY DEF FrameInv, DoneInv, BoundaryNeverCompletes
<1> QED BY <1>1, <1>2, FrameInvStep, PTL DEF FramingSpec

=============================================================================
