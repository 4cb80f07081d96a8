------------------------ MODULE DispatchThreadProofs ------------------------
(***************************************************************************)
(* Theorems about DispatchThread, for any connections, any size of a block  *)
(* of event items and any amount of memory.                                 *)
(***************************************************************************)
EXTENDS DispatchThread, TLAPS

(* No item is linked twice, in one list or in both.                         *)
LinkedOnce ==
    /\ \A a, b \in DOMAIN uselist : uselist[a] = uselist[b] => a = b
    /\ \A a, b \in DOMAIN freelist : freelist[a] = freelist[b] => a = b
    /\ \A a \in DOMAIN uselist, b \in DOMAIN freelist : uselist[a] # freelist[b]

(* Whatever the loop refers to has a descriptor.                            *)
Watched ==
    /\ \A c \in Conns : \A i \in watchers[c] : fd[i] \in Conns
    /\ \A i \in pending \ {Listener} : fd[i] \in Conns

ItemInv == TypeOK /\ LinkedOnce /\ Watched /\ ItemsAccounted

USE DEF clientVars, itemVars, callVars, Items, Listener

(* A sequence is a function, its elements are in its set.                   *)
LEMMA SeqFun ==
    ASSUME NEW R, NEW s \in Seq(R)
    PROVE  /\ Len(s) \in Nat /\ DOMAIN s = 1 .. Len(s)
           /\ \A k \in 1 .. Len(s) : s[k] \in R
           /\ s # <<>> => Len(s) > 0 /\ Head(s) = s[1] /\ Head(s) \in R
OBVIOUS

(* A function on 1 .. n is a sequence of length n.                          *)
LEMMA FunSeq ==
    ASSUME NEW R, NEW n \in Nat, NEW s \in [1 .. n -> R]
    PROVE  s \in Seq(R) /\ Len(s) = n
OBVIOUS

(* Items that are allocated stay so.                                        *)
LEMMA SeqMono ==
    ASSUME NEW m \in Nat, NEW n \in Nat, m <= n, NEW s \in Seq(1 .. m)
    PROVE  s \in Seq(1 .. n)
<1>1. \A k \in 1 .. Len(s) : s[k] \in 1 .. n
    OBVIOUS
<1>2. Len(s) \in Nat /\ s \in [1 .. Len(s) -> 1 .. n]
    BY <1>1
<1> QED BY <1>2

(* The item NewEIO returns and the free list it leaves: the head and the    *)
(* tail of the free list, or the first item of a fresh block and the rest.  *)
LEMMA NewItem ==
    ASSUME TypeOK, NEW x, NEW r, NEW n, x = NewEIO.item, r = NewEIO.rest, n = NewEIO.brk
    PROVE  /\ n \in Nat /\ brk <= n /\ x \in 1 .. n /\ r \in Seq(1 .. n)
           /\ \/ /\ freelist # <<>> /\ n = brk /\ x = freelist[1] /\ Len(freelist) > 0
                 /\ Len(r) = Len(freelist) - 1
                 /\ \A k \in 1 .. Len(r) : r[k] = freelist[k + 1]
              \/ /\ freelist = <<>> /\ n > brk /\ x = brk + 1
                 /\ Len(r) = n - brk - 1
                 /\ \A k \in 1 .. Len(r) : r[k] = brk + 1 + k
<1>0. /\ brk \in Nat /\ MaxItems \in Nat /\ ItemPerAlloc \in Nat /\ ItemPerAlloc > 1
      /\ freelist \in Seq(1 .. brk)
    BY DispatchAssumption DEF TypeOK
<1>1. CASE freelist # <<>>
  <2>1. x = Head(freelist) /\ r = Tail(freelist) /\ n = brk
    BY <1>1 DEF NewEIO
  <2> QED BY <1>0, <1>1, <2>1
<1>2. CASE freelist = <<>>
  <2>1. x = brk + 1 /\ n = brk + ItemPerAlloc /\ r = [k \in 1 .. ItemPerAlloc - 1 |-> brk + 1 + k]
    BY <1>2 DEF NewEIO
  <2>2. \A k \in 1 .. ItemPerAlloc - 1 : brk + 1 + k \in 1 .. n
    BY <1>0, <2>1
  <2>3. r \in [1 .. ItemPerAlloc - 1 -> 1 .. n] /\ ItemPerAlloc - 1 \in Nat
    BY <1>0, <2>1, <2>2
  <2>4. r \in Seq(1 .. n) /\ Len(r) = ItemPerAlloc - 1
    BY <2>3, FunSeq
  <2> QED BY <1>0, <1>2, <2>1, <2>4
<1> QED BY <1>1, <1>2

(* No item is allocated when the dispatch thread starts.                    *)
LEMMA InitItemInv == Init => ItemInv
<1> SUFFICES ASSUME Init PROVE ItemInv
    OBVIOUS
<1>1. TypeOK
  <2>1. <<>> \in Seq(1 .. brk) /\ brk \in 0 .. MaxItems
    BY DispatchAssumption DEF Init
  <2>2. conn \in [Conns -> {"none", "backlog", "open", "closed"}] /\ handed \in [Conns -> Nat]
    BY DEF Init
  <2>3. watchers \in [Conns -> SUBSET (1 .. brk)]
    BY DEF Init
  <2>4. fd \in [1 .. MaxItems -> Conns \cup {NoConn}] /\ active \in [1 .. MaxItems -> BOOLEAN]
    BY DEF Init
  <2> QED BY <2>1, <2>2, <2>3, <2>4 DEF Init, TypeOK
<1>2. LinkedOnce /\ Watched
    BY DEF Init, LinkedOnce, Watched
<1>3. ItemsAccounted
  <2>1. ToSet(<<>>) = {}
    BY DEF ToSet
  <2> QED BY <2>1 DEF Init, ItemsAccounted
<1> QED BY <1>1, <1>2, <1>3 DEF ItemInv

(* AcceptCb moves an item from the free list, which a fresh block may fill, *)
(* to the end of the list in use.                                           *)
LEMMA AcceptItems ==
    ASSUME ItemInv, NEW c \in Conns, AcceptCb(c)
    PROVE  ItemInv'
<1> USE DEF ItemInv
<1>0. PICK x, r, n : x = NewEIO.item /\ r = NewEIO.rest /\ n = NewEIO.brk
    OBVIOUS
<1>1. /\ pending' = pending \ {Listener}
      /\ UNCHANGED <<serial, sent, readable, pool, handed, premature>>
      /\ conn' = [conn EXCEPT ![c] = "open"]
    BY DEF AcceptCb
<1>2. CASE /\ n > MaxItems /\ aborted' = TRUE /\ UNCHANGED itemVars
  <2>1. TypeOK'
    BY <1>1, <1>2 DEF TypeOK
  <2>2. LinkedOnce' /\ Watched' /\ ItemsAccounted'
    BY <1>1, <1>2 DEF LinkedOnce, Watched, ItemsAccounted
  <2> QED BY <2>1, <2>2
<1>3. CASE /\ n <= MaxItems /\ freelist' = r /\ brk' = n
           /\ fd' = [fd EXCEPT ![x] = c] /\ active' = [active EXCEPT ![x] = TRUE]
           /\ watchers' = [watchers EXCEPT ![c] = @ \cup {x}]
           /\ uselist' = Append(uselist, x) /\ UNCHANGED aborted
  <2>1. /\ n \in Nat /\ brk <= n /\ x \in 1 .. n /\ r \in Seq(1 .. n)
        /\ \/ /\ freelist # <<>> /\ n = brk /\ x = freelist[1] /\ Len(freelist) > 0
              /\ Len(r) = Len(freelist) - 1
              /\ \A k \in 1 .. Len(r) : r[k] = freelist[k + 1]
           \/ /\ freelist = <<>> /\ n > brk /\ x = brk + 1
              /\ Len(r) = n - brk - 1
              /\ \A k \in 1 .. Len(r) : r[k] = brk + 1 + k
    BY <1>0, NewItem
  <2>2. brk \in Nat /\ uselist \in Seq(1 .. brk) /\ freelist \in Seq(1 .. brk) /\ MaxItems \in Nat
    BY DispatchAssumption DEF TypeOK
  <2>3. uselist \in Seq(1 .. n)
    BY <2>1, <2>2, SeqMono
  <2>4. /\ uselist' \in Seq(1 .. n) /\ Len(uselist') = Len(uselist) + 1
        /\ \A k \in 1 .. Len(uselist) : uselist'[k] = uselist[k]
        /\ uselist'[Len(uselist) + 1] = x
    BY <1>3, <2>1, <2>3
  <2>5. x \in 1 .. MaxItems
    BY <1>3, <2>1, <2>2
  <2>6. TypeOK'
    <3>1. /\ fd' \in [1 .. MaxItems -> Conns \cup {NoConn}] /\ active' \in [1 .. MaxItems -> BOOLEAN]
        BY <1>3, <2>5 DEF TypeOK
    <3>2. 1 .. brk \subseteq 1 .. n
        BY <2>1, <2>2
    <3>3. watchers' \in [Conns -> SUBSET (1 .. n)]
      <4>1. watchers \in [Conns -> SUBSET (1 .. brk)]
        BY DEF TypeOK
      <4> QED BY <1>3, <2>1, <3>2, <4>1
    <3>4. pending' \subseteq {Listener} \cup 1 .. n
        BY <1>1, <3>2 DEF TypeOK
    <3>5. brk' \in 0 .. MaxItems
        BY <1>3, <2>1, <2>2
    <3>6. conn' \in [Conns -> {"none", "backlog", "open", "closed"}]
        BY <1>1 DEF TypeOK
    <3> QED BY <1>1, <1>3, <2>1, <2>4, <3>1, <3>3, <3>4, <3>5, <3>6 DEF TypeOK
  <2>7. LinkedOnce'
    <3>1. \A a \in 1 .. Len(uselist) : uselist[a] \in 1 .. brk
        BY <2>2
    <3>2. /\ DOMAIN uselist = 1 .. Len(uselist) /\ Len(uselist) \in Nat /\ DOMAIN uselist' = 1 .. Len(uselist) + 1
          /\ DOMAIN freelist = 1 .. Len(freelist) /\ Len(freelist) \in Nat
          /\ DOMAIN r = 1 .. Len(r) /\ Len(r) \in Nat
        BY <2>1, <2>2, <2>4
    <3>3. CASE /\ freelist # <<>> /\ n = brk /\ x = freelist[1] /\ Len(freelist) > 0
               /\ Len(r) = Len(freelist) - 1
               /\ \A k \in 1 .. Len(r) : r[k] = freelist[k + 1]
      <4>1. \A a \in DOMAIN uselist' : a = Len(uselist) + 1 \/ a \in DOMAIN uselist
        BY <3>2
      <4>2. 1 \in DOMAIN freelist /\ \A k \in DOMAIN r : k + 1 \in DOMAIN freelist /\ k + 1 # 1
        BY <3>2, <3>3
      <4>3. \A a, b \in DOMAIN uselist' : uselist'[a] = uselist'[b] => a = b
        BY <2>4, <3>2, <3>3, <4>1, <4>2 DEF LinkedOnce
      <4>4. \A a, b \in DOMAIN r : r[a] = r[b] => a = b
        BY <3>2, <3>3, <4>2 DEF LinkedOnce
      <4>5. \A a \in DOMAIN uselist', b \in DOMAIN r : uselist'[a] # r[b]
        BY <2>4, <3>2, <3>3, <4>1, <4>2 DEF LinkedOnce
      <4> QED BY <1>3, <4>3, <4>4, <4>5 DEF LinkedOnce
    <3>4. CASE /\ freelist = <<>> /\ n > brk /\ x = brk + 1
               /\ Len(r) = n - brk - 1
               /\ \A k \in 1 .. Len(r) : r[k] = brk + 1 + k
      <4>1. \A a, b \in DOMAIN uselist' : uselist'[a] = uselist'[b] => a = b
        BY <2>2, <2>4, <3>1, <3>2, <3>4, SMTT(30) DEF LinkedOnce
      <4>2. \A a, b \in DOMAIN r : r[a] = r[b] => a = b
        BY <2>2, <3>2, <3>4
      <4>3. \A a \in DOMAIN uselist', b \in DOMAIN r : uselist'[a] # r[b]
        <5>1. \A a \in DOMAIN uselist' : uselist'[a] \in 1 .. brk + 1
          BY <2>2, <2>4, <3>1, <3>2, <3>4
        <5>2. \A b \in DOMAIN r : r[b] > brk + 1
          BY <2>2, <3>2, <3>4
        <5> QED BY <2>2, <5>1, <5>2
      <4> QED BY <1>3, <4>1, <4>2, <4>3 DEF LinkedOnce
    <3> QED BY <2>1, <3>3, <3>4
  <2>8. Watched'
    BY <1>1, <1>3, <2>5 DEF Watched, TypeOK
  <2>9. ItemsAccounted'
    <3>1. Len(uselist') + Len(freelist') = n
      <4>1. Len(uselist) + Len(freelist) = brk
        BY DEF ItemsAccounted
      <4>2. PICK p \in Nat, q \in Nat, o \in Nat : p = Len(uselist) /\ q = Len(freelist) /\ o = Len(r)
        BY <2>1, <2>2
      <4>3. freelist = <<>> => q = 0
        BY <4>2
      <4>4. \/ freelist # <<>> /\ n = brk /\ o = q - 1
            \/ freelist = <<>> /\ o = n - brk - 1
        BY <2>1, <4>2
      <4>5. Len(freelist') = o /\ Len(uselist') = p + 1
        BY <1>3, <2>4, <4>2
      <4>6. p + q = brk
        BY <4>1, <4>2
      <4>7. (p + 1) + o = n
        BY <2>1, <2>2, <4>3, <4>4, <4>6
      <4> QED BY <4>5, <4>7
    <3>2. ToSet(uselist') = ToSet(uselist) \cup {x}
      <4>1. DOMAIN uselist' = 1 .. Len(uselist) + 1 /\ DOMAIN uselist = 1 .. Len(uselist) /\ Len(uselist) \in Nat
        BY <2>3, <2>4
      <4> QED BY <2>4, <4>1 DEF ToSet
    <3>3. CASE /\ freelist # <<>> /\ n = brk /\ x = freelist[1] /\ Len(freelist) > 0
               /\ Len(r) = Len(freelist) - 1
               /\ \A k \in 1 .. Len(r) : r[k] = freelist[k + 1]
      <4>0. DOMAIN r = 1 .. Len(r) /\ DOMAIN freelist = 1 .. Len(freelist) /\ Len(freelist) \in Nat
        BY <2>1, <2>2
      <4>1. ToSet(r) \cup {x} = ToSet(freelist)
        <5>1. ASSUME NEW y \in ToSet(freelist) PROVE y \in ToSet(r) \cup {x}
          <6>1. PICK k \in 1 .. Len(freelist) : y = freelist[k]
            BY <4>0 DEF ToSet
          <6>2. CASE k = 1
            BY <3>3, <6>1, <6>2
          <6>3. CASE k # 1
            <7>1. k - 1 \in 1 .. Len(r) /\ r[k - 1] = freelist[k]
              BY <3>3, <4>0, <6>3
            <7> QED BY <4>0, <6>1, <7>1 DEF ToSet
          <6> QED BY <6>2, <6>3
        <5>2. ASSUME NEW y \in ToSet(r) \cup {x} PROVE y \in ToSet(freelist)
          BY <3>3, <4>0 DEF ToSet
        <5> QED BY <5>1, <5>2
      <4> QED BY <1>3, <3>1, <3>2, <3>3, <4>1 DEF ItemsAccounted
    <3>4. CASE /\ freelist = <<>> /\ n > brk /\ x = brk + 1
               /\ Len(r) = n - brk - 1
               /\ \A k \in 1 .. Len(r) : r[k] = brk + 1 + k
      <4>1. ToSet(r) = (brk + 2) .. n
        <5>0. DOMAIN r = 1 .. Len(r) /\ Len(r) \in Nat
          BY <2>1
        <5>1. ASSUME NEW y \in (brk + 2) .. n PROVE y \in ToSet(r)
          <6>1. y - brk - 1 \in 1 .. Len(r) /\ r[y - brk - 1] = y
            BY <2>1, <2>2, <3>4
          <6> QED BY <5>0, <6>1 DEF ToSet
        <5>2. ASSUME NEW y \in ToSet(r) PROVE y \in (brk + 2) .. n
          BY <2>1, <2>2, <3>4, <5>0 DEF ToSet
        <5> QED BY <5>1, <5>2
      <4>2. ToSet(freelist) = {}
        BY <3>4 DEF ToSet
      <4>3. 1 .. n = (1 .. brk) \cup {x} \cup (brk + 2) .. n
        BY <2>1, <2>2, <3>4, SMTT(30)
      <4> QED BY <1>3, <3>1, <3>2, <4>1, <4>2, <4>3 DEF ItemsAccounted
    <3> QED BY <2>1, <3>3, <3>4
  <2> QED BY <2>6, <2>7, <2>8, <2>9
<1> QED BY <1>0, <1>2, <1>3 DEF AcceptCb, Started

(* The lists after PopEIO and FreeEIO.                                      *)
LEMMA PoppedLists ==
    ASSUME TypeOK, uselist # <<>>, uselist' = PopEIO, freelist' = FreeEIO
    PROVE  /\ brk \in Nat /\ uselist' \in Seq(1 .. brk) /\ freelist' \in Seq(1 .. brk)
           /\ Len(uselist) \in Nat /\ Len(uselist) > 0 /\ Len(uselist') = Len(uselist) - 1
           /\ Len(freelist) \in Nat /\ Len(freelist') = Len(freelist) + 1
           /\ \A k \in 1 .. Len(uselist) - 1 : uselist'[k] = uselist[k + 1]
           /\ freelist'[1] = uselist[1] /\ uselist[1] \in 1 .. brk
           /\ \A k \in 1 .. Len(freelist) : freelist'[k + 1] = freelist[k]
           /\ DOMAIN uselist = 1 .. Len(uselist) /\ DOMAIN uselist' = 1 .. Len(uselist) - 1
           /\ DOMAIN freelist = 1 .. Len(freelist) /\ DOMAIN freelist' = 1 .. Len(freelist) + 1
<1>0. brk \in Nat /\ uselist \in Seq(1 .. brk) /\ freelist \in Seq(1 .. brk)
    BY DispatchAssumption DEF TypeOK
<1>1. /\ uselist' \in Seq(1 .. brk) /\ Len(uselist) > 0 /\ Len(uselist') = Len(uselist) - 1
      /\ \A k \in 1 .. Len(uselist) - 1 : uselist'[k] = uselist[k + 1]
      /\ Head(uselist) = uselist[1] /\ uselist[1] \in 1 .. brk
    BY <1>0 DEF PopEIO
<1>2. <<Head(uselist)>> \in Seq(1 .. brk) /\ Len(<<Head(uselist)>>) = 1 /\ <<Head(uselist)>>[1] = uselist[1]
    BY <1>1
<1>3. /\ freelist' \in Seq(1 .. brk) /\ Len(freelist') = Len(freelist) + 1
      /\ freelist'[1] = uselist[1]
      /\ \A k \in 1 .. Len(freelist) : freelist'[k + 1] = freelist[k]
    BY <1>0, <1>2 DEF FreeEIO
<1> QED BY <1>0, <1>1, <1>3

(* ProcessCb moves the first item in use to the front of the free list.     *)
LEMMA ProcessItems ==
    ASSUME ItemInv, NEW i \in Items, ProcessCb(i)
    PROVE  ItemInv'
<1> USE DEF ItemInv
<1>0. /\ i \in pending \ {Listener} /\ pending' = pending \ {i} /\ fd[i] \in Conns
      /\ watchers' = [watchers EXCEPT ![fd[i]] = Stopped(i)]
      /\ active' = [active EXCEPT ![i] = FALSE]
      /\ UNCHANGED <<serial, sent, readable, brk, fd, pool>>
    BY DEF ProcessCb, Watched
<1>1. /\ handed' = [handed EXCEPT ![fd[i]] = @ + 1] /\ premature' = premature \cup ({fd[i]} \ sent)
      /\ conn' = [conn EXCEPT ![fd[i]] = "closed"] \/ UNCHANGED conn
      /\ aborted' \in BOOLEAN
    BY DEF ProcessCb, RpcCall
<1>2. /\ handed' \in [Conns -> Nat] /\ premature' \subseteq Conns
      /\ conn' \in [Conns -> {"none", "backlog", "open", "closed"}]
    BY <1>0, <1>1 DEF TypeOK
<1>3. watchers' \in [Conns -> SUBSET (1 .. brk)] /\ \A c \in Conns : watchers'[c] \subseteq watchers[c]
    BY <1>0 DEF TypeOK, Stopped
<1>4. active' \in [1 .. MaxItems -> BOOLEAN] /\ pending' \subseteq {Listener} \cup 1 .. brk
    BY <1>0 DEF TypeOK
<1>5. Watched'
    BY <1>0, <1>3 DEF Watched
<1>6. CASE uselist = <<>> /\ UNCHANGED <<uselist, freelist>>
  <2>1. TypeOK'
    BY <1>0, <1>1, <1>2, <1>3, <1>4, <1>6 DEF TypeOK
  <2>2. LinkedOnce' /\ ItemsAccounted'
    BY <1>0, <1>6 DEF LinkedOnce, ItemsAccounted
  <2> QED BY <1>5, <2>1, <2>2
<1>7. CASE uselist # <<>> /\ uselist' = PopEIO /\ freelist' = FreeEIO
  <2>1. /\ brk \in Nat /\ uselist' \in Seq(1 .. brk) /\ freelist' \in Seq(1 .. brk)
        /\ Len(uselist) \in Nat /\ Len(uselist) > 0 /\ Len(uselist') = Len(uselist) - 1
        /\ Len(freelist) \in Nat /\ Len(freelist') = Len(freelist) + 1
        /\ \A k \in 1 .. Len(uselist) - 1 : uselist'[k] = uselist[k + 1]
        /\ freelist'[1] = uselist[1] /\ uselist[1] \in 1 .. brk
        /\ \A k \in 1 .. Len(freelist) : freelist'[k + 1] = freelist[k]
        /\ DOMAIN uselist = 1 .. Len(uselist) /\ DOMAIN uselist' = 1 .. Len(uselist) - 1
        /\ DOMAIN freelist = 1 .. Len(freelist) /\ DOMAIN freelist' = 1 .. Len(freelist) + 1
    BY <1>7, PoppedLists
  <2>2. TypeOK'
    BY <1>0, <1>1, <1>2, <1>3, <1>4, <2>1 DEF TypeOK
  <2>3. LinkedOnce'
    <3>1. \A a \in DOMAIN uselist' : a + 1 \in DOMAIN uselist /\ a + 1 # 1 /\ uselist'[a] = uselist[a + 1]
        BY <2>1, SMTT(30)
    <3>2. \A b \in DOMAIN freelist' :
            IF b = 1 THEN freelist'[b] = uselist[1]
            ELSE b - 1 \in DOMAIN freelist /\ freelist'[b] = freelist[b - 1]
      <4> TAKE b \in DOMAIN freelist'
      <4>1. CASE b = 1
        BY <2>1, <4>1
      <4>2. CASE b # 1
        <5>1. b - 1 \in 1 .. Len(freelist) /\ (b - 1) + 1 = b
          BY <2>1, <4>2
        <5> QED BY <2>1, <5>1
      <4> QED BY <4>1, <4>2
    <3>3. 1 \in DOMAIN uselist
        BY <2>1
    <3>4. \A a, b \in DOMAIN uselist' : uselist'[a] = uselist'[b] => a = b
      <4> TAKE a, b \in DOMAIN uselist'
      <4>1. uselist[a + 1] = uselist[b + 1] => a + 1 = b + 1
        BY <3>1 DEF LinkedOnce
      <4>2. a \in Nat /\ b \in Nat
        BY <2>1, SMTT(30)
      <4>3. uselist'[a] = uselist[a + 1] /\ uselist'[b] = uselist[b + 1]
        BY <3>1
      <4> QED BY <4>1, <4>2, <4>3
    <3>5. \A a, b \in DOMAIN freelist' : freelist'[a] = freelist'[b] => a = b
      <4> TAKE a, b \in DOMAIN freelist'
      <4>1. a \in Nat /\ b \in Nat
        BY <2>1
      <4>2. CASE a = 1 /\ b # 1
        BY <3>2, <3>3, <4>2 DEF LinkedOnce
      <4>3. CASE a # 1 /\ b = 1
        BY <3>2, <3>3, <4>3 DEF LinkedOnce
      <4>4. CASE a # 1 /\ b # 1
        <5>1. freelist[a - 1] = freelist[b - 1] => a - 1 = b - 1
          BY <3>2, <4>4 DEF LinkedOnce
        <5> QED BY <3>2, <4>1, <4>4, <5>1
      <4> QED BY <4>2, <4>3, <4>4
    <3>6. \A a \in DOMAIN uselist', b \in DOMAIN freelist' : uselist'[a] # freelist'[b]
        BY <3>1, <3>2, <3>3 DEF LinkedOnce
    <3> QED BY <3>4, <3>5, <3>6 DEF LinkedOnce
  <2>4. ItemsAccounted'
    <3>1. ToSet(uselist) = ToSet(uselist') \cup {uselist[1]}
      <4>1. ASSUME NEW y \in ToSet(uselist) PROVE y \in ToSet(uselist') \cup {uselist[1]}
        <5>1. PICK k \in 1 .. Len(uselist) : y = uselist[k]
          BY <2>1 DEF ToSet
        <5>2. CASE k = 1
          BY <5>1, <5>2
        <5>3. CASE k # 1
          <6>1. k - 1 \in 1 .. Len(uselist) - 1 /\ uselist'[k - 1] = uselist[k]
            BY <2>1, <5>3, SMTT(30)
          <6> QED BY <2>1, <5>1, <6>1 DEF ToSet
        <5> QED BY <5>2, <5>3
      <4>2. ASSUME NEW y \in ToSet(uselist') \cup {uselist[1]} PROVE y \in ToSet(uselist)
        <5>1. CASE y = uselist[1]
          <6>1. 1 \in DOMAIN uselist
            BY <2>1
          <6> QED BY <5>1, <6>1 DEF ToSet
        <5>2. CASE y \in ToSet(uselist')
          <6>1. PICK k \in 1 .. Len(uselist) - 1 : y = uselist'[k]
            BY <2>1, <5>2 DEF ToSet
          <6>2. k + 1 \in DOMAIN uselist /\ uselist[k + 1] = y
            BY <2>1, <6>1
          <6> QED BY <6>2 DEF ToSet
        <5> QED BY <5>1, <5>2
      <4> QED BY <4>1, <4>2
    <3>2. ToSet(freelist') = ToSet(freelist) \cup {uselist[1]}
      <4>1. ASSUME NEW y \in ToSet(freelist') PROVE y \in ToSet(freelist) \cup {uselist[1]}
        <5>1. PICK k \in 1 .. Len(freelist) + 1 : y = freelist'[k]
          BY <2>1 DEF ToSet
        <5>2. CASE k = 1
          BY <2>1, <5>1, <5>2
        <5>3. CASE k # 1
          <6>1. k - 1 \in 1 .. Len(freelist) /\ (k - 1) + 1 = k
            BY <2>1, <5>3
          <6>2. freelist[k - 1] = y
            BY <2>1, <5>1, <6>1
          <6> QED BY <2>1, <6>1, <6>2 DEF ToSet
        <5> QED BY <5>2, <5>3
      <4>2. ASSUME NEW y \in ToSet(freelist) PROVE y \in ToSet(freelist')
        <5>1. PICK k \in 1 .. Len(freelist) : y = freelist[k]
          BY <2>1 DEF ToSet
        <5>2. k + 1 \in DOMAIN freelist' /\ freelist'[k + 1] = y
          BY <2>1, <5>1
        <5> QED BY <5>2 DEF ToSet
      <4>3. uselist[1] \in ToSet(freelist')
        <5>1. 1 \in DOMAIN freelist'
          BY <2>1
        <5> QED BY <2>1, <5>1 DEF ToSet
      <4> QED BY <4>1, <4>2, <4>3
    <3>3. Len(uselist') + Len(freelist') = brk
      <4>1. PICK p \in Nat, q \in Nat : p = Len(uselist) /\ q = Len(freelist)
        BY <2>1
      <4>2. p + q = brk /\ Len(uselist') = p - 1 /\ Len(freelist') = q + 1
        BY <2>1, <4>1 DEF ItemsAccounted
      <4>3. (p - 1) + (q + 1) = brk
        BY <4>2
      <4> QED BY <4>2, <4>3
    <3> QED BY <1>0, <3>1, <3>2, <3>3 DEF ItemsAccounted
  <2> QED BY <1>5, <2>2, <2>3, <2>4
<1> QED BY <1>6, <1>7 DEF ProcessCb

(* The other steps leave the items alone.                                   *)
LEMMA NextItemInv == ItemInv /\ [Next]_vars => ItemInv'
<1> SUFFICES ASSUME ItemInv, [Next]_vars PROVE ItemInv'
    OBVIOUS
<1>0. ASSUME UNCHANGED itemVars, pending' = pending, TypeOK' PROVE ItemInv'
    BY <1>0 DEF ItemInv, LinkedOnce, Watched, ItemsAccounted
<1>1. ASSUME NEW c \in Conns, Connect(c) \/ Request(c) \/ WorkerReads(c) PROVE ItemInv'
  <2>1. TypeOK'
    BY <1>1 DEF ItemInv, TypeOK, Connect, Request, WorkerReads
  <2> QED BY <1>0, <1>1, <2>1 DEF Connect, Request, WorkerReads
<1>2. CASE PoolStarts
  <2>1. TypeOK'
    BY <1>2 DEF ItemInv, TypeOK, PoolStarts
  <2> QED BY <1>0, <1>2, <2>1 DEF PoolStarts
<1>3. CASE Poll
  <2>0. \A i \in pending' \ {Listener} : \E c \in Conns : i \in watchers[c]
    <3>1. readable \subseteq Conns /\ pending' = Ready
        BY <1>3 DEF ItemInv, TypeOK, Poll
    <3>2. ASSUME NEW i \in Ready, i # Listener PROVE \E c \in Conns : i \in watchers[c]
      <4> DEFINE U == UNION {watchers[c] : c \in {d \in readable : conn[d] = "open"}}
                 L == IF \E c \in Conns : conn[c] = "backlog" THEN {Listener} ELSE {}
      <4>a. L \subseteq {Listener}
        OBVIOUS
      <4>b. Ready = U \cup L
        BY DEF Ready
      <4> HIDE DEF U, L
      <4>c. i \in U
        BY <3>2, <4>a, <4>b
      <4>1. i \in UNION {watchers[c] : c \in {d \in readable : conn[d] = "open"}}
        BY <4>c DEF U
      <4>2. \E c \in {d \in readable : conn[d] = "open"} : i \in watchers[c]
        BY <4>1
      <4> QED BY <3>1, <4>2
    <3> QED BY <3>1, <3>2
  <2>1. pending' \subseteq {Listener} \cup 1 .. brk
    BY <2>0 DEF ItemInv, TypeOK
  <2>2. TypeOK'
    BY <1>3, <2>1 DEF ItemInv, TypeOK, Poll
  <2>3. Watched'
    BY <1>3, <2>0 DEF ItemInv, Watched, Poll
  <2>4. LinkedOnce' /\ ItemsAccounted'
    BY <1>3 DEF ItemInv, LinkedOnce, ItemsAccounted, Poll
  <2> QED BY <2>2, <2>3, <2>4 DEF ItemInv
<1>4. CASE AcceptFails
  <2>1. TypeOK'
    BY <1>4 DEF ItemInv, TypeOK, AcceptFails
  <2>2. LinkedOnce' /\ ItemsAccounted' /\ Watched'
    BY <1>4 DEF ItemInv, LinkedOnce, ItemsAccounted, Watched, AcceptFails
  <2> QED BY <2>1, <2>2 DEF ItemInv
<1>5. CASE UNCHANGED vars
  <2>1. TypeOK'
    BY <1>5 DEF ItemInv, TypeOK, vars
  <2> QED BY <1>0, <1>5, <2>1 DEF vars
<1> QED BY <1>1, <1>2, <1>3, <1>4, <1>5, AcceptItems, ProcessItems DEF Next, Run

(* ItemInv holds in every state the dispatch thread reaches.                *)
LEMMA ItemInvAlways == Spec => []ItemInv
BY InitItemInv, NextItemInv, PTL DEF Spec

(* In any dispatch thread every variable has its type; only allocated items *)
(* are linked, watched or called back.                                      *)
THEOREM DispatchTypeCorrect == Spec => []TypeOK
BY ItemInvAlways, PTL DEF ItemInv

(* However accepts and callbacks alternate, and however often the free list *)
(* is refilled, every item is in one of the lists, once.                    *)
THEOREM ItemsAlwaysAccounted == Spec => []ItemsAccounted
BY ItemInvAlways, PTL DEF ItemInv
-----------------------------------------------------------------------------
(* Serial clients. The list in use holds the open connections that have not *)
(* been passed on, each with its one watcher; of these only the first may   *)
(* have its request sent, so the only watcher the loop calls is the one     *)
(* PopEIO takes from the list.                                              *)
InUse ==
    \A a \in DOMAIN uselist :
        /\ fd[uselist[a]] \in Conns
        /\ conn[fd[uselist[a]]] = "open" /\ handed[fd[uselist[a]]] = 0
        /\ active[uselist[a]] = TRUE /\ watchers[fd[uselist[a]]] = {uselist[a]}

WatchersInUse ==
    \A c \in Conns : watchers[c] # {} => \E a \in DOMAIN uselist : fd[uselist[a]] = c

FirstSent ==
    \A c \in sent : handed[c] = 0 => uselist # <<>> /\ fd[uselist[1]] = c

FirstPending ==
    \A i \in pending \ {Listener} : uselist # <<>> /\ i = uselist[1] /\ fd[i] \in sent

NewUntouched ==
    \A c \in Conns : conn[c] \in {"none", "backlog"} => c \notin sent /\ handed[c] = 0

SerialInv ==
    serial =>
        /\ \A c \in Conns : handed[c] <= 1
        /\ premature = {}
        /\ ~aborted => InUse /\ WatchersInUse /\ FirstSent /\ FirstPending /\ NewUntouched

(* AcceptCb appends the new connection, which has nothing sent, to the list *)
(* in use; it becomes the first only when the list was empty.               *)
LEMMA AcceptSerial ==
    ASSUME ItemInv, SerialInv, serial, ~aborted, NEW c \in Conns, AcceptCb(c)
    PROVE  SerialInv'
<1>0. /\ InUse /\ WatchersInUse /\ FirstSent /\ FirstPending /\ NewUntouched /\ premature = {}
      /\ \A d \in Conns : handed[d] <= 1
    BY DEF SerialInv
<1>1. /\ pending' = pending \ {Listener} /\ conn[c] = "backlog"
      /\ UNCHANGED <<serial, sent, handed, premature>>
      /\ conn' = [conn EXCEPT ![c] = "open"]
    BY DEF AcceptCb
<1>2. CASE aborted'
    BY <1>0, <1>1, <1>2 DEF SerialInv
<1>3. CASE ~aborted'
  <2>1. PICK x : /\ fd' = [fd EXCEPT ![x] = c] /\ active' = [active EXCEPT ![x] = TRUE]
                 /\ watchers' = [watchers EXCEPT ![c] = @ \cup {x}]
                 /\ uselist' = Append(uselist, x)
    BY <1>3 DEF AcceptCb, Started
  <2>2. TypeOK /\ TypeOK' /\ LinkedOnce'
    BY AcceptItems DEF ItemInv
  <2>3. /\ uselist \in Seq(1 .. brk) /\ uselist' \in Seq(1 .. brk')
        /\ brk \in 0 .. MaxItems /\ brk' \in 0 .. MaxItems /\ MaxItems \in Nat
    BY <2>2, DispatchAssumption DEF TypeOK
  <2>4. /\ DOMAIN uselist = 1 .. Len(uselist) /\ Len(uselist) \in Nat /\ DOMAIN uselist' = 1 .. Len(uselist) + 1
        /\ \A a \in DOMAIN uselist : uselist'[a] = uselist[a] /\ uselist[a] \in 1 .. MaxItems
        /\ uselist'[Len(uselist) + 1] = x
    BY <2>1, <2>3
  <2>5. x \in 1 .. MaxItems
    BY <2>3, <2>4
  <2>6. \A a \in DOMAIN uselist : uselist[a] # x
    BY <2>2, <2>4 DEF LinkedOnce
  <2>7. /\ fd'[x] = c /\ active'[x] = TRUE
        /\ \A a \in DOMAIN uselist : fd'[uselist[a]] = fd[uselist[a]] /\ active'[uselist[a]] = active[uselist[a]]
    BY <2>1, <2>2, <2>4, <2>5, <2>6 DEF TypeOK
  <2>8. \A a \in DOMAIN uselist : fd[uselist[a]] # c
    BY <1>0, <1>1 DEF InUse
  <2>9. /\ watchers'[c] = {x} /\ conn'[c] = "open"
        /\ \A d \in Conns : d # c => watchers'[d] = watchers[d] /\ conn'[d] = conn[d]
    <3>1. watchers[c] = {}
        BY <1>0, <2>8 DEF WatchersInUse
    <3> QED BY <1>1, <2>1, <2>2, <3>1 DEF TypeOK
  <2>10. \A a \in DOMAIN uselist' : a \in DOMAIN uselist \/ (a = Len(uselist) + 1 /\ uselist'[a] = x)
    BY <2>4
  <2>11. InUse'
    <3>1. ASSUME NEW a \in DOMAIN uselist
          PROVE  /\ fd'[uselist'[a]] \in Conns /\ conn'[fd'[uselist'[a]]] = "open"
                 /\ handed[fd'[uselist'[a]]] = 0
                 /\ active'[uselist'[a]] = TRUE /\ watchers'[fd'[uselist'[a]]] = {uselist'[a]}
        BY <1>0, <2>4, <2>7, <2>8, <2>9, SMTT(30) DEF InUse
    <3>2. handed[c] = 0
        BY <1>0, <1>1 DEF NewUntouched
    <3> QED BY <1>1, <2>7, <2>9, <2>10, <3>1, <3>2 DEF InUse
  <2>12. WatchersInUse'
    <3>1. Len(uselist) + 1 \in DOMAIN uselist' /\ \A a \in DOMAIN uselist : a \in DOMAIN uselist'
        BY <2>4
    <3>2. ASSUME NEW d \in Conns, watchers'[d] # {} PROVE \E a \in DOMAIN uselist' : fd'[uselist'[a]] = d
      <4>1. CASE d = c
        BY <2>4, <2>7, <3>1, <4>1
      <4>2. CASE d # c
        <5>1. PICK a \in DOMAIN uselist : fd[uselist[a]] = d
          BY <1>0, <2>9, <3>2, <4>2 DEF WatchersInUse
        <5> QED BY <2>4, <2>7, <3>1, <5>1
      <4> QED BY <4>1, <4>2
    <3> QED BY <3>2 DEF WatchersInUse
  <2>13. uselist # <<>> => 1 \in DOMAIN uselist /\ uselist' # <<>>
    BY <2>3, <2>4
  <2>14. FirstSent' /\ FirstPending'
    BY <1>0, <1>1, <2>4, <2>7, <2>13 DEF FirstSent, FirstPending
  <2>15. NewUntouched'
    BY <1>0, <1>1, <2>9 DEF NewUntouched
  <2> QED BY <1>0, <1>1, <2>11, <2>12, <2>14, <2>15 DEF SerialInv
<1> QED BY <1>2, <1>3

(* ProcessCb is called for the first item in use, the one PopEIO takes off. *)
LEMMA ProcessSerial ==
    ASSUME ItemInv, SerialInv, serial, ~aborted, NEW i \in Items, ProcessCb(i)
    PROVE  SerialInv'
<1>0. /\ InUse /\ WatchersInUse /\ FirstSent /\ FirstPending /\ NewUntouched /\ premature = {}
      /\ \A d \in Conns : handed[d] <= 1
    BY DEF SerialInv
<1>1. /\ i \in pending \ {Listener} /\ pending' = pending \ {i}
      /\ watchers' = [watchers EXCEPT ![fd[i]] = Stopped(i)]
      /\ active' = [active EXCEPT ![i] = FALSE]
      /\ UNCHANGED <<serial, sent, fd>>
      /\ handed' = [handed EXCEPT ![fd[i]] = @ + 1] /\ premature' = premature \cup ({fd[i]} \ sent)
      /\ conn' = [conn EXCEPT ![fd[i]] = "closed"] \/ UNCHANGED conn
    BY DEF ProcessCb, RpcCall
<1>2. uselist # <<>> /\ i = uselist[1] /\ fd[i] \in sent /\ fd[i] \in Conns
    BY <1>0, <1>1 DEF FirstPending, ItemInv, Watched
<1>3. uselist' = PopEIO /\ freelist' = FreeEIO
    BY <1>2 DEF ProcessCb
<1>4. PICK c : c = fd[i]
    OBVIOUS
<1>5. /\ Len(uselist) \in Nat /\ Len(uselist) > 0 /\ DOMAIN uselist = 1 .. Len(uselist)
      /\ DOMAIN uselist' = 1 .. Len(uselist) - 1
      /\ \A k \in 1 .. Len(uselist) - 1 : uselist'[k] = uselist[k + 1]
    BY <1>2, <1>3, PoppedLists DEF ItemInv
<1>6. 1 \in DOMAIN uselist /\ handed[c] = 0 /\ conn[c] = "open" /\ active[i] = TRUE /\ watchers[c] = {i}
  <2>1. 1 \in DOMAIN uselist
    BY <1>5
  <2>2. /\ conn[fd[uselist[1]]] = "open" /\ handed[fd[uselist[1]]] = 0
        /\ active[uselist[1]] = TRUE /\ watchers[fd[uselist[1]]] = {uselist[1]}
    BY <1>0, <2>1 DEF InUse
  <2> QED BY <1>2, <1>4, <2>1, <2>2
<1>7. /\ handed'[c] = 1 /\ watchers'[c] = {} /\ conn'[c] \in {"open", "closed"}
      /\ \A d \in Conns : d # c => handed'[d] = handed[d] /\ watchers'[d] = watchers[d] /\ conn'[d] = conn[d]
    BY <1>1, <1>2, <1>4, <1>6 DEF ItemInv, TypeOK, Stopped
<1>8. premature' = {} /\ \A d \in Conns : handed'[d] <= 1
    BY <1>0, <1>1, <1>2, <1>4, <1>7
<1>9. \A a \in DOMAIN uselist' : /\ a + 1 \in DOMAIN uselist /\ uselist'[a] = uselist[a + 1]
                                /\ uselist'[a] # i /\ fd[uselist'[a]] # c
  <2> TAKE a \in DOMAIN uselist'
  <2>1. a + 1 \in DOMAIN uselist /\ uselist'[a] = uselist[a + 1] /\ a + 1 # 1
    BY <1>5
  <2>2. uselist[a + 1] # uselist[1]
    BY <1>6, <2>1 DEF ItemInv, LinkedOnce
  <2>3. watchers[fd[uselist[a + 1]]] = {uselist[a + 1]}
    BY <1>0, <2>1 DEF InUse
  <2> QED BY <1>2, <1>6, <2>1, <2>2, <2>3, ZenonT(40)
<1>10. \A a \in DOMAIN uselist' : active'[uselist'[a]] = active[uselist'[a]]
  <2>1. uselist \in Seq(1 .. brk) /\ brk \in 0 .. MaxItems /\ active \in [1 .. MaxItems -> BOOLEAN]
    BY DEF ItemInv, TypeOK
  <2>2. \A b \in DOMAIN uselist : uselist[b] \in 1 .. MaxItems
    BY <2>1, DispatchAssumption
  <2> QED BY <1>1, <1>9, <2>1, <2>2
<1>11. InUse'
  <2> SUFFICES ASSUME NEW a \in DOMAIN uselist'
               PROVE  /\ fd'[uselist'[a]] \in Conns
                      /\ conn'[fd'[uselist'[a]]] = "open" /\ handed'[fd'[uselist'[a]]] = 0
                      /\ active'[uselist'[a]] = TRUE /\ watchers'[fd'[uselist'[a]]] = {uselist'[a]}
    BY DEF InUse
  <2>1. /\ fd[uselist'[a]] \in Conns /\ conn[fd[uselist'[a]]] = "open" /\ handed[fd[uselist'[a]]] = 0
        /\ active[uselist'[a]] = TRUE /\ watchers[fd[uselist'[a]]] = {uselist'[a]}
    BY <1>0, <1>9 DEF InUse
  <2> QED BY <1>1, <1>7, <1>9, <1>10, <2>1
<1>12. WatchersInUse'
  <2> SUFFICES ASSUME NEW d \in Conns, watchers'[d] # {}
               PROVE  \E a \in DOMAIN uselist' : fd'[uselist'[a]] = d
    BY DEF WatchersInUse
  <2>1. d # c /\ watchers[d] # {}
    BY <1>7
  <2>2. PICK b \in DOMAIN uselist : fd[uselist[b]] = d
    BY <1>0, <2>1 DEF WatchersInUse
  <2>3. b # 1
    BY <1>2, <1>4, <2>1, <2>2
  <2>4. b - 1 \in DOMAIN uselist' /\ uselist'[b - 1] = uselist[b]
    BY <1>5, <2>3
  <2> QED BY <1>1, <2>2, <2>4
<1>13. FirstSent'
  <2>1. ASSUME NEW d \in sent, handed'[d] = 0 PROVE FALSE
    <3>1. d \in Conns
        BY DEF ItemInv, TypeOK
    <3>2. d # c /\ handed[d] = 0
        BY <1>7, <2>1, <3>1
    <3> QED BY <1>0, <1>2, <1>4, <3>2 DEF FirstSent
  <2> QED BY <1>1, <2>1 DEF FirstSent
<1>14. FirstPending'
    BY <1>0, <1>1, <1>2 DEF FirstPending
<1>15. NewUntouched'
    BY <1>0, <1>1, <1>7 DEF NewUntouched
<1> QED BY <1>8, <1>11, <1>12, <1>13, <1>14, <1>15 DEF SerialInv

(* The loop finds at most the watcher of the first item readable.           *)
LEMMA PollSerial ==
    ASSUME ItemInv, SerialInv, serial, ~aborted, Poll
    PROVE  SerialInv'
<1>0. /\ InUse /\ WatchersInUse /\ FirstSent /\ FirstPending /\ NewUntouched /\ premature = {}
      /\ \A d \in Conns : handed[d] <= 1
    BY DEF SerialInv
<1>1. pending' = Ready /\ UNCHANGED <<serial, conn, sent, uselist, fd, active, watchers, handed, premature, aborted>>
    BY DEF Poll
<1>2. readable \subseteq sent /\ sent \subseteq Conns
    BY DEF ItemInv, TypeOK
<1>3. ASSUME NEW i \in Ready, i # Listener PROVE uselist # <<>> /\ i = uselist[1] /\ fd[i] \in sent
  <2> DEFINE U == UNION {watchers[c] : c \in {d \in readable : conn[d] = "open"}}
             L == IF \E c \in Conns : conn[c] = "backlog" THEN {Listener} ELSE {}
  <2>a. L \subseteq {Listener}
    OBVIOUS
  <2>b. Ready = U \cup L
    BY DEF Ready
  <2> HIDE DEF U, L
  <2>c. i \in U
    BY <1>3, <2>a, <2>b
  <2>1. PICK c \in readable : i \in watchers[c]
    BY <2>c DEF U
  <2>2. c \in Conns /\ c \in sent
    BY <1>2
  <2>3. PICK a \in DOMAIN uselist : fd[uselist[a]] = c
    BY <1>0, <2>1, <2>2 DEF WatchersInUse
  <2>4. handed[c] = 0 /\ watchers[c] = {uselist[a]}
    BY <1>0, <2>3 DEF InUse
  <2>5. uselist # <<>> /\ fd[uselist[1]] = c
    BY <1>0, <2>2, <2>4 DEF FirstSent
  <2>6. 1 \in DOMAIN uselist
    BY <2>5 DEF ItemInv, TypeOK
  <2>7. watchers[c] = {uselist[1]}
    BY <1>0, <2>5, <2>6 DEF InUse
  <2> QED BY <2>1, <2>2, <2>5, <2>7
<1>4. FirstPending'
    BY <1>1, <1>3 DEF FirstPending
<1>5. InUse' /\ WatchersInUse' /\ FirstSent' /\ NewUntouched'
    BY <1>0, <1>1 DEF InUse, WatchersInUse, FirstSent, NewUntouched
<1> QED BY <1>0, <1>1, <1>4, <1>5 DEF SerialInv

(* The clients, the workers and the start of the pool.                      *)
LEMMA OtherSerial ==
    ASSUME ItemInv, SerialInv, serial, ~aborted,
           AcceptFails \/ PoolStarts \/ UNCHANGED vars
             \/ \E c \in Conns : Connect(c) \/ Request(c) \/ WorkerReads(c)
    PROVE  SerialInv'
<1>0. /\ InUse /\ WatchersInUse /\ FirstSent /\ FirstPending /\ NewUntouched /\ premature = {}
      /\ \A d \in Conns : handed[d] <= 1
    BY DEF SerialInv
<1>1. ASSUME pending' \subseteq pending,
             UNCHANGED <<serial, conn, sent, uselist, fd, active, watchers, handed, premature, aborted>>
      PROVE  SerialInv'
  <2>1. InUse' /\ WatchersInUse' /\ FirstSent' /\ FirstPending' /\ NewUntouched'
    BY <1>0, <1>1 DEF InUse, WatchersInUse, FirstSent, FirstPending, NewUntouched
  <2> QED BY <1>0, <1>1, <2>1 DEF SerialInv
<1>2. CASE AcceptFails \/ PoolStarts \/ UNCHANGED vars \/ \E c \in Conns : WorkerReads(c)
    BY <1>1, <1>2 DEF AcceptFails, PoolStarts, vars, WorkerReads
<1>3. ASSUME NEW c \in Conns, Connect(c) PROVE SerialInv'
  <2>1. /\ conn[c] = "none" /\ conn' = [conn EXCEPT ![c] = "backlog"]
        /\ UNCHANGED <<serial, sent, uselist, fd, active, watchers, pending, handed, premature, aborted>>
    BY <1>3 DEF Connect
  <2>2. conn'[c] = "backlog" /\ \A d \in Conns : d # c => conn'[d] = conn[d]
    BY <2>1 DEF ItemInv, TypeOK
  <2>3. InUse'
    BY <1>0, <2>1, <2>2 DEF InUse
  <2>4. NewUntouched'
    BY <1>0, <2>1, <2>2 DEF NewUntouched
  <2>5. WatchersInUse' /\ FirstSent' /\ FirstPending'
    BY <1>0, <2>1 DEF WatchersInUse, FirstSent, FirstPending
  <2> QED BY <1>0, <2>1, <2>3, <2>4, <2>5 DEF SerialInv
<1>4. ASSUME NEW c \in Conns, Request(c) PROVE SerialInv'
  <2>1. /\ uselist # <<>> /\ fd[Head(uselist)] = c /\ sent' = sent \cup {c}
        /\ UNCHANGED <<serial, conn, uselist, fd, active, watchers, pending, handed, premature, aborted>>
    BY <1>4 DEF Request
  <2>2. uselist \in Seq(1 .. brk)
    BY DEF ItemInv, TypeOK
  <2>3. Head(uselist) = uselist[1] /\ 1 \in DOMAIN uselist
    BY <2>1, <2>2
  <2>4. conn[c] = "open"
    BY <1>0, <2>1, <2>3 DEF InUse
  <2>5. FirstSent' /\ FirstPending'
    BY <1>0, <2>1, <2>3 DEF FirstSent, FirstPending
  <2>6. InUse' /\ WatchersInUse'
    BY <1>0, <2>1 DEF InUse, WatchersInUse
  <2>7. NewUntouched'
    BY <1>0, <2>1, <2>4 DEF NewUntouched
  <2> QED BY <1>0, <2>1, <2>5, <2>6, <2>7 DEF SerialInv
<1> QED BY <1>2, <1>3, <1>4

(* When requests come one at a time, every connection is passed to RpcCall  *)
(* once at most and only with its request, whatever the sizes of the lists, *)
(* though ProcessCb takes the oldest item in use and not the one that fired. *)
THEOREM SerialAlwaysHandedOnce == Spec => []SerialHandedOnce
<1>1. Init => SerialInv
  <2> SUFFICES ASSUME Init PROVE SerialInv
    OBVIOUS
  <2>1. \A c \in Conns : handed[c] = 0 /\ watchers[c] = {}
    BY DEF Init
  <2> QED BY <2>1 DEF Init, SerialInv, InUse, WatchersInUse, FirstSent, FirstPending, NewUntouched
<1>2. ItemInv /\ SerialInv /\ [Next]_vars => SerialInv'
  <2> SUFFICES ASSUME ItemInv, SerialInv, [Next]_vars PROVE SerialInv'
    OBVIOUS
  <2>1. serial' = serial
    BY DEF Next, vars, Connect, Request, WorkerReads, PoolStarts, Run, Poll, AcceptFails, AcceptCb, ProcessCb
  <2>2. CASE ~serial
    BY <2>1, <2>2 DEF SerialInv
  <2>3. CASE serial /\ aborted
    <3>1. UNCHANGED vars
        BY <2>3 DEF Next
    <3> QED BY <2>3, <3>1 DEF SerialInv, vars
  <2>4. CASE serial /\ ~aborted
    BY <2>4, AcceptSerial, ProcessSerial, PollSerial, OtherSerial DEF Next, Run
  <2> QED BY <2>2, <2>3, <2>4
<1>3. SerialInv => SerialHandedOnce
    BY DEF SerialInv, SerialHandedOnce, HandedOnce
<1> QED BY <1>1, <1>2, <1>3, ItemInvAlways, PTL DEF Spec
=============================================================================
