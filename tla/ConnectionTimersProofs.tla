----------------------- MODULE ConnectionTimersProofs -----------------------
(***************************************************************************)
(* Theorems about ConnectionTimers, for any workers, keys, buckets and      *)
(* number of connections.                                                   *)
(***************************************************************************)
EXTENDS ConnectionTimers, FiniteSetTheorems, TLAPS

(* The workers that have made a buffer or are making one.                   *)
Owners == {w \in Workers : buf_index[w] # 0} \cup ({pushing} \cap Workers)

BufferInv ==
    /\ buf_index \in [Workers -> 0 .. nbuf]
    /\ pushing \in Workers \cup {None}
    /\ pushing # None => buf_index[pushing] = 0
    /\ nbuf = Cardinality(Owners)

InfoInv ==
    /\ info \in Seq([key : Keys, buf : Buffers, expired : BOOLEAN])
    /\ Len(info) <= MaxTimers
    /\ deleted \subseteq DOMAIN info
    /\ erased \in [Timers -> {0, 1}]
    /\ \A t \in Timers \ DOMAIN info : erased[t] = 0

CrawlInv ==
    /\ connection_del_list \in [Buffers -> SUBSET Keys]
    /\ connection_buf = [b \in Buffers |-> connection_buf[b]]
    /\ cur \in Nat \ {0}
    /\ pc = "buf" => cur \in 1 .. nbuf
    /\ pc \notin {"buf", "aborted"} => taken = {}

(* A timer is under its own key, in its own buffer or in the wheel but not  *)
(* in both, and no visit has erased it.                                     *)
Placed ==
    /\ \A b \in Buffers : \A k \in DOMAIN connection_buf[b] :
        /\ connection_buf[b][k] \in DOMAIN info
        /\ info[connection_buf[b][k]].key = k /\ info[connection_buf[b][k]].buf = b
        /\ erased[connection_buf[b][k]] = 0
        /\ k \in DOMAIN pool => pool[k] # connection_buf[b][k]
    /\ \A k \in DOMAIN pool :
        pool[k] \in DOMAIN info /\ info[pool[k]].key = k /\ erased[pool[k]] = 0

(* A key is used again only when its last timer was deleted.                *)
ReuseAfterDelete ==
    \A t, u \in DOMAIN info : t < u /\ info[t].key = info[u].key => t \in deleted

(* A key is on a list of deletions only for a timer that was deleted.       *)
DeletionsKnown ==
    /\ \A b \in Buffers : \A k \in connection_del_list[b] : \E u \in deleted : info[u].key = k
    /\ \A k \in taken : \E u \in deleted : info[u].key = k

TimersInv == InfoInv /\ CrawlInv /\ Placed /\ ReuseAfterDelete /\ DeletionsKnown
                /\ DeletionPending /\ LostOnlyByReuse
IInv == BufferInv /\ TimersInv

USE DEF worker, wheel, history, Timers

(* There are no more buffers than workers.                                  *)
LEMMA BuffersEnough == BufferInv => nbuf \in Nat /\ 1 .. nbuf \subseteq Buffers
<1> SUFFICES ASSUME BufferInv PROVE nbuf \in Nat /\ 1 .. nbuf \subseteq Buffers
    OBVIOUS
<1>1. Owners \in SUBSET Workers
    BY DEF Owners
<1>2. IsFiniteSet(Owners) /\ Cardinality(Owners) <= Cardinality(Workers)
    BY <1>1, FS_Subset, TimerAssumption
<1>3. Cardinality(Owners) \in Nat /\ Cardinality(Workers) \in Nat
    BY <1>2, FS_CardinalityType, TimerAssumption
<1> QED BY <1>2, <1>3 DEF BufferInv, Buffers

(* A sequence is a function, and such a function a sequence.                *)
LEMMA SeqFun ==
    ASSUME NEW R, NEW s \in Seq(R)
    PROVE  s \in [1 .. Len(s) -> R] /\ Len(s) \in Nat /\ DOMAIN s = 1 .. Len(s)
OBVIOUS

(* A function on 1 .. n is a sequence of length n.                          *)
LEMMA FunSeq ==
    ASSUME NEW R, NEW n \in Nat, NEW s \in [1 .. n -> R]
    PROVE  s \in Seq(R) /\ Len(s) = n
OBVIOUS

(* What is known of a timer that was made.                                  *)
LEMMA InfoTyped ==
    ASSUME InfoInv
    PROVE  \A t \in DOMAIN info : t \in Timers /\ info[t].buf \in Buffers /\ info[t].key \in Keys
<1> TAKE t \in DOMAIN info
<1>1. info[t] \in [key : Keys, buf : Buffers, expired : BOOLEAN]
  <2>1. /\ info \in [1 .. Len(info) -> [key : Keys, buf : Buffers, expired : BOOLEAN]]
        /\ DOMAIN info = 1 .. Len(info)
    BY SeqFun DEF InfoInv
  <2> QED BY <2>1
<1>2. t \in 1 .. Len(info) /\ Len(info) \in Nat
    BY DEF InfoInv
<1>3. t \in Timers
    BY <1>2, TimerAssumption DEF InfoInv
<1>4. info[t].buf \in Buffers /\ info[t].key \in Keys
    BY <1>1
<1> QED BY <1>3, <1>4

(* It holds before any worker has a buffer.                                 *)
LEMMA InitIInv == Init => IInv
<1> SUFFICES ASSUME Init PROVE IInv
    OBVIOUS
<1> USE DEF Init
<1>1. BufferInv
  <2>1. Owners = {}
    BY TimerAssumption DEF Owners
  <2> QED BY <2>1, FS_EmptySet DEF BufferInv
<1>2. InfoInv /\ CrawlInv
  <2>1. info \in Seq([key : Keys, buf : Buffers, expired : BOOLEAN]) /\ Len(info) = 0 /\ DOMAIN info = {}
    OBVIOUS
  <2> QED BY <2>1, TimerAssumption DEF InfoInv, CrawlInv
<1>3. Placed
    BY DEF Placed, Empty
<1>4. ReuseAfterDelete /\ DeletionsKnown /\ DeletionPending /\ LostOnlyByReuse
    BY DEF ReuseAfterDelete, DeletionsKnown, DeletionPending, LostOnlyByReuse
<1> QED BY <1>1, <1>2, <1>3, <1>4 DEF IInv, TimersInv

(* InitTimerBuf counts every worker once, and no other step makes a buffer. *)
LEMMA BufferSteps == IInv /\ [Next]_vars => BufferInv'
<1> SUFFICES ASSUME IInv, [Next]_vars PROVE BufferInv'
    OBVIOUS
<1>0. BufferInv /\ nbuf \in Nat
    BY BuffersEnough DEF IInv
<1>1. ASSUME NEW w \in Workers, InitTimerBufPush(w) PROVE BufferInv'
  <2> USE <1>1 DEF InitTimerBufPush
  <2>1. w \notin Owners /\ Owners' = Owners \cup {w} /\ w # None
    BY <1>0, TimerAssumption DEF BufferInv, Owners
  <2>2. IsFiniteSet(Owners)
    BY FS_Subset, TimerAssumption DEF Owners
  <2>3. Cardinality(Owners') = Cardinality(Owners) + 1
    BY <2>1, <2>2, FS_AddElement
  <2> QED BY <1>0, <2>1, <2>3 DEF BufferInv
<1>2. ASSUME NEW w \in Workers, InitTimerBufDone(w) PROVE BufferInv'
  <2> USE <1>2 DEF InitTimerBufDone
  <2>1. w \in Owners /\ w # None
    BY TimerAssumption DEF Owners
  <2>2. IsFiniteSet(Owners)
    BY FS_Subset, TimerAssumption DEF Owners
  <2>3. nbuf # 0
    BY <1>0, <2>1, <2>2, FS_EmptySet DEF BufferInv
  <2>4. Owners' = Owners
    BY <1>0, <2>1, <2>3, TimerAssumption DEF BufferInv, Owners
  <2> QED BY <1>0, <2>4 DEF BufferInv
<1>3. CASE UNCHANGED worker
    BY <1>0, <1>3 DEF BufferInv, Owners
<1>4. Next => UNCHANGED worker \/ \E w \in Workers : InitTimerBufPush(w) \/ InitTimerBufDone(w)
    BY DEF Next, InsertConnectionTimer, DeleteConnectionTimer, InsertRefreshConnectionInfo, Expire, Run,
           Start, TakeDeleted, TakeBuffer, VisitBucket, VisitBucketFault, HeartbeatServerRun
<1> QED BY <1>1, <1>2, <1>3, <1>4 DEF vars

(* What is said of the timers depends on these variables only.              *)
LEMMA TimersFrame ==
    ASSUME TimersInv, nbuf \in Nat, nbuf' \in Nat, nbuf <= nbuf',
           UNCHANGED <<connection_buf, connection_del_list, pool, cur, taken, info, deleted, erased>>,
           pc' \in {pc, "aborted"} \/ (taken = {} /\ pc' # "buf")
    PROVE  TimersInv'
<1>1. InfoInv' /\ CrawlInv'
    BY DEF TimersInv, InfoInv, CrawlInv
<1>2. Placed' /\ ReuseAfterDelete' /\ DeletionsKnown'
    BY DEF TimersInv, Placed, ReuseAfterDelete, DeletionsKnown
<1>3. DeletionPending' /\ LostOnlyByReuse'
    BY DEF TimersInv, DeletionPending, LostOnlyByReuse, InBuffer, InPool
<1> QED BY <1>1, <1>2, <1>3 DEF TimersInv

(* A worker's new timer joins its buffer, unless its key is there already.  *)
LEMMA InsertStep ==
    ASSUME IInv, NEW w \in Workers, NEW k \in Keys, InsertConnectionTimer(w, k)
    PROVE  TimersInv'
<1> USE DEF IInv, TimersInv
<1>0. PICK t, b : t = Len(info) + 1 /\ b = buf_index[w]
    OBVIOUS
<1>1. b \in Buffers
  <2>1. b \in 1 .. nbuf
    BY <1>0 DEF BufferInv, InsertConnectionTimer
  <2> QED BY <2>1, BuffersEnough
<1>2. /\ t \in Timers /\ ~InUse(k)
      /\ info' = Append(info, [key |-> k, buf |-> b, expired |-> FALSE])
      /\ connection_buf' = [connection_buf EXCEPT ![b] = Inserted(@, k, t)]
      /\ UNCHANGED <<connection_del_list, pool, cur, taken, pc, nbuf, deleted, erased>>
    BY <1>0 DEF InsertConnectionTimer
<1>3. /\ DOMAIN info = 1 .. t - 1 /\ DOMAIN info' = 1 .. t /\ t \in Nat
      /\ DOMAIN info' = DOMAIN info \cup {t} /\ t \notin DOMAIN info
      /\ info'[t] = [key |-> k, buf |-> b, expired |-> FALSE]
      /\ \A u \in DOMAIN info : info'[u] = info[u]
    BY <1>0, <1>2 DEF InfoInv
<1>4. InfoInv'
  <2>1. [key |-> k, buf |-> b, expired |-> FALSE] \in [key : Keys, buf : Buffers, expired : BOOLEAN]
    BY <1>1
  <2>2. info' \in Seq([key : Keys, buf : Buffers, expired : BOOLEAN]) /\ Len(info') = t
    BY <1>0, <1>2, <2>1 DEF InfoInv
  <2> QED BY <1>2, <1>3, <2>2 DEF InfoInv
<1>5. CrawlInv'
    BY <1>1, <1>2 DEF CrawlInv
<1>6. /\ DOMAIN connection_buf'[b] = DOMAIN connection_buf[b] \cup {k}
      /\ \A x \in DOMAIN connection_buf[b] : connection_buf'[b][x] = connection_buf[b][x]
      /\ k \notin DOMAIN connection_buf[b] => connection_buf'[b][k] = t
      /\ \A c \in Buffers : c # b => connection_buf'[c] = connection_buf[c]
    BY <1>1, <1>2 DEF CrawlInv, Inserted, Merged
<1>7. Placed'
  <2>1. ASSUME NEW c \in Buffers, NEW x \in DOMAIN connection_buf'[c]
        PROVE  /\ connection_buf'[c][x] \in DOMAIN info'
               /\ info'[connection_buf'[c][x]].key = x /\ info'[connection_buf'[c][x]].buf = c
               /\ erased[connection_buf'[c][x]] = 0
               /\ x \in DOMAIN pool => pool[x] # connection_buf'[c][x]
    <3>1. CASE x \in DOMAIN connection_buf[c]
      <4>1. connection_buf'[c][x] = connection_buf[c][x]
        BY <1>6, <3>1
      <4> QED BY <3>1, <4>1, <1>3 DEF Placed
    <3>2. CASE x \notin DOMAIN connection_buf[c]
      <4>1. c = b /\ x = k /\ connection_buf'[c][x] = t
        BY <1>6, <3>2
      <4>2. erased[t] = 0
        BY <1>2, <1>3 DEF InfoInv
      <4>3. t \notin DOMAIN info
        BY <1>3
      <4> QED BY <4>1, <4>2, <4>3, <1>3 DEF Placed
    <3> QED BY <3>1, <3>2
  <2> QED BY <2>1, <1>2, <1>3 DEF Placed
<1>8. ReuseAfterDelete'
    BY <1>2, <1>3 DEF ReuseAfterDelete, InUse, InfoInv
<1>9. DeletionsKnown'
    BY <1>2, <1>3 DEF DeletionsKnown, InfoInv
<1>10. ASSUME NEW u \in DOMAIN info PROVE InBuffer(u)' <=> InBuffer(u)
  <2>1. u # t
    BY <1>3
  <2>2. ASSUME InBuffer(u) PROVE InBuffer(u)'
    BY <2>2, <1>6 DEF InBuffer
  <2>3. ASSUME InBuffer(u)' PROVE InBuffer(u)
    BY <2>3, <1>6, <2>1 DEF InBuffer
  <2> QED BY <2>2, <2>3
<1>11. DeletionPending'
    BY <1>2, <1>3, <1>10 DEF DeletionPending, InfoInv, InPool
<1>12. LostOnlyByReuse'
  <2>1. InBuffer(t)' \/ \E u \in 1 .. t - 1 : info[u].key = k
    <3>1. CASE k \in DOMAIN connection_buf[b]
      <4>1. connection_buf[b][k] \in 1 .. t - 1 /\ info[connection_buf[b][k]].key = k
        BY <3>1, <1>1, <1>3 DEF Placed
      <4> QED BY <4>1
    <3>2. CASE k \notin DOMAIN connection_buf[b]
        BY <3>2, <1>1, <1>6 DEF InBuffer
    <3> QED BY <3>1, <3>2
  <2>2. ASSUME NEW u \in DOMAIN info'
        PROVE  \/ u \in deleted \/ erased[u] > 0 \/ InBuffer(u)' \/ InPool(u)
               \/ \E v \in 1 .. u - 1 : info'[v].key = info'[u].key
    <3>1. CASE u = t
      <4>1. info'[t].key = k /\ \A v \in 1 .. t - 1 : info'[v] = info[v]
        BY <1>3
      <4> QED BY <3>1, <2>1, <4>1
    <3>2. CASE u \in DOMAIN info
        BY <3>2, <1>3, <1>10 DEF LostOnlyByReuse
    <3> QED BY <3>1, <3>2, <1>3
  <2> QED BY <2>2, <1>2 DEF LostOnlyByReuse, InPool
<1> QED BY <1>4, <1>5, <1>7, <1>8, <1>9, <1>11, <1>12

(* A deletion is listed in the buffer the timer was inserted in.            *)
LEMMA DeleteStep ==
    ASSUME IInv, NEW w \in Workers, NEW t \in Timers, DeleteConnectionTimer(w, t)
    PROVE  TimersInv'
<1> USE DEF IInv, TimersInv
<1>1. /\ t \in DOMAIN info /\ deleted' = deleted \cup {t}
      /\ connection_del_list' = [connection_del_list EXCEPT ![info[t].buf] = @ \cup {info[t].key}]
      /\ UNCHANGED <<connection_buf, pool, cur, taken, pc, nbuf, info, erased>>
    BY DEF DeleteConnectionTimer
<1>2. info[t].buf \in Buffers /\ info[t].key \in Keys
    BY <1>1, InfoTyped
<1>3. InfoInv' /\ CrawlInv'
    BY <1>1, <1>2 DEF InfoInv, CrawlInv
<1>4. Placed' /\ ReuseAfterDelete' /\ LostOnlyByReuse'
    BY <1>1 DEF Placed, ReuseAfterDelete, LostOnlyByReuse, InBuffer, InPool
<1>5. \A b \in Buffers : connection_del_list'[b] =
        IF b = info[t].buf THEN connection_del_list[b] \cup {info[t].key} ELSE connection_del_list[b]
    BY <1>1, <1>2 DEF CrawlInv
<1>6. DeletionsKnown'
    BY <1>1, <1>5 DEF DeletionsKnown
<1>7. DeletionPending'
  <2>1. ASSUME NEW u \in deleted' PROVE info[u].buf \in Buffers
    BY <1>1, InfoTyped DEF InfoInv
  <2> QED BY <1>1, <1>5, <2>1 DEF DeletionPending, InBuffer, InPool
<1> QED BY <1>3, <1>4, <1>6, <1>7

(* The time passes.                                                         *)
LEMMA ExpireStep ==
    ASSUME IInv, NEW t \in Timers, Expire(t)
    PROVE  TimersInv'
<1> USE DEF IInv, TimersInv
<1>1. /\ t \in DOMAIN info /\ info' = [info EXCEPT ![t].expired = TRUE]
      /\ UNCHANGED <<connection_buf, connection_del_list, pool, cur, taken, pc, nbuf, deleted, erased>>
    BY DEF Expire
<1>2. /\ info' \in Seq([key : Keys, buf : Buffers, expired : BOOLEAN])
      /\ Len(info') = Len(info) /\ DOMAIN info' = DOMAIN info
  <2> DEFINE R == [key : Keys, buf : Buffers, expired : BOOLEAN]
  <2>1. info \in [1 .. Len(info) -> R] /\ Len(info) \in Nat /\ DOMAIN info = 1 .. Len(info)
    BY SeqFun DEF InfoInv
  <2>2. [info[t] EXCEPT !.expired = TRUE] \in R
    BY <1>1, <2>1
  <2>3. info' = [info EXCEPT ![t] = [info[t] EXCEPT !.expired = TRUE]]
    BY <1>1
  <2> HIDE DEF R
  <2>4. info' \in [1 .. Len(info) -> R]
    BY <2>1, <2>2, <2>3
  <2>5. info' \in Seq(R) /\ Len(info') = Len(info) /\ DOMAIN info' = DOMAIN info
    BY <2>1, <2>4, FunSeq
  <2> QED BY <2>5 DEF R
<1>3. \A u \in DOMAIN info : info'[u].key = info[u].key /\ info'[u].buf = info[u].buf
    BY <1>1 DEF InfoInv
<1>4. InfoInv' /\ CrawlInv'
    BY <1>1, <1>2 DEF InfoInv, CrawlInv
<1>5. Placed' /\ ReuseAfterDelete' /\ DeletionsKnown'
    BY <1>1, <1>2, <1>3 DEF Placed, ReuseAfterDelete, DeletionsKnown, InfoInv
<1>6. DeletionPending'
    BY <1>1, <1>2, <1>3 DEF DeletionPending, InBuffer, InPool, InfoInv
<1>7. LostOnlyByReuse'
  <2>1. ASSUME NEW v \in DOMAIN info PROVE 1 .. v - 1 \subseteq DOMAIN info
    BY DEF InfoInv
  <2> QED BY <1>1, <1>2, <1>3, <2>1 DEF LostOnlyByReuse, InBuffer, InPool
<1> QED BY <1>4, <1>5, <1>6, <1>7

(* The list of deletions moves to the crawler as a whole.                   *)
LEMMA TakeDeletedStep ==
    ASSUME IInv, TakeDeleted
    PROVE  TimersInv'
<1> USE DEF IInv, TimersInv
<1>0. nbuf \in Nat /\ 1 .. nbuf \subseteq Buffers
    BY BuffersEnough
<1>1. CASE cur > Complete
    BY <1>0, <1>1, TimersFrame DEF TakeDeleted
<1>2. CASE ~(cur > Complete)
  <2>1. /\ taken' = connection_del_list[cur] /\ pc = "dels" /\ pc' = "buf"
        /\ connection_del_list' = [connection_del_list EXCEPT ![cur] = {}]
        /\ UNCHANGED <<connection_buf, pool, cur, nbuf, info, deleted, erased>>
    BY <1>2 DEF TakeDeleted
  <2>2. cur \in 1 .. nbuf /\ cur \in Buffers /\ taken = {}
    BY <1>0, <1>2, <2>1 DEF Complete, CrawlInv
  <2>3. InfoInv' /\ CrawlInv'
    BY <2>1, <2>2 DEF InfoInv, CrawlInv
  <2>4. Placed' /\ ReuseAfterDelete' /\ LostOnlyByReuse'
    BY <2>1 DEF Placed, ReuseAfterDelete, LostOnlyByReuse, InBuffer, InPool
  <2>5. \A b \in Buffers : connection_del_list'[b] = IF b = cur THEN {} ELSE connection_del_list[b]
    BY <2>1, <2>2 DEF CrawlInv
  <2>6. DeletionsKnown'
    BY <2>1, <2>2, <2>5 DEF DeletionsKnown
  <2>7. DeletionPending'
    <3>1. \A t \in deleted : info[t].buf \in Buffers
        BY InfoTyped DEF InfoInv
    <3> QED BY <2>1, <2>2, <2>5, <3>1 DEF DeletionPending, InBuffer, InPool
  <2> QED BY <2>3, <2>4, <2>6, <2>7
<1> QED BY <1>1, <1>2

(* The buffer follows its deletions into the wheel: what a deletion removes *)
(* was deleted, or has a key of a timer that was.                           *)
LEMMA TakeBufferStep ==
    ASSUME IInv, TakeBuffer
    PROVE  TimersInv'
<1> USE DEF IInv, TimersInv
<1>1. /\ pc = "buf" /\ pool' = Crawled(pool, connection_buf[cur], taken)
      /\ connection_buf' = [connection_buf EXCEPT ![cur] = Empty]
      /\ taken' = {} /\ cur' \in {1, cur + 1} /\ pc' # "buf"
      /\ UNCHANGED <<connection_del_list, nbuf, info, deleted, erased>>
    BY DEF TakeBuffer
<1>2. cur \in Buffers /\ nbuf \in Nat
    BY <1>1, BuffersEnough DEF CrawlInv
<1>3. InfoInv' /\ CrawlInv'
  <2>1. InfoInv'
    BY <1>1 DEF InfoInv
  <2>2. connection_buf' = [b \in Buffers |-> connection_buf'[b]]
    BY <1>1, <1>2 DEF CrawlInv
  <2>3. cur' \in Nat \ {0}
    BY <1>1 DEF CrawlInv
  <2> QED BY <1>1, <2>1, <2>2, <2>3 DEF CrawlInv
<1>4. /\ DOMAIN connection_buf'[cur] = {}
      /\ \A b \in Buffers : b # cur => connection_buf'[b] = connection_buf[b]
    BY <1>1, <1>2 DEF CrawlInv, Empty
<1>5. /\ DOMAIN pool' = (DOMAIN pool \cup DOMAIN connection_buf[cur]) \ taken
      /\ \A k \in DOMAIN pool \ taken : pool'[k] = pool[k]
      /\ \A k \in DOMAIN connection_buf[cur] \ taken : k \notin DOMAIN pool => pool'[k] = connection_buf[cur][k]
  <2> USE <1>1 DEF Crawled, Merged, Restrict
  <2>1. DOMAIN pool' = (DOMAIN pool \cup DOMAIN connection_buf[cur]) \ taken
    OBVIOUS
  <2>2. ASSUME NEW k \in DOMAIN pool \ taken PROVE pool'[k] = pool[k]
    OBVIOUS
  <2>3. ASSUME NEW k \in DOMAIN connection_buf[cur] \ taken, k \notin DOMAIN pool
        PROVE  pool'[k] = connection_buf[cur][k]
    BY <2>3
  <2> QED BY <2>1, <2>2, <2>3
<1>6. Placed'
  <2>1. ASSUME NEW k \in DOMAIN pool'
        PROVE  pool'[k] \in DOMAIN info /\ info[pool'[k]].key = k /\ erased[pool'[k]] = 0
    <3>1. CASE k \in DOMAIN pool
        BY <3>1, <1>5 DEF Placed
    <3>2. CASE k \notin DOMAIN pool
        BY <3>2, <1>2, <1>5 DEF Placed
    <3> QED BY <3>1, <3>2
  <2>2. ASSUME NEW b \in Buffers, NEW k \in DOMAIN connection_buf'[b], k \in DOMAIN pool'
        PROVE  pool'[k] # connection_buf'[b][k]
    <3>1. b # cur /\ connection_buf'[b] = connection_buf[b]
        BY <1>4
    <3>2. CASE k \in DOMAIN pool
        BY <2>2, <3>1, <3>2, <1>5 DEF Placed
    <3>3. CASE k \notin DOMAIN pool
      <4>1. pool'[k] = connection_buf[cur][k] /\ k \in DOMAIN connection_buf[cur]
        BY <2>2, <3>3, <1>5
      <4>2. info[connection_buf[cur][k]].buf = cur /\ info[connection_buf[b][k]].buf = b
        BY <4>1, <3>1, <1>2 DEF Placed
      <4> QED BY <4>1, <4>2, <3>1
    <3> QED BY <3>2, <3>3
  <2>3. ASSUME NEW b \in Buffers, NEW k \in DOMAIN connection_buf'[b]
        PROVE  b # cur /\ connection_buf'[b] = connection_buf[b]
    BY <1>4
  <2> QED BY <2>1, <2>2, <2>3, <1>1 DEF Placed
<1>7. ReuseAfterDelete' /\ DeletionsKnown'
    BY <1>1 DEF ReuseAfterDelete, DeletionsKnown
<1>8. ASSUME NEW t \in DOMAIN info, InBuffer(t)' \/ InPool(t)'
      PROVE  (InBuffer(t) \/ InPool(t)) /\ (info[t].buf = cur => info[t].key \notin taken)
  <2>1. CASE InBuffer(t)'
    <3>1. PICK b \in Buffers : b # cur /\ \E k \in DOMAIN connection_buf[b] : connection_buf[b][k] = t
        BY <2>1, <1>4 DEF InBuffer
    <3> QED BY <3>1 DEF InBuffer, Placed
  <2>2. CASE InPool(t)'
    <3>1. PICK k \in DOMAIN pool' : pool'[k] = t
        BY <2>2 DEF InPool
    <3>2. info[t].key = k /\ k \notin taken
        BY <3>1, <1>1, <1>5, <1>6 DEF Placed
    <3>3. CASE k \in DOMAIN pool
        BY <3>1, <3>2, <3>3, <1>5 DEF InPool
    <3>4. CASE k \notin DOMAIN pool
        BY <3>1, <3>2, <3>4, <1>2, <1>5 DEF InBuffer
    <3> QED BY <3>2, <3>3, <3>4
  <2> QED BY <1>8, <2>1, <2>2
<1>9. DeletionPending'
    BY <1>1, <1>8 DEF DeletionPending, InfoInv
<1>10. ASSUME NEW t \in DOMAIN info, t \notin deleted, InBuffer(t) \/ InPool(t)
       PROVE  InBuffer(t)' \/ InPool(t)' \/ \E u \in 1 .. t - 1 : info[u].key = info[t].key
  <2>1. ASSUME NEW u \in DOMAIN info, u # t, info[u].key = info[t].key
        PROVE  u \in 1 .. t - 1
    <3>1. u \in Nat \ {0} /\ t \in Nat \ {0}
        BY DEF InfoInv
    <3>2. ~(t < u)
        BY <1>10, <2>1 DEF ReuseAfterDelete
    <3> QED BY <2>1, <3>1, <3>2
  <2>2. CASE info[t].key \in taken
    BY <2>1, <2>2, <1>10 DEF DeletionsKnown, InfoInv
  <2>3. CASE info[t].key \notin taken /\ InPool(t)
    <3>1. PICK k \in DOMAIN pool : pool[k] = t
        BY <2>3 DEF InPool
    <3>2. info[t].key = k
        BY <3>1 DEF Placed
    <3> QED BY <2>3, <3>1, <3>2, <1>5 DEF InPool
  <2>4. CASE info[t].key \notin taken /\ InBuffer(t)
    <3>1. PICK b \in Buffers : \E k \in DOMAIN connection_buf[b] : connection_buf[b][k] = t
        BY <2>4 DEF InBuffer
    <3>2. PICK k \in DOMAIN connection_buf[b] : connection_buf[b][k] = t
        BY <3>1
    <3>3. info[t].key = k
        BY <3>2 DEF Placed
    <3>4. CASE b # cur
        BY <3>2, <3>4, <1>4 DEF InBuffer
    <3>5. CASE b = cur /\ k \in DOMAIN pool
      <4>1. pool[k] \in DOMAIN info /\ pool[k] # t /\ info[pool[k]].key = k
        BY <3>2, <3>5 DEF Placed
      <4> QED BY <4>1, <3>3, <2>1
    <3>6. CASE b = cur /\ k \notin DOMAIN pool
      <4>1. k \in DOMAIN pool' /\ pool'[k] = t
        BY <2>4, <3>2, <3>3, <3>6, <1>5
      <4> QED BY <4>1 DEF InPool
    <3> QED BY <3>4, <3>5, <3>6
  <2> QED BY <1>10, <2>2, <2>3, <2>4
<1>11. LostOnlyByReuse'
    BY <1>1, <1>10 DEF LostOnlyByReuse
<1> QED BY <1>3, <1>6, <1>7, <1>9, <1>11

(* A visit erases timers of the wheel and forgets those.                    *)
LEMMA VisitStep ==
    ASSUME IInv, VisitBucket
    PROVE  TimersInv'
<1> USE DEF IInv, TimersInv
<1>0. PICK shot : shot = {pool[k] : k \in Firing}
    OBVIOUS
<1>1. /\ pc = "bucket" /\ pc' = "dels"
      /\ erased' = [t \in Timers |-> IF t \in shot THEN erased[t] + 1 ELSE erased[t]]
      /\ info' = [t \in DOMAIN info |-> IF t \in {pool[k] : k \in Refreshed}
                                    THEN [info[t] EXCEPT !.expired = FALSE] ELSE info[t]]
    BY <1>0 DEF VisitBucket
<1>u. UNCHANGED <<connection_buf, connection_del_list, cur, taken, nbuf, deleted>>
    BY DEF VisitBucket
<1>2. /\ Firing \subseteq DOMAIN pool /\ DOMAIN pool' = DOMAIN pool \ Firing
      /\ \A k \in DOMAIN pool' : pool'[k] = pool[k]
    BY DEF VisitBucket, PoolAfter, Restrict, Firing, Bucket
<1> HIDE DEF Firing
<1>3. /\ info' \in Seq([key : Keys, buf : Buffers, expired : BOOLEAN])
      /\ Len(info') = Len(info) /\ DOMAIN info' = DOMAIN info
  <2> DEFINE R == [key : Keys, buf : Buffers, expired : BOOLEAN]
  <2>1. info \in [1 .. Len(info) -> R] /\ Len(info) \in Nat /\ DOMAIN info = 1 .. Len(info)
    BY SeqFun DEF InfoInv
  <2>2. ASSUME NEW t \in DOMAIN info PROVE [info[t] EXCEPT !.expired = FALSE] \in R /\ info[t] \in R
    <3>1. info[t] \in R
        BY <2>1
    <3> QED BY <3>1
  <2> HIDE DEF R
  <2>3. info' \in [1 .. Len(info) -> R]
    BY <1>1, <2>1, <2>2
  <2>4. info' \in Seq(R) /\ Len(info') = Len(info) /\ DOMAIN info' = DOMAIN info
    BY <2>1, <2>3, FunSeq
  <2> QED BY <2>4 DEF R
<1>4. \A u \in DOMAIN info : info'[u].key = info[u].key /\ info'[u].buf = info[u].buf
  <2> TAKE u \in DOMAIN info
  <2>1. info'[u] = info[u] \/ info'[u] = [info[u] EXCEPT !.expired = FALSE]
    BY <1>1
  <2>2. info[u] \in [key : Keys, buf : Buffers, expired : BOOLEAN]
    <3>1. /\ info \in [1 .. Len(info) -> [key : Keys, buf : Buffers, expired : BOOLEAN]]
          /\ DOMAIN info = 1 .. Len(info)
        BY SeqFun DEF InfoInv
    <3> QED BY <3>1
  <2> QED BY <2>1, <2>2
<1>5. \A t \in shot : t \in DOMAIN info /\ t \in Timers /\ erased[t] = 0
    BY <1>0, <1>2, InfoTyped DEF Placed
<1>6. /\ \A t \in shot : erased'[t] = 1
      /\ \A t \in Timers \ shot : erased'[t] = erased[t]
      /\ erased' \in [Timers -> {0, 1}]
    BY <1>1, <1>5 DEF InfoInv
<1>7. InfoInv' /\ CrawlInv'
  <2>1. InfoInv'
    BY <1>u, <1>3, <1>5, <1>6 DEF InfoInv
  <2> QED BY <1>1, <1>u, <2>1 DEF CrawlInv
<1>8. Placed'
  <2>1. ASSUME NEW k \in DOMAIN pool' PROVE pool'[k] \notin shot
    BY <1>0, <1>2 DEF Placed
  <2>2. ASSUME NEW b \in Buffers, NEW k \in DOMAIN connection_buf[b] PROVE connection_buf[b][k] \notin shot
    BY <1>0, <1>2 DEF Placed
  <2>3. ASSUME NEW k \in DOMAIN pool'
        PROVE  pool'[k] \in DOMAIN info' /\ info'[pool'[k]].key = k /\ erased'[pool'[k]] = 0
    <3>1. pool'[k] = pool[k] /\ pool[k] \in DOMAIN info /\ pool[k] \in Timers
        BY <1>2, InfoTyped DEF Placed
    <3> QED BY <3>1, <2>1, <1>2, <1>3, <1>4, <1>6 DEF Placed
  <2>4. ASSUME NEW b \in Buffers, NEW k \in DOMAIN connection_buf[b]
        PROVE  /\ connection_buf[b][k] \in DOMAIN info'
               /\ info'[connection_buf[b][k]].key = k /\ info'[connection_buf[b][k]].buf = b
               /\ erased'[connection_buf[b][k]] = 0
               /\ k \in DOMAIN pool' => pool'[k] # connection_buf[b][k]
    <3>1. connection_buf[b][k] \in DOMAIN info /\ connection_buf[b][k] \in Timers
        BY InfoTyped DEF Placed
    <3> QED BY <3>1, <2>2, <1>2, <1>3, <1>4, <1>6 DEF Placed
  <2> QED BY <2>3, <2>4, <1>u DEF Placed
<1>9. ReuseAfterDelete' /\ DeletionsKnown'
  <2>1. ReuseAfterDelete'
    BY <1>u, <1>3, <1>4 DEF ReuseAfterDelete
  <2>2. \A u \in deleted : info'[u].key = info[u].key
    BY <1>4 DEF InfoInv
  <2>3. DeletionsKnown'
    BY <1>u, <2>2 DEF DeletionsKnown
  <2> QED BY <2>1, <2>3
<1>10. ASSUME NEW t \in DOMAIN info
       PROVE  /\ InBuffer(t)' <=> InBuffer(t)
              /\ InPool(t)' => InPool(t)
              /\ InPool(t) => InPool(t)' \/ t \in shot
    BY <1>0, <1>u, <1>2 DEF InBuffer, InPool
<1>11. DeletionPending'
    BY <1>u, <1>3, <1>4, <1>10 DEF DeletionPending, InfoInv
<1>12. LostOnlyByReuse'
  <2>1. ASSUME NEW t \in DOMAIN info
        PROVE  /\ t \in Timers /\ erased[t] > 0 => erased'[t] > 0
               /\ t \in shot => erased'[t] > 0
               /\ 1 .. t - 1 \subseteq DOMAIN info
    BY <1>6, InfoTyped DEF InfoInv
  <2>2. ASSUME NEW t \in DOMAIN info
        PROVE  \/ t \in deleted \/ erased'[t] > 0 \/ InBuffer(t)' \/ InPool(t)'
               \/ \E u \in 1 .. t - 1 : info'[u].key = info'[t].key
    BY <1>4, <1>10, <2>1, InfoTyped DEF LostOnlyByReuse
  <2> QED BY <1>u, <1>3, <2>2 DEF LostOnlyByReuse
<1> QED BY <1>7, <1>8, <1>9, <1>11, <1>12

(* Every step preserves the inductive invariant.                            *)
LEMMA NextIInv == IInv /\ [Next]_vars => IInv'
<1> SUFFICES ASSUME IInv, [Next]_vars PROVE TimersInv'
    BY BufferSteps DEF IInv
<1>0. BufferInv /\ TimersInv /\ nbuf \in Nat
    BY BuffersEnough DEF IInv
<1>1. ASSUME NEW w \in Workers, InitTimerBufPush(w) \/ InitTimerBufDone(w) PROVE TimersInv'
    BY <1>0, <1>1, TimersFrame DEF InitTimerBufPush, InitTimerBufDone
<1>2. ASSUME NEW c, InsertRefreshConnectionInfo(c) PROVE TimersInv'
    BY <1>0, <1>2, TimersFrame DEF InsertRefreshConnectionInfo
<1>3. CASE Start
    BY <1>0, <1>3, TimersFrame DEF Start, TimersInv, CrawlInv
<1>4. ASSUME NEW fault \in BOOLEAN, HeartbeatServerRun(fault) PROVE TimersInv'
    BY <1>0, <1>4, TimersFrame DEF HeartbeatServerRun
<1>5. CASE VisitBucketFault
    BY <1>0, <1>5, TimersFrame DEF VisitBucketFault
<1>6. CASE UNCHANGED vars
    BY <1>0, <1>6, TimersFrame DEF vars
<1> QED BY <1>1, <1>2, <1>3, <1>4, <1>5, <1>6, InsertStep, DeleteStep, ExpireStep, TakeDeletedStep,
           TakeBufferStep, VisitStep DEF Next, Run

(* IInv holds in every state the wheel reaches.                             *)
LEMMA IInvAlways == Spec => []IInv
BY InitIInv, NextIInv, PTL DEF Spec

(* In any wheel, every timer is in one place at a time, and no visit erases *)
(* it twice: it makes one call of RestartWorkerThread, whatever that reads. *)
THEOREM TimersErasedOnce == Spec => []ErasedOnce
<1>1. IInv => ErasedOnce
  <2> SUFFICES ASSUME IInv, NEW t \in DOMAIN info
               PROVE  /\ erased[t] <= 1
                      /\ erased[t] = 1 => ~InBuffer(t) /\ ~InPool(t)
                      /\ ~(InBuffer(t) /\ InPool(t))
    BY DEF ErasedOnce
  <2>1. erased[t] \in {0, 1}
    BY InfoTyped DEF IInv, TimersInv, InfoInv
  <2>2. InBuffer(t) \/ InPool(t) => erased[t] = 0
    BY DEF IInv, TimersInv, Placed, InBuffer, InPool
  <2>3. ~(InBuffer(t) /\ InPool(t))
    BY DEF IInv, TimersInv, Placed, InBuffer, InPool
  <2> QED BY <2>1, <2>2, <2>3
<1> QED BY <1>1, IInvAlways, PTL

(* ConnectionBufCrawler takes the list of deletions and the buffer under    *)
(* two locks, yet a deletion is never spent before its timer has arrived.   *)
THEOREM DeletionsStayPending == Spec => []DeletionPending
<1>1. IInv => DeletionPending
    BY DEF IInv, TimersInv
<1> QED BY <1>1, IInvAlways, PTL

(* The timer of an open connection is lost only when its address and        *)
(* descriptor were those of an earlier connection.                          *)
THEOREM TimersLostOnlyByReuse == Spec => []LostOnlyByReuse
<1>1. IInv => LostOnlyByReuse
    BY DEF IInv, TimersInv
<1> QED BY <1>1, IInvAlways, PTL
=============================================================================
