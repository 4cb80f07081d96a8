----------------------- MODULE LibevThreadPoolProofs -----------------------
(***************************************************************************)
(* Theorems about LibevThreadPool, for every number of slots, dispatchers,  *)
(* threads, items and calls.                                                *)
(***************************************************************************)
EXTENDS LibevThreadPool, TLAPS, FiniteSetTheorems, SequenceTheorems

(***************************************************************************)
(* The inductive strengthening of TypeOK: what a program counter says about *)
(* the local variables that go with it.                                     *)
(***************************************************************************)
LocalsOK ==
    /\ \A t \in Tids : tpc[t] # "none" => tslot[t] \in Slots
    /\ \A t \in Tids : tpc[t] \in {"call", "post", "free"} => titem[t] \in 1 .. brk
    /\ \A d \in Dispatchers :
          dpc[d] \in {"pick", "store", "push"} => ditem[d] \in 1 .. brk
    /\ rpc # "idle" => nextTid \in Tids
    /\ \A t \in Tids : t >= nextTid => tpc[t] = "none"

TInv == TypeOK /\ LocalsOK

USE DEF NoItem, NoCall, NoSlot,
        itemVars, pipeVars, loopVars, dispVars, thrVars, slotVars, restVars,
        obsVars, destVars, notDisp, notThr, notRest, notDest

(* A sequence of small numbers is a sequence of larger ones.                *)
LEMMA SeqMono ==
    ASSUME NEW m \in Nat, NEW n \in Nat, m <= n, NEW q \in Seq(1 .. m)
    PROVE  q \in Seq(1 .. n)
OBVIOUS

(* Head and Tail of a non-empty sequence.                                   *)
LEMMA HeadTail ==
    ASSUME NEW S, NEW q \in Seq(S), q # <<>>
    PROVE  /\ Head(q) \in S /\ Tail(q) \in Seq(S)
           /\ Len(Tail(q)) = Len(q) - 1
OBVIOUS

(* The initial state satisfies TInv.                                        *)
LEMMA InitTInv == Init => TInv
<1> SUFFICES ASSUME Init PROVE TInv
    OBVIOUS
<1> USE PoolAssumption DEF Slots, Items, Calls, Tids
<1>1. PoolTypeOK
  <2>1. brk \in 0 .. MaxItems /\ <<>> \in Seq(1 .. brk)
    BY DEF Init
  <2>2. /\ param \in [Items -> Calls \cup {NoCall}]
        /\ running_version \in [Slots -> Nat]
        /\ aborted \in BOOLEAN
    BY DEF Init
  <2>3. outcome \in [Calls -> {"none", "rejected", "finished", "killed"}]
    BY DEF Init
  <2>4. freelist \in Seq(1 .. brk) /\ queue \in [Slots -> Seq(1 .. brk)]
    BY <2>1 DEF Init
  <2> QED BY <2>1, <2>2, <2>3, <2>4 DEF PoolTypeOK
<1>2. PipeTypeOK
    BY DEF Init, PipeTypeOK
<1>3. DispatcherTypeOK
    BY DEF Init, DispatcherTypeOK
<1>4. ThreadTypeOK
    BY DEF Init, ThreadTypeOK
<1>5. CallerTypeOK
    BY DEF Init, CallerTypeOK, Snapshots, NoSnap
<1>6. LocalsOK
    BY DEF Init, LocalsOK
<1> QED BY <1>1, <1>2, <1>3, <1>4, <1>5, <1>6 DEF TInv, TypeOK
(* Every step of the pool preserves TInv.                                   *)
LEMMA NextTInv == TInv /\ [Next]_vars => TInv'
<1> SUFFICES ASSUME TInv, [Next]_vars PROVE TInv'
    OBVIOUS
<1> USE PoolAssumption DEF TInv, TypeOK, Goto
<1>1. ASSUME NEW d \in Dispatchers, RQItemNewTake(d) PROVE TInv'
  <2>0. freelist # <<>> => /\ Head(freelist) \in 1 .. brk
                           /\ Head(freelist) \in 0 .. brk
                           /\ Tail(freelist) \in Seq(1 .. brk)
    BY HeadTail DEF PoolTypeOK
  <2>1. PoolTypeOK'
    <3>1. brk' \in 0 .. MaxItems /\ freelist' \in Seq(1 .. brk')
      BY <1>1, <2>0 DEF RQItemNewTake, PoolTypeOK
    <3>2. queue' \in [Slots -> Seq(1 .. brk')]
      BY <1>1 DEF RQItemNewTake, PoolTypeOK
    <3>3. /\ param' \in [Items -> Calls \cup {NoCall}]
          /\ running_version' \in [Slots -> Nat]
      BY <1>1 DEF RQItemNewTake, PoolTypeOK
    <3>4. outcome' \in [Calls -> {"none", "rejected", "finished", "killed"}]
      BY <1>1 DEF RQItemNewTake, PoolTypeOK
    <3>5. aborted' \in BOOLEAN
      BY <1>1 DEF RQItemNewTake, PoolTypeOK
    <3> QED BY <3>1, <3>2, <3>3, <3>4, <3>5 DEF PoolTypeOK
  <2>2. DispatcherTypeOK'
    <3>1. ditem' \in [Dispatchers -> 0 .. brk']
      BY <1>1, <2>0 DEF RQItemNewTake, DispatcherTypeOK
    <3>2. /\ issued' \in 0 .. MaxCalls
          /\ dcall' \in [Dispatchers -> Calls \cup {NoCall}]
      BY <1>1 DEF RQItemNewTake, DispatcherTypeOK, Calls
    <3> QED BY <1>1, <3>1, <3>2 DEF RQItemNewTake, DispatcherTypeOK
  <2>3. LocalsOK'
    BY <1>1, <2>0 DEF RQItemNewTake, LocalsOK, DispatcherTypeOK, Calls
  <2>4. PipeTypeOK' /\ ThreadTypeOK' /\ CallerTypeOK'
    BY <1>1 DEF RQItemNewTake, PipeTypeOK, ThreadTypeOK, CallerTypeOK
  <2> QED BY <2>1, <2>2, <2>3, <2>4
<1>2. ASSUME NEW d \in Dispatchers, RQItemNewAlloc(d) PROVE TInv'
  <2> DEFINE blk == [k \in 1 .. ItemPerAlloc - 1 |-> brk + 1 + k]
  <2>0. /\ brk \in Nat /\ brk' \in Nat /\ brk <= brk' /\ brk' <= MaxItems
        /\ \/ brk' = brk + ItemPerAlloc /\ freelist' = blk \o freelist
           \/ brk' = brk /\ freelist' = freelist
    <3>1. brk \in 0 .. MaxItems
      BY DEF PoolTypeOK
    <3>2. \/ /\ brk + ItemPerAlloc <= MaxItems /\ brk' = brk + ItemPerAlloc
             /\ freelist' = blk \o freelist
          \/ brk' = brk /\ freelist' = freelist
      BY <1>2 DEF RQItemNewAlloc
    <3> HIDE DEF blk
    <3> QED BY <3>1, <3>2
  <2>00. ASSUME brk' = brk + ItemPerAlloc
         PROVE  blk \o freelist \in Seq(1 .. brk')
    <3>1. blk \in Seq(1 .. brk')
      BY <2>0, <2>00
    <3>2. freelist \in Seq(1 .. brk')
      BY <2>0, SeqMono DEF PoolTypeOK
    <3> HIDE DEF blk
    <3> QED BY <3>1, <3>2
  <2>1. PoolTypeOK'
    <3>1. brk' \in 0 .. MaxItems /\ freelist' \in Seq(1 .. brk')
      <4> HIDE DEF blk
      <4>1. freelist \in Seq(1 .. brk)
        BY DEF PoolTypeOK
      <4>2. CASE brk' = brk + ItemPerAlloc /\ freelist' = blk \o freelist
        BY <2>0, <2>00, <4>2
      <4>3. CASE brk' = brk /\ freelist' = freelist
        BY <2>0, <4>1, <4>3
      <4> QED BY <2>0, <4>2, <4>3
    <3>2. queue' \in [Slots -> Seq(1 .. brk')]
      BY <1>2, <2>0, SeqMono DEF RQItemNewAlloc, PoolTypeOK
    <3>3. /\ param' \in [Items -> Calls \cup {NoCall}]
          /\ running_version' \in [Slots -> Nat]
      BY <1>2 DEF RQItemNewAlloc, PoolTypeOK
    <3>4. outcome' \in [Calls -> {"none", "rejected", "finished", "killed"}]
      BY <1>2 DEF RQItemNewAlloc, PoolTypeOK
    <3>5. aborted' \in BOOLEAN
      BY <1>2 DEF RQItemNewAlloc, PoolTypeOK
    <3> QED BY <3>1, <3>2, <3>3, <3>4, <3>5 DEF PoolTypeOK
  <2>2. DispatcherTypeOK'
    <3>1. ditem' \in [Dispatchers -> 0 .. brk']
      BY <1>2, <2>0 DEF RQItemNewAlloc, DispatcherTypeOK
    <3> QED BY <1>2, <3>1 DEF RQItemNewAlloc, DispatcherTypeOK
  <2>3. ThreadTypeOK'
    BY <1>2 DEF RQItemNewAlloc, ThreadTypeOK, PoolTypeOK
  <2>4. LocalsOK'
    <3>1. \A e \in Dispatchers :
             dpc'[e] \in {"pick", "store", "push"} => ditem'[e] \in 1 .. brk'
      BY <1>2, <2>0 DEF RQItemNewAlloc, LocalsOK, DispatcherTypeOK
    <3> QED BY <1>2, <2>0, <3>1 DEF RQItemNewAlloc, LocalsOK, ThreadTypeOK
  <2>5. PipeTypeOK' /\ CallerTypeOK'
    BY <1>2 DEF RQItemNewAlloc, PipeTypeOK, CallerTypeOK
  <2> QED BY <2>1, <2>2, <2>3, <2>4, <2>5
<1>3. ASSUME NEW d \in Dispatchers, PickThread(d) PROVE TInv'
  <2>1. DispatcherTypeOK'
    BY <1>3 DEF PickThread, NextThread, DispatcherTypeOK, Slots
  <2>2. LocalsOK'
    BY <1>3 DEF PickThread, LocalsOK, Slots
  <2>3. PoolTypeOK' /\ PipeTypeOK' /\ ThreadTypeOK' /\ CallerTypeOK'
    BY <1>3 DEF PickThread, PoolTypeOK, PipeTypeOK, ThreadTypeOK, CallerTypeOK
  <2> QED BY <2>1, <2>2, <2>3
<1>4. ASSUME NEW d \in Dispatchers, StoreThread(d) PROVE TInv'
  <2>1. PoolTypeOK'
    <3>1. brk' \in 0 .. MaxItems /\ freelist' \in Seq(1 .. brk')
      BY <1>4 DEF StoreThread, PoolTypeOK
    <3>2. queue' \in [Slots -> Seq(1 .. brk')]
      BY <1>4 DEF StoreThread, PoolTypeOK
    <3>3. /\ param' \in [Items -> Calls \cup {NoCall}]
          /\ running_version' \in [Slots -> Nat]
      BY <1>4 DEF StoreThread, PoolTypeOK, DispatcherTypeOK
    <3>4. outcome' \in [Calls -> {"none", "rejected", "finished", "killed"}]
      BY <1>4 DEF StoreThread, PoolTypeOK
    <3>5. aborted' \in BOOLEAN
      BY <1>4 DEF StoreThread, PoolTypeOK
    <3> QED BY <3>1, <3>2, <3>3, <3>4, <3>5 DEF PoolTypeOK
  <2>2. DispatcherTypeOK'
    BY <1>4 DEF StoreThread, DispatcherTypeOK, Slots
  <2>3. LocalsOK'
    BY <1>4 DEF StoreThread, LocalsOK, Slots
  <2>4. PipeTypeOK' /\ ThreadTypeOK' /\ CallerTypeOK'
    BY <1>4 DEF StoreThread, PipeTypeOK, ThreadTypeOK, CallerTypeOK
  <2> QED BY <2>1, <2>2, <2>3, <2>4
<1>5. ASSUME NEW d \in Dispatchers, RQItemPush(d) PROVE TInv'
  <2>1. PoolTypeOK'
    <3>1. brk' \in 0 .. MaxItems /\ freelist' \in Seq(1 .. brk')
      BY <1>5 DEF RQItemPush, PoolTypeOK
    <3>2. queue' \in [Slots -> Seq(1 .. brk')]
      <4>1. ditem[d] \in 1 .. brk /\ dslot[d] \in Slots
        BY <1>5 DEF RQItemPush, DispatcherTypeOK, LocalsOK
      <4>2. Append(queue[dslot[d]], ditem[d]) \in Seq(1 .. brk)
        BY <4>1 DEF PoolTypeOK
      <4> QED BY <1>5, <4>1, <4>2 DEF RQItemPush, Pushed, PoolTypeOK
    <3>3. /\ param' \in [Items -> Calls \cup {NoCall}]
          /\ running_version' \in [Slots -> Nat]
      BY <1>5 DEF RQItemPush, PoolTypeOK
    <3>4. outcome' \in [Calls -> {"none", "rejected", "finished", "killed"}]
      BY <1>5 DEF RQItemPush, PoolTypeOK
    <3>5. aborted' \in BOOLEAN
      BY <1>5 DEF RQItemPush, PoolTypeOK
    <3> QED BY <3>1, <3>2, <3>3, <3>4, <3>5 DEF PoolTypeOK
  <2>2. DispatcherTypeOK'
    <3>0. 0 \in 0 .. brk
      BY DEF PoolTypeOK
    <3>1. ditem' \in [Dispatchers -> 0 .. brk']
      BY <1>5, <3>0 DEF RQItemPush, DispatcherTypeOK
    <3> QED BY <1>5, <3>1 DEF RQItemPush, DispatcherTypeOK
  <2>3. LocalsOK'
    <3>1. \A e \in Dispatchers :
             dpc'[e] \in {"pick", "store", "push"} => ditem'[e] \in 1 .. brk'
      <4> SUFFICES ASSUME NEW e \in Dispatchers,
                          dpc'[e] \in {"pick", "store", "push"}
                   PROVE  ditem'[e] \in 1 .. brk'
        OBVIOUS
      <4>1. CASE e = d
        BY <1>5, <4>1 DEF RQItemPush, LocalsOK, DispatcherTypeOK
      <4>2. CASE e # d
        BY <1>5, <4>2 DEF RQItemPush, LocalsOK, DispatcherTypeOK
      <4> QED BY <4>1, <4>2
    <3>2. UNCHANGED <<tpc, tslot, titem, rpc, nextTid, brk>>
      BY <1>5 DEF RQItemPush
    <3> QED BY <3>1, <3>2 DEF LocalsOK
  <2>4. PipeTypeOK' /\ ThreadTypeOK' /\ CallerTypeOK'
    BY <1>5 DEF RQItemPush, PipeTypeOK, ThreadTypeOK, CallerTypeOK
  <2> QED BY <2>1, <2>2, <2>3, <2>4
<1>6. ASSUME NEW d \in Dispatchers, Notify(d) PROVE TInv'
  <2>1. PipeTypeOK'
    BY <1>6 DEF Notify, PipeTypeOK, DispatcherTypeOK
  <2>2. DispatcherTypeOK'
    <3>1. 0 \in Slots
      BY DEF Slots
    <3> QED BY <1>6, <3>1 DEF Notify, DispatcherTypeOK
  <2>3. LocalsOK'
    BY <1>6 DEF Notify, LocalsOK
  <2>4. PoolTypeOK' /\ ThreadTypeOK' /\ CallerTypeOK'
    BY <1>6 DEF Notify, PoolTypeOK, ThreadTypeOK, CallerTypeOK
  <2> QED BY <2>1, <2>2, <2>3, <2>4
<1>7. ASSUME NEW t \in Tids, TouchDestroyedLoop(t) PROVE TInv'
  <2>1. PoolTypeOK'
    BY <1>7 DEF TouchDestroyedLoop, PoolTypeOK
  <2>2. PipeTypeOK' /\ DispatcherTypeOK' /\ ThreadTypeOK' /\ CallerTypeOK' /\
        LocalsOK'
    BY <1>7 DEF TouchDestroyedLoop, PipeTypeOK, DispatcherTypeOK,
       ThreadTypeOK, CallerTypeOK, LocalsOK
  <2> QED BY <2>1, <2>2
<1>8. ASSUME NEW t \in Tids, EnterRun(t) PROVE TInv'
  <2>1. PipeTypeOK'
    BY <1>8 DEF EnterRun, PipeTypeOK
  <2>2. ThreadTypeOK'
    BY <1>8 DEF EnterRun, ThreadTypeOK
  <2>3. LocalsOK'
    BY <1>8 DEF EnterRun, LocalsOK
  <2>4. PoolTypeOK' /\ DispatcherTypeOK' /\ CallerTypeOK'
    BY <1>8 DEF EnterRun, PoolTypeOK, DispatcherTypeOK, CallerTypeOK
  <2> QED BY <2>1, <2>2, <2>3, <2>4
<1>9. ASSUME NEW t \in Tids, Wake(t) PROVE TInv'
  <2>1. ThreadTypeOK'
    BY <1>9 DEF Wake, ThreadTypeOK
  <2>2. LocalsOK'
    BY <1>9 DEF Wake, LocalsOK, ThreadTypeOK
  <2>3. PoolTypeOK' /\ PipeTypeOK' /\ DispatcherTypeOK' /\ CallerTypeOK'
    BY <1>9 DEF Wake, PoolTypeOK, PipeTypeOK, DispatcherTypeOK, CallerTypeOK
  <2> QED BY <2>1, <2>2, <2>3
<1>10. ASSUME NEW t \in Tids, ReadCall(t) PROVE TInv'
  <2>1. PipeTypeOK'
    BY <1>10 DEF ReadCall, PipeTypeOK, LocalsOK
  <2>2. ThreadTypeOK'
    BY <1>10 DEF ReadCall, ThreadTypeOK
  <2>3. LocalsOK'
    BY <1>10 DEF ReadCall, LocalsOK
  <2>4. PoolTypeOK' /\ DispatcherTypeOK' /\ CallerTypeOK'
    BY <1>10 DEF ReadCall, PoolTypeOK, DispatcherTypeOK, CallerTypeOK
  <2> QED BY <2>1, <2>2, <2>3, <2>4
<1>11. ASSUME NEW t \in Tids, ReadQuit(t) PROVE TInv'
  <2>1. PipeTypeOK'
    BY <1>11 DEF ReadQuit, PipeTypeOK
  <2>2. ThreadTypeOK'
    BY <1>11 DEF ReadQuit, ThreadTypeOK
  <2>3. LocalsOK'
    BY <1>11 DEF ReadQuit, LocalsOK
  <2>4. PoolTypeOK' /\ DispatcherTypeOK' /\ CallerTypeOK'
    BY <1>11 DEF ReadQuit, PoolTypeOK, DispatcherTypeOK, CallerTypeOK
  <2> QED BY <2>1, <2>2, <2>3, <2>4
<1>12. ASSUME NEW t \in Tids, RQItemPop(t) PROVE TInv'
  <2>0. /\ tslot[t] \in Slots
        /\ queue[tslot[t]] # <<>> => /\ Head(queue[tslot[t]]) \in 1 .. brk
                                     /\ Head(queue[tslot[t]]) \in 0 .. brk
                                     /\ Tail(queue[tslot[t]]) \in Seq(1 .. brk)
    <3>1. tslot[t] \in Slots
      BY <1>12 DEF RQItemPop, LocalsOK
    <3>2. queue[tslot[t]] \in Seq(1 .. brk) /\ brk \in Nat
      BY <3>1 DEF PoolTypeOK
    <3>3. ASSUME queue[tslot[t]] # <<>>
          PROVE  /\ Head(queue[tslot[t]]) \in 1 .. brk
                 /\ Tail(queue[tslot[t]]) \in Seq(1 .. brk)
      BY <3>2, <3>3, HeadTail
    <3> QED BY <3>1, <3>2, <3>3
  <2>1. PoolTypeOK'
    <3>1. brk' \in 0 .. MaxItems /\ freelist' \in Seq(1 .. brk')
      BY <1>12 DEF RQItemPop, PoolTypeOK
    <3>2. queue' \in [Slots -> Seq(1 .. brk')]
      BY <1>12, <2>0 DEF RQItemPop, PoolTypeOK
    <3>3. /\ param' \in [Items -> Calls \cup {NoCall}]
          /\ running_version' \in [Slots -> Nat]
      BY <1>12 DEF RQItemPop, PoolTypeOK
    <3>4. outcome' \in [Calls -> {"none", "rejected", "finished", "killed"}]
      BY <1>12 DEF RQItemPop, PoolTypeOK
    <3>5. aborted' \in BOOLEAN
      BY <1>12 DEF RQItemPop, PoolTypeOK
    <3> QED BY <3>1, <3>2, <3>3, <3>4, <3>5 DEF PoolTypeOK
  <2>2. ThreadTypeOK'
    <3>1. titem' \in [Tids -> 0 .. brk']
      BY <1>12, <2>0 DEF RQItemPop, ThreadTypeOK
    <3> QED BY <1>12, <3>1 DEF RQItemPop, ThreadTypeOK
  <2>3. LocalsOK'
    BY <1>12, <2>0 DEF RQItemPop, LocalsOK, ThreadTypeOK
  <2>4. PipeTypeOK' /\ DispatcherTypeOK' /\ CallerTypeOK'
    BY <1>12 DEF RQItemPop, PipeTypeOK, DispatcherTypeOK, CallerTypeOK
  <2> QED BY <2>1, <2>2, <2>3, <2>4
<1>13. ASSUME NEW t \in Tids, CallReturns(t) PROVE TInv'
  <2>1. PoolTypeOK'
    BY <1>13 DEF CallReturns, PoolTypeOK
  <2>2. ThreadTypeOK'
    BY <1>13 DEF CallReturns, ThreadTypeOK
  <2>3. LocalsOK'
    BY <1>13 DEF CallReturns, LocalsOK
  <2>4. PipeTypeOK' /\ DispatcherTypeOK' /\ CallerTypeOK'
    BY <1>13 DEF CallReturns, PipeTypeOK, DispatcherTypeOK, CallerTypeOK
  <2> QED BY <2>1, <2>2, <2>3, <2>4
<1>14. ASSUME NEW t \in Tids, BumpVersion(t) PROVE TInv'
  <2>1. PoolTypeOK'
    <3>1. brk' \in 0 .. MaxItems /\ freelist' \in Seq(1 .. brk')
      BY <1>14 DEF BumpVersion, PoolTypeOK
    <3>2. queue' \in [Slots -> Seq(1 .. brk')]
      BY <1>14 DEF BumpVersion, PoolTypeOK
    <3>3. /\ param' \in [Items -> Calls \cup {NoCall}]
          /\ running_version' \in [Slots -> Nat]
      <4>1. tslot[t] \in Slots
        BY <1>14 DEF BumpVersion, LocalsOK
      <4> QED BY <1>14, <4>1 DEF BumpVersion, PoolTypeOK
    <3>4. outcome' \in [Calls -> {"none", "rejected", "finished", "killed"}]
      BY <1>14 DEF BumpVersion, PoolTypeOK
    <3>5. aborted' \in BOOLEAN
      BY <1>14 DEF BumpVersion, PoolTypeOK
    <3> QED BY <3>1, <3>2, <3>3, <3>4, <3>5 DEF PoolTypeOK
  <2>2. ThreadTypeOK'
    BY <1>14 DEF BumpVersion, ThreadTypeOK
  <2>3. LocalsOK'
    BY <1>14 DEF BumpVersion, LocalsOK
  <2>4. PipeTypeOK' /\ DispatcherTypeOK' /\ CallerTypeOK'
    BY <1>14 DEF BumpVersion, PipeTypeOK, DispatcherTypeOK, CallerTypeOK
  <2> QED BY <2>1, <2>2, <2>3, <2>4
<1>15. ASSUME NEW t \in Tids, RQItemFree(t) PROVE TInv'
  <2>1. PoolTypeOK'
    <3>1. brk' \in 0 .. MaxItems /\ freelist' \in Seq(1 .. brk')
      BY <1>15 DEF RQItemFree, Freed, PoolTypeOK, LocalsOK
    <3>2. queue' \in [Slots -> Seq(1 .. brk')]
      BY <1>15 DEF RQItemFree, PoolTypeOK
    <3>3. /\ param' \in [Items -> Calls \cup {NoCall}]
          /\ running_version' \in [Slots -> Nat]
      BY <1>15 DEF RQItemFree, PoolTypeOK
    <3>4. outcome' \in [Calls -> {"none", "rejected", "finished", "killed"}]
      BY <1>15 DEF RQItemFree, PoolTypeOK
    <3>5. aborted' \in BOOLEAN
      BY <1>15 DEF RQItemFree, PoolTypeOK
    <3> QED BY <3>1, <3>2, <3>3, <3>4, <3>5 DEF PoolTypeOK
  <2>2. ThreadTypeOK'
    BY <1>15 DEF RQItemFree, ThreadTypeOK, PoolTypeOK
  <2>3. LocalsOK'
    BY <1>15 DEF RQItemFree, LocalsOK, ThreadTypeOK
  <2>4. PipeTypeOK' /\ DispatcherTypeOK' /\ CallerTypeOK'
    BY <1>15 DEF RQItemFree, PipeTypeOK, DispatcherTypeOK, CallerTypeOK
  <2> QED BY <2>1, <2>2, <2>3, <2>4
<1>16. ASSUME NEW t \in Tids, CheckDone(t) PROVE TInv'
  <2>1. PipeTypeOK'
    BY <1>16 DEF CheckDone, PipeTypeOK
  <2>2. ThreadTypeOK'
    BY <1>16 DEF CheckDone, ThreadTypeOK
  <2>3. LocalsOK'
    BY <1>16 DEF CheckDone, LocalsOK, ThreadTypeOK
  <2>4. PoolTypeOK' /\ DispatcherTypeOK' /\ CallerTypeOK'
    BY <1>16 DEF CheckDone, PoolTypeOK, DispatcherTypeOK, CallerTypeOK
  <2> QED BY <2>1, <2>2, <2>3, <2>4
<1>17. ASSUME NEW t \in Tids, LoopDestroy(t) PROVE TInv'
  <2>1. PipeTypeOK'
    BY <1>17 DEF LoopDestroy, PipeTypeOK
  <2>2. ThreadTypeOK'
    BY <1>17 DEF LoopDestroy, ThreadTypeOK
  <2>3. LocalsOK'
    BY <1>17 DEF LoopDestroy, LocalsOK
  <2>4. PoolTypeOK' /\ DispatcherTypeOK' /\ CallerTypeOK'
    BY <1>17 DEF LoopDestroy, PoolTypeOK, DispatcherTypeOK, CallerTypeOK
  <2> QED BY <2>1, <2>2, <2>3, <2>4
<1>18. ASSUME NEW t \in Tids, Cancelled(t) PROVE TInv'
  <2>1. PoolTypeOK'
    <3>1. brk' \in 0 .. MaxItems /\ freelist' \in Seq(1 .. brk')
      <4>1. CASE tpc[t] = "call"
        <5>1. titem[t] \in 1 .. brk /\ freelist' = <<titem[t]>> \o freelist
          BY <1>18, <4>1 DEF Cancelled, CancelPoints, Freed, LocalsOK
        <5> QED BY <1>18, <5>1 DEF Cancelled, PoolTypeOK
      <4>2. CASE tpc[t] # "call"
        BY <1>18, <4>2 DEF Cancelled, HandlerPoints, PoolTypeOK
      <4> QED BY <4>1, <4>2
    <3>2. queue' \in [Slots -> Seq(1 .. brk')]
      BY <1>18 DEF Cancelled, PoolTypeOK
    <3>3. /\ param' \in [Items -> Calls \cup {NoCall}]
          /\ running_version' \in [Slots -> Nat]
      BY <1>18 DEF Cancelled, PoolTypeOK
    <3>4. outcome' \in [Calls -> {"none", "rejected", "finished", "killed"}]
      BY <1>18 DEF Cancelled, PoolTypeOK
    <3>5. aborted' \in BOOLEAN
      BY <1>18 DEF Cancelled, PoolTypeOK
    <3> QED BY <3>1, <3>2, <3>3, <3>4, <3>5 DEF PoolTypeOK
  <2>2. ThreadTypeOK'
    BY <1>18 DEF Cancelled, CancelPoints, HandlerPoints, ThreadTypeOK, PoolTypeOK
  <2>3. LocalsOK'
    BY <1>18 DEF Cancelled, CancelPoints, HandlerPoints, LocalsOK, ThreadTypeOK
  <2>4. PipeTypeOK' /\ DispatcherTypeOK' /\ CallerTypeOK'
    BY <1>18 DEF Cancelled, PipeTypeOK, DispatcherTypeOK, CallerTypeOK
  <2> QED BY <2>1, <2>2, <2>3, <2>4
<1>19. ASSUME NEW s \in Slots, Observe(s) PROVE TInv'
  <2>1. CallerTypeOK'
    <3>1. [tid |-> thread_id[s], ver |-> running_version[s],
           done |-> completed[thread_id[s]]] \in Snapshots
      BY DEF Snapshots, PoolTypeOK, ThreadTypeOK
    <3>2. observed' \in 0 .. MaxSnaps
      BY <1>19 DEF Observe, CallerTypeOK
    <3> QED BY <1>19, <3>1, <3>2 DEF Observe, CallerTypeOK
  <2>2. PoolTypeOK' /\ PipeTypeOK' /\ DispatcherTypeOK' /\ ThreadTypeOK' /\
        LocalsOK'
    BY <1>19 DEF Observe, PoolTypeOK, PipeTypeOK, DispatcherTypeOK,
       ThreadTypeOK, LocalsOK
  <2> QED BY <2>1, <2>2
<1>20. ASSUME NEW sn \in snaps, RestartStale(sn) PROVE TInv'
  <2>1. CallerTypeOK'
    BY <1>20 DEF RestartStale, CallerTypeOK
  <2>2. PoolTypeOK' /\ PipeTypeOK' /\ DispatcherTypeOK' /\ ThreadTypeOK' /\
        LocalsOK'
    BY <1>20 DEF RestartStale, PoolTypeOK, PipeTypeOK, DispatcherTypeOK,
       ThreadTypeOK, LocalsOK
  <2> QED BY <2>1, <2>2
<1>21. ASSUME NEW sn \in snaps, RestartBreak(sn) PROVE TInv'
  <2>1. PipeTypeOK'
    BY <1>21 DEF RestartBreak, PipeTypeOK, Slots, Tids
  <2>2. CallerTypeOK'
    BY <1>21 DEF RestartBreak, CallerTypeOK, IndexOf, Slots, Tids
  <2>3. LocalsOK'
    BY <1>21 DEF RestartBreak, LocalsOK, PoolTypeOK, DispatcherTypeOK, ThreadTypeOK, CallerTypeOK, Slots, Tids
  <2>4. PoolTypeOK' /\ DispatcherTypeOK' /\ ThreadTypeOK'
    BY <1>21 DEF RestartBreak, PoolTypeOK, DispatcherTypeOK, ThreadTypeOK
  <2> QED BY <2>1, <2>2, <2>3, <2>4
<1>22. ASSUME RestartCancel PROVE TInv'
  <2>1. ThreadTypeOK'
    BY <1>22 DEF RestartCancel, ThreadTypeOK
  <2>2. CallerTypeOK'
    BY <1>22 DEF RestartCancel, CallerTypeOK
  <2>3. LocalsOK'
    BY <1>22 DEF RestartCancel, LocalsOK
  <2>4. PoolTypeOK' /\ PipeTypeOK' /\ DispatcherTypeOK'
    BY <1>22 DEF RestartCancel, PoolTypeOK, PipeTypeOK, DispatcherTypeOK
  <2> QED BY <2>1, <2>2, <2>3, <2>4
<1>23. ASSUME RestartCreate PROVE TInv'
  <2>1. ThreadTypeOK'
    <3>1. nextTid \in Tids /\ rslot \in Slots
      BY <1>23 DEF RestartCreate, LocalsOK, CallerTypeOK
    <3>2. nextTid' \in 1 .. MaxTids + 1
      BY <1>23, <3>1 DEF RestartCreate, Tids
    <3>3. tpc' \in [Tids -> {"none", "start", "loop", "read", "pop", "call",
                             "post", "free", "check", "leave", "dead"}]
      BY <1>23, <3>1 DEF RestartCreate, ThreadTypeOK
    <3>4. tslot' \in [Tids -> Slots \cup {NoSlot}] /\ thread_id' \in [Slots -> Tids]
      BY <1>23, <3>1 DEF RestartCreate, ThreadTypeOK
    <3>5. UNCHANGED <<titem, tcancel, completed, brk>>
      BY <1>23 DEF RestartCreate
    <3> QED BY <3>2, <3>3, <3>4, <3>5 DEF ThreadTypeOK
  <2>2. CallerTypeOK'
    <3>1. NoSnap \in Snapshots /\ 0 \in Slots
      BY DEF NoSnap, Snapshots, Tids, Slots
    <3> QED BY <1>23, <3>1 DEF RestartCreate, CallerTypeOK
  <2>3. LocalsOK'
    <3>1. nextTid \in Tids /\ rslot \in Slots /\ nextTid \in Nat
      BY <1>23 DEF RestartCreate, LocalsOK, CallerTypeOK, ThreadTypeOK
    <3>2. \A t \in Tids : tpc'[t] # "none" => tslot'[t] \in Slots
      BY <1>23, <3>1 DEF RestartCreate, LocalsOK, ThreadTypeOK
    <3>3. \A t \in Tids :
             tpc'[t] \in {"call", "post", "free"} => titem'[t] \in 1 .. brk'
      BY <1>23, <3>1 DEF RestartCreate, LocalsOK, ThreadTypeOK
    <3>4. \A t \in Tids : t >= nextTid' => tpc'[t] = "none"
      BY <1>23, <3>1 DEF RestartCreate, LocalsOK, ThreadTypeOK, Tids
    <3> QED BY <1>23, <3>2, <3>3, <3>4 DEF RestartCreate, LocalsOK
  <2>4. PoolTypeOK' /\ PipeTypeOK' /\ DispatcherTypeOK'
    BY <1>23 DEF RestartCreate, PoolTypeOK, PipeTypeOK, DispatcherTypeOK
  <2> QED BY <2>1, <2>2, <2>3, <2>4
<1>24. ASSUME DestroyBegin PROVE TInv'
  <2>1. CallerTypeOK'
    <3>1. 0 \in Slots /\ Waiting \subseteq Calls
      BY DEF Waiting, Slots
    <3> QED BY <1>24, <3>1 DEF DestroyBegin, CallerTypeOK
  <2>2. PoolTypeOK' /\ PipeTypeOK' /\ DispatcherTypeOK' /\ ThreadTypeOK' /\
        LocalsOK'
    BY <1>24 DEF DestroyBegin, PoolTypeOK, PipeTypeOK, DispatcherTypeOK,
       ThreadTypeOK, LocalsOK
  <2> QED BY <2>1, <2>2
<1>25. ASSUME WriteQuit PROVE TInv'
  <2>1. PipeTypeOK'
    <3>1. quit' = [quit EXCEPT ![xidx] = "sent"]
          /\ UNCHANGED <<notes, late, loop, loop_done>>
      BY <1>25 DEF WriteQuit
    <3> QED BY <3>1 DEF PipeTypeOK
  <2>2. CallerTypeOK'
    <3>1. 0 \in Slots /\ (xidx < LastSlot => xidx + 1 \in Slots)
      BY DEF CallerTypeOK, LastSlot, Slots
    <3>2. thread_id[0] \in Tids
      BY <3>1 DEF ThreadTypeOK
    <3>3. xidx' \in Slots /\ xtid' \in Tids /\ xpc' \in {"quit", "join"}
      BY <1>25, <3>1, <3>2 DEF WriteQuit, CallerTypeOK
    <3>4. UNCHANGED <<rpc, rsnap, rslot, snaps, noted, observed, xprom>>
      BY <1>25 DEF WriteQuit
    <3> QED BY <3>3, <3>4 DEF CallerTypeOK
  <2>3. PoolTypeOK' /\ DispatcherTypeOK' /\ ThreadTypeOK' /\ LocalsOK'
    BY <1>25 DEF WriteQuit, PoolTypeOK, DispatcherTypeOK, ThreadTypeOK,
       LocalsOK
  <2> QED BY <2>1, <2>2, <2>3
<1>26. ASSUME Joined PROVE TInv'
  <2>1. CallerTypeOK'
    BY <1>26 DEF Joined, CallerTypeOK, ThreadTypeOK, Slots
  <2>2. PoolTypeOK' /\ PipeTypeOK' /\ DispatcherTypeOK' /\ ThreadTypeOK' /\
        LocalsOK'
    BY <1>26 DEF Joined, PoolTypeOK, PipeTypeOK, DispatcherTypeOK,
       ThreadTypeOK, LocalsOK
  <2> QED BY <2>1, <2>2
<1>27. CASE UNCHANGED vars
    BY <1>27 DEF vars, PoolTypeOK, PipeTypeOK, DispatcherTypeOK, ThreadTypeOK,
       CallerTypeOK, LocalsOK
<1> QED
    BY <1>1, <1>2, <1>3, <1>4, <1>5, <1>6, <1>7, <1>8, <1>9, <1>10, <1>11, <1>12, <1>13, <1>14, <1>15, <1>16, <1>17, <1>18, <1>19, <1>20, <1>21, <1>22, <1>23, <1>24, <1>25, <1>26, <1>27
    DEF Next, DispatchRpcCall, DispatchStep, LibevWorker, RestartThread, Destroy

(* Type correctness: TypeOK is an invariant of the pool.                    *)
THEOREM TypeCorrect == Spec => []TypeOK
<1>1. TInv => TypeOK
    BY DEF TInv
<1> QED BY <1>1, InitTInv, NextTInv, PTL DEF Spec

-----------------------------------------------------------------------------
(***************************************************************************)
(* The queue of a slot matches its pipe.                                    *)
(***************************************************************************)

(* The sets QueueMatchesPipe counts are finite.                             *)
LEMMA CountedSetsFinite ==
    \A s \in Slots : /\ IsFiniteSet(Notifying(s)) /\ IsFiniteSet(Popping(s))
                     /\ Cardinality(Notifying(s)) \in Nat
                     /\ Cardinality(Popping(s)) \in Nat
<1> TAKE s \in Slots
<1>1. IsFiniteSet(Notifying(s))
    BY PoolAssumption, FS_Subset DEF Notifying
<1>2. IsFiniteSet(Tids)
    BY PoolAssumption, FS_Interval DEF Tids
<1>3. IsFiniteSet(Popping(s))
    BY <1>2, FS_Subset DEF Popping
<1> QED BY <1>1, <1>3, FS_CardinalityType

(* A step that moves no item through a queue, no byte through a pipe and    *)
(* nobody into or out of the counted sets keeps QueueMatchesPipe.           *)
LEMMA QueueFrame ==
    ASSUME QueueMatchesPipe, UNCHANGED <<queue, notes, late>>,
           \A s \in Slots : /\ Notifying(s)' = Notifying(s)
                            /\ Popping(s)' = Popping(s)
    PROVE  QueueMatchesPipe'
BY DEF QueueMatchesPipe

(* A step at slot p keeps QueueMatchesPipe when it balances p and leaves    *)
(* the other slots alone.                                                   *)
LEMMA QueueStep ==
    ASSUME QueueMatchesPipe, NEW p \in Slots,
           Len(queue'[p]) = notes'[p] + late'[p] + Cardinality(Notifying(p)')
                              + Cardinality(Popping(p)'),
           \A s \in Slots \ {p} :
               /\ queue'[s] = queue[s]
               /\ notes'[s] = notes[s] /\ late'[s] = late[s]
               /\ Notifying(s)' = Notifying(s) /\ Popping(s)' = Popping(s)
    PROVE  QueueMatchesPipe'
<1> SUFFICES ASSUME NEW s \in Slots
             PROVE  Len(queue'[s]) = notes'[s] + late'[s]
                      + Cardinality(Notifying(s)') + Cardinality(Popping(s)')
    BY DEF QueueMatchesPipe
<1>1. CASE s = p
    BY <1>1
<1>2. CASE s # p
    BY <1>2 DEF QueueMatchesPipe
<1> QED BY <1>1, <1>2

(* The numbers that QueueMatchesPipe relates, at slot p.                    *)
LEMMA QueueBalance ==
    ASSUME TInv, QueueMatchesPipe, NEW p \in Slots
    PROVE  /\ notes[p] \in Nat /\ late[p] \in Nat /\ Len(queue[p]) \in Nat
           /\ Cardinality(Notifying(p)) \in Nat
           /\ Cardinality(Popping(p)) \in Nat
           /\ Len(queue[p]) = notes[p] + late[p] + Cardinality(Notifying(p))
                                + Cardinality(Popping(p))
<1>1. queue[p] \in Seq(1 .. brk)
    BY DEF TInv, TypeOK, PoolTypeOK
<1> QED BY <1>1, CountedSetsFinite
        DEF QueueMatchesPipe, TInv, TypeOK, PipeTypeOK

(* Every step preserves QueueMatchesPipe.                                   *)
LEMMA NextQueue == TInv /\ QueueMatchesPipe /\ [Next]_vars => QueueMatchesPipe'
<1> SUFFICES ASSUME TInv, QueueMatchesPipe, [Next]_vars
             PROVE  QueueMatchesPipe'
    OBVIOUS
<1> USE DEF TInv, TypeOK, Goto
<1>1. ASSUME NEW d \in Dispatchers, RQItemNewTake(d) PROVE QueueMatchesPipe'
    BY <1>1, QueueFrame DEF RQItemNewTake, Notifying, Popping, DispatcherTypeOK
<1>2. ASSUME NEW d \in Dispatchers, RQItemNewAlloc(d) PROVE QueueMatchesPipe'
    BY <1>2, QueueFrame DEF RQItemNewAlloc, Notifying, Popping, DispatcherTypeOK
<1>3. ASSUME NEW d \in Dispatchers, PickThread(d) PROVE QueueMatchesPipe'
    BY <1>3, QueueFrame DEF PickThread, Notifying, Popping, DispatcherTypeOK
<1>4. ASSUME NEW d \in Dispatchers, StoreThread(d) PROVE QueueMatchesPipe'
    BY <1>4, QueueFrame DEF StoreThread, Notifying, Popping, DispatcherTypeOK
<1>5. ASSUME NEW d \in Dispatchers, RQItemPush(d) PROVE QueueMatchesPipe'
  <2>1. CASE xpc = "deleted"
    BY <1>5, <2>1, QueueFrame DEF RQItemPush, Notifying, Popping
  <2>2. CASE xpc # "deleted"
    <3>1. PICK p \in Slots : p = dslot[d]
      BY DEF DispatcherTypeOK
    <3>2. /\ queue' = [queue EXCEPT ![p] = Append(@, ditem[d])]
          /\ dpc[d] = "push" /\ dpc' = [dpc EXCEPT ![d] = "notify"]
          /\ UNCHANGED <<notes, late, dslot, tpc, tslot>>
      BY <1>5, <2>2, <3>1 DEF RQItemPush, Pushed
    <3>3. Len(queue'[p]) = Len(queue[p]) + 1
      <4>1. queue[p] \in Seq(1 .. brk) /\ ditem[d] \in 1 .. brk
        BY <3>2 DEF PoolTypeOK, LocalsOK
      <4> QED BY <3>2, <4>1 DEF PoolTypeOK
    <3>4. Notifying(p)' = Notifying(p) \cup {d} /\ d \notin Notifying(p)
      BY <3>1, <3>2 DEF Notifying, DispatcherTypeOK
    <3>5. Cardinality(Notifying(p)') = Cardinality(Notifying(p)) + 1
      BY <3>4, CountedSetsFinite, FS_AddElement
    <3>6. \A s \in Slots : Popping(s)' = Popping(s)
      BY <3>2 DEF Popping
    <3>7. \A s \in Slots \ {p} : /\ Notifying(s)' = Notifying(s)
                                 /\ queue'[s] = queue[s]
      BY <3>1, <3>2 DEF Notifying, DispatcherTypeOK, PoolTypeOK
    <3>8. Len(queue'[p]) = notes'[p] + late'[p] + Cardinality(Notifying(p)')
                             + Cardinality(Popping(p)')
      BY <3>2, <3>3, <3>5, <3>6, QueueBalance
    <3> QED BY <3>2, <3>6, <3>7, <3>8, QueueStep
  <2> QED BY <2>1, <2>2
<1>6. ASSUME NEW d \in Dispatchers, Notify(d) PROVE QueueMatchesPipe'
  <2>1. PICK p \in Slots : p = dslot[d]
    BY DEF DispatcherTypeOK
  <2>2. /\ notes'[p] + late'[p] = notes[p] + late[p] + 1
        /\ notes'[p] \in Nat /\ late'[p] \in Nat
        /\ \A s \in Slots \ {p} : notes'[s] = notes[s] /\ late'[s] = late[s]
    BY <1>6, <2>1 DEF Notify, PipeTypeOK
  <2>3. Notifying(p)' = Notifying(p) \ {d} /\ d \in Notifying(p)
    BY <1>6, <2>1 DEF Notify, Notifying, DispatcherTypeOK
  <2>4. Cardinality(Notifying(p)') = Cardinality(Notifying(p)) - 1
    BY <2>3, CountedSetsFinite, FS_RemoveElement
  <2>5. \A s \in Slots \ {p} : Notifying(s)' = Notifying(s)
    BY <1>6, <2>1 DEF Notify, Notifying, DispatcherTypeOK
  <2>6. queue' = queue /\ \A s \in Slots : Popping(s)' = Popping(s)
    BY <1>6 DEF Notify, Popping
  <2>7. Len(queue'[p]) = notes'[p] + late'[p] + Cardinality(Notifying(p)')
                           + Cardinality(Popping(p)')
    BY <2>2, <2>4, <2>6, QueueBalance
  <2> QED BY <2>2, <2>5, <2>6, <2>7, QueueStep
<1>7. ASSUME NEW t \in Tids, TouchDestroyedLoop(t) PROVE QueueMatchesPipe'
    BY <1>7, QueueFrame DEF TouchDestroyedLoop, Notifying, Popping, ThreadTypeOK
<1>8. ASSUME NEW t \in Tids, EnterRun(t) PROVE QueueMatchesPipe'
    BY <1>8, QueueFrame DEF EnterRun, Notifying, Popping, ThreadTypeOK
<1>9. ASSUME NEW t \in Tids, Wake(t) PROVE QueueMatchesPipe'
    BY <1>9, QueueFrame DEF Wake, Notifying, Popping, ThreadTypeOK
<1>10. ASSUME NEW t \in Tids, ReadCall(t) PROVE QueueMatchesPipe'
  <2>1. PICK p \in Slots : p = tslot[t]
    BY <1>10 DEF ReadCall, LocalsOK
  <2>2. /\ notes'[p] = notes[p] - 1
        /\ \A s \in Slots \ {p} : notes'[s] = notes[s]
    BY <1>10, <2>1 DEF ReadCall, PipeTypeOK
  <2>3. Popping(p)' = Popping(p) \cup {t} /\ t \notin Popping(p)
    BY <1>10, <2>1 DEF ReadCall, Popping, ThreadTypeOK
  <2>4. Cardinality(Popping(p)') = Cardinality(Popping(p)) + 1
    BY <2>3, CountedSetsFinite, FS_AddElement
  <2>5. \A s \in Slots \ {p} : Popping(s)' = Popping(s)
    BY <1>10, <2>1 DEF ReadCall, Popping, ThreadTypeOK
  <2>6. /\ queue' = queue /\ late' = late
        /\ \A s \in Slots : Notifying(s)' = Notifying(s)
    BY <1>10 DEF ReadCall, Notifying
  <2>7. Len(queue'[p]) = notes'[p] + late'[p] + Cardinality(Notifying(p)')
                           + Cardinality(Popping(p)')
    <3>1. queue'[p] = queue[p] /\ late'[p] = late[p]
      BY <2>6
    <3>2. Cardinality(Notifying(p)') = Cardinality(Notifying(p))
      BY <2>6
    <3>3. /\ notes[p] \in Nat /\ late[p] \in Nat
          /\ Cardinality(Notifying(p)) \in Nat
          /\ Cardinality(Popping(p)) \in Nat
          /\ Len(queue[p]) = notes[p] + late[p] + Cardinality(Notifying(p))
                               + Cardinality(Popping(p))
      BY QueueBalance
    <3> QED BY <2>2, <2>4, <3>1, <3>2, <3>3
  <2> QED BY <2>2, <2>5, <2>6, <2>7, QueueStep
<1>11. ASSUME NEW t \in Tids, ReadQuit(t) PROVE QueueMatchesPipe'
  <2>1. PICK p \in Slots : p = tslot[t]
    BY <1>11 DEF ReadQuit, LocalsOK
  <2>2. /\ notes[p] = 0 /\ notes'[p] = late[p] /\ late'[p] = 0
        /\ \A s \in Slots \ {p} : notes'[s] = notes[s] /\ late'[s] = late[s]
    BY <1>11, <2>1 DEF ReadQuit, PipeTypeOK
  <2>3. \A s \in Slots : Popping(s)' = Popping(s)
    BY <1>11 DEF ReadQuit, Popping, ThreadTypeOK
  <2>4. queue' = queue /\ \A s \in Slots : Notifying(s)' = Notifying(s)
    BY <1>11 DEF ReadQuit, Notifying
  <2>5. Len(queue'[p]) = notes'[p] + late'[p] + Cardinality(Notifying(p)')
                           + Cardinality(Popping(p)')
    BY <2>2, <2>3, <2>4, QueueBalance
  <2> QED BY <2>2, <2>3, <2>4, <2>5, QueueStep
<1>12. ASSUME NEW t \in Tids, RQItemPop(t) PROVE QueueMatchesPipe'
  <2>1. PICK p \in Slots : p = tslot[t]
    BY <1>12 DEF RQItemPop, LocalsOK
  <2>2. CASE queue[p] = <<>> \/ xpc = "deleted"
    BY <1>12, <2>1, <2>2, QueueFrame DEF RQItemPop, Notifying, Popping
  <2>3. CASE queue[p] # <<>> /\ xpc # "deleted"
    <3>1. /\ queue' = [queue EXCEPT ![p] = Tail(@)]
          /\ tpc[t] = "pop" /\ tpc' = [tpc EXCEPT ![t] = "call"]
          /\ UNCHANGED <<notes, late, dpc, dslot, tslot>>
      BY <1>12, <2>1, <2>3 DEF RQItemPop
    <3>2. Len(queue'[p]) = Len(queue[p]) - 1
      <4>1. queue[p] \in Seq(1 .. brk)
        BY DEF PoolTypeOK
      <4>2. Len(Tail(queue[p])) = Len(queue[p]) - 1
        BY <2>3, <4>1, HeadTail
      <4> QED BY <3>1, <4>2 DEF PoolTypeOK
    <3>3. Popping(p)' = Popping(p) \ {t} /\ t \in Popping(p)
      BY <2>1, <3>1 DEF Popping, ThreadTypeOK
    <3>4. Cardinality(Popping(p)') = Cardinality(Popping(p)) - 1
      BY <3>3, CountedSetsFinite, FS_RemoveElement
    <3>5. \A s \in Slots \ {p} : Popping(s)' = Popping(s) /\ queue'[s] = queue[s]
      BY <2>1, <3>1 DEF Popping, ThreadTypeOK, PoolTypeOK
    <3>6. \A s \in Slots : Notifying(s)' = Notifying(s)
      BY <3>1 DEF Notifying
    <3>7. Len(queue'[p]) = notes'[p] + late'[p] + Cardinality(Notifying(p)')
                             + Cardinality(Popping(p)')
      BY <3>1, <3>2, <3>4, <3>6, QueueBalance
    <3> QED BY <3>1, <3>5, <3>6, <3>7, QueueStep
  <2> QED BY <2>2, <2>3
<1>13. ASSUME NEW t \in Tids, CallReturns(t) PROVE QueueMatchesPipe'
    BY <1>13, QueueFrame DEF CallReturns, Notifying, Popping, ThreadTypeOK
<1>14. ASSUME NEW t \in Tids, BumpVersion(t) PROVE QueueMatchesPipe'
    BY <1>14, QueueFrame DEF BumpVersion, Notifying, Popping, ThreadTypeOK
<1>15. ASSUME NEW t \in Tids, RQItemFree(t) PROVE QueueMatchesPipe'
    BY <1>15, QueueFrame DEF RQItemFree, Notifying, Popping, ThreadTypeOK
<1>16. ASSUME NEW t \in Tids, CheckDone(t) PROVE QueueMatchesPipe'
    BY <1>16, QueueFrame DEF CheckDone, Notifying, Popping, ThreadTypeOK
<1>17. ASSUME NEW t \in Tids, LoopDestroy(t) PROVE QueueMatchesPipe'
    BY <1>17, QueueFrame DEF LoopDestroy, Notifying, Popping, ThreadTypeOK
<1>18. ASSUME NEW t \in Tids, Cancelled(t) PROVE QueueMatchesPipe'
    BY <1>18, QueueFrame DEF Cancelled, CancelPoints, HandlerPoints, Notifying, Popping, ThreadTypeOK
<1>19. ASSUME NEW s \in Slots, Observe(s) PROVE QueueMatchesPipe'
    BY <1>19, QueueFrame DEF Observe, Notifying, Popping
<1>20. ASSUME NEW sn \in snaps, RestartStale(sn) PROVE QueueMatchesPipe'
    BY <1>20, QueueFrame DEF RestartStale, Notifying, Popping
<1>21. ASSUME NEW sn \in snaps, RestartBreak(sn) PROVE QueueMatchesPipe'
    BY <1>21, QueueFrame DEF RestartBreak, Notifying, Popping
<1>22. ASSUME RestartCancel PROVE QueueMatchesPipe'
    BY <1>22, QueueFrame DEF RestartCancel, Notifying, Popping
<1>23. ASSUME RestartCreate PROVE QueueMatchesPipe'
    BY <1>23, QueueFrame DEF RestartCreate, Notifying, Popping, ThreadTypeOK, LocalsOK, Tids
<1>24. ASSUME DestroyBegin PROVE QueueMatchesPipe'
    BY <1>24, QueueFrame DEF DestroyBegin, Notifying, Popping
<1>25. ASSUME WriteQuit PROVE QueueMatchesPipe'
    BY <1>25, QueueFrame DEF WriteQuit, Notifying, Popping
<1>26. ASSUME Joined PROVE QueueMatchesPipe'
    BY <1>26, QueueFrame DEF Joined, Notifying, Popping
<1>27. CASE UNCHANGED vars
    BY <1>27, QueueFrame DEF vars, Notifying, Popping
<1> QED
    BY <1>1, <1>2, <1>3, <1>4, <1>5, <1>6, <1>7, <1>8, <1>9, <1>10, <1>11, <1>12, <1>13, <1>14, <1>15, <1>16, <1>17, <1>18, <1>19, <1>20, <1>21, <1>22, <1>23, <1>24, <1>25, <1>26, <1>27
    DEF Next, DispatchRpcCall, DispatchStep, LibevWorker, RestartThread, Destroy

(* The queue of every slot matches its pipe, whatever is restarted when.    *)
THEOREM QueueMatchesPipeAlways == Spec => []QueueMatchesPipe
<1>1. Init => QueueMatchesPipe
  <2> SUFFICES ASSUME Init, NEW s \in Slots
               PROVE  Len(queue[s]) = notes[s] + late[s]
                        + Cardinality(Notifying(s)) + Cardinality(Popping(s))
      BY DEF QueueMatchesPipe
  <2>1. Notifying(s) = {} /\ Popping(s) = {}
      BY DEF Init, Notifying, Popping
  <2> QED BY <2>1, FS_EmptySet DEF Init
<1> QED BY <1>1, InitTInv, NextTInv, NextQueue, PTL DEF Spec

(* No thread of the pool ever dereferences a NULL item: for every number of *)
(* slots, dispatchers, threads and calls, RQItemPop after a 'c' byte finds  *)
(* an item.                                                                 *)
THEOREM PopFindsItem == Spec => []NoNullPop
<1>1. TInv /\ QueueMatchesPipe => NoNullPop
  <2> SUFFICES ASSUME TInv, QueueMatchesPipe, NEW t \in Tids, tpc[t] = "pop"
               PROVE  queue[tslot[t]] # <<>>
      BY DEF NoNullPop
  <2> DEFINE p == tslot[t]
  <2>1. p \in Slots /\ t \in Popping(p)
      BY DEF TInv, LocalsOK, Popping
  <2>2. Cardinality(Popping(p)) # 0
      BY <2>1, CountedSetsFinite, FS_EmptySet
  <2>3. notes[p] \in Nat /\ late[p] \in Nat
      BY <2>1 DEF TInv, TypeOK, PipeTypeOK
  <2>4. Len(queue[p]) # 0
      BY <2>1, <2>2, <2>3, CountedSetsFinite DEF QueueMatchesPipe
  <2> QED BY <2>4
<1> QED BY <1>1, InitTInv, NextTInv, QueueMatchesPipeAlways, PTL DEF Spec

-----------------------------------------------------------------------------
(***************************************************************************)
(* Every item is in one place.  The places are counted without positions,   *)
(* which shift when an item is pushed to or popped from a list: the free    *)
(* list, the queues with the item, the dispatchers and the threads that     *)
(* hold it.                                                                 *)
(***************************************************************************)
(* Item i is in sequence q.                                                 *)
Has(q, i) == \E k \in DOMAIN q : q[k] = i

IsFree(i) == Has(freelist, i)
QueuesWith(i) == {s \in Slots : Has(queue[s], i)}

OnFreeList(i) ==
    /\ IsFree(i) /\ QueuesWith(i) = {}
    /\ HoldingDispatchers(i) = {} /\ HoldingThreads(i) = {}
InOneQueue(i) ==
    /\ ~IsFree(i) /\ \E s \in Slots : QueuesWith(i) = {s}
    /\ HoldingDispatchers(i) = {} /\ HoldingThreads(i) = {}
WithDispatcher(i) ==
    /\ ~IsFree(i) /\ QueuesWith(i) = {}
    /\ \E d \in Dispatchers : HoldingDispatchers(i) = {d}
    /\ HoldingThreads(i) = {}
WithThread(i) ==
    /\ ~IsFree(i) /\ QueuesWith(i) = {} /\ HoldingDispatchers(i) = {}
    /\ \E t \in Tids : HoldingThreads(i) = {t}

InOnePlace(i) ==
    OnFreeList(i) \/ InOneQueue(i) \/ WithDispatcher(i) \/ WithThread(i)

(* No list holds an item twice.                                             *)
NoRepeats(q) == \A a, b \in DOMAIN q : q[a] = q[b] => a = b

PlaceInv ==
    /\ \A i \in 1 .. brk : InOnePlace(i)
    /\ NoRepeats(freelist) /\ \A s \in Slots : NoRepeats(queue[s])

(* The sequences the pool's lists become, and the items they then hold.     *)
LEMMA PoppedSeq ==
    ASSUME NEW R, NEW q \in Seq(R), q # <<>>, NoRepeats(q)
    PROVE  /\ NoRepeats(Tail(q)) /\ Has(q, Head(q))
           /\ \A i : Has(Tail(q), i) <=> Has(q, i) /\ i # Head(q)
<1>1. /\ Len(q) \in Nat /\ Len(q) > 0 /\ DOMAIN q = 1 .. Len(q) /\ Head(q) = q[1]
      /\ DOMAIN Tail(q) = 1 .. Len(q) - 1
      /\ \A k \in 1 .. Len(q) - 1 : Tail(q)[k] = q[k + 1]
    OBVIOUS
<1> DEFINE r == Tail(q)
           h == Head(q)
<1>2. /\ DOMAIN r = 1 .. Len(q) - 1 /\ \A k \in 1 .. Len(q) - 1 : r[k] = q[k + 1]
      /\ h = q[1]
    BY <1>1
<1> HIDE DEF r, h
<1>3. NoRepeats(r)
  <2> SUFFICES ASSUME NEW a \in DOMAIN r, NEW b \in DOMAIN r, r[a] = r[b] PROVE a = b
    BY DEF NoRepeats
  <2>1. /\ a \in Nat /\ a + 1 \in DOMAIN q /\ r[a] = q[a + 1]
        /\ b \in Nat /\ b + 1 \in DOMAIN q /\ r[b] = q[b + 1]
    BY <1>1, <1>2
  <2>2. a + 1 = b + 1
    BY <2>1 DEF NoRepeats
  <2> QED BY <2>1, <2>2
<1>4. Has(q, h)
    BY <1>1, <1>2 DEF Has
<1>5. ASSUME NEW i, Has(r, i) PROVE Has(q, i) /\ i # h
    BY <1>1, <1>2, <1>5 DEF Has, NoRepeats
<1>6. ASSUME NEW i, Has(q, i), i # h PROVE Has(r, i)
  <2>1. PICK k \in 1 .. Len(q) : q[k] = i
    BY <1>1, <1>6 DEF Has
  <2>2. k - 1 \in 1 .. Len(q) - 1 /\ (k - 1) + 1 = k
    BY <1>1, <1>2, <1>6, <2>1
  <2> QED BY <1>2, <2>1, <2>2 DEF Has
<1> QED BY <1>3, <1>4, <1>5, <1>6 DEF r, h

(* Two lists without repetitions and without a common item, appended.       *)
LEMMA JoinedSeqs ==
    ASSUME NEW R, NEW p \in Seq(R), NEW q \in Seq(R), NoRepeats(p), NoRepeats(q),
           \A i : ~(Has(p, i) /\ Has(q, i))
    PROVE  /\ NoRepeats(p \o q)
           /\ \A i : Has(p \o q, i) <=> Has(p, i) \/ Has(q, i)
<1>1. /\ Len(p) \in Nat /\ DOMAIN p = 1 .. Len(p) /\ Len(q) \in Nat /\ DOMAIN q = 1 .. Len(q)
      /\ DOMAIN (p \o q) = 1 .. Len(p) + Len(q)
      /\ \A k \in 1 .. Len(p) + Len(q) :
            (p \o q)[k] = IF k <= Len(p) THEN p[k] ELSE q[k - Len(p)]
    OBVIOUS
<1> DEFINE r == p \o q
<1>2. /\ DOMAIN r = 1 .. Len(p) + Len(q)
      /\ \A k \in 1 .. Len(p) + Len(q) : r[k] = IF k <= Len(p) THEN p[k] ELSE q[k - Len(p)]
    BY <1>1
<1> HIDE DEF r
<1>3. \A k \in DOMAIN r : \/ k \in DOMAIN p /\ r[k] = p[k]
                          \/ k - Len(p) \in DOMAIN q /\ k > Len(p) /\ r[k] = q[k - Len(p)]
    BY <1>1, <1>2
<1>4. NoRepeats(r)
  <2> SUFFICES ASSUME NEW a \in DOMAIN r, NEW b \in DOMAIN r, r[a] = r[b] PROVE a = b
    BY DEF NoRepeats
  <2>0. a \in Nat /\ b \in Nat
    BY <1>1, <1>2
  <2>1. CASE a <= Len(p) /\ b <= Len(p)
    BY <1>1, <1>2, <2>1 DEF NoRepeats
  <2>2. CASE a > Len(p) /\ b > Len(p)
    <3>1. /\ a - Len(p) \in DOMAIN q /\ r[a] = q[a - Len(p)]
          /\ b - Len(p) \in DOMAIN q /\ r[b] = q[b - Len(p)]
      BY <1>1, <1>3, <2>2
    <3>2. a - Len(p) = b - Len(p)
      BY <3>1 DEF NoRepeats
    <3> QED BY <1>1, <2>0, <3>2
  <2>3. CASE ~(a <= Len(p) <=> b <= Len(p))
    <3>1. \A k \in DOMAIN r : k <= Len(p) => Has(p, r[k])
      BY <1>1, <1>2 DEF Has
    <3>2. \A k \in DOMAIN r : ~(k <= Len(p)) => Has(q, r[k])
      BY <1>1, <1>3 DEF Has
    <3> QED BY <2>3, <3>1, <3>2
  <2> QED BY <1>1, <2>0, <2>1, <2>2, <2>3
<1>5. ASSUME NEW i, Has(r, i) PROVE Has(p, i) \/ Has(q, i)
    BY <1>3, <1>5 DEF Has
<1>6. ASSUME NEW i, Has(p, i) PROVE Has(r, i)
    BY <1>1, <1>2, <1>6 DEF Has
<1>7. ASSUME NEW i, Has(q, i) PROVE Has(r, i)
  <2>1. PICK k \in 1 .. Len(q) : q[k] = i
    BY <1>1, <1>7 DEF Has
  <2>2. k + Len(p) \in 1 .. Len(p) + Len(q) /\ ~(k + Len(p) <= Len(p)) /\ (k + Len(p)) - Len(p) = k
    BY <1>1, <2>1
  <2> QED BY <1>2, <2>1, <2>2 DEF Has
<1> QED BY <1>4, <1>5, <1>6, <1>7 DEF r

(* The list of a single item.                                               *)
LEMMA OneItem == \A x : /\ <<x>> \in Seq({x}) /\ NoRepeats(<<x>>)
                        /\ \A i : Has(<<x>>, i) <=> i = x
BY DEF Has, NoRepeats

(* A new item put in front of a list.                                       *)
LEMMA PrependedSeq ==
    ASSUME NEW R, NEW q \in Seq(R), NEW x \in R, ~Has(q, x), NoRepeats(q)
    PROVE  /\ NoRepeats(<<x>> \o q)
           /\ \A i : Has(<<x>> \o q, i) <=> i = x \/ Has(q, i)
<1> DEFINE o == <<x>>
<1>1. o \in Seq(R) /\ NoRepeats(o) /\ \A i : Has(o, i) <=> i = x
    BY OneItem
<1> HIDE DEF o
<1>2. NoRepeats(o \o q) /\ \A i : Has(o \o q, i) <=> Has(o, i) \/ Has(q, i)
    BY <1>1, JoinedSeqs
<1> QED BY <1>1, <1>2 DEF o

(* A new item put at the end of a list.                                     *)
LEMMA AppendedSeq ==
    ASSUME NEW R, NEW q \in Seq(R), NEW x \in R, ~Has(q, x), NoRepeats(q)
    PROVE  /\ NoRepeats(Append(q, x))
           /\ \A i : Has(Append(q, x), i) <=> i = x \/ Has(q, i)
<1> DEFINE o == <<x>>
<1>1. o \in Seq(R) /\ NoRepeats(o) /\ \A i : Has(o, i) <=> i = x
    BY OneItem
<1>2. Append(q, x) = q \o o
    OBVIOUS
<1> HIDE DEF o
<1>3. NoRepeats(q \o o) /\ \A i : Has(q \o o, i) <=> Has(q, i) \/ Has(o, i)
    BY <1>1, JoinedSeqs
<1> QED BY <1>1, <1>2, <1>3

(* A step that moves no item keeps PlaceInv.                                *)
LEMMA PlaceFrame ==
    ASSUME PlaceInv, UNCHANGED <<freelist, queue, brk>>,
           \A i \in 1 .. brk : /\ HoldingDispatchers(i)' = HoldingDispatchers(i)
                               /\ HoldingThreads(i)' = HoldingThreads(i)
    PROVE  PlaceInv'
BY DEF PlaceInv, InOnePlace, OnFreeList, InOneQueue, WithDispatcher, WithThread, IsFree, QueuesWith

(* RQItemNew takes the head of the free list.                               *)
LEMMA TakePlace ==
    ASSUME TInv, PlaceInv, NEW d \in Dispatchers, RQItemNewTake(d)
    PROVE  PlaceInv'
<1>1. CASE freelist = <<>>
    BY <1>1, PlaceFrame DEF RQItemNewTake, HoldingDispatchers, HoldingThreads, TInv, TypeOK, DispatcherTypeOK
<1>2. CASE freelist # <<>>
  <2>0. PICK x \in 1 .. brk : x = Head(freelist)
    BY <1>2, HeadTail DEF TInv, TypeOK, PoolTypeOK
  <2>1. /\ ditem' = [ditem EXCEPT ![d] = x] /\ freelist' = Tail(freelist)
        /\ dpc[d] = "idle" /\ dpc' = [dpc EXCEPT ![d] = "pick"]
        /\ UNCHANGED <<brk, queue, tpc, titem>>
    BY <1>2, <2>0 DEF RQItemNewTake
  <2>2. /\ freelist \in Seq(1 .. brk) /\ x \in 1 .. brk
        /\ dpc \in [Dispatchers -> {"idle", "alloc", "pick", "store", "push", "notify"}]
        /\ ditem \in [Dispatchers -> 0 .. brk]
    BY DEF TInv, TypeOK, PoolTypeOK, DispatcherTypeOK
  <2>3. /\ NoRepeats(freelist') /\ Has(freelist, x)
        /\ \A i : Has(freelist', i) <=> Has(freelist, i) /\ i # x
    BY <1>2, <2>0, <2>1, <2>2, PoppedSeq DEF PlaceInv
  <2>4. /\ HoldingDispatchers(x)' = HoldingDispatchers(x) \cup {d}
        /\ \A i \in 1 .. brk : i # x => HoldingDispatchers(i)' = HoldingDispatchers(i)
    BY <2>1, <2>2 DEF HoldingDispatchers
  <2>5. \A i \in 1 .. brk : HoldingThreads(i)' = HoldingThreads(i) /\ QueuesWith(i)' = QueuesWith(i)
    BY <2>1 DEF HoldingThreads, QueuesWith
  <2>6. OnFreeList(x)
    BY <2>2, <2>3 DEF PlaceInv, InOnePlace, InOneQueue, WithDispatcher, WithThread, IsFree
  <2>7. WithDispatcher(x)'
    BY <2>2, <2>3, <2>4, <2>5, <2>6 DEF OnFreeList, WithDispatcher, IsFree
  <2>8. ASSUME NEW i \in 1 .. brk, i # x PROVE InOnePlace(i)'
    BY <2>3, <2>4, <2>5, <2>8 DEF PlaceInv, InOnePlace, OnFreeList, InOneQueue, WithDispatcher, WithThread, IsFree
  <2> QED BY <2>1, <2>3, <2>7, <2>8 DEF PlaceInv, InOnePlace
<1> QED BY <1>1, <1>2

(* RQItemNew keeps the first item of a new block and frees the others; the  *)
(* items were nowhere before.                                               *)
LEMMA AllocPlace ==
    ASSUME TInv, PlaceInv, NEW d \in Dispatchers, RQItemNewAlloc(d)
    PROVE  PlaceInv'
<1>0. /\ freelist \in Seq(1 .. brk) /\ brk \in Nat /\ queue \in [Slots -> Seq(1 .. brk)]
      /\ dpc \in [Dispatchers -> {"idle", "alloc", "pick", "store", "push", "notify"}]
      /\ ditem \in [Dispatchers -> 0 .. brk]
      /\ \A e \in Dispatchers : dpc[e] \in {"pick", "store", "push"} => ditem[e] \in 1 .. brk
      /\ \A t \in Tids : tpc[t] \in {"call", "post", "free"} => titem[t] \in 1 .. brk
      /\ ItemPerAlloc \in Nat /\ ItemPerAlloc > 1
    BY PoolAssumption DEF TInv, TypeOK, PoolTypeOK, DispatcherTypeOK, LocalsOK
<1>1. CASE brk + ItemPerAlloc > MaxItems
  <2>1. UNCHANGED <<freelist, brk, ditem, queue, tpc, titem>> /\ dpc[d] = "alloc" /\ dpc' = [dpc EXCEPT ![d] = "idle"]
    <3>1. MaxItems \in Nat
      BY PoolAssumption
    <3> QED BY <1>0, <1>1, <3>1 DEF RQItemNewAlloc
  <2> QED BY <1>0, <2>1, PlaceFrame DEF HoldingDispatchers, HoldingThreads
<1>2. CASE brk + ItemPerAlloc <= MaxItems
  <2> DEFINE blk == [k \in 1 .. ItemPerAlloc - 1 |-> brk + 1 + k]
  <2>0. PICK x \in Nat : x = brk + 1
    BY <1>0
  <2>1. /\ ditem' = [ditem EXCEPT ![d] = x] /\ freelist' = blk \o freelist
        /\ brk' = brk + ItemPerAlloc
        /\ dpc[d] = "alloc" /\ dpc' = [dpc EXCEPT ![d] = "pick"]
        /\ UNCHANGED <<queue, tpc, titem>>
    <3>1. MaxItems \in Nat
      BY PoolAssumption
    <3>2. ~(brk + ItemPerAlloc > MaxItems)
      BY <1>0, <1>2, <3>1
    <3> QED BY <2>0, <3>2 DEF RQItemNewAlloc
  <2>2. /\ blk \in Seq(Nat) /\ NoRepeats(blk)
        /\ \A i : Has(blk, i) <=> i \in brk + 2 .. brk + ItemPerAlloc
    <3>1. blk \in Seq(Nat) /\ DOMAIN blk = 1 .. ItemPerAlloc - 1
      <4>1. ItemPerAlloc - 1 \in Nat /\ blk \in [1 .. ItemPerAlloc - 1 -> Nat]
        BY <1>0
      <4> QED BY <4>1
    <3>2. NoRepeats(blk)
      BY <1>0 DEF NoRepeats
    <3>3. ASSUME NEW i, Has(blk, i) PROVE i \in brk + 2 .. brk + ItemPerAlloc
      BY <1>0, <3>3 DEF Has
    <3>4. ASSUME NEW i \in brk + 2 .. brk + ItemPerAlloc PROVE Has(blk, i)
      <4>1. i - brk - 1 \in DOMAIN blk /\ blk[i - brk - 1] = i
        BY <1>0
      <4> QED BY <4>1 DEF Has
    <3> QED BY <3>1, <3>2, <3>3, <3>4
  <2>3. /\ freelist \in Seq(Nat)
        /\ \A i : Has(freelist, i) => i \in 1 .. brk
        /\ \A s \in Slots : \A i : Has(queue[s], i) => i \in 1 .. brk
    <3>1. freelist \in Seq(Nat)
      BY <1>0
    <3>2. \A k \in DOMAIN freelist : freelist[k] \in 1 .. brk
      BY <1>0
    <3>3. \A s \in Slots : \A k \in DOMAIN queue[s] : queue[s][k] \in 1 .. brk
      BY <1>0
    <3> QED BY <3>1, <3>2, <3>3 DEF Has
  <2> HIDE DEF blk
  <2>4. /\ NoRepeats(freelist')
        /\ \A i : Has(freelist', i) <=> i \in brk + 2 .. brk + ItemPerAlloc \/ Has(freelist, i)
    <3>1. \A i : ~(Has(blk, i) /\ Has(freelist, i))
      BY <1>0, <2>2, <2>3
    <3> QED BY <2>1, <2>2, <2>3, <3>1, JoinedSeqs DEF PlaceInv
  <2>5. \A i \in Nat \ 1 .. brk : /\ ~IsFree(i) /\ QueuesWith(i) = {} 
                                  /\ HoldingDispatchers(i) = {} /\ HoldingThreads(i) = {}
    BY <1>0, <2>3 DEF IsFree, QueuesWith, HoldingDispatchers, HoldingThreads
  <2>6. /\ HoldingDispatchers(x)' = HoldingDispatchers(x) \cup {d}
        /\ \A i \in 1 .. brk' : i # x => HoldingDispatchers(i)' = HoldingDispatchers(i)
    BY <1>0, <2>1 DEF HoldingDispatchers
  <2>7. \A i : HoldingThreads(i)' = HoldingThreads(i) /\ QueuesWith(i)' = QueuesWith(i)
    BY <2>1 DEF HoldingThreads, QueuesWith
  <2>8. x \in Nat \ 1 .. brk /\ x \notin brk + 2 .. brk + ItemPerAlloc /\ x # 0
    BY <1>0, <2>0
  <2>9. WithDispatcher(x)'
    BY <2>4, <2>5, <2>6, <2>7, <2>8 DEF WithDispatcher, IsFree
  <2>10. ASSUME NEW i \in brk + 2 .. brk + ItemPerAlloc PROVE OnFreeList(i)'
    <3>1. i \in Nat \ 1 .. brk /\ i # x /\ i \in 1 .. brk'
      BY <1>0, <2>1, <2>8
    <3> QED BY <2>4, <2>5, <2>6, <2>7, <3>1 DEF OnFreeList, IsFree
  <2>11. ASSUME NEW i \in 1 .. brk PROVE InOnePlace(i)'
    <3>1. i # x /\ i \notin brk + 2 .. brk + ItemPerAlloc /\ i \in 1 .. brk'
      BY <1>0, <2>1, <2>8
    <3> QED BY <2>4, <2>6, <2>7, <3>1 DEF PlaceInv, InOnePlace, OnFreeList, InOneQueue, WithDispatcher, WithThread, IsFree
  <2>12. \A i \in 1 .. brk' : i \in 1 .. brk \/ i = x \/ i \in brk + 2 .. brk + ItemPerAlloc
    BY <1>0, <2>0, <2>1
  <2> QED BY <2>1, <2>4, <2>9, <2>10, <2>11, <2>12 DEF PlaceInv, InOnePlace
<1> QED
  <2>1. MaxItems \in Nat
    BY PoolAssumption
  <2> QED BY <1>0, <1>1, <1>2, <2>1

(* RQItemPush appends the dispatcher's item to a queue.                     *)
LEMMA PushPlace ==
    ASSUME TInv, PlaceInv, NEW d \in Dispatchers, RQItemPush(d)
    PROVE  PlaceInv'
<1>1. CASE xpc = "deleted"
    BY <1>1, PlaceFrame DEF RQItemPush, HoldingDispatchers, HoldingThreads
<1>2. CASE xpc # "deleted"
  <2>0. /\ queue \in [Slots -> Seq(1 .. brk)]
        /\ dpc \in [Dispatchers -> {"idle", "alloc", "pick", "store", "push", "notify"}]
        /\ ditem \in [Dispatchers -> 0 .. brk] /\ dslot[d] \in Slots
        /\ dpc[d] = "push" /\ ditem[d] \in 1 .. brk
    BY DEF RQItemPush, TInv, TypeOK, PoolTypeOK, DispatcherTypeOK, LocalsOK
  <2>1. PICK x \in 1 .. brk, p \in Slots : x = ditem[d] /\ p = dslot[d]
    BY <2>0
  <2>2. /\ queue' = [queue EXCEPT ![p] = Append(queue[p], x)]
        /\ ditem' = [ditem EXCEPT ![d] = 0] /\ dpc' = [dpc EXCEPT ![d] = "notify"]
        /\ UNCHANGED <<freelist, brk, tpc, titem>>
    BY <1>2, <2>1 DEF RQItemPush, Pushed
  <2>3. d \in HoldingDispatchers(x)
    BY <2>0, <2>1 DEF HoldingDispatchers
  <2>4. WithDispatcher(x) /\ HoldingDispatchers(x) = {d}
    BY <2>3 DEF PlaceInv, InOnePlace, OnFreeList, InOneQueue, WithDispatcher, WithThread
  <2>5. ~Has(queue[p], x)
    BY <2>4 DEF WithDispatcher, QueuesWith
  <2>6. /\ NoRepeats(Append(queue[p], x))
        /\ \A i : Has(Append(queue[p], x), i) <=> i = x \/ Has(queue[p], i)
    BY <2>0, <2>5, AppendedSeq DEF PlaceInv
  <2>7. /\ queue'[p] = Append(queue[p], x)
        /\ \A s \in Slots : s # p => queue'[s] = queue[s]
    BY <2>0, <2>2
  <2>8. /\ QueuesWith(x)' = QueuesWith(x) \cup {p}
        /\ \A i \in 1 .. brk : i # x => QueuesWith(i)' = QueuesWith(i)
    BY <2>6, <2>7 DEF QueuesWith
  <2>9. /\ HoldingDispatchers(x)' = {}
        /\ \A i \in 1 .. brk : i # x => HoldingDispatchers(i)' = HoldingDispatchers(i)
    <3>1. \A e \in Dispatchers : e # d => dpc'[e] = dpc[e] /\ ditem'[e] = ditem[e]
      BY <2>0, <2>2
    <3>2. dpc'[d] = "notify"
      BY <2>0, <2>2
    <3> QED BY <2>1, <2>4, <3>1, <3>2 DEF HoldingDispatchers
  <2>10. \A i : HoldingThreads(i)' = HoldingThreads(i) /\ (IsFree(i)' <=> IsFree(i))
    BY <2>2 DEF HoldingThreads, IsFree
  <2>11. InOneQueue(x)'
    BY <2>4, <2>8, <2>9, <2>10 DEF InOneQueue, WithDispatcher
  <2>12. ASSUME NEW i \in 1 .. brk, i # x PROVE InOnePlace(i)'
    BY <2>8, <2>9, <2>10, <2>12 DEF PlaceInv, InOnePlace, OnFreeList, InOneQueue, WithDispatcher, WithThread
  <2>13. NoRepeats(freelist') /\ \A s \in Slots : NoRepeats(queue'[s])
    BY <2>2, <2>6, <2>7 DEF PlaceInv
  <2> QED BY <2>2, <2>11, <2>12, <2>13 DEF PlaceInv, InOnePlace
<1> QED BY <1>1, <1>2

(* RQItemPop takes the head of a queue.                                     *)
LEMMA PopPlace ==
    ASSUME TInv, PlaceInv, NEW t \in Tids, RQItemPop(t)
    PROVE  PlaceInv'
<1>0. /\ queue \in [Slots -> Seq(1 .. brk)] /\ tslot[t] \in Slots /\ tpc[t] = "pop"
      /\ tpc \in [Tids -> {"none", "start", "loop", "read", "pop", "call",
                          "post", "free", "check", "leave", "dead"}]
      /\ titem \in [Tids -> 0 .. brk]
    BY DEF RQItemPop, TInv, TypeOK, PoolTypeOK, ThreadTypeOK, LocalsOK
<1>p. PICK p \in Slots : p = tslot[t]
    BY <1>0
<1>1. CASE queue[p] = <<>> \/ xpc = "deleted"
    BY <1>1, <1>p, PlaceFrame DEF RQItemPop, HoldingDispatchers, HoldingThreads
<1>2. CASE queue[p] # <<>> /\ xpc # "deleted"
  <2>1. PICK x \in 1 .. brk : x = Head(queue[p])
    BY <1>0, <1>2, HeadTail
  <2>2. /\ queue' = [queue EXCEPT ![p] = Tail(queue[p])]
        /\ titem' = [titem EXCEPT ![t] = x] /\ tpc' = [tpc EXCEPT ![t] = "call"]
        /\ UNCHANGED <<freelist, brk, dpc, ditem>>
    BY <1>2, <1>p, <2>1 DEF RQItemPop, Goto
  <2>3. /\ NoRepeats(Tail(queue[p])) /\ Has(queue[p], x)
        /\ \A i : Has(Tail(queue[p]), i) <=> Has(queue[p], i) /\ i # x
    BY <1>0, <1>2, <2>1, PoppedSeq DEF PlaceInv
  <2>4. p \in QueuesWith(x)
    BY <2>3 DEF QueuesWith
  <2>5. InOneQueue(x) /\ QueuesWith(x) = {p}
    BY <2>4 DEF PlaceInv, InOnePlace, OnFreeList, InOneQueue, WithDispatcher, WithThread
  <2>7. /\ queue'[p] = Tail(queue[p])
        /\ \A s \in Slots : s # p => queue'[s] = queue[s]
    BY <1>0, <2>2
  <2>8. /\ QueuesWith(x)' = {}
        /\ \A i \in 1 .. brk : i # x => QueuesWith(i)' = QueuesWith(i)
    BY <2>3, <2>5, <2>7 DEF QueuesWith
  <2>9. /\ HoldingThreads(x)' = {t}
        /\ \A i \in 1 .. brk : i # x => HoldingThreads(i)' = HoldingThreads(i)
    <3>1. \A e \in Tids : e # t => tpc'[e] = tpc[e] /\ titem'[e] = titem[e]
      BY <1>0, <2>2
    <3>2. tpc'[t] = "call" /\ titem'[t] = x
      BY <1>0, <2>2
    <3> QED BY <1>0, <2>5, <3>1, <3>2 DEF HoldingThreads, InOneQueue
  <2>10. \A i : HoldingDispatchers(i)' = HoldingDispatchers(i) /\ (IsFree(i)' <=> IsFree(i))
    BY <2>2 DEF HoldingDispatchers, IsFree
  <2>11. WithThread(x)'
    BY <2>5, <2>8, <2>9, <2>10 DEF InOneQueue, WithThread
  <2>12. ASSUME NEW i \in 1 .. brk, i # x PROVE InOnePlace(i)'
    BY <2>8, <2>9, <2>10, <2>12 DEF PlaceInv, InOnePlace, OnFreeList, InOneQueue, WithDispatcher, WithThread
  <2>13. NoRepeats(freelist') /\ \A s \in Slots : NoRepeats(queue'[s])
    BY <2>2, <2>3, <2>7 DEF PlaceInv
  <2> QED BY <2>2, <2>11, <2>12, <2>13 DEF PlaceInv, InOnePlace
<1> QED BY <1>1, <1>2

(* A thread gives its item back, at the end of LibevProcessor or in the     *)
(* cleanup handler when it is cancelled.                                    *)
LEMMA FreePlace ==
    ASSUME TInv, PlaceInv, NEW t \in Tids, tpc[t] \in {"call", "post", "free"},
           freelist' = Freed(titem[t]), titem' = [titem EXCEPT ![t] = NoItem],
           tpc' = [tpc EXCEPT ![t] = "check"] \/ tpc' = [tpc EXCEPT ![t] = "dead"],
           UNCHANGED <<brk, queue, dpc, ditem>>
    PROVE  PlaceInv'
<1>0. /\ freelist \in Seq(1 .. brk) /\ titem[t] \in 1 .. brk
      /\ tpc \in [Tids -> {"none", "start", "loop", "read", "pop", "call",
                          "post", "free", "check", "leave", "dead"}]
      /\ titem \in [Tids -> 0 .. brk]
    BY DEF TInv, TypeOK, PoolTypeOK, ThreadTypeOK, LocalsOK
<1>1. PICK x \in 1 .. brk : x = titem[t]
    BY <1>0
<1>2. t \in HoldingThreads(x)
    BY <1>1 DEF HoldingThreads
<1>3. WithThread(x) /\ HoldingThreads(x) = {t}
    BY <1>2 DEF PlaceInv, InOnePlace, OnFreeList, InOneQueue, WithDispatcher, WithThread
<1>4. ~Has(freelist, x)
    BY <1>3 DEF WithThread, IsFree
<1>5. freelist' = <<x>> \o freelist
    BY <1>1 DEF Freed
<1>6. NoRepeats(freelist') /\ \A i : Has(freelist', i) <=> i = x \/ Has(freelist, i)
  <2>1. NoRepeats(freelist)
    BY DEF PlaceInv
  <2>2. /\ NoRepeats(<<x>> \o freelist)
        /\ \A i : Has(<<x>> \o freelist, i) <=> i = x \/ Has(freelist, i)
    BY <1>0, <1>4, <2>1, PrependedSeq
  <2> QED BY <1>5, <2>2
<1>7. /\ HoldingThreads(x)' = {}
      /\ \A i \in 1 .. brk : i # x => HoldingThreads(i)' = HoldingThreads(i)
  <2>1. \A e \in Tids : e # t => tpc'[e] = tpc[e] /\ titem'[e] = titem[e]
    BY <1>0
  <2>2. tpc'[t] \in {"check", "dead"}
    BY <1>0
  <2> QED BY <1>1, <1>3, <2>1, <2>2 DEF HoldingThreads
<1>8. \A i : HoldingDispatchers(i)' = HoldingDispatchers(i) /\ QueuesWith(i)' = QueuesWith(i)
    BY DEF HoldingDispatchers, QueuesWith
<1>9. OnFreeList(x)'
    BY <1>3, <1>6, <1>7, <1>8 DEF OnFreeList, WithThread, IsFree
<1>10. ASSUME NEW i \in 1 .. brk, i # x PROVE InOnePlace(i)'
    BY <1>6, <1>7, <1>8, <1>10 DEF PlaceInv, InOnePlace, OnFreeList, InOneQueue, WithDispatcher, WithThread, IsFree
<1> QED BY <1>6, <1>9, <1>10 DEF PlaceInv, InOnePlace

(* Every step keeps every item in one place.                                *)
LEMMA NextPlace == TInv /\ PlaceInv /\ [Next]_vars => PlaceInv'
<1> SUFFICES ASSUME TInv, PlaceInv, [Next]_vars PROVE PlaceInv'
    OBVIOUS
<1>t. /\ dpc \in [Dispatchers -> {"idle", "alloc", "pick", "store", "push", "notify"}]
      /\ tpc \in [Tids -> {"none", "start", "loop", "read", "pop", "call",
                          "post", "free", "check", "leave", "dead"}]
    BY DEF TInv, TypeOK, DispatcherTypeOK, ThreadTypeOK
<1>1. ASSUME NEW d \in Dispatchers, PickThread(d) \/ StoreThread(d) \/ Notify(d) PROVE PlaceInv'
    BY <1>1, <1>t, PlaceFrame DEF PickThread, StoreThread, Notify, HoldingDispatchers, HoldingThreads
<1>2. ASSUME NEW t \in Tids, \/ TouchDestroyedLoop(t) \/ EnterRun(t) \/ Wake(t) \/ ReadCall(t)
                             \/ ReadQuit(t) \/ CheckDone(t) \/ LoopDestroy(t)
      PROVE  PlaceInv'
  <2>1. /\ UNCHANGED <<freelist, queue, brk, dpc, ditem, titem>>
        /\ \/ tpc' = tpc
           \/ /\ tpc[t] \in {"start", "loop", "read", "check", "leave"}
              /\ \E pc \in {"loop", "read", "pop", "check", "leave", "dead"} : tpc' = [tpc EXCEPT ![t] = pc]
    BY <1>2 DEF TouchDestroyedLoop, EnterRun, Wake, ReadCall, ReadQuit, CheckDone, LoopDestroy, Goto
  <2>2. \A i \in 1 .. brk : HoldingThreads(i)' = HoldingThreads(i)
    BY <1>t, <2>1 DEF HoldingThreads
  <2> QED BY <2>1, <2>2, PlaceFrame DEF HoldingDispatchers
<1>3. ASSUME NEW t \in Tids, CallReturns(t) \/ BumpVersion(t) PROVE PlaceInv'
    BY <1>3, <1>t, PlaceFrame DEF CallReturns, BumpVersion, Goto, HoldingDispatchers, HoldingThreads
<1>4. ASSUME NEW t \in Tids, RQItemFree(t) PROVE PlaceInv'
    BY <1>4, FreePlace DEF RQItemFree, Goto
<1>5. ASSUME NEW t \in Tids, Cancelled(t) PROVE PlaceInv'
  <2>1. CASE tpc[t] = "call"
    BY <1>5, <2>1, FreePlace DEF Cancelled, CancelPoints, Goto
  <2>2. CASE tpc[t] # "call"
    <3>1. /\ UNCHANGED <<freelist, queue, brk, dpc, ditem, titem>>
          /\ tpc[t] \in {"loop", "read", "leave"} /\ tpc' = [tpc EXCEPT ![t] = "dead"]
      BY <1>5, <2>2 DEF Cancelled, CancelPoints, HandlerPoints, Goto
    <3> QED BY <1>t, <3>1, PlaceFrame DEF HoldingDispatchers, HoldingThreads
  <2> QED BY <2>1, <2>2
<1>6. ASSUME NEW s \in Slots, Observe(s) PROVE PlaceInv'
    BY <1>6, PlaceFrame DEF Observe, HoldingDispatchers, HoldingThreads
<1>7. ASSUME NEW sn \in snaps, RestartStale(sn) \/ RestartBreak(sn) PROVE PlaceInv'
    BY <1>7, PlaceFrame DEF RestartStale, RestartBreak, HoldingDispatchers, HoldingThreads
<1>8. CASE RestartCancel
    BY <1>8, PlaceFrame DEF RestartCancel, HoldingDispatchers, HoldingThreads
<1>9. CASE RestartCreate
  <2>1. tpc[nextTid] = "none" /\ nextTid \in Tids /\ nextTid >= nextTid
    BY <1>9 DEF RestartCreate, TInv, LocalsOK, TypeOK, ThreadTypeOK, Tids
  <2> QED BY <1>9, <1>t, <2>1, PlaceFrame DEF RestartCreate, HoldingDispatchers, HoldingThreads
<1>10. CASE Destroy
    BY <1>10, PlaceFrame DEF Destroy, DestroyBegin, WriteQuit, Joined, HoldingDispatchers, HoldingThreads
<1>11. CASE UNCHANGED vars
    BY <1>11, PlaceFrame DEF vars, HoldingDispatchers, HoldingThreads
<1> QED BY <1>1, <1>2, <1>3, <1>4, <1>5, <1>6, <1>7, <1>8, <1>9, <1>10, <1>11, TakePlace, AllocPlace, PushPlace, PopPlace
        DEF Next, DispatchRpcCall, DispatchStep, LibevWorker, RestartThread

(* TInv and PlaceInv hold in every state the pool reaches.                  *)
LEMMA PlaceInvAlways == Spec => [](TInv /\ PlaceInv)
<1>1. Init => PlaceInv
    BY DEF Init, PlaceInv, NoRepeats
<1> QED BY <1>1, InitTInv, NextTInv, NextPlace, PTL DEF Spec

(* In any pool every item that malloc returned is in exactly one place, so  *)
(* none is leaked or freed twice, whichever threads are cancelled when.     *)
THEOREM ItemsHeldOnce == Spec => []ItemHeldOnce
<1>1. TInv /\ PlaceInv => ItemHeldOnce
  <2> SUFFICES ASSUME TInv, PlaceInv, NEW i \in 1 .. brk PROVE Cardinality(Holders(i)) = 1
    BY DEF ItemHeldOnce
  <2> DEFINE F == {<<"free", 0, k>> : k \in {n \in DOMAIN freelist : freelist[n] = i}}
             Q == UNION {{<<"queue", s, k>> : k \in {n \in DOMAIN queue[s] : queue[s][n] = i}} : s \in Slots}
             D == {<<"dispatcher", 0, d>> : d \in HoldingDispatchers(i)}
             T == {<<"thread", 0, t>> : t \in HoldingThreads(i)}
  <2>0. Holders(i) = F \cup Q \cup D \cup T
    BY DEF Holders
  <2>1. ~IsFree(i) => F = {}
    BY DEF IsFree, Has
  <2>2. QueuesWith(i) = {} => Q = {}
    BY DEF QueuesWith, Has
  <2>3. (HoldingDispatchers(i) = {} => D = {}) /\ (HoldingThreads(i) = {} => T = {})
    OBVIOUS
  <2>4. CASE OnFreeList(i)
    <3>1. PICK k \in DOMAIN freelist : freelist[k] = i
      BY <2>4 DEF OnFreeList, IsFree, Has
    <3>2. {n \in DOMAIN freelist : freelist[n] = i} = {k}
      BY <3>1 DEF PlaceInv, NoRepeats
    <3>3. F = {<<"free", 0, k>>}
      BY <3>2
    <3> HIDE DEF F, Q, D, T
    <3>4. Holders(i) = {<<"free", 0, k>>}
      BY <2>0, <2>2, <2>3, <2>4, <3>3 DEF OnFreeList
    <3> QED BY <3>4, FS_Singleton
  <2>5. CASE InOneQueue(i)
    <3>1. PICK p \in Slots : QueuesWith(i) = {p}
      BY <2>5 DEF InOneQueue
    <3>2. PICK k \in DOMAIN queue[p] : queue[p][k] = i
      BY <3>1 DEF QueuesWith, Has
    <3>3. {n \in DOMAIN queue[p] : queue[p][n] = i} = {k}
      BY <3>2 DEF PlaceInv, NoRepeats
    <3>4. \A s \in Slots : s # p => {n \in DOMAIN queue[s] : queue[s][n] = i} = {}
      BY <3>1 DEF QueuesWith, Has
    <3>5. Q = {<<"queue", p, k>>}
      <4>1. \A x \in Q : x = <<"queue", p, k>>
        BY <3>3, <3>4
      <4>2. <<"queue", p, k>> \in Q
        BY <3>3
      <4> HIDE DEF Q
      <4> QED BY <4>1, <4>2
    <3> HIDE DEF F, Q, D, T
    <3>6. Holders(i) = {<<"queue", p, k>>}
      BY <2>0, <2>1, <2>3, <2>5, <3>5 DEF InOneQueue
    <3> QED BY <3>6, FS_Singleton
  <2>6. CASE WithDispatcher(i)
    <3>1. PICK d \in Dispatchers : HoldingDispatchers(i) = {d}
      BY <2>6 DEF WithDispatcher
    <3>2. D = {<<"dispatcher", 0, d>>}
      BY <3>1
    <3> HIDE DEF F, Q, D, T
    <3>3. Holders(i) = {<<"dispatcher", 0, d>>}
      BY <2>0, <2>1, <2>2, <2>3, <2>6, <3>2 DEF WithDispatcher
    <3> QED BY <3>3, FS_Singleton
  <2>7. CASE WithThread(i)
    <3>1. PICK t \in Tids : HoldingThreads(i) = {t}
      BY <2>7 DEF WithThread
    <3>2. T = {<<"thread", 0, t>>}
      BY <3>1
    <3> HIDE DEF F, Q, D, T
    <3>3. Holders(i) = {<<"thread", 0, t>>}
      BY <2>0, <2>1, <2>2, <2>3, <2>7, <3>2 DEF WithThread
    <3> QED BY <3>3, FS_Singleton
  <2> QED BY <2>4, <2>5, <2>6, <2>7 DEF PlaceInv, InOnePlace
<1> QED BY <1>1, PlaceInvAlways, PTL
-----------------------------------------------------------------------------
(***************************************************************************)
(* What a caller of RestartThread has noted.                                *)
(***************************************************************************)
Over(t) == tcancel[t] \/ tpc[t] = "dead"

(* The table names threads of their slots; a thread it does not name is     *)
(* over, or serves slot 0, whose entry is overwritten for unknown threads.  *)
TableInv ==
    /\ \A s \in Slots : thread_id[s] < nextTid /\ tslot[thread_id[s]] = s
    /\ \A t \in Tids : t < nextTid => /\ tslot[t] \in Slots
                                      /\ Over(t) \/ tslot[t] = 0 \/ thread_id[tslot[t]] = t

(* Since the version was noted it has grown with every call of the thread.  *)
NotedInv(sn) ==
    /\ sn.tid < nextTid /\ sn.done <= completed[sn.tid]
    /\ completed[sn.tid] - sn.done <= running_version[tslot[sn.tid]] - sn.ver

RestartInv ==
    /\ TableInv /\ \A sn \in snaps : NotedInv(sn)
    /\ rpc # "idle" => /\ rsnap.tid < nextTid
                       /\ \/ thread_id[rslot] = rsnap.tid
                          \/ rslot = 0 /\ \A s \in Slots : thread_id[s] # rsnap.tid
    /\ rpc = "broken" => \/ Over(rsnap.tid)
                         \/ tslot[rsnap.tid] = rslot /\ completed[rsnap.tid] = rsnap.done
    /\ rpc = "create" => Over(rsnap.tid)

(* Initially slot s is served by thread s + 1.                              *)
LEMMA InitRestart == Init => RestartInv
<1> SUFFICES ASSUME Init PROVE RestartInv
    OBVIOUS
<1>1. NumThreads \in Nat /\ MaxTids \in Nat /\ NumThreads <= MaxTids
    BY PoolAssumption
<1>2. TableInv
  <2>1. \A s \in Slots : thread_id[s] < nextTid /\ tslot[thread_id[s]] = s
    BY <1>1 DEF Init, Slots, Tids
  <2>2. \A t \in Tids : t < nextTid => /\ tslot[t] \in Slots
                                       /\ thread_id[tslot[t]] = t
    BY <1>1 DEF Init, Slots, Tids
  <2> QED BY <2>1, <2>2 DEF TableInv
<1> QED BY <1>2 DEF Init, RestartInv

(* A step that changes neither the table nor a version, cancels nobody and  *)
(* revives nobody keeps RestartInv.                                         *)
LEMMA RestartFrame ==
    ASSUME TInv, RestartInv,
           UNCHANGED <<thread_id, nextTid, tslot, tcancel, completed, running_version,
                       rpc, rsnap, rslot, snaps>>,
           \A t \in Tids : tpc[t] = "dead" => tpc'[t] = "dead"
    PROVE  RestartInv'
<1>1. rsnap.tid \in Tids
    BY DEF TInv, TypeOK, CallerTypeOK, Snapshots
<1>2. \A t \in Tids : Over(t) => Over(t)'
    BY DEF Over
<1>3. TableInv'
    BY <1>2 DEF RestartInv, TableInv
<1>4. \A sn \in snaps : NotedInv(sn)'
    BY DEF RestartInv, NotedInv
<1> QED BY <1>1, <1>2, <1>3, <1>4 DEF RestartInv

(* BumpVersion counts the call in the slot's version too; while             *)
(* RestartThread holds version_mutex the named thread cannot be at it.      *)
LEMMA BumpRestart ==
    ASSUME TInv, RestartInv, NEW t \in Tids, BumpVersion(t)
    PROVE  RestartInv'
<1>0. /\ running_version \in [Slots -> Nat] /\ completed \in [Tids -> Nat]
      /\ rsnap \in Snapshots /\ snaps \subseteq Snapshots /\ tslot[t] \in Slots
      /\ tpc \in [Tids -> {"none", "start", "loop", "read", "pop", "call",
                          "post", "free", "check", "leave", "dead"}]
    BY DEF BumpVersion, TInv, TypeOK, PoolTypeOK, ThreadTypeOK, CallerTypeOK, LocalsOK
<1>1. /\ running_version' = [running_version EXCEPT ![tslot[t]] = @ + 1]
      /\ completed' = [completed EXCEPT ![t] = @ + 1]
      /\ tpc[t] = "post" /\ tpc' = [tpc EXCEPT ![t] = "free"]
      /\ rpc = "broken" => rslot # tslot[t]
      /\ UNCHANGED <<thread_id, nextTid, tslot, tcancel, rpc, rsnap, rslot, snaps>>
    BY DEF BumpVersion, VersionLocked, Goto
<1>2. \A u \in Tids : (Over(u) => Over(u)') /\ (u # t => completed'[u] = completed[u])
    BY <1>0, <1>1 DEF Over
<1>3. TableInv'
    BY <1>1, <1>2 DEF RestartInv, TableInv
<1>4. ASSUME NEW sn \in snaps PROVE NotedInv(sn)'
  <2>1. /\ sn.tid \in Tids /\ sn.tid < nextTid /\ sn.done \in Nat /\ sn.ver \in Nat
        /\ tslot[sn.tid] \in Slots
    BY <1>0 DEF RestartInv, TableInv, NotedInv, Snapshots
  <2>2. /\ running_version'[tslot[sn.tid]] >= running_version[tslot[sn.tid]]
        /\ sn.tid = t => running_version'[tslot[sn.tid]] = running_version[tslot[sn.tid]] + 1
        /\ sn.tid = t => completed'[sn.tid] = completed[sn.tid] + 1
        /\ completed[sn.tid] \in Nat /\ running_version[tslot[sn.tid]] \in Nat
        /\ running_version'[tslot[sn.tid]] \in Nat
    BY <1>0, <1>1, <2>1
  <2>3. NotedInv(sn)
    BY DEF RestartInv
  <2>4. CASE sn.tid = t
    BY <1>1, <2>1, <2>2, <2>3, <2>4 DEF NotedInv
  <2>5. CASE sn.tid # t
    BY <1>1, <1>2, <2>1, <2>2, <2>3, <2>5 DEF NotedInv
  <2> QED BY <2>4, <2>5
<1>5. rsnap.tid \in Tids
    BY <1>0 DEF Snapshots
<1> QED BY <1>1, <1>2, <1>3, <1>4, <1>5 DEF RestartInv

(* RestartThread goes on only when the noted version is still the slot's;   *)
(* then the thread has completed no call since.                             *)
LEMMA BreakRestart ==
    ASSUME TInv, RestartInv, NEW sn \in snaps, RestartBreak(sn)
    PROVE  RestartInv'
<1>0. /\ running_version \in [Slots -> Nat] /\ completed \in [Tids -> Nat]
      /\ snaps \subseteq Snapshots /\ sn \in Snapshots
    BY DEF TInv, TypeOK, PoolTypeOK, ThreadTypeOK, CallerTypeOK
<1>1. PICK p : p = IndexOf(sn.tid)
    OBVIOUS
<1>2. /\ p \in Slots
      /\ thread_id[p] = sn.tid \/ (p = 0 /\ \A s \in Slots : thread_id[s] # sn.tid)
    BY <1>1, PoolAssumption DEF IndexOf, Slots
<1>3. /\ rpc' = "broken" /\ rsnap' = sn /\ rslot' = p /\ snaps' = snaps \ {sn}
      /\ ~(running_version[p] > sn.ver)
      /\ UNCHANGED <<thread_id, nextTid, tslot, tcancel, tpc, completed, running_version>>
    BY <1>1 DEF RestartBreak, Superseded
<1>4. TableInv'
    BY <1>3 DEF RestartInv, TableInv, Over
<1>5. \A m \in snaps' : NotedInv(m)'
    BY <1>3 DEF RestartInv, NotedInv
<1>6. NotedInv(sn) /\ sn.tid \in Tids /\ sn.done \in Nat /\ sn.ver \in Nat
    BY <1>0 DEF RestartInv, Snapshots
<1>7. ASSUME ~Over(sn.tid) PROVE tslot[sn.tid] = p /\ completed[sn.tid] = sn.done
  <2>1. tslot[sn.tid] = p
    BY <1>2, <1>6, <1>7 DEF RestartInv, TableInv, NotedInv
  <2> QED BY <1>0, <1>2, <1>3, <1>6, <2>1 DEF NotedInv
<1> QED BY <1>2, <1>3, <1>4, <1>5, <1>6, <1>7 DEF RestartInv, NotedInv, Over

(* The thread that loses its entry of the table has been cancelled, or      *)
(* serves slot 0 and the cancelled one was unknown.                         *)
LEMMA CreateRestart ==
    ASSUME TInv, RestartInv, RestartCreate
    PROVE  RestartInv'
<1>0. /\ thread_id \in [Slots -> Tids] /\ rslot \in Slots /\ nextTid \in Tids /\ Tids \subseteq Nat
      /\ tslot \in [Tids -> Slots \cup {NoSlot}] /\ snaps \subseteq Snapshots
      /\ tpc \in [Tids -> {"none", "start", "loop", "read", "pop", "call",
                          "post", "free", "check", "leave", "dead"}]
    BY DEF RestartCreate, TInv, TypeOK, ThreadTypeOK, CallerTypeOK, LocalsOK, Tids
<1>1. /\ rpc = "create" /\ rpc' = "idle"
      /\ tpc' = [tpc EXCEPT ![nextTid] = "start"] /\ tslot' = [tslot EXCEPT ![nextTid] = rslot]
      /\ thread_id' = [thread_id EXCEPT ![rslot] = nextTid] /\ nextTid' = nextTid + 1
      /\ UNCHANGED <<tcancel, completed, running_version, snaps>>
    BY DEF RestartCreate
<1>n. \A t \in Tids : t < nextTid => t < nextTid'
    BY <1>0, <1>1 DEF Tids
<1>2. \A t \in Tids : t < nextTid => tslot'[t] = tslot[t] /\ (Over(t)' <=> Over(t))
    BY <1>0, <1>1 DEF Over
<1>3. \A s \in Slots : thread_id'[s] < nextTid' /\ tslot'[thread_id'[s]] = s
  <2> TAKE s \in Slots
  <2>1. CASE s = rslot
    BY <1>0, <1>1, <2>1
  <2>2. CASE s # rslot
    <3>1. thread_id'[s] = thread_id[s] /\ thread_id[s] \in Tids
      BY <1>0, <1>1, <2>2
    <3>2. thread_id[s] < nextTid /\ tslot[thread_id[s]] = s
      BY DEF RestartInv, TableInv
    <3> QED BY <1>2, <1>n, <3>1, <3>2
  <2> QED BY <2>1, <2>2
<1>4. ASSUME NEW t \in Tids, t < nextTid'
      PROVE  tslot'[t] \in Slots /\ (Over(t)' \/ tslot'[t] = 0 \/ thread_id'[tslot'[t]] = t)
  <2>1. CASE t = nextTid
    BY <1>0, <1>1, <2>1
  <2>2. CASE t # nextTid
    <3>1. t < nextTid
      BY <1>0, <1>1, <1>4, <2>2
    <3>2. tslot[t] \in Slots /\ (Over(t) \/ tslot[t] = 0 \/ thread_id[tslot[t]] = t)
      BY <3>1 DEF RestartInv, TableInv
    <3>3. CASE thread_id[tslot[t]] = t /\ tslot[t] = rslot
      BY <1>1, <1>2, <3>1, <3>2, <3>3 DEF RestartInv
    <3>4. CASE thread_id[tslot[t]] = t /\ tslot[t] # rslot
      BY <1>0, <1>1, <1>2, <3>1, <3>2, <3>4
    <3> QED BY <1>2, <3>1, <3>2, <3>3, <3>4
  <2> QED BY <2>1, <2>2
<1>5. TableInv'
    BY <1>3, <1>4 DEF TableInv
<1>6. ASSUME NEW sn \in snaps PROVE NotedInv(sn)'
  <2>1. NotedInv(sn) /\ sn.tid \in Tids
    BY <1>0 DEF RestartInv, Snapshots
  <2>2. sn.tid < nextTid /\ sn.tid < nextTid'
    BY <1>n, <2>1 DEF NotedInv
  <2>3. tslot'[sn.tid] = tslot[sn.tid]
    BY <1>2, <2>1, <2>2
  <2> QED BY <1>1, <2>1, <2>2, <2>3 DEF NotedInv
<1> QED BY <1>1, <1>5, <1>6 DEF RestartInv

(* Every step keeps RestartInv.                                             *)
LEMMA NextRestart == TInv /\ RestartInv /\ [Next]_vars => RestartInv'
<1> SUFFICES ASSUME TInv, RestartInv, [Next]_vars PROVE RestartInv'
    OBVIOUS
<1>t. /\ tpc \in [Tids -> {"none", "start", "loop", "read", "pop", "call",
                          "post", "free", "check", "leave", "dead"}]
      /\ tcancel \in [Tids -> BOOLEAN] /\ rsnap.tid \in Tids
    BY DEF TInv, TypeOK, ThreadTypeOK, CallerTypeOK, Snapshots
<1>1. ASSUME NEW d \in Dispatchers, DispatchRpcCall(d) PROVE RestartInv'
    BY <1>1, RestartFrame DEF DispatchRpcCall, DispatchStep, RQItemNewTake, RQItemNewAlloc, PickThread,
       StoreThread, RQItemPush, Notify
<1>2. ASSUME NEW t \in Tids, LibevWorker(t), ~BumpVersion(t) PROVE RestartInv'
  <2>1. UNCHANGED <<thread_id, nextTid, tslot, tcancel, completed, running_version, rpc, rsnap, rslot, snaps>>
    BY <1>2 DEF LibevWorker, TouchDestroyedLoop, EnterRun, Wake, ReadCall, ReadQuit, RQItemPop,
       CallReturns, RQItemFree, CheckDone, LoopDestroy, Cancelled
  <2>2. \/ tpc' = tpc
        \/ tpc[t] # "dead" /\ \E pc : tpc' = [tpc EXCEPT ![t] = pc]
    BY <1>2 DEF LibevWorker, TouchDestroyedLoop, EnterRun, Wake, ReadCall, ReadQuit, RQItemPop,
       CallReturns, RQItemFree, CheckDone, LoopDestroy, Cancelled, CancelPoints, HandlerPoints, Goto
  <2> QED BY <1>t, <2>1, <2>2, RestartFrame
<1>3. ASSUME NEW s \in Slots, Observe(s) PROVE RestartInv'
  <2> DEFINE sn == [tid |-> thread_id[s], ver |-> running_version[s], done |-> completed[thread_id[s]]]
  <2>1. /\ snaps' = snaps \cup {sn}
        /\ UNCHANGED <<thread_id, nextTid, tslot, tcancel, tpc, completed, running_version, rpc, rsnap, rslot>>
    BY <1>3 DEF Observe
  <2>2. /\ thread_id[s] \in Tids /\ completed[thread_id[s]] \in Nat /\ running_version[s] \in Nat
        /\ thread_id[s] < nextTid /\ tslot[thread_id[s]] = s
    BY DEF RestartInv, TableInv, TInv, TypeOK, PoolTypeOK, ThreadTypeOK
  <2>3. NotedInv(sn)
    BY <2>2 DEF NotedInv
  <2> HIDE DEF sn
  <2>4. \A m \in snaps' : NotedInv(m)'
    BY <2>1, <2>3 DEF RestartInv, NotedInv
  <2>5. TableInv'
    BY <2>1 DEF RestartInv, TableInv, Over
  <2> QED BY <2>1, <2>4, <2>5 DEF RestartInv, Over
<1>4. ASSUME NEW sn \in snaps, RestartStale(sn) PROVE RestartInv'
  <2>1. /\ snaps' = snaps \ {sn}
        /\ UNCHANGED <<thread_id, nextTid, tslot, tcancel, tpc, completed, running_version, rpc, rsnap, rslot>>
    BY <1>4 DEF RestartStale
  <2>2. TableInv' /\ \A m \in snaps' : NotedInv(m)'
    BY <2>1 DEF RestartInv, TableInv, NotedInv, Over
  <2> QED BY <2>1, <2>2 DEF RestartInv, Over
<1>5. CASE RestartCancel
  <2>1. /\ rpc = "broken" /\ rpc' = "create"
        /\ tcancel' = [tcancel EXCEPT ![rsnap.tid] = @ \/ tpc[rsnap.tid] # "dead"]
        /\ UNCHANGED <<thread_id, nextTid, tslot, tpc, completed, running_version, rsnap, rslot, snaps>>
    BY <1>5 DEF RestartCancel
  <2>2. \A t \in Tids : t # rsnap.tid => tcancel'[t] = tcancel[t]
    BY <1>t, <2>1
  <2>3. tcancel'[rsnap.tid] = (tcancel[rsnap.tid] \/ tpc[rsnap.tid] # "dead")
    BY <1>t, <2>1
  <2>4. Over(rsnap.tid)' /\ \A t \in Tids : Over(t) => Over(t)'
    BY <2>1, <2>2, <2>3 DEF Over
  <2>5. TableInv' /\ \A m \in snaps' : NotedInv(m)'
    BY <2>1, <2>4 DEF RestartInv, TableInv, NotedInv
  <2> QED BY <2>1, <2>4, <2>5 DEF RestartInv
<1>6. CASE Destroy
    BY <1>6, RestartFrame DEF Destroy, DestroyBegin, WriteQuit, Joined
<1>7. CASE UNCHANGED vars
    BY <1>7, RestartFrame DEF vars
<1> QED BY <1>1, <1>2, <1>3, <1>4, <1>5, <1>6, <1>7, BumpRestart, BreakRestart, CreateRestart
        DEF Next, RestartThread

(* In any pool RestartThread cancels a thread only while that thread has    *)
(* completed no call since its version was noted, even when the table no    *)
(* longer names it.                                                         *)
THEOREM OnlyNamedCallCancelled == Spec => CancelNamesRunningCall
<1> DEFINE Named == \A t \in Tids : ~tcancel[t] /\ tcancel'[t] => completed[t] = rsnap.done
<1>1. ASSUME TInv, RestartInv, [Next]_vars PROVE [Named]_vars
  <2>0. tcancel \in [Tids -> BOOLEAN] /\ rsnap.tid \in Tids
    BY <1>1 DEF TInv, TypeOK, ThreadTypeOK, CallerTypeOK, Snapshots
  <2>1. ASSUME NEW d \in Dispatchers, DispatchRpcCall(d) PROVE tcancel' = tcancel
    BY <2>1 DEF DispatchRpcCall, DispatchStep, RQItemNewTake, RQItemNewAlloc, PickThread,
       StoreThread, RQItemPush, Notify
  <2>2. ASSUME NEW t \in Tids, LibevWorker(t) PROVE tcancel' = tcancel
    BY <2>2 DEF LibevWorker, TouchDestroyedLoop, EnterRun, Wake, ReadCall, ReadQuit, RQItemPop,
       CallReturns, BumpVersion, RQItemFree, CheckDone, LoopDestroy, Cancelled
  <2>3. ASSUME NEW s \in Slots, Observe(s) PROVE tcancel' = tcancel
    BY <2>3 DEF Observe
  <2>4. ASSUME NEW sn \in snaps, RestartStale(sn) \/ RestartBreak(sn) PROVE tcancel' = tcancel
    BY <2>4 DEF RestartStale, RestartBreak
  <2>5. ASSUME RestartCreate \/ Destroy \/ UNCHANGED vars PROVE tcancel' = tcancel
    BY <2>5 DEF RestartCreate, Destroy, DestroyBegin, WriteQuit, Joined, vars
  <2>6. CASE RestartCancel
    <3>1. /\ rpc = "broken"
          /\ tcancel' = [tcancel EXCEPT ![rsnap.tid] = @ \/ tpc[rsnap.tid] # "dead"]
      BY <2>6 DEF RestartCancel
    <3>2. ASSUME NEW t \in Tids, ~tcancel[t], tcancel'[t] PROVE completed[t] = rsnap.done
      <4>1. t = rsnap.tid
        BY <2>0, <3>1, <3>2
      <4>2. tpc[t] # "dead"
        BY <2>0, <3>1, <3>2, <4>1
      <4> QED BY <1>1, <3>1, <3>2, <4>1, <4>2 DEF RestartInv, Over
    <3> QED BY <3>2
  <2>7. tcancel' = tcancel => Named
    OBVIOUS
  <2> HIDE DEF Named
  <2> QED BY <1>1, <2>1, <2>2, <2>3, <2>4, <2>5, <2>6, <2>7 DEF Next, RestartThread
<1> QED BY <1>1, InitTInv, NextTInv, InitRestart, NextRestart, PTL DEF Spec, CancelNamesRunningCall
-----------------------------------------------------------------------------
(***************************************************************************)
(* The calls the pool works on are carried by different items.              *)
(***************************************************************************)
Carries(i) ==
    \/ QueuesWith(i) # {}
    \/ \E d \in Dispatchers : dpc[d] = "push" /\ ditem[d] = i
    \/ \E t \in Tids : tpc[t] = "call" /\ titem[t] = i
Preparing(d) == dpc[d] \in {"alloc", "pick", "store"}

CarriedInv ==
    /\ \A i \in Items : Carries(i) => param[i] \in 1 .. issued /\ outcome[param[i]] = "none"
    /\ \A i, j \in Items : Carries(i) /\ Carries(j) /\ param[i] = param[j] => i = j
    /\ \A d \in Dispatchers : dpc[d] = "push" => param[ditem[d]] = dcall[d]
    /\ \A d \in Dispatchers : Preparing(d) =>
          /\ dcall[d] \in 1 .. issued /\ outcome[dcall[d]] = "none"
          /\ \A i \in Items : Carries(i) => param[i] # dcall[d]
          /\ \A e \in Dispatchers : Preparing(e) /\ dcall[e] = dcall[d] => e = d
    /\ \A c \in Calls : c > issued => outcome[c] = "none"

(* What being in one place excludes.                                        *)
LEMMA Exclusive ==
    ASSUME PlaceInv, NEW i \in 1 .. brk
    PROVE  /\ \A d \in HoldingDispatchers(i) :
                 HoldingDispatchers(i) = {d} /\ QueuesWith(i) = {} /\ HoldingThreads(i) = {}
           /\ \A t \in HoldingThreads(i) :
                 HoldingThreads(i) = {t} /\ QueuesWith(i) = {} /\ HoldingDispatchers(i) = {}
           /\ QueuesWith(i) # {} => HoldingDispatchers(i) = {} /\ HoldingThreads(i) = {}
<1>1. InOnePlace(i)
    BY DEF PlaceInv
<1>2. CASE OnFreeList(i)
    BY <1>2 DEF OnFreeList
<1>3. CASE InOneQueue(i)
    BY <1>3 DEF InOneQueue
<1>4. CASE WithDispatcher(i)
    BY <1>4 DEF WithDispatcher
<1>5. CASE WithThread(i)
    BY <1>5 DEF WithThread
<1> QED BY <1>1, <1>2, <1>3, <1>4, <1>5 DEF InOnePlace

(* An item in use is one of Items, and a queued call is carried by an item. *)
LEMMA QueuedCalls ==
    ASSUME TInv
    PROVE  /\ 1 .. brk \subseteq Items
           /\ \A i : QueuesWith(i) # {} => i \in 1 .. brk
           /\ \A c : Queued(c) <=> \E i \in 1 .. brk : QueuesWith(i) # {} /\ param[i] = c
<1>0. queue \in [Slots -> Seq(1 .. brk)] /\ brk \in 0 .. MaxItems /\ MaxItems \in Nat
    BY PoolAssumption DEF TInv, TypeOK, PoolTypeOK
<1>1. \A s \in Slots : \A k \in DOMAIN queue[s] : queue[s][k] \in 1 .. brk
    BY <1>0
<1>2. \A i : QueuesWith(i) # {} => i \in 1 .. brk
    BY <1>1 DEF QueuesWith, Has
<1>3. ASSUME NEW c, Queued(c) PROVE \E i \in 1 .. brk : QueuesWith(i) # {} /\ param[i] = c
    BY <1>1, <1>3 DEF Queued, QueuesWith, Has
<1>4. ASSUME NEW c, NEW i \in 1 .. brk, QueuesWith(i) # {}, param[i] = c PROVE Queued(c)
    BY <1>4 DEF Queued, QueuesWith, Has
<1>5. 1 .. brk \subseteq Items
    BY <1>0 DEF Items
<1> QED BY <1>2, <1>3, <1>4, <1>5

(* A step that hands no call on keeps CarriedInv ...                        *)
LEMMA CarriedFrame ==
    ASSUME CarriedInv, UNCHANGED <<param, outcome, issued>>,
           \A i \in Items : Carries(i)' => Carries(i),
           \A d \in Dispatchers : Preparing(d)' => Preparing(d) /\ dcall'[d] = dcall[d],
           \A d \in Dispatchers : dpc'[d] = "push" => /\ dpc[d] = "push" /\ dcall'[d] = dcall[d]
                                                      /\ ditem'[d] = ditem[d]
    PROVE  CarriedInv'
BY DEF CarriedInv

(* ... and one that ends call c of item x keeps it too.                     *)
LEMMA CarriedEnds ==
    ASSUME TInv, CarriedInv, NEW x \in Items, Carries(x), NEW r, NEW c, c = param[x],
           outcome' = [outcome EXCEPT ![c] = r],
           UNCHANGED <<param, issued, dpc, dcall, ditem>>,
           \A i \in Items : Carries(i)' => Carries(i) /\ i # x
    PROVE  CarriedInv'
<1>0. outcome \in [Calls -> {"none", "rejected", "finished", "killed"}] /\ issued \in 0 .. MaxCalls /\ MaxCalls \in Nat
    BY PoolAssumption DEF TInv, TypeOK, PoolTypeOK, DispatcherTypeOK
<1>1. \A b \in Calls : b # c => outcome'[b] = outcome[b]
    BY <1>0
<1>2. \A b \in 1 .. issued : b \in Calls
    BY <1>0 DEF Calls
<1>3. \A d \in Dispatchers : Preparing(d)' = Preparing(d)
    BY DEF Preparing
<1>4. \A b \in Calls : b > issued => b # c
    BY <1>0 DEF CarriedInv, Calls
<1> QED BY <1>1, <1>2, <1>3, <1>4 DEF CarriedInv

(* callStatus is a function of outcomes, queues and running calls.          *)
Running(c) == \E t \in Tids : tpc[t] = "call" /\ param[titem[t]] = c

(* What the status of a call is, by cases.                                  *)
LEMMA StatusOf ==
    /\ callStatus = [c \in Calls |-> callStatus[c]]
    /\ \A c \in Calls :
          /\ outcome[c] # "none" => callStatus[c] = outcome[c]
          /\ outcome[c] = "none" /\ Running(c) => callStatus[c] = "running"
          /\ outcome[c] = "none" /\ ~Running(c) /\ Queued(c) => callStatus[c] = "accepted"
          /\ outcome[c] = "none" /\ ~Running(c) /\ ~Queued(c) => callStatus[c] = "none"
BY DEF callStatus, Running

(* The status of a call is the same when these are.                         *)
LEMMA StatusSame ==
    ASSUME NEW c \in Calls, outcome'[c] = outcome[c],
           Running(c)' <=> Running(c), Queued(c)' <=> Queued(c)
    PROVE  callStatus'[c] = callStatus[c]
BY DEF callStatus, Running

(* No call changes its status in a step that leaves these alone.            *)
LEMMA StatusKept ==
    ASSUME outcome' = outcome,
           \A c \in Calls : (Running(c)' <=> Running(c)) /\ (Queued(c)' <=> Queued(c))
    PROVE  callStatus' = callStatus
BY DEF callStatus, Running

(* A step of one call that CallService allows.                              *)
LEMMA StatusMoved ==
    ASSUME NEW c \in Calls, NEW from, NEW to, callStatus[c] = from, callStatus'[c] = to,
           \/ from = "none" /\ to \in {"rejected", "accepted"}
           \/ from = "accepted" /\ to = "running"
           \/ from = "running" /\ to \in {"finished", "killed"},
           \A b \in Calls : b # c => callStatus'[b] = callStatus[b]
    PROVE  Service!Next
<1>1. callStatus' = [callStatus EXCEPT ![c] = to]
  <2>1. callStatus = [b \in Calls |-> callStatus[b]]
    BY DEF callStatus
  <2>2. callStatus' = [b \in Calls |-> callStatus'[b]]
    BY DEF callStatus
  <2> QED BY <2>1, <2>2
<1>2. Service!Move(c, from, to)
    BY <1>1 DEF Service!Move
<1> QED BY <1>2 DEF Service!Next

(* RQItemNew begins a call with a new number.                               *)
LEMMA TakeCall ==
    ASSUME TInv, CarriedInv, NEW d \in Dispatchers, RQItemNewTake(d)
    PROVE  CarriedInv' /\ callStatus' = callStatus
<1>0. /\ dpc \in [Dispatchers -> {"idle", "alloc", "pick", "store", "push", "notify"}]
      /\ dcall \in [Dispatchers -> Calls \cup {NoCall}] /\ ditem \in [Dispatchers -> 0 .. brk]
      /\ issued \in 0 .. MaxCalls /\ MaxCalls \in Nat
    BY PoolAssumption DEF TInv, TypeOK, DispatcherTypeOK
<1>1. PICK c \in Calls : c = issued + 1 /\ issued < MaxCalls
    BY <1>0 DEF RQItemNewTake, Calls
<1>2. /\ dpc[d] = "idle" /\ issued' = c /\ dcall' = [dcall EXCEPT ![d] = c]
      /\ dpc' = [dpc EXCEPT ![d] = "pick"] \/ dpc' = [dpc EXCEPT ![d] = "alloc"]
      /\ \A e \in Dispatchers : e # d => ditem'[e] = ditem[e]
      /\ UNCHANGED <<param, queue, outcome, tpc, titem>>
    BY <1>0, <1>1 DEF RQItemNewTake
<1>3. \A e \in Dispatchers : e # d => dpc'[e] = dpc[e] /\ dcall'[e] = dcall[e]
    BY <1>0, <1>2
<1>4. dpc'[d] \in {"pick", "alloc"} /\ dcall'[d] = c
    BY <1>0, <1>2
<1>5. \A i \in Items : Carries(i)' => Carries(i)
    BY <1>2, <1>3, <1>4 DEF Carries, QueuesWith
<1>6. /\ \A e \in Dispatchers : Preparing(e)' => e = d \/ (Preparing(e) /\ dcall'[e] = dcall[e])
      /\ \A e \in Dispatchers : dpc'[e] = "push" => /\ dpc[e] = "push" /\ dcall'[e] = dcall[e]
                                                    /\ ditem'[e] = ditem[e]
    BY <1>2, <1>3, <1>4 DEF Preparing
<1>7. \A b \in 1 .. issued : b \in 1 .. issued' /\ b # c
    BY <1>0, <1>1, <1>2
<1>8. outcome[c] = "none" /\ c \in 1 .. issued' /\ \A b \in Calls : b > issued' => b > issued
    BY <1>0, <1>1, <1>2 DEF CarriedInv, Calls
<1>9. CarriedInv'
  <2>1. \A i \in Items : Carries(i)' => param'[i] \in 1 .. issued' /\ outcome'[param'[i]] = "none" /\ param'[i] # c
    BY <1>2, <1>5, <1>7 DEF CarriedInv
  <2>2. \A i, j \in Items : Carries(i)' /\ Carries(j)' /\ param'[i] = param'[j] => i = j
    BY <1>2, <1>5 DEF CarriedInv
  <2>3. \A e \in Dispatchers : dpc'[e] = "push" => param'[ditem'[e]] = dcall'[e]
    BY <1>2, <1>6 DEF CarriedInv
  <2>4. \A e \in Dispatchers : Preparing(e)' =>
           /\ dcall'[e] \in 1 .. issued' /\ outcome'[dcall'[e]] = "none"
           /\ \A i \in Items : Carries(i)' => param'[i] # dcall'[e]
    BY <1>2, <1>4, <1>5, <1>6, <1>7, <1>8, <2>1 DEF CarriedInv
  <2>5. \A e, f \in Dispatchers : Preparing(e)' /\ Preparing(f)' /\ dcall'[f] = dcall'[e] => f = e
    BY <1>4, <1>6, <1>7 DEF CarriedInv
  <2> QED BY <1>2, <1>8, <2>1, <2>2, <2>3, <2>4, <2>5 DEF CarriedInv
<1>10. callStatus' = callStatus
    BY <1>2, StatusKept DEF Running, Queued
<1> QED BY <1>9, <1>10

(* RQItemNew without memory rejects the call.                               *)
LEMMA AllocCall ==
    ASSUME TInv, CarriedInv, NEW d \in Dispatchers, RQItemNewAlloc(d)
    PROVE  CarriedInv' /\ (Service!Next \/ callStatus' = callStatus)
<1>0. /\ dpc \in [Dispatchers -> {"idle", "alloc", "pick", "store", "push", "notify"}]
      /\ dcall \in [Dispatchers -> Calls \cup {NoCall}] /\ ditem \in [Dispatchers -> 0 .. brk]
      /\ issued \in 0 .. MaxCalls /\ MaxCalls \in Nat
      /\ outcome \in [Calls -> {"none", "rejected", "finished", "killed"}]
      /\ \A t \in Tids : tpc[t] = "call" => titem[t] \in 1 .. brk
    BY PoolAssumption DEF TInv, TypeOK, PoolTypeOK, DispatcherTypeOK, LocalsOK
<1>1. /\ dpc[d] = "alloc" /\ \A e \in Dispatchers : e # d => /\ ditem'[e] = ditem[e] /\ dpc'[e] = dpc[e]
                                                            /\ dcall'[e] = dcall[e]
      /\ dpc'[d] \in {"pick", "idle"}
      /\ UNCHANGED <<param, queue, issued, tpc, titem>>
    BY <1>0 DEF RQItemNewAlloc
<1>2. \A i \in Items : Carries(i)' => Carries(i)
    BY <1>1 DEF Carries, QueuesWith
<1>3. \A e \in Dispatchers : dpc'[e] = "push" => /\ dpc[e] = "push" /\ dcall'[e] = dcall[e]
                                                 /\ ditem'[e] = ditem[e]
    BY <1>1
<1>4. \A c : (Running(c)' <=> Running(c)) /\ (Queued(c)' <=> Queued(c))
    BY <1>1 DEF Running, Queued
<1>5. CASE dpc'[d] = "pick"
  <2>1. UNCHANGED <<dcall, outcome>>
    BY <1>0, <1>5 DEF RQItemNewAlloc
  <2>2. \A e \in Dispatchers : Preparing(e)' => Preparing(e) /\ dcall'[e] = dcall[e]
    BY <1>1, <2>1 DEF Preparing
  <2>3. CarriedInv'
    BY <1>1, <1>2, <1>3, <2>1, <2>2, CarriedFrame
  <2> QED BY <1>4, <2>1, <2>3, StatusKept
<1>6. CASE dpc'[d] = "idle"
  <2>1. PICK c \in Calls : c = dcall[d] /\ c \in 1 .. issued
    BY <1>0, <1>1 DEF CarriedInv, Preparing, Calls
  <2>2. outcome' = [outcome EXCEPT ![c] = "rejected"]
    BY <1>0, <1>6, <2>1 DEF RQItemNewAlloc
  <2>3. /\ outcome'[c] = "rejected" /\ \A b \in Calls : b # c => outcome'[b] = outcome[b]
        /\ \A b \in 1 .. issued : b \in Calls
    BY <1>0, <2>2 DEF Calls
  <2>4. Preparing(d)
    BY <1>1 DEF Preparing
  <2>5. \A e \in Dispatchers : Preparing(e)' => Preparing(e) /\ dcall'[e] = dcall[e] /\ e # d
    BY <1>1, <1>6 DEF Preparing
  <2>6. CarriedInv'
    <3>1. \A i \in Items : Carries(i) => param[i] # c
      BY <2>1, <2>4 DEF CarriedInv
    <3>2. \A e \in Dispatchers : Preparing(e)' => dcall[e] # c
      BY <2>1, <2>4, <2>5 DEF CarriedInv
    <3>3. \A b \in Calls : b > issued => b # c
      BY <1>0, <2>1 DEF Calls
    <3> QED BY <1>1, <1>2, <1>3, <2>3, <2>5, <3>1, <3>2, <3>3 DEF CarriedInv
  <2>7. outcome[c] = "none" /\ \A i \in Items : Carries(i) => param[i] # c
    BY <2>1, <2>4 DEF CarriedInv
  <2>8. ~Running(c) /\ ~Queued(c)
    <3>1. ~Queued(c)
      BY <2>7, QueuedCalls DEF Carries
    <3>2. ~Running(c)
      BY <1>0, <2>7, QueuedCalls DEF Running, Carries
    <3> QED BY <3>1, <3>2
  <2>9. callStatus[c] = "none"
    BY <2>7, <2>8, StatusOf
  <2>10. callStatus'[c] = "rejected"
    BY <2>3 DEF callStatus
  <2>11. \A b \in Calls : b # c => callStatus'[b] = callStatus[b]
    BY <1>4, <2>3, StatusSame
  <2>12. Service!Next
    BY <2>9, <2>10, <2>11, StatusMoved
  <2> QED BY <2>6, <2>12
<1> QED BY <1>1, <1>5, <1>6

(* StoreThread gives the call to the item, which only its dispatcher holds. *)
LEMMA StoreCall ==
    ASSUME TInv, PlaceInv, CarriedInv, NEW d \in Dispatchers, StoreThread(d)
    PROVE  CarriedInv' /\ callStatus' = callStatus
<1>0. /\ dpc \in [Dispatchers -> {"idle", "alloc", "pick", "store", "push", "notify"}]
      /\ param \in [Items -> Calls \cup {NoCall}]
      /\ ditem[d] \in 1 .. brk /\ dpc[d] = "store" /\ 1 .. brk \subseteq Items
      /\ \A e \in Dispatchers : dpc[e] = "push" => ditem[e] \in 1 .. brk
      /\ \A t \in Tids : tpc[t] = "call" => titem[t] \in 1 .. brk
    BY QueuedCalls DEF StoreThread, TInv, TypeOK, PoolTypeOK, DispatcherTypeOK, LocalsOK
<1>1. PICK x, c : x \in 1 .. brk /\ x = ditem[d] /\ c = dcall[d]
    BY <1>0
<1>2. /\ param' = [param EXCEPT ![x] = c] /\ dpc' = [dpc EXCEPT ![d] = "push"]
      /\ UNCHANGED <<queue, dcall, ditem, issued, outcome, tpc, titem>>
    BY <1>1 DEF StoreThread
<1>3. d \in HoldingDispatchers(x)
    BY <1>0, <1>1 DEF HoldingDispatchers
<1>4. HoldingDispatchers(x) = {d} /\ QueuesWith(x) = {} /\ HoldingThreads(x) = {}
    BY <1>1, <1>3, Exclusive
<1>5. ~Carries(x)
    BY <1>0, <1>4 DEF Carries, HoldingDispatchers, HoldingThreads
<1>6. param'[x] = c /\ \A i \in Items : i # x => param'[i] = param[i]
    BY <1>0, <1>1, <1>2
<1>7. dpc'[d] = "push" /\ \A e \in Dispatchers : e # d => dpc'[e] = dpc[e]
    BY <1>0, <1>2
<1>8. \A i \in Items : Carries(i)' <=> Carries(i) \/ i = x
    BY <1>0, <1>1, <1>2, <1>7 DEF Carries, QueuesWith
<1>9. Preparing(d) /\ \A e \in Dispatchers : Preparing(e)' => Preparing(e) /\ e # d
    BY <1>0, <1>7 DEF Preparing
<1>10. c \in 1 .. issued /\ outcome[c] = "none" /\ \A i \in Items : Carries(i) => param[i] # c
    BY <1>1, <1>9 DEF CarriedInv
<1>11. CarriedInv'
  <2>1. \A i \in Items : Carries(i)' => param'[i] \in 1 .. issued' /\ outcome'[param'[i]] = "none"
    BY <1>2, <1>6, <1>8, <1>10 DEF CarriedInv
  <2>2. \A i, j \in Items : Carries(i)' /\ Carries(j)' /\ param'[i] = param'[j] => i = j
    BY <1>5, <1>6, <1>8, <1>10 DEF CarriedInv
  <2>3. ASSUME NEW e \in Dispatchers, dpc'[e] = "push" PROVE param'[ditem'[e]] = dcall'[e]
    <3>1. CASE e = d
      BY <1>1, <1>2, <1>6, <3>1
    <3>2. CASE e # d
      <4>1. dpc[e] = "push" /\ ditem[e] \in Items
        BY <1>0, <1>7, <2>3, <3>2
      <4>2. ditem[e] # x
        BY <1>5, <4>1 DEF Carries
      <4> QED BY <1>2, <1>6, <4>1, <4>2 DEF CarriedInv
    <3> QED BY <3>1, <3>2
  <2>4. \A e \in Dispatchers : Preparing(e)' =>
           /\ dcall'[e] \in 1 .. issued' /\ outcome'[dcall'[e]] = "none"
           /\ \A i \in Items : Carries(i)' => param'[i] # dcall'[e]
    BY <1>1, <1>2, <1>5, <1>6, <1>8, <1>9 DEF CarriedInv
  <2>5. \A e, f \in Dispatchers : Preparing(e)' /\ Preparing(f)' /\ dcall'[f] = dcall'[e] => f = e
    BY <1>2, <1>9 DEF CarriedInv
  <2> QED BY <1>2, <2>1, <2>2, <2>3, <2>4, <2>5 DEF CarriedInv
<1>12. callStatus' = callStatus
  <2>1. \A t \in Tids : tpc[t] = "call" => param'[titem[t]] = param[titem[t]]
    BY <1>0, <1>5, <1>6 DEF Carries
  <2>2. \A s \in Slots : \A k \in DOMAIN queue[s] : param'[queue[s][k]] = param[queue[s][k]]
    <3> TAKE s \in Slots
    <3> TAKE k \in DOMAIN queue[s]
    <3>1. s \in QueuesWith(queue[s][k])
      BY DEF QueuesWith, Has
    <3>2. queue[s][k] \in Items /\ queue[s][k] # x
      BY <1>0, <1>4, <3>1, QueuedCalls
    <3> QED BY <1>6, <3>2
  <2>3. \A c1 \in Calls : (Running(c1)' <=> Running(c1)) /\ (Queued(c1)' <=> Queued(c1))
    BY <1>2, <2>1, <2>2 DEF Running, Queued
  <2> QED BY <1>2, <2>3, StatusKept
<1> QED BY <1>11, <1>12

(* The status of a call after a step, by cases.                             *)
LEMMA StatusThen ==
    \A c \in Calls :
        /\ outcome'[c] # "none" => callStatus'[c] = outcome'[c]
        /\ outcome'[c] = "none" /\ Running(c)' => callStatus'[c] = "running"
        /\ outcome'[c] = "none" /\ ~Running(c)' /\ Queued(c)' => callStatus'[c] = "accepted"
BY DEF callStatus, Running

(* A call is queued when an item in a queue carries it; so before and after *)
(* a step.                                                                  *)
LEMMA QueuedBy ==
    /\ \A c : Queued(c) <=> \E i : QueuesWith(i) # {} /\ param[i] = c
    /\ \A c : Queued(c)' <=> \E i : QueuesWith(i)' # {} /\ param'[i] = c
BY DEF Queued, QueuesWith, Has

(* RQItemPush: the call is accepted.                                        *)
LEMMA PushCall ==
    ASSUME TInv, PlaceInv, CarriedInv, NEW d \in Dispatchers, RQItemPush(d)
    PROVE  CarriedInv' /\ (Service!Next \/ callStatus' = callStatus)
<1>0. /\ dpc \in [Dispatchers -> {"idle", "alloc", "pick", "store", "push", "notify"}]
      /\ queue \in [Slots -> Seq(1 .. brk)] /\ dslot[d] \in Slots
      /\ ditem \in [Dispatchers -> 0 .. brk]
      /\ ditem[d] \in 1 .. brk /\ dpc[d] = "push" /\ 1 .. brk \subseteq Items
      /\ issued \in 0 .. MaxCalls /\ MaxCalls \in Nat
      /\ \A t \in Tids : tpc[t] = "call" => titem[t] \in 1 .. brk
    BY PoolAssumption, QueuedCalls DEF RQItemPush, TInv, TypeOK, PoolTypeOK, DispatcherTypeOK, LocalsOK
<1>1. CASE xpc = "deleted"
  <2>1. UNCHANGED <<queue, dpc, ditem, dcall, issued, outcome, param, tpc, titem>>
    BY <1>1 DEF RQItemPush
  <2>2. CarriedInv'
    BY <2>1, CarriedFrame DEF Carries, QueuesWith, Preparing
  <2>3. callStatus' = callStatus
    BY <2>1, StatusKept DEF Running, Queued
  <2> QED BY <2>2, <2>3
<1>2. CASE xpc # "deleted"
  <2>1. PICK x \in 1 .. brk, p \in Slots : x = ditem[d] /\ p = dslot[d]
    BY <1>0
  <2>2. /\ queue' = [queue EXCEPT ![p] = Append(queue[p], x)]
        /\ ditem' = [ditem EXCEPT ![d] = 0] /\ dpc' = [dpc EXCEPT ![d] = "notify"]
        /\ UNCHANGED <<dcall, issued, outcome, param, brk, tpc, titem>>
    BY <1>2, <2>1 DEF RQItemPush, Pushed
  <2>3. /\ dpc'[d] = "notify"
        /\ \A e \in Dispatchers : e # d => dpc'[e] = dpc[e] /\ ditem'[e] = ditem[e]
    BY <1>0, <2>2
  <2>4. HoldingDispatchers(x) = {d} /\ QueuesWith(x) = {} /\ HoldingThreads(x) = {}
    <3>1. d \in HoldingDispatchers(x)
      BY <1>0, <2>1 DEF HoldingDispatchers
    <3> QED BY <3>1, Exclusive
  <2>5. \A i : Has(Append(queue[p], x), i) <=> i = x \/ Has(queue[p], i)
    <3>1. NoRepeats(queue[p]) /\ ~Has(queue[p], x)
      BY <2>4 DEF PlaceInv, QueuesWith
    <3> QED BY <1>0, <3>1, AppendedSeq
  <2>6. /\ queue'[p] = Append(queue[p], x)
        /\ \A s \in Slots : s # p => queue'[s] = queue[s]
    BY <1>0, <2>2
  <2>7. /\ QueuesWith(x)' = {p}
        /\ \A i : i # x => QueuesWith(i)' = QueuesWith(i)
    BY <2>4, <2>5, <2>6 DEF QueuesWith
  <2>8. Carries(x)
    BY <1>0, <2>1 DEF Carries
  <2>9. \A i \in Items : Carries(i)' => Carries(i)
    BY <2>2, <2>3, <2>7, <2>8 DEF Carries
  <2>10. CarriedInv'
    BY <2>2, <2>3, <2>9, CarriedFrame DEF Preparing
  <2>11. PICK c \in Calls : c = param[x]
    BY <1>0, <2>8 DEF CarriedInv, Calls
  <2>12. outcome[c] = "none" /\ \A i \in Items : Carries(i) /\ param[i] = c => i = x
    BY <1>0, <2>8, <2>11 DEF CarriedInv
  <2>13. ~Running(c) /\ ~Queued(c)
    <3>1. ~Queued(c)
      BY <1>0, <2>4, <2>12, QueuedCalls DEF Carries
    <3>2. ASSUME NEW t \in Tids, tpc[t] = "call", param[titem[t]] = c PROVE FALSE
      <4>1. titem[t] = x
        BY <1>0, <2>12, <3>2 DEF Carries
      <4> QED BY <2>4, <3>2, <4>1 DEF HoldingThreads
    <3> QED BY <3>1, <3>2 DEF Running
  <2>15. Queued(c)' /\ \A b : b # c => (Queued(b)' <=> Queued(b))
    BY <2>2, <2>7, <2>11, QueuedBy
  <2>16. \A b : Running(b)' <=> Running(b)
    BY <2>2 DEF Running
  <2>17. callStatus[c] = "none" /\ callStatus'[c] = "accepted"
    <3>1. callStatus[c] = "none"
      BY <2>12, <2>13, StatusOf
    <3>2. callStatus'[c] = "accepted"
      BY <2>2, <2>12, <2>13, <2>15, <2>16, StatusThen
    <3> QED BY <3>1, <3>2
  <2>18. \A b \in Calls : b # c => callStatus'[b] = callStatus[b]
    BY <2>2, <2>15, <2>16, StatusSame
  <2>19. Service!Next
    BY <2>17, <2>18, StatusMoved
  <2> QED BY <2>10, <2>19
<1> QED BY <1>1, <1>2

(* RQItemPop: the call begins.                                              *)
LEMMA PopCall ==
    ASSUME TInv, PlaceInv, CarriedInv, NEW t \in Tids, RQItemPop(t)
    PROVE  CarriedInv' /\ (Service!Next \/ callStatus' = callStatus)
<1>0. /\ queue \in [Slots -> Seq(1 .. brk)] /\ tslot[t] \in Slots /\ tpc[t] = "pop"
      /\ tpc \in [Tids -> {"none", "start", "loop", "read", "pop", "call",
                          "post", "free", "check", "leave", "dead"}]
      /\ titem \in [Tids -> 0 .. brk] /\ 1 .. brk \subseteq Items
      /\ issued \in 0 .. MaxCalls /\ MaxCalls \in Nat
      /\ \A u \in Tids : tpc[u] = "call" => titem[u] \in 1 .. brk
    BY PoolAssumption, QueuedCalls
    DEF RQItemPop, TInv, TypeOK, PoolTypeOK, ThreadTypeOK, DispatcherTypeOK, LocalsOK
<1>p. PICK p \in Slots : p = tslot[t]
    BY <1>0
<1>1. CASE queue[p] = <<>> \/ xpc = "deleted"
  <2>1. UNCHANGED <<queue, dpc, ditem, dcall, issued, outcome, param, tpc, titem>>
    BY <1>1, <1>p DEF RQItemPop
  <2>2. CarriedInv'
    BY <2>1, CarriedFrame DEF Carries, QueuesWith, Preparing
  <2>3. callStatus' = callStatus
    BY <2>1, StatusKept DEF Running, Queued
  <2> QED BY <2>2, <2>3
<1>2. CASE queue[p] # <<>> /\ xpc # "deleted"
  <2>1. PICK x \in 1 .. brk : x = Head(queue[p])
    BY <1>0, <1>2, HeadTail
  <2>2. /\ queue' = [queue EXCEPT ![p] = Tail(queue[p])]
        /\ titem' = [titem EXCEPT ![t] = x] /\ tpc' = [tpc EXCEPT ![t] = "call"]
        /\ UNCHANGED <<dpc, ditem, dcall, issued, outcome, param>>
    BY <1>2, <1>p, <2>1 DEF RQItemPop, Goto
  <2>3. /\ tpc'[t] = "call" /\ titem'[t] = x
        /\ \A u \in Tids : u # t => tpc'[u] = tpc[u] /\ titem'[u] = titem[u]
    BY <1>0, <2>2
  <2>4. /\ Has(queue[p], x)
        /\ \A i : Has(Tail(queue[p]), i) <=> Has(queue[p], i) /\ i # x
    BY <1>0, <1>2, <2>1, PoppedSeq DEF PlaceInv
  <2>5. QueuesWith(x) = {p} /\ HoldingThreads(x) = {}
    <3>1. p \in QueuesWith(x)
      BY <2>4 DEF QueuesWith
    <3> QED BY <3>1 DEF PlaceInv, InOnePlace, OnFreeList, InOneQueue, WithDispatcher, WithThread
  <2>6. /\ queue'[p] = Tail(queue[p])
        /\ \A s \in Slots : s # p => queue'[s] = queue[s]
    BY <1>0, <2>2
  <2>7. /\ QueuesWith(x)' = {}
        /\ \A i : i # x => QueuesWith(i)' = QueuesWith(i)
    BY <2>4, <2>5, <2>6 DEF QueuesWith
  <2>8. Carries(x)
    BY <2>5 DEF Carries
  <2>9. \A i \in Items : Carries(i)' => Carries(i)
    BY <2>2, <2>3, <2>7, <2>8 DEF Carries
  <2>10. CarriedInv'
    BY <2>2, <2>9, CarriedFrame DEF Preparing
  <2>11. PICK c \in Calls : c = param[x]
    BY <1>0, <2>8 DEF CarriedInv, Calls
  <2>12. outcome[c] = "none" /\ \A i \in Items : Carries(i) /\ param[i] = c => i = x
    BY <1>0, <2>8, <2>11 DEF CarriedInv
  <2>13. Queued(c) /\ ~Running(c)
    <3>1. Queued(c)
      BY <2>5, <2>11, QueuedBy
    <3>2. ASSUME NEW u \in Tids, tpc[u] = "call", param[titem[u]] = c PROVE FALSE
      <4>1. titem[u] = x
        BY <1>0, <2>12, <3>2 DEF Carries
      <4> QED BY <2>5, <3>2, <4>1 DEF HoldingThreads
    <3> QED BY <3>1, <3>2 DEF Running
  <2>14. \A b : b # c => (Queued(b)' <=> Queued(b))
    BY <2>2, <2>7, <2>11, QueuedBy
  <2>15. Running(c)' /\ \A b : b # c => (Running(b)' <=> Running(b))
    BY <1>0, <2>2, <2>3, <2>11 DEF Running
  <2>16. callStatus[c] = "accepted"
    BY <2>12, <2>13, StatusOf
  <2>17. callStatus'[c] = "running"
    BY <2>2, <2>12, <2>15, StatusThen
  <2>18. \A b \in Calls : b # c => callStatus'[b] = callStatus[b]
    BY <2>2, <2>14, <2>15, StatusSame
  <2>19. Service!Next
    BY <2>16, <2>17, <2>18, StatusMoved
  <2> QED BY <2>10, <2>19
<1> QED BY <1>1, <1>2

(* The call ends: its processor returns or its thread is cancelled in it.   *)
LEMMA EndCall ==
    ASSUME TInv, PlaceInv, CarriedInv, NEW t \in Tids, tpc[t] = "call",
           NEW r \in {"finished", "killed"}, NEW pc \in {"post", "dead"},
           outcome' = [outcome EXCEPT ![param[titem[t]]] = r],
           tpc' = [tpc EXCEPT ![t] = pc], \A u \in Tids : u # t => titem'[u] = titem[u],
           UNCHANGED <<queue, dpc, ditem, dcall, issued, param>>
    PROVE  CarriedInv' /\ Service!Next
<1>0. /\ tpc \in [Tids -> {"none", "start", "loop", "read", "pop", "call",
                          "post", "free", "check", "leave", "dead"}]
      /\ titem[t] \in 1 .. brk /\ 1 .. brk \subseteq Items
      /\ outcome \in [Calls -> {"none", "rejected", "finished", "killed"}]
      /\ issued \in 0 .. MaxCalls /\ MaxCalls \in Nat
      /\ \A u \in Tids : tpc[u] = "call" => titem[u] \in 1 .. brk
    BY PoolAssumption, QueuedCalls DEF TInv, TypeOK, PoolTypeOK, ThreadTypeOK, DispatcherTypeOK, LocalsOK
<1>1. PICK x \in 1 .. brk : x = titem[t]
    BY <1>0
<1>2. Carries(x) /\ x \in Items
    BY <1>0, <1>1 DEF Carries
<1>3. PICK c \in Calls : c = param[x]
    BY <1>0, <1>2 DEF CarriedInv, Calls
<1>4. outcome[c] = "none" /\ \A i \in Items : Carries(i) /\ param[i] = c => i = x
    BY <1>2, <1>3 DEF CarriedInv
<1>5. HoldingThreads(x) = {t} /\ QueuesWith(x) = {} /\ HoldingDispatchers(x) = {}
  <2>1. t \in HoldingThreads(x)
    BY <1>1 DEF HoldingThreads
  <2> QED BY <2>1, Exclusive
<1>6. tpc'[t] # "call" /\ \A u \in Tids : u # t => tpc'[u] = tpc[u]
    BY <1>0
<1>7. \A i \in Items : Carries(i)' => Carries(i) /\ i # x
  <2>1. \A i : QueuesWith(i)' = QueuesWith(i)
    BY DEF QueuesWith
  <2>2. ~(\E d \in Dispatchers : dpc[d] = "push" /\ ditem[d] = x)
    BY <1>5 DEF HoldingDispatchers
  <2>3. \A u \in Tids : u # t /\ tpc[u] = "call" => titem[u] # x
    BY <1>5 DEF HoldingThreads
  <2> QED BY <1>5, <1>6, <2>1, <2>2, <2>3 DEF Carries
<1>8. outcome' = [outcome EXCEPT ![c] = r]
    BY <1>1, <1>3
<1>9. CarriedInv'
    BY <1>2, <1>3, <1>7, <1>8, CarriedEnds
<1>10. outcome'[c] = r /\ \A b \in Calls : b # c => outcome'[b] = outcome[b]
    BY <1>0, <1>8
<1>11. \A b : Queued(b)' <=> Queued(b)
    BY DEF Queued
<1>12. Running(c) /\ \A b : b # c => (Running(b)' <=> Running(b))
  <2>1. Running(c)
    BY <1>1, <1>3 DEF Running
  <2>2. ASSUME NEW b, b # c PROVE Running(b)' <=> Running(b)
    BY <1>1, <1>3, <1>6, <2>2 DEF Running
  <2> QED BY <2>1, <2>2
<1>13. callStatus[c] = "running" /\ callStatus'[c] = r
  <2>1. callStatus[c] = "running"
    BY <1>4, <1>12, StatusOf
  <2>2. callStatus'[c] = r
    BY <1>10, StatusThen
  <2> QED BY <2>1, <2>2
<1>14. \A b \in Calls : b # c => callStatus'[b] = callStatus[b]
    BY <1>10, <1>11, <1>12, StatusSame
<1>15. Service!Next
    BY <1>13, <1>14, StatusMoved
<1> QED BY <1>9, <1>15

(* Every step keeps CarriedInv and is one of CallService, or none to it.    *)
LEMMA NextCall ==
    ASSUME TInv, PlaceInv, CarriedInv, [Next]_vars
    PROVE  CarriedInv' /\ (Service!Next \/ callStatus' = callStatus)
<1> DEFINE Goal == CarriedInv' /\ (Service!Next \/ callStatus' = callStatus)
<1>t. /\ dpc \in [Dispatchers -> {"idle", "alloc", "pick", "store", "push", "notify"}]
      /\ tpc \in [Tids -> {"none", "start", "loop", "read", "pop", "call",
                          "post", "free", "check", "leave", "dead"}]
      /\ dcall \in [Dispatchers -> Calls \cup {NoCall}]
      /\ titem \in [Tids -> 0 .. brk]
    BY DEF TInv, TypeOK, DispatcherTypeOK, ThreadTypeOK
<1>f. ASSUME UNCHANGED <<queue, param, outcome, issued, ditem>>,
             \A d \in Dispatchers :
                 \/ dpc'[d] = dpc[d] /\ dcall'[d] = dcall[d]
                 \/ dpc[d] = "pick" /\ dpc'[d] = "store" /\ dcall'[d] = dcall[d]
                 \/ dpc'[d] = "idle",
             \A t \in Tids : /\ tpc[t] = "call" <=> tpc'[t] = "call"
                             /\ tpc[t] = "call" => titem'[t] = titem[t]
      PROVE  Goal
  <2>1. \A i \in Items : Carries(i)' => Carries(i)
    BY <1>f DEF Carries, QueuesWith
  <2>2. CarriedInv'
    BY <1>f, <2>1, CarriedFrame DEF Preparing
  <2>3. \A c : (Running(c)' <=> Running(c)) /\ (Queued(c)' <=> Queued(c))
    BY <1>f DEF Running, Queued
  <2>4. callStatus' = callStatus
    BY <1>f, <2>3, StatusKept
  <2> QED BY <2>2, <2>4
<1>1. ASSUME NEW d \in Dispatchers, PickThread(d) \/ Notify(d) PROVE Goal
    BY <1>1, <1>f, <1>t DEF PickThread, Notify
<1>2. ASSUME NEW t \in Tids, \/ TouchDestroyedLoop(t) \/ EnterRun(t) \/ Wake(t) \/ ReadCall(t)
                             \/ ReadQuit(t) \/ CheckDone(t) \/ LoopDestroy(t) \/ BumpVersion(t)
                             \/ RQItemFree(t)
      PROVE  Goal
  <2>1. UNCHANGED <<queue, param, outcome, issued, ditem, dpc, dcall>>
    BY <1>2 DEF TouchDestroyedLoop, EnterRun, Wake, ReadCall, ReadQuit, CheckDone, LoopDestroy,
       BumpVersion, RQItemFree
  <2>2. \/ tpc' = tpc
        \/ tpc[t] # "call" /\ \E pc : pc # "call" /\ tpc' = [tpc EXCEPT ![t] = pc]
    BY <1>2 DEF TouchDestroyedLoop, EnterRun, Wake, ReadCall, ReadQuit, CheckDone, LoopDestroy,
       BumpVersion, RQItemFree, Goto
  <2>3. titem' = titem \/ (titem' = [titem EXCEPT ![t] = NoItem] /\ tpc[t] = "free")
    BY <1>2 DEF TouchDestroyedLoop, EnterRun, Wake, ReadCall, ReadQuit, CheckDone, LoopDestroy,
       BumpVersion, RQItemFree
  <2>4. \A u \in Tids : /\ tpc[u] = "call" <=> tpc'[u] = "call"
                        /\ tpc[u] = "call" => titem'[u] = titem[u]
    BY <1>t, <2>2, <2>3
  <2> QED BY <1>f, <2>1, <2>4
<1>3. ASSUME NEW t \in Tids, CallReturns(t) PROVE Goal
    BY <1>3, EndCall DEF CallReturns, Goto
<1>4. ASSUME NEW t \in Tids, Cancelled(t) PROVE Goal
  <2>1. CASE tpc[t] = "call"
    <3>1. /\ outcome' = [outcome EXCEPT ![param[titem[t]]] = "killed"]
          /\ tpc' = [tpc EXCEPT ![t] = "dead"] /\ titem' = [titem EXCEPT ![t] = NoItem]
          /\ UNCHANGED <<queue, dpc, ditem, dcall, issued, param>>
      BY <1>4, <2>1 DEF Cancelled, CancelPoints, Goto
    <3>2. \A u \in Tids : u # t => titem'[u] = titem[u]
      BY <1>t, <3>1
    <3> QED BY <2>1, <3>1, <3>2, EndCall
  <2>2. CASE tpc[t] # "call"
    <3>1. /\ UNCHANGED <<queue, param, outcome, issued, ditem, dpc, dcall, titem>>
          /\ tpc' = [tpc EXCEPT ![t] = "dead"]
      BY <1>4, <2>2 DEF Cancelled, CancelPoints, HandlerPoints, Goto
    <3>2. \A u \in Tids : tpc[u] = "call" <=> tpc'[u] = "call"
      BY <1>t, <2>2, <3>1
    <3> QED BY <1>f, <3>1, <3>2
  <2> QED BY <2>1, <2>2
<1>5. ASSUME NEW s \in Slots, Observe(s) PROVE Goal
    BY <1>5, <1>f DEF Observe
<1>6. ASSUME NEW sn \in snaps, RestartStale(sn) \/ RestartBreak(sn) PROVE Goal
    BY <1>6, <1>f DEF RestartStale, RestartBreak
<1>7. ASSUME RestartCancel PROVE Goal
    BY <1>7, <1>f DEF RestartCancel
<1>8. ASSUME RestartCreate PROVE Goal
  <2>1. tpc[nextTid] = "none" /\ nextTid \in Tids
    BY <1>8 DEF RestartCreate, TInv, LocalsOK, TypeOK, ThreadTypeOK, Tids
  <2>2. /\ UNCHANGED <<queue, param, outcome, issued, ditem, dpc, dcall, titem>>
        /\ tpc' = [tpc EXCEPT ![nextTid] = "start"]
    BY <1>8 DEF RestartCreate
  <2>3. \A u \in Tids : tpc[u] = "call" <=> tpc'[u] = "call"
    BY <1>t, <2>1, <2>2
  <2> QED BY <1>f, <2>2, <2>3
<1>9. ASSUME Destroy PROVE Goal
    BY <1>9, <1>f DEF Destroy, DestroyBegin, WriteQuit, Joined
<1>10. ASSUME UNCHANGED vars PROVE Goal
    BY <1>10, <1>f DEF vars
<1> HIDE DEF Goal
<1>11. ASSUME NEW d \in Dispatchers, \/ RQItemNewTake(d) \/ RQItemNewAlloc(d) \/ StoreThread(d) \/ RQItemPush(d)
       PROVE  Goal
    BY <1>11, TakeCall, AllocCall, StoreCall, PushCall DEF Goal
<1>12. ASSUME NEW t \in Tids, RQItemPop(t) PROVE Goal
    BY <1>12, PopCall DEF Goal
<1>13. ASSUME NEW d \in Dispatchers, DispatchRpcCall(d) PROVE Goal
    BY <1>1, <1>11, <1>13 DEF DispatchRpcCall, DispatchStep
<1>14. ASSUME NEW t \in Tids, LibevWorker(t) PROVE Goal
    BY <1>2, <1>3, <1>4, <1>12, <1>14 DEF LibevWorker
<1>15. ASSUME RestartThread PROVE Goal
    BY <1>6, <1>7, <1>8, <1>15 DEF RestartThread
<1>16. Goal
    BY <1>5, <1>9, <1>10, <1>13, <1>14, <1>15 DEF Next
<1> QED BY <1>16 DEF Goal

(* Initially no item carries a call.                                        *)
LEMMA InitCarried == Init => CarriedInv
<1> SUFFICES ASSUME Init PROVE CarriedInv
    OBVIOUS
<1>1. \A i : QueuesWith(i) = {}
    BY DEF Init, QueuesWith, Has
<1>2. \A t \in Tids : tpc[t] \in {"start", "none"}
    BY DEF Init
<1> QED BY <1>1, <1>2 DEF Init, CarriedInv, Carries, Preparing

(* Any pool implements CallService: a call is accepted, begun and ended at  *)
(* most once and in that order, whatever items and threads are recycled.    *)
THEOREM PoolImplementsCallService == Spec => ImplementsCallService
<1>1. Init => Service!Init
  <2> SUFFICES ASSUME Init PROVE Service!Init
    OBVIOUS
  <2>1. \A i : QueuesWith(i) = {}
    BY DEF Init, QueuesWith, Has
  <2>2. \A t \in Tids : tpc[t] \in {"start", "none"}
    BY DEF Init
  <2>3. \A c \in Calls : outcome[c] = "none" /\ ~Running(c) /\ ~Queued(c)
    BY <2>1, <2>2, QueuedBy DEF Init, Running
  <2>4. callStatus = [c \in Calls |-> "none"]
    BY <2>3, StatusOf
  <2> QED BY <2>4 DEF Service!Init
<1>2. TInv /\ PlaceInv /\ CarriedInv /\ [Next]_vars => CarriedInv' /\ [Service!Next]_callStatus
    BY NextCall
<1> QED BY <1>1, <1>2, InitCarried, PlaceInvAlways, PTL DEF Spec, ImplementsCallService, Service!Spec
-----------------------------------------------------------------------------
(***************************************************************************)
(* Destroy runs the calls it was notified of.  As long as nothing has been  *)
(* restarted, slot s is served by thread s + 1 alone, whose event loop runs *)
(* until the thread has read the 'q' byte.                                  *)
(***************************************************************************)

(* The 'c' bytes in front of the 'q' byte, and the one just read.           *)
Ahead(s) == notes[s] + (IF tpc[s + 1] = "pop" THEN 1 ELSE 0)

(* A thread that has read the 'q' byte only leaves its loop; one that has   *)
(* not stays in it.                                                         *)
OneThreadPerSlot ==
    /\ \A t \in Tids : ~tcancel[t] /\ (tpc[t] # "none" => t = tslot[t] + 1)
    /\ \A s \in Slots : thread_id[s] = s + 1
    /\ \A s \in Slots : quit[s] = "read" =>
          tpc[s + 1] \in {"check", "leave", "dead"} /\ loop[s] # "live"
    /\ \A s \in Slots : quit[s] # "read" =>
          /\ tpc[s + 1] \notin {"none", "leave", "dead"}
          /\ loop[s] = "live" /\ loop_done[s] = "cancel"

(* Destroy writes to each slot once, and has joined the threads before.     *)
DestroyProgress ==
    /\ \A s \in Slots : xpc = "no" \/ (xpc = "quit" /\ s >= xidx) => quit[s] = "no"
    /\ xpc = "join" =>
          xtid = xidx + 1 /\ \A s \in Slots : s < xidx => tpc[s + 1] = "dead"
    /\ xpc = "deleted" => \A s \in Slots : tpc[s + 1] = "dead"

(* A promised call is over, is running, or has a byte ahead of the 'q'.     *)
InReach(c) ==
    \E s \in Slots : \E k \in DOMAIN queue[s] :
        quit[s] # "read" /\ k <= Ahead(s) /\ param[queue[s][k]] = c
Honoured(c) == outcome[c] = "finished" \/ Running(c) \/ InReach(c)

DrainInv ==
    /\ nextTid > NumThreads
    /\ NoRestart => /\ OneThreadPerSlot /\ DestroyProgress
                    /\ xpc # "no" => \A c \in xprom : Honoured(c)

(* Slots and their first threads.                                           *)
LEMMA SlotThreads ==
    /\ NumThreads \in Nat /\ 0 \in Slots /\ NumThreads - 1 \in Slots
    /\ \A s \in Slots : s \in Nat /\ s < NumThreads /\ s + 1 \in Tids
BY PoolAssumption DEF Slots, Tids

(* Initially nothing is restarted, and Destroy has not been called.         *)
LEMMA InitDrain == Init => DrainInv
<1> SUFFICES ASSUME Init PROVE DrainInv
    OBVIOUS
<1>1. nextTid > NumThreads /\ xpc = "no"
    BY PoolAssumption DEF Init
<1>2. \A t \in Tids : ~tcancel[t] /\ (tpc[t] # "none" => t = tslot[t] + 1)
  <2> TAKE t \in Tids
  <2>1. t \in Nat /\ NumThreads \in Nat
    BY PoolAssumption DEF Tids
  <2> QED BY <2>1 DEF Init
<1>3. \A s \in Slots : /\ quit[s] = "no" /\ loop[s] = "live" /\ loop_done[s] = "cancel"
                       /\ thread_id[s] = s + 1
    BY DEF Init
<1>4. \A s \in Slots : tpc[s + 1] = "start"
    BY SlotThreads DEF Init
<1> QED BY <1>1, <1>2, <1>3, <1>4 DEF DrainInv, OneThreadPerSlot, DestroyProgress

(* A step that only moves calls, each to where it is honoured.              *)
LEMMA DrainFrame ==
    ASSUME TInv, DrainInv,
           UNCHANGED <<thread_id, nextTid, rpc, loop, loop_done, tpc, tslot, tcancel, quit,
                       xpc, xidx, xtid, xprom>>,
           NoRestart => \A c \in Calls : Honoured(c) => Honoured(c)'
    PROVE  DrainInv'
<1>1. xprom \subseteq Calls
    BY DEF TInv, TypeOK, CallerTypeOK
<1>2. NoRestart' <=> NoRestart
    BY DEF NoRestart
<1>3. (OneThreadPerSlot' <=> OneThreadPerSlot) /\ (DestroyProgress' <=> DestroyProgress)
    BY DEF OneThreadPerSlot, DestroyProgress
<1> QED BY <1>1, <1>2, <1>3 DEF DrainInv

(* A step of a thread.                                                      *)
LEMMA ThreadFrame ==
    ASSUME TInv, DrainInv, NoRestart, NEW t \in Tids, NEW s, s = tslot[t], NEW pc,
           tpc[t] \notin {"none", "dead"}, pc # "none", tpc' = [tpc EXCEPT ![t] = pc],
           UNCHANGED <<thread_id, nextTid, rpc, tslot, tcancel, xpc, xidx, xtid, xprom>>,
           \A r \in Slots : r # s => /\ quit'[r] = quit[r] /\ loop'[r] = loop[r]
                                     /\ loop_done'[r] = loop_done[r],
           quit[s] = "no" => quit'[s] = "no",
           quit'[s] = "read" => pc \in {"check", "leave", "dead"} /\ loop'[s] # "live",
           quit'[s] # "read" => /\ pc \notin {"leave", "dead"}
                                /\ loop'[s] = "live" /\ loop_done'[s] = "cancel",
           \A c \in Calls : Honoured(c) => Honoured(c)'
    PROVE  DrainInv'
<1>0. /\ xprom \subseteq Calls /\ OneThreadPerSlot /\ DestroyProgress
      /\ tpc \in [Tids -> {"none", "start", "loop", "read", "pop", "call",
                           "post", "free", "check", "leave", "dead"}]
    BY DEF TInv, TypeOK, CallerTypeOK, ThreadTypeOK, DrainInv
<1>1. s \in Slots /\ t = s + 1
    BY <1>0 DEF TInv, LocalsOK, OneThreadPerSlot
<1>2. tpc'[t] = pc /\ \A u \in Tids : u # t => tpc'[u] = tpc[u]
    BY <1>0
<1>3. \A r \in Slots : /\ r + 1 \in Tids /\ (r + 1 = t => r = s)
                       /\ r # s => tpc'[r + 1] = tpc[r + 1]
    BY <1>1, <1>2, SlotThreads
<1>4. OneThreadPerSlot'
  <2>1. \A u \in Tids : ~tcancel'[u] /\ (tpc'[u] # "none" => u = tslot'[u] + 1)
    BY <1>0, <1>1, <1>2 DEF OneThreadPerSlot
  <2>2. ASSUME NEW r \in Slots
        PROVE  /\ thread_id'[r] = r + 1
               /\ quit'[r] = "read" => tpc'[r + 1] \in {"check", "leave", "dead"} /\ loop'[r] # "live"
               /\ quit'[r] # "read" => /\ tpc'[r + 1] \notin {"none", "leave", "dead"}
                                       /\ loop'[r] = "live" /\ loop_done'[r] = "cancel"
    <3>1. CASE r = s
      BY <1>0, <1>1, <1>2, <3>1 DEF OneThreadPerSlot
    <3>2. CASE r # s
      BY <1>0, <1>3, <3>2 DEF OneThreadPerSlot
    <3> QED BY <3>1, <3>2
  <2> QED BY <2>1, <2>2 DEF OneThreadPerSlot
<1>5. DestroyProgress'
  <2>1. \A r \in Slots : tpc[r + 1] = "dead" => tpc'[r + 1] = "dead"
    BY <1>1, <1>3
  <2>2. \A r \in Slots : quit[r] = "no" => quit'[r] = "no"
    BY <1>1
  <2> QED BY <1>0, <2>1, <2>2 DEF DestroyProgress
<1> QED BY <1>0, <1>4, <1>5 DEF DrainInv

(* A call stays honoured when nothing is done to it: no thread leaves a     *)
(* call, and what is ahead of a 'q' byte stays ahead.                       *)
LEMMA HonouredKept ==
    ASSUME TInv, TInv', UNCHANGED <<queue, param, outcome>>,
           \A t \in Tids : tpc[t] = "call" => tpc'[t] = "call" /\ titem'[t] = titem[t],
           \A s \in Slots : quit[s] # "read" /\ Ahead(s) > 0 =>
              quit'[s] # "read" /\ Ahead(s)' >= Ahead(s)
    PROVE  \A c \in Calls : Honoured(c) => Honoured(c)'
<1>0. \A s \in Slots : /\ Ahead(s) \in Int /\ Ahead(s)' \in Int
                       /\ \A k \in DOMAIN queue[s] : k \in Nat /\ k >= 1
  <2>1. queue \in [Slots -> Seq(1 .. brk)]
    BY DEF TInv, TypeOK, PoolTypeOK
  <2>2. notes \in [Slots -> Nat] /\ notes' \in [Slots -> Nat]
    BY DEF TInv, TypeOK, PipeTypeOK
  <2> QED BY <2>1, <2>2 DEF Ahead
<1> TAKE c \in Calls
<1>1. Running(c) => Running(c)'
    BY DEF Running
<1>2. ASSUME InReach(c) PROVE InReach(c)'
  <2>1. PICK s \in Slots : \E k \in DOMAIN queue[s] :
           quit[s] # "read" /\ k <= Ahead(s) /\ param[queue[s][k]] = c
    BY <1>2 DEF InReach
  <2>2. PICK k \in DOMAIN queue[s] : quit[s] # "read" /\ k <= Ahead(s) /\ param[queue[s][k]] = c
    BY <2>1
  <2>3. quit'[s] # "read" /\ k <= Ahead(s)'
    BY <1>0, <2>2
  <2> QED BY <2>2, <2>3 DEF InReach
<1> QED BY <1>1, <1>2 DEF Honoured

(* RQItemNewAlloc may reject a call, one that has no outcome yet.           *)
LEMMA AllocDrain ==
    ASSUME TInv, DrainInv, CarriedInv, NEW d \in Dispatchers, RQItemNewAlloc(d)
    PROVE  DrainInv'
<1>1. \A c \in Calls : outcome[c] = "finished" => outcome'[c] = "finished"
  <2>1. outcome \in [Calls -> {"none", "rejected", "finished", "killed"}]
    BY DEF TInv, TypeOK, PoolTypeOK
  <2>2. outcome[dcall[d]] = "none"
    BY DEF CarriedInv, Preparing, RQItemNewAlloc
  <2> QED BY <2>1, <2>2 DEF RQItemNewAlloc
<1>2. UNCHANGED <<queue, param, tpc, titem, notes, quit>>
    BY DEF RQItemNewAlloc
<1>3. \A c \in Calls : Honoured(c) => Honoured(c)'
    BY <1>1, <1>2 DEF Honoured, Running, InReach, Ahead
<1> QED BY <1>3, DrainFrame DEF RQItemNewAlloc

(* The item a dispatcher prepares is neither queued nor with a thread.      *)
LEMMA StoreDrain ==
    ASSUME TInv, PlaceInv, DrainInv, NEW d \in Dispatchers, StoreThread(d)
    PROVE  DrainInv'
<1> DEFINE x == ditem[d]
<1>0. x \in 1 .. brk /\ param \in [Items -> Calls \cup {NoCall}]
    BY DEF TInv, TypeOK, PoolTypeOK, LocalsOK, StoreThread
<1>1. QueuesWith(x) = {} /\ HoldingThreads(x) = {}
    BY <1>0, Exclusive DEF HoldingDispatchers, StoreThread
<1>2. /\ UNCHANGED <<queue, outcome, tpc, titem, notes, quit>>
      /\ param' = [param EXCEPT ![x] = dcall[d]]
    BY DEF StoreThread
<1> HIDE DEF x
<1>3. \A i \in 1 .. brk : i # x => param'[i] = param[i]
    BY <1>0, <1>2, QueuedCalls
<1>4. \A t \in Tids : tpc[t] = "call" => param'[titem[t]] = param[titem[t]]
  <2>1. \A t \in Tids : tpc[t] = "call" => titem[t] \in 1 .. brk /\ titem[t] # x
    BY <1>1 DEF TInv, LocalsOK, HoldingThreads
  <2> QED BY <1>3, <2>1
<1>5. \A s \in Slots : \A k \in DOMAIN queue[s] : param'[queue[s][k]] = param[queue[s][k]]
  <2> TAKE s \in Slots
  <2> TAKE k \in DOMAIN queue[s]
  <2>1. s \in QueuesWith(queue[s][k])
    BY DEF QueuesWith, Has
  <2>2. queue[s][k] \in 1 .. brk /\ queue[s][k] # x
    BY <1>1, <2>1, QueuedCalls
  <2> QED BY <1>3, <2>2
<1>6. \A c \in Calls : Honoured(c) => Honoured(c)'
    BY <1>2, <1>4, <1>5 DEF Honoured, Running, InReach, Ahead
<1> QED BY <1>6, DrainFrame DEF StoreThread

(* A pushed item comes behind the others.                                   *)
LEMMA PushDrain ==
    ASSUME TInv, DrainInv, NEW d \in Dispatchers, RQItemPush(d)
    PROVE  DrainInv'
<1>0. queue \in [Slots -> Seq(1 .. brk)] /\ dslot[d] \in Slots /\ ditem[d] \in 1 .. brk
    BY DEF TInv, TypeOK, PoolTypeOK, DispatcherTypeOK, LocalsOK, RQItemPush
<1>1. UNCHANGED <<param, outcome, tpc, titem, notes, quit>>
    BY DEF RQItemPush
<1>2. \A s \in Slots : \A k \in DOMAIN queue[s] :
         k \in DOMAIN queue'[s] /\ queue'[s][k] = queue[s][k]
  <2>1. CASE queue' = queue
    BY <2>1
  <2>2. CASE queue' = [queue EXCEPT ![dslot[d]] = Append(queue[dslot[d]], ditem[d])]
    <3> DEFINE r == dslot[d]
               q == queue[r]
    <3>1. q \in Seq(1 .. brk)
      BY <1>0
    <3>2. \A k \in DOMAIN q : /\ k \in DOMAIN Append(q, ditem[d])
                              /\ Append(q, ditem[d])[k] = q[k]
      BY <1>0, <3>1
    <3> HIDE DEF q
    <3>3. queue' = [queue EXCEPT ![r] = Append(q, ditem[d])] /\ q = queue[r]
      BY <2>2 DEF q
    <3> QED BY <1>0, <3>2, <3>3
  <2> QED BY <2>1, <2>2 DEF RQItemPush, Pushed
<1>3. \A c \in Calls : Honoured(c) => Honoured(c)'
    BY <1>1, <1>2 DEF Honoured, Running, InReach, Ahead
<1> QED BY <1>3, DrainFrame DEF RQItemPush

(* A notification adds a byte in front of the 'q' byte, or behind it.       *)
LEMMA NotifyDrain ==
    ASSUME TInv, TInv', DrainInv, NEW d \in Dispatchers, Notify(d)
    PROVE  DrainInv'
<1>0. notes \in [Slots -> Nat] /\ dslot[d] \in Slots
    BY DEF TInv, TypeOK, PipeTypeOK, DispatcherTypeOK
<1>1. UNCHANGED <<queue, param, outcome, tpc, titem, quit>>
    BY DEF Notify
<1>2. \A s \in Slots : notes'[s] >= notes[s] /\ notes'[s] \in Nat /\ notes[s] \in Nat
    BY <1>0 DEF Notify
<1>3. \A s \in Slots : Ahead(s)' >= Ahead(s)
    BY <1>1, <1>2 DEF Ahead
<1>4. \A c \in Calls : Honoured(c) => Honoured(c)'
    BY <1>1, <1>3, HonouredKept
<1> QED BY <1>4, DrainFrame DEF Notify

(* The thread of a slot whose 'q' byte is not read stays in its loop ...    *)
LEMMA LoopDrain ==
    ASSUME TInv, TInv', DrainInv, NoRestart, NEW t \in Tids,
           EnterRun(t) \/ Wake(t) \/ ReadCall(t) \/ ReadQuit(t)
    PROVE  DrainInv'
<1>s. PICK s : s = tslot[t]
    OBVIOUS
<1>0. /\ OneThreadPerSlot /\ notes \in [Slots -> Nat]
      /\ quit \in [Slots -> {"no", "sent", "read"}]
      /\ loop \in [Slots -> {"live", "stopped", "destroyed"}]
      /\ loop_done \in [Slots -> {"cancel", "one", "all"}]
      /\ tpc \in [Tids -> {"none", "start", "loop", "read", "pop", "call",
                           "post", "free", "check", "leave", "dead"}]
    BY DEF DrainInv, TInv, TypeOK, PipeTypeOK, ThreadTypeOK
<1>1. tpc[t] \in {"start", "loop", "read"}
    BY DEF EnterRun, Wake, ReadCall, ReadQuit
<1>2. s \in Slots /\ t = s + 1
    BY <1>s, <1>0, <1>1 DEF TInv, LocalsOK, OneThreadPerSlot
<1>3. quit[s] # "read" /\ loop[s] = "live" /\ loop_done[s] = "cancel" /\ ~tcancel[t]
    BY <1>s, <1>0, <1>1, <1>2 DEF OneThreadPerSlot
<1>4. /\ UNCHANGED <<queue, param, outcome, titem>>
      /\ UNCHANGED <<thread_id, nextTid, rpc, tslot, tcancel, xpc, xidx, xtid, xprom>>
    BY DEF EnterRun, Wake, ReadCall, ReadQuit
<1>5. /\ \A r \in Slots : r # s => /\ quit'[r] = quit[r] /\ loop'[r] = loop[r]
                                   /\ loop_done'[r] = loop_done[r] /\ notes'[r] = notes[r]
      /\ quit[s] = "no" => quit'[s] = "no"
    BY <1>s, <1>0, <1>2, <1>3 DEF EnterRun, Wake, ReadCall, ReadQuit
<1>6. PICK pc : /\ tpc' = [tpc EXCEPT ![t] = pc] /\ pc \notin {"none", "leave", "dead"}
                /\ quit'[s] # "read" => loop'[s] = "live" /\ loop_done'[s] = "cancel"
                /\ quit'[s] = "read" => pc = "check" /\ loop'[s] # "live"
  <2>1. CASE EnterRun(t)
    <3>1. /\ tpc' = [tpc EXCEPT ![t] = "loop"] /\ quit' = quit /\ loop' = loop
          /\ loop_done'[s] = "cancel"
      BY <1>s, <1>0, <1>2, <1>3, <2>1 DEF EnterRun, Goto
    <3> QED BY <1>3, <3>1
  <2>2. CASE Wake(t)
    <3>1. tpc' = [tpc EXCEPT ![t] = "read"] /\ UNCHANGED <<quit, loop, loop_done>>
      BY <1>s, <1>3, <2>2 DEF Wake, Goto
    <3> QED BY <1>3, <3>1
  <2>3. CASE ReadCall(t)
    <3>1. tpc' = [tpc EXCEPT ![t] = "pop"] /\ UNCHANGED <<quit, loop, loop_done>>
      BY <2>3 DEF ReadCall, Goto
    <3> QED BY <1>3, <3>1
  <2>4. CASE ReadQuit(t)
    <3>1. /\ tpc' = [tpc EXCEPT ![t] = "check"] /\ quit'[s] = "read" /\ loop'[s] = "stopped"
      BY <1>s, <1>0, <1>2, <1>3, <2>4 DEF ReadQuit, Goto
    <3> QED BY <3>1
  <2> QED BY <2>1, <2>2, <2>3, <2>4
<1>7. \A u \in Tids : tpc[u] = "call" => tpc'[u] = "call" /\ titem'[u] = titem[u]
    BY <1>0, <1>1, <1>4, <1>6
<1>8. ASSUME NEW r \in Slots, quit[r] # "read", Ahead(r) > 0
      PROVE  quit'[r] # "read" /\ Ahead(r)' >= Ahead(r)
  <2>1. CASE r # s
    <3>1. r + 1 # t /\ r + 1 \in Tids
      BY <1>2, <2>1, SlotThreads
    <3>2. tpc'[r + 1] = tpc[r + 1] /\ notes'[r] = notes[r] /\ quit'[r] = quit[r]
      BY <1>0, <1>5, <1>6, <2>1, <3>1
    <3>3. Ahead(r)' = Ahead(r) /\ Ahead(r) \in Int
      BY <1>0, <3>2 DEF Ahead
    <3> QED BY <1>8, <3>2, <3>3
  <2>2. CASE r = s
    <3>1. Ahead(s) = notes[s] /\ notes[s] \in Nat
      BY <1>0, <1>1, <1>2 DEF Ahead
    <3>2. CASE ReadCall(t)
      <4>1. /\ notes'[s] = notes[s] - 1 /\ quit' = quit /\ tpc'[s + 1] = "pop"
        BY <1>s, <1>0, <1>2, <3>2 DEF ReadCall, Goto
      <4>2. Ahead(s)' = Ahead(s)
        BY <3>1, <4>1 DEF Ahead
      <4> QED BY <1>8, <2>2, <3>1, <4>1, <4>2
    <3>3. CASE ReadQuit(t)
      BY <1>s, <1>8, <2>2, <3>1, <3>3 DEF ReadQuit
    <3>4. CASE EnterRun(t) \/ Wake(t)
      <4>1. notes' = notes /\ quit' = quit
        BY <3>4 DEF EnterRun, Wake
      <4>2. Ahead(s)' >= Ahead(s)
        BY <3>1, <4>1 DEF Ahead
      <4> QED BY <1>8, <2>2, <4>1, <4>2
    <3> QED BY <3>2, <3>3, <3>4
  <2> QED BY <2>1, <2>2
<1>9. \A c \in Calls : Honoured(c) => Honoured(c)'
    BY <1>4, <1>7, <1>8, HonouredKept
<1>10. /\ tpc[t] \notin {"none", "dead"} /\ pc # "none"
       /\ \A r \in Slots : r # s => /\ quit'[r] = quit[r] /\ loop'[r] = loop[r]
                                    /\ loop_done'[r] = loop_done[r]
       /\ quit'[s] = "read" => pc \in {"check", "leave", "dead"} /\ loop'[s] # "live"
       /\ quit'[s] # "read" => /\ pc \notin {"leave", "dead"}
                               /\ loop'[s] = "live" /\ loop_done'[s] = "cancel"
    BY <1>1, <1>5, <1>6
<1> QED BY <1>s, <1>4, <1>5, <1>6, <1>9, <1>10, ThreadFrame, ZenonT(40)

(* ... also behind a call; one that has read it leaves.                     *)
LEMMA EndDrain ==
    ASSUME TInv, TInv', DrainInv, NoRestart, NEW t \in Tids,
           BumpVersion(t) \/ RQItemFree(t) \/ CheckDone(t) \/ LoopDestroy(t)
    PROVE  DrainInv'
<1>s. PICK s : s = tslot[t]
    OBVIOUS
<1>0. /\ OneThreadPerSlot
      /\ loop \in [Slots -> {"live", "stopped", "destroyed"}]
      /\ loop_done \in [Slots -> {"cancel", "one", "all"}]
      /\ tpc \in [Tids -> {"none", "start", "loop", "read", "pop", "call",
                           "post", "free", "check", "leave", "dead"}]
      /\ titem \in [Tids -> 0 .. brk]
    BY DEF DrainInv, TInv, TypeOK, PipeTypeOK, ThreadTypeOK
<1>1. tpc[t] \in {"post", "free", "check", "leave"}
    BY DEF BumpVersion, RQItemFree, CheckDone, LoopDestroy
<1>2. s \in Slots /\ t = s + 1
    BY <1>s, <1>0, <1>1 DEF TInv, LocalsOK, OneThreadPerSlot
<1>3. /\ UNCHANGED <<queue, param, outcome, notes, quit>>
      /\ UNCHANGED <<thread_id, nextTid, rpc, tslot, tcancel, xpc, xidx, xtid, xprom>>
    BY DEF BumpVersion, RQItemFree, CheckDone, LoopDestroy
<1>4. \A r \in Slots : r # s => loop'[r] = loop[r] /\ loop_done'[r] = loop_done[r]
    BY <1>s, <1>0, <1>2 DEF BumpVersion, RQItemFree, CheckDone, LoopDestroy
<1>5. PICK pc : /\ tpc' = [tpc EXCEPT ![t] = pc] /\ pc \notin {"none", "pop"}
                /\ quit[s] # "read" => /\ pc \notin {"leave", "dead"}
                                       /\ loop'[s] = "live" /\ loop_done'[s] = "cancel"
                /\ quit[s] = "read" => pc \in {"check", "leave", "dead"} /\ loop'[s] # "live"
  <2>1. /\ quit[s] # "read" => /\ tpc[t] \in {"post", "free", "check"}
                               /\ loop[s] = "live" /\ loop_done[s] = "cancel"
        /\ quit[s] = "read" => tpc[t] \in {"check", "leave"} /\ loop[s] # "live"
    BY <1>s, <1>0, <1>1, <1>2 DEF OneThreadPerSlot
  <2>2. CASE BumpVersion(t) \/ RQItemFree(t)
    BY <2>1, <2>2 DEF BumpVersion, RQItemFree, Goto
  <2>3. CASE CheckDone(t)
    BY <1>s, <1>0, <1>2, <2>1, <2>3 DEF CheckDone, Goto
  <2>4. CASE LoopDestroy(t)
    BY <1>s, <1>0, <1>2, <2>1, <2>4 DEF LoopDestroy, Goto
  <2> QED BY <2>2, <2>3, <2>4
<1>6. \A u \in Tids : tpc[u] = "call" => tpc'[u] = "call" /\ titem'[u] = titem[u]
  <2>1. \A u \in Tids : tpc[u] = "call" => u # t /\ titem'[u] = titem[u]
    BY <1>0, <1>1 DEF BumpVersion, RQItemFree, CheckDone, LoopDestroy
  <2> QED BY <1>0, <1>5, <2>1
<1>7. \A r \in Slots : Ahead(r)' >= Ahead(r)
  <2>1. \A r \in Slots : notes[r] \in Nat
    BY DEF TInv, TypeOK, PipeTypeOK
  <2>2. \A r \in Slots : tpc[r + 1] = "pop" => tpc'[r + 1] = "pop"
    BY <1>0, <1>1, <1>5, SlotThreads
  <2> QED BY <1>3, <2>1, <2>2 DEF Ahead
<1>8. \A c \in Calls : Honoured(c) => Honoured(c)'
    BY <1>3, <1>6, <1>7, HonouredKept
<1>9. tpc[t] \notin {"none", "dead"} /\ quit'[s] = quit[s]
    BY <1>1, <1>3
<1> QED BY <1>3, <1>4, <1>5, <1>8, <1>9, <1>s, ThreadFrame, ZenonT(40)

(* RQItemPop takes the call at the head, and brings the others forward.     *)
LEMMA PopDrain ==
    ASSUME TInv, DrainInv, NoRestart, NEW t \in Tids, RQItemPop(t)
    PROVE  DrainInv'
<1>s. PICK s : s = tslot[t]
    OBVIOUS
<1> DEFINE q == queue[s]
<1>0. /\ OneThreadPerSlot /\ notes \in [Slots -> Nat] /\ queue \in [Slots -> Seq(1 .. brk)]
      /\ tpc \in [Tids -> {"none", "start", "loop", "read", "pop", "call",
                           "post", "free", "check", "leave", "dead"}]
      /\ titem \in [Tids -> 0 .. brk]
    BY DEF DrainInv, TInv, TypeOK, PipeTypeOK, PoolTypeOK, ThreadTypeOK
<1>1. tpc[t] = "pop"
    BY DEF RQItemPop
<1>2. s \in Slots /\ t = s + 1 /\ quit[s] # "read" /\ q \in Seq(1 .. brk)
    BY <1>s, <1>0, <1>1 DEF TInv, LocalsOK, OneThreadPerSlot
<1>3. CASE UNCHANGED <<queue, tpc, titem>>
  <2>1. \A c \in Calls : Honoured(c) => Honoured(c)'
    BY <1>3 DEF RQItemPop, Honoured, Running, InReach, Ahead
  <2> QED BY <1>3, <2>1, DrainFrame DEF RQItemPop
<1>4. CASE /\ q # <<>> /\ queue' = [queue EXCEPT ![s] = Tail(q)]
           /\ titem' = [titem EXCEPT ![t] = Head(q)] /\ tpc' = [tpc EXCEPT ![t] = "call"]
  <2>1. UNCHANGED <<param, outcome, notes, quit, loop, loop_done>>
    BY DEF RQItemPop
  <2>2. /\ Len(q) \in Nat /\ DOMAIN q = 1 .. Len(q) /\ Head(q) = q[1]
        /\ DOMAIN Tail(q) = 1 .. Len(q) - 1
        /\ \A k \in 1 .. Len(q) - 1 : Tail(q)[k] = q[k + 1]
    BY <1>2, <1>4, HeadTailProperties, LenProperties
  <2>3. /\ queue'[s] = Tail(q) /\ titem'[t] = q[1] /\ tpc'[t] = "call"
        /\ \A r \in Slots : r # s => queue'[r] = queue[r] /\ tpc'[r + 1] = tpc[r + 1]
        /\ \A u \in Tids : tpc[u] = "call" => tpc'[u] = "call" /\ titem'[u] = titem[u]
    <3> HIDE DEF q
    <3>1. \A r \in Slots : r # s => r + 1 # t /\ r + 1 \in Tids
      BY <1>2, SlotThreads
    <3>2. queue'[s] = Tail(q) /\ \A r \in Slots : r # s => queue'[r] = queue[r]
      BY <1>0, <1>2, <1>4
    <3>3. /\ titem'[t] = q[1] /\ tpc'[t] = "call"
          /\ \A u \in Tids : u # t => tpc'[u] = tpc[u] /\ titem'[u] = titem[u]
      BY <1>0, <1>4, <2>2
    <3> QED BY <1>1, <3>1, <3>2, <3>3
  <2> HIDE DEF q
  <2>4. ASSUME NEW c \in Calls, InReach(c) PROVE InReach(c)' \/ Running(c)'
    <3>1. PICK r \in Slots : \E k \in DOMAIN queue[r] :
             quit[r] # "read" /\ k <= Ahead(r) /\ param[queue[r][k]] = c
      BY <2>4 DEF InReach
    <3>2. PICK k \in DOMAIN queue[r] :
             quit[r] # "read" /\ k <= Ahead(r) /\ param[queue[r][k]] = c
      BY <3>1
    <3>3. CASE r # s
      BY <2>1, <2>3, <3>2, <3>3 DEF InReach, Ahead
    <3>4. CASE r = s /\ k = 1
      BY <2>1, <2>3, <3>2, <3>4 DEF Running, q
    <3>5. CASE r = s /\ k # 1
      <4>1. k \in 1 .. Len(q) /\ k - 1 \in 1 .. Len(q) - 1 /\ (k - 1) + 1 = k
        BY <2>2, <3>2, <3>5 DEF q
      <4>2. k - 1 \in DOMAIN queue'[s] /\ queue'[s][k - 1] = queue[s][k]
        BY <2>2, <2>3, <4>1 DEF q
      <4>3. Ahead(s) = notes[s] + 1 /\ Ahead(s)' = notes[s] /\ notes[s] \in Nat
        BY <1>s, <1>0, <1>1, <1>2, <2>1, <2>3 DEF Ahead
      <4>4. k - 1 <= Ahead(s)'
        BY <3>2, <3>5, <4>1, <4>3
      <4> QED BY <1>2, <2>1, <3>2, <3>5, <4>2, <4>4 DEF InReach
    <3> QED BY <3>3, <3>4, <3>5
  <2>5. \A c \in Calls : Running(c) => Running(c)'
    BY <2>1, <2>3 DEF Running
  <2>6. \A c \in Calls : Honoured(c) => Honoured(c)'
    BY <2>1, <2>4, <2>5 DEF Honoured
  <2>7. UNCHANGED <<thread_id, nextTid, rpc, tslot, tcancel, xpc, xidx, xtid, xprom>>
    BY DEF RQItemPop
  <2>8. loop[s] = "live" /\ loop_done[s] = "cancel"
    BY <1>s, <1>0, <1>2 DEF OneThreadPerSlot
  <2> QED BY <1>1, <1>2, <1>4, <2>1, <2>6, <2>7, <2>8, <1>s, ThreadFrame
<1> QED BY <1>s, <1>3, <1>4 DEF RQItemPop, Goto

(* The processor of an item returns: its call is finished.                  *)
LEMMA ReturnDrain ==
    ASSUME TInv, DrainInv, CarriedInv, NoRestart, NEW t \in Tids, CallReturns(t)
    PROVE  DrainInv'
<1>s. PICK s : s = tslot[t]
    OBVIOUS
<1> DEFINE b == param[titem[t]]
<1>0. /\ OneThreadPerSlot
      /\ tpc \in [Tids -> {"none", "start", "loop", "read", "pop", "call",
                           "post", "free", "check", "leave", "dead"}]
      /\ outcome \in [Calls -> {"none", "rejected", "finished", "killed"}]
    BY DEF DrainInv, TInv, TypeOK, PoolTypeOK, ThreadTypeOK
<1>1. tpc[t] = "call" /\ tpc' = [tpc EXCEPT ![t] = "post"]
    BY DEF CallReturns, Goto
<1>2. s \in Slots /\ t = s + 1 /\ quit[s] # "read" /\ loop[s] = "live" /\ loop_done[s] = "cancel"
    BY <1>s, <1>0, <1>1 DEF TInv, LocalsOK, OneThreadPerSlot
<1>3. UNCHANGED <<queue, param, titem, notes, quit, loop, loop_done>>
    BY DEF CallReturns
<1>4. outcome' = [outcome EXCEPT ![b] = "finished"]
    BY DEF CallReturns
<1>5. \A c \in Calls : (outcome[c] = "finished" => outcome'[c] = "finished")
                       /\ (c = b => outcome'[c] = "finished")
    BY <1>0, <1>4
<1>6. ASSUME NEW c \in Calls, Running(c) PROVE c = b \/ Running(c)'
  <2>1. PICK u \in Tids : tpc[u] = "call" /\ param[titem[u]] = c
    BY <1>6 DEF Running
  <2>2. CASE u = t
    BY <2>1, <2>2
  <2>3. CASE u # t
    BY <1>0, <1>1, <1>3, <2>1, <2>3 DEF Running
  <2> QED BY <2>2, <2>3
<1>7. \A r \in Slots : (tpc'[r + 1] = "pop") <=> (tpc[r + 1] = "pop")
    BY <1>0, <1>1, SlotThreads
<1>8. \A c \in Calls : InReach(c) => InReach(c)'
    BY <1>3, <1>7 DEF InReach, Ahead
<1>9. \A c \in Calls : Honoured(c) => Honoured(c)'
    BY <1>5, <1>6, <1>8 DEF Honoured
<1>10. UNCHANGED <<thread_id, nextTid, rpc, tslot, tcancel, xpc, xidx, xtid, xprom>>
    BY DEF CallReturns
<1> HIDE DEF b
<1> QED BY <1>1, <1>2, <1>3, <1>9, <1>10, <1>s, ThreadFrame

(* Destroy begins: the calls it promises have a byte in their pipe.         *)
LEMMA BeginDrain ==
    ASSUME TInv, DrainInv, NoRestart, DestroyBegin
    PROVE  DrainInv'
<1>0. OneThreadPerSlot /\ DestroyProgress /\ nextTid > NumThreads
    BY DEF DrainInv
<1>1. /\ UNCHANGED <<queue, param, notes, quit, tpc, titem, outcome, thread_id, nextTid, rpc,
                     loop, loop_done, tslot, tcancel>>
      /\ xpc = "no" /\ xpc' = "quit" /\ xidx' = 0 /\ xprom' = Waiting
    BY DEF DestroyBegin
<1>2. OneThreadPerSlot'
    BY <1>0, <1>1 DEF OneThreadPerSlot
<1>3. DestroyProgress' /\ \A s \in Slots : quit[s] = "no"
    BY <1>0, <1>1 DEF DestroyProgress
<1>4. ASSUME NEW s \in Slots PROVE notes[s] + Cardinality(Popping(s)) = Ahead(s)
  <2>1. Popping(s) \subseteq {s + 1} /\ (s + 1 \in Popping(s) <=> tpc[s + 1] = "pop")
    BY <1>0, SlotThreads DEF OneThreadPerSlot, Popping, TInv, LocalsOK
  <2>2. CASE tpc[s + 1] = "pop"
    <3>1. Popping(s) = {s + 1}
      BY <2>1, <2>2
    <3>2. Cardinality({s + 1}) = 1
      BY FS_Singleton
    <3> QED BY <2>2, <3>1, <3>2 DEF Ahead
  <2>3. CASE tpc[s + 1] # "pop"
    <3>1. Popping(s) = {}
      BY <2>1, <2>3
    <3>2. Cardinality({}) = 0
      BY FS_EmptySet
    <3> QED BY <2>3, <3>1, <3>2 DEF Ahead
  <2> QED BY <2>2, <2>3
<1>5. \A c \in Waiting : InReach(c)
    BY <1>3, <1>4 DEF Waiting, InReach
<1>6. \A c \in xprom' : Honoured(c)'
    BY <1>1, <1>5 DEF Honoured, InReach, Ahead
<1> QED BY <1>0, <1>1, <1>2, <1>3, <1>6 DEF DrainInv

(* Destroy writes a 'q' byte behind what is in the pipe.                    *)
LEMMA QuitDrain ==
    ASSUME TInv, DrainInv, NoRestart, WriteQuit
    PROVE  DrainInv'
<1>0. /\ OneThreadPerSlot /\ DestroyProgress /\ nextTid > NumThreads
      /\ quit \in [Slots -> {"no", "sent", "read"}] /\ xidx \in Slots
      /\ \A c \in xprom : Honoured(c)
    BY DEF DrainInv, TInv, TypeOK, PipeTypeOK, CallerTypeOK, WriteQuit
<1>1. /\ UNCHANGED <<queue, param, notes, tpc, titem, outcome, thread_id, nextTid, rpc,
                     loop, loop_done, tslot, tcancel, xprom>>
      /\ xpc = "quit" /\ quit' = [quit EXCEPT ![xidx] = "sent"]
    BY DEF WriteQuit
<1>2. /\ quit[xidx] = "no" /\ quit'[xidx] = "sent"
      /\ \A s \in Slots : s # xidx => quit'[s] = quit[s]
    BY <1>0, <1>1, SlotThreads DEF DestroyProgress
<1>3. OneThreadPerSlot'
    BY <1>0, <1>1, <1>2 DEF OneThreadPerSlot
<1>4. DestroyProgress'
  <2>1. CASE xidx' = xidx + 1 /\ xpc' = xpc
    BY <1>0, <1>1, <1>2, <2>1, SlotThreads DEF DestroyProgress
  <2>2. CASE xpc' = "join" /\ xidx' = 0 /\ xtid' = thread_id[0]
    BY <1>0, <2>2, SlotThreads DEF DestroyProgress, OneThreadPerSlot
  <2> QED BY <2>1, <2>2 DEF WriteQuit
<1>5. \A c : Honoured(c) => Honoured(c)'
    BY <1>1, <1>2 DEF Honoured, Running, InReach, Ahead
<1> QED BY <1>0, <1>1, <1>3, <1>4, <1>5 DEF DrainInv

(* pthread_join returns for a thread that has ended.                        *)
LEMMA JoinDrain ==
    ASSUME TInv, DrainInv, NoRestart, Joined
    PROVE  DrainInv'
<1>0. /\ OneThreadPerSlot /\ DestroyProgress /\ nextTid > NumThreads /\ xidx \in Slots
      /\ \A c \in xprom : Honoured(c)
    BY DEF DrainInv, TInv, TypeOK, CallerTypeOK, Joined
<1>1. /\ UNCHANGED <<queue, param, notes, quit, tpc, titem, outcome, thread_id, nextTid, rpc,
                     loop, loop_done, tslot, tcancel, xprom>>
      /\ xpc = "join" /\ xtid = xidx + 1 /\ tpc[xidx + 1] = "dead"
    BY <1>0 DEF Joined, ThreadEnded, DestroyProgress
<1>2. OneThreadPerSlot'
    BY <1>0, <1>1 DEF OneThreadPerSlot
<1>3. \A s \in Slots : s <= xidx => tpc[s + 1] = "dead"
    BY <1>0, <1>1, SlotThreads DEF DestroyProgress
<1>4. DestroyProgress'
  <2>1. CASE /\ xidx < NumThreads - 1 /\ xidx' = xidx + 1 /\ xtid' = thread_id[xidx + 1]
             /\ xpc' = xpc
    <3>1. xidx + 1 \in Slots
      BY <1>0, <2>1, SlotThreads DEF Slots
    <3>2. xtid' = xidx' + 1
      BY <1>0, <2>1, <3>1 DEF OneThreadPerSlot
    <3>3. \A s \in Slots : s < xidx' => s <= xidx
      BY <1>0, <2>1, SlotThreads
    <3> QED BY <1>1, <1>3, <2>1, <3>2, <3>3 DEF DestroyProgress
  <2>2. CASE xidx = NumThreads - 1 /\ xpc' = "deleted"
    BY <1>1, <1>3, <2>2, SlotThreads DEF DestroyProgress
  <2> QED BY <2>1, <2>2 DEF Joined
<1>5. \A c : Honoured(c)' <=> Honoured(c)
    BY <1>1 DEF Honoured, Running, InReach, Ahead
<1> QED BY <1>0, <1>1, <1>2, <1>4, <1>5 DEF DrainInv

(* Every step keeps DrainInv; after a restart it says nothing.              *)
LEMMA NextDrain ==
    TInv /\ PlaceInv /\ CarriedInv /\ DrainInv /\ [Next]_vars => DrainInv'
<1> SUFFICES ASSUME TInv, PlaceInv, CarriedInv, DrainInv, [Next]_vars PROVE DrainInv'
    OBVIOUS
<1>0. TInv'
    BY NextTInv
<1>1. ASSUME NEW d \in Dispatchers, DispatchRpcCall(d) PROVE DrainInv'
  <2>1. CASE RQItemNewTake(d) \/ PickThread(d)
    <3>1. UNCHANGED <<queue, param, notes, quit, tpc, titem, outcome, thread_id, nextTid, rpc,
                      loop, loop_done, tslot, tcancel, xpc, xidx, xtid, xprom>>
      BY <2>1 DEF RQItemNewTake, PickThread
    <3>2. \A c \in Calls : Honoured(c) => Honoured(c)'
      BY <3>1 DEF Honoured, Running, InReach, Ahead
    <3> QED BY <3>1, <3>2, DrainFrame
  <2> QED BY <1>0, <1>1, <2>1, AllocDrain, StoreDrain, PushDrain, NotifyDrain
          DEF DispatchRpcCall, DispatchStep
<1>2. ASSUME NoRestart, NEW t \in Tids, LibevWorker(t) PROVE DrainInv'
  <2>1. CASE TouchDestroyedLoop(t)
    <3>1. UNCHANGED <<queue, param, notes, quit, tpc, titem, outcome, thread_id, nextTid, rpc,
                      loop, loop_done, tslot, tcancel, xpc, xidx, xtid, xprom>>
      BY <2>1 DEF TouchDestroyedLoop
    <3>2. \A c \in Calls : Honoured(c) => Honoured(c)'
      BY <3>1 DEF Honoured, Running, InReach, Ahead
    <3> QED BY <3>1, <3>2, DrainFrame
  <2>2. ~Cancelled(t)
    BY <1>2 DEF DrainInv, OneThreadPerSlot, Cancelled
  <2> QED BY <1>0, <1>2, <2>1, <2>2, LoopDrain, PopDrain, ReturnDrain, EndDrain
          DEF LibevWorker
<1>3. ASSUME ~NoRestart, NEW t \in Tids, LibevWorker(t) PROVE DrainInv'
  <2>1. UNCHANGED <<nextTid, rpc>>
    BY <1>3 DEF LibevWorker, TouchDestroyedLoop, EnterRun, Wake, ReadCall, ReadQuit, RQItemPop,
       CallReturns, BumpVersion, RQItemFree, CheckDone, LoopDestroy, Cancelled
  <2> QED BY <1>3, <2>1 DEF DrainInv, NoRestart
<1>4. ASSUME \/ \E s \in Slots : Observe(s)
             \/ \E sn \in snaps : RestartStale(sn)
      PROVE  DrainInv'
  <2>1. UNCHANGED <<queue, param, notes, quit, tpc, titem, outcome, thread_id, nextTid, rpc,
                    loop, loop_done, tslot, tcancel, xpc, xidx, xtid, xprom>>
    BY <1>4 DEF Observe, RestartStale
  <2>2. \A c \in Calls : Honoured(c) => Honoured(c)'
    BY <2>1 DEF Honoured, Running, InReach, Ahead
  <2> QED BY <2>1, <2>2, DrainFrame
<1>5. ASSUME (\E sn \in snaps : RestartBreak(sn)) \/ RestartCancel \/ RestartCreate
      PROVE  DrainInv'
  <2>1. nextTid > NumThreads /\ nextTid \in Nat /\ NumThreads \in Nat
    BY PoolAssumption DEF DrainInv, TInv, TypeOK, ThreadTypeOK
  <2>2. \/ nextTid' = nextTid /\ rpc' # "idle"
        \/ nextTid' = nextTid + 1
    BY <1>5 DEF RestartBreak, RestartCancel, RestartCreate
  <2> QED BY <2>1, <2>2 DEF DrainInv, NoRestart
<1>6. ASSUME NoRestart, Destroy PROVE DrainInv'
    BY <1>6, BeginDrain, QuitDrain, JoinDrain DEF Destroy
<1>7. ASSUME ~NoRestart, Destroy PROVE DrainInv'
  <2>1. UNCHANGED <<nextTid, rpc>>
    BY <1>7 DEF Destroy, DestroyBegin, WriteQuit, Joined
  <2> QED BY <1>7, <2>1 DEF DrainInv, NoRestart
<1>8. CASE UNCHANGED vars
  <2>1. UNCHANGED <<queue, param, notes, quit, tpc, titem, outcome, thread_id, nextTid, rpc,
                    loop, loop_done, tslot, tcancel, xpc, xidx, xtid, xprom>>
    BY <1>8 DEF vars
  <2>2. \A c \in Calls : Honoured(c) => Honoured(c)'
    BY <2>1 DEF Honoured, Running, InReach, Ahead
  <2> QED BY <2>1, <2>2, DrainFrame
<1> QED BY <1>1, <1>2, <1>3, <1>4, <1>5, <1>6, <1>7, <1>8 DEF Next, RestartThread

(* Destroy returns only when the calls notified before it are finished,     *)
(* for any number of slots, dispatchers and calls and any size of the pipe, *)
(* as long as RestartThread has broken no loop.                             *)
THEOREM DestroyDrains == Spec => []DrainedOnDestroy
<1>1. TInv /\ DrainInv => DrainedOnDestroy
  <2> SUFFICES ASSUME TInv, DrainInv, xpc = "deleted", NoRestart, NEW c \in xprom
               PROVE  outcome[c] = "finished"
    BY DEF DrainedOnDestroy
  <2>1. Honoured(c) /\ OneThreadPerSlot /\ \A s \in Slots : tpc[s + 1] = "dead"
    BY DEF DrainInv, DestroyProgress
  <2>2. ~InReach(c)
    BY <2>1 DEF InReach, OneThreadPerSlot
  <2>3. ~Running(c)
    BY <2>1 DEF Running, OneThreadPerSlot, TInv, LocalsOK
  <2> QED BY <2>1, <2>2, <2>3 DEF Honoured
<1>2. TInv /\ PlaceInv /\ CarriedInv /\ [Next]_vars => CarriedInv'
    BY NextCall
<1> QED BY <1>1, <1>2, InitCarried, PlaceInvAlways, InitDrain, NextDrain, PTL DEF Spec
=============================================================================
