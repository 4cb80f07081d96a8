-------------------------- MODULE ConnectionTimers --------------------------
(***************************************************************************)
(* The timers of connections: every worker thread inserts and deletes them  *)
(* in a buffer of its own, the timer thread takes the buffers over into the *)
(* buckets of a wheel and visits one bucket a second.                       *)
(*                                                                         *)
(* A timer is a number; its key is the address of the client and the        *)
(* descriptor. Only whether expire_time has passed is kept of the time: a   *)
(* timer may expire at any moment.                                          *)
(***************************************************************************)
EXTENDS Naturals, Sequences, FiniteSets, Functions

CONSTANTS
    Workers,      \* the threads that call InitTimerBuf
    Keys,         \* pairs of client address and descriptor
    ClientOf,     \* the address in a key
    BucketOf,     \* GenerateBucketNum, a number below buckets_size
    buckets_size,
    MaxTimers     \* bound on the connections

None == "none"      \* no worker

ASSUME TimerAssumption ==
    /\ buckets_size \in Nat \ {0} /\ MaxTimers \in Nat
    /\ BucketOf \in [Keys -> 0 .. buckets_size - 1]
    /\ IsFiniteSet(Workers) /\ None \notin Workers /\ DOMAIN ClientOf = Keys

VARIABLES
    buf_index,    \* worker -> its buffer, 0 before InitTimerBuf
    pushing,      \* the worker inside InitTimerBuf, or None
    nbuf,         \* size of connection_buf_
    connection_buf,      \* buffer -> (key -> timer)
    connection_del_list, \* buffer -> keys
    running,      \* running_
    pool,         \* the maps of all buckets: key -> timer
    refresh_client_list, \* addresses
    pc,           \* the timer thread
    cur,          \* buffer the crawler is at
    taken,        \* the deleted keys it has taken from that buffer
    bucket_index,
    hb,           \* the heartbeat server's thread
    info,         \* the timers made so far: key, buffer and whether it has expired
    deleted,      \* timers whose DeleteConnectionTimer was called
    erased        \* timer -> how often a visit erased it to call RestartWorkerThread

Timers == 1 .. MaxTimers
Buffers == 1 .. Cardinality(Workers)
Empty == [k \in {} |-> 0]

worker == <<buf_index, pushing, nbuf, running>>
wheel == <<pool, pc, cur, taken, bucket_index>>
history == <<info, deleted, erased>>
vars == <<buf_index, pushing, nbuf, connection_buf, connection_del_list, running, pool,
          refresh_client_list, pc, cur, taken, bucket_index, hb, info, deleted, erased>>

Init ==
    /\ buf_index = [w \in Workers |-> 0] /\ pushing = None /\ nbuf = 0
    /\ connection_buf = [b \in Buffers |-> Empty]
    /\ connection_del_list = [b \in Buffers |-> {}]
    /\ running = FALSE /\ pool = Empty /\ refresh_client_list = {}
    /\ pc = "new" /\ cur = 1 /\ taken = {} /\ bucket_index = 0 /\ hb = "new"
    /\ info = <<>> /\ deleted = {}
    /\ erased = [t \in Timers |-> 0]

\* An exception nobody catches ends the process.
Alive == pc # "aborted"
-----------------------------------------------------------------------------
(* The worker threads *)

\* InitTimerBuf, its first push_back: connection_buf_ is longer than the others.
InitTimerBufPush(w) ==
    /\ Alive /\ buf_index[w] = 0 /\ pushing = None
    /\ pushing' = w /\ nbuf' = nbuf + 1
    /\ UNCHANGED <<buf_index, running, connection_buf, connection_del_list, refresh_client_list, wheel, hb, history>>

InitTimerBufDone(w) ==
    /\ Alive /\ pushing = w
    /\ pushing' = None /\ running' = TRUE
    /\ buf_index' = [buf_index EXCEPT ![w] = nbuf]
    /\ UNCHANGED <<nbuf, connection_buf, connection_del_list, refresh_client_list, wheel, hb, history>>

\* std::map::insert leaves an entry that is there.
Merged(map, more) ==
    [k \in DOMAIN map \union DOMAIN more |-> IF k \in DOMAIN map THEN map[k] ELSE more[k]]
Inserted(map, k, t) == Merged(map, [x \in {k} |-> t])

\* A descriptor is in use until its connection is deleted.
InUse(k) == \E t \in DOMAIN info : info[t].key = k /\ t \notin deleted

InsertConnectionTimer(w, k) ==
    LET t == Len(info) + 1  b == buf_index[w] IN
    /\ Alive /\ b # 0 /\ t \in Timers /\ ~InUse(k)
    /\ info' = Append(info, [key |-> k, buf |-> b, expired |-> FALSE])
    /\ connection_buf' = [connection_buf EXCEPT ![b] = Inserted(@, k, t)]
    /\ UNCHANGED <<worker, connection_del_list, refresh_client_list, wheel, hb, deleted, erased>>

DeleteConnectionTimer(w, t) ==
    /\ Alive /\ t \in DOMAIN info /\ t \notin deleted /\ buf_index[w] = info[t].buf
    /\ deleted' = deleted \union {t}
    /\ connection_del_list' = [connection_del_list EXCEPT ![info[t].buf] = @ \union {info[t].key}]
    /\ UNCHANGED <<worker, connection_buf, refresh_client_list, wheel, hb, info, erased>>

InsertRefreshConnectionInfo(c) ==
    /\ Alive
    /\ refresh_client_list' = refresh_client_list \union {c}
    /\ UNCHANGED <<worker, connection_buf, connection_del_list, wheel, hb, history>>

Expire(t) ==
    /\ Alive /\ t \in DOMAIN info /\ ~info[t].expired
    /\ info' = [info EXCEPT ![t].expired = TRUE]
    /\ UNCHANGED <<worker, connection_buf, connection_del_list, refresh_client_list, wheel, hb, deleted, erased>>
-----------------------------------------------------------------------------
(* The timer thread *)

\* Run: it starts the heartbeat server and ends at once while running_ is false.
Start ==
    /\ pc = "new"
    /\ pc' = IF running THEN "dels" ELSE "ended"
    /\ hb' = "started"
    /\ UNCHANGED <<worker, connection_buf, connection_del_list, refresh_client_list, pool, cur, taken, bucket_index, history>>

\* Run of the heartbeat server returns when InitHeartbeatServer succeeds. When it
\* fails, epoller_ is not initialised: NULL, or an address ev_run faults on.
HeartbeatServerRun(fault) ==
    /\ Alive /\ hb = "started"
    /\ hb' = "ended"
    /\ pc' = IF fault THEN "aborted" ELSE pc
    /\ UNCHANGED <<worker, connection_buf, connection_del_list, refresh_client_list, pool, cur, taken, bucket_index, history>>

\* The buffers whose mutexes have been pushed too.
Complete == IF pushing = None THEN nbuf ELSE nbuf - 1

\* ConnectionBufCrawler takes the list of deleted keys; at() throws when
\* connection_buf_ is longer than the vector of mutexes.
TakeDeleted ==
    /\ pc = "dels"
    /\ IF cur > Complete
       THEN /\ pc' = "aborted"
            /\ UNCHANGED <<connection_del_list, taken>>
       ELSE /\ pc' = "buf"
            /\ taken' = connection_del_list[cur]
            /\ connection_del_list' = [connection_del_list EXCEPT ![cur] = {}]
    /\ UNCHANGED <<worker, connection_buf, refresh_client_list, pool, cur, bucket_index, hb, history>>

MutCrawled(map, buf, dels) == Merged(Restrict(map, DOMAIN map \ dels), buf)
MutCrawledLost(map, buf, dels) == Restrict(buf, DOMAIN buf \ dels)
\* The buckets after the deletions and the insertions of one buffer.
Crawled(map, buf, dels) ==
    Merged(Restrict(map, DOMAIN map \ dels), Restrict(buf, DOMAIN buf \ dels))

\* It takes the buffer, and hashes what was not deleted into the buckets.
TakeBuffer ==
    /\ pc = "buf"
    /\ pool' = Crawled(pool, connection_buf[cur], taken)
    /\ connection_buf' = [connection_buf EXCEPT ![cur] = Empty]
    /\ taken' = {}
    /\ IF cur < nbuf THEN cur' = cur + 1 /\ pc' = "dels" ELSE cur' = 1 /\ pc' = "bucket"
    /\ UNCHANGED <<worker, connection_del_list, refresh_client_list, bucket_index, hb, history>>

Bucket == {k \in DOMAIN pool : BucketOf[k] = bucket_index}
Refreshed == {k \in Bucket : ClientOf[k] \in refresh_client_list}

\* expire_time > time(NULL), after the refresh by heartbeats: the timers that have not
\* expired are the ones that are erased.
Firing == {k \in Bucket : k \in Refreshed \/ ~info[pool[k]].expired}

MutPoolAfter == pool
PoolAfter == Restrict(pool, DOMAIN pool \ Firing)

\* One visit of a bucket; the heartbeats are taken only by one that is not empty.
\* Each erased timer makes a call of RestartWorkerThread whose arguments are read through
\* a reference into the erased node: they may be the timer's own, another one's or
\* neither, so the call is no state of the wheel (the pool takes any pair).
VisitBucket ==
    /\ pc = "bucket"
    /\ LET shot == {pool[k] : k \in Firing} IN
       /\ erased' = [t \in Timers |-> IF t \in shot THEN erased[t] + 1 ELSE erased[t]]
       /\ info' = [t \in DOMAIN info |-> IF t \in {pool[k] : k \in Refreshed}
                                    THEN [info[t] EXCEPT !.expired = FALSE] ELSE info[t]]
    /\ pool' = PoolAfter
    /\ refresh_client_list' = IF Bucket = {} THEN refresh_client_list ELSE {}
    /\ bucket_index' = (bucket_index + 1) % buckets_size
    /\ pc' = "dels"
    /\ UNCHANGED <<worker, connection_buf, connection_del_list, cur, taken, hb, deleted>>

\* Or the read faults: iter->second was freed with its node.
VisitBucketFault ==
    /\ pc = "bucket" /\ Firing # {}
    /\ pc' = "aborted"
    /\ UNCHANGED <<worker, connection_buf, connection_del_list, refresh_client_list, pool, cur, taken, bucket_index, hb, history>>

Run == Start \/ TakeDeleted \/ TakeBuffer \/ VisitBucket \/ VisitBucketFault

Next ==
    \/ \E w \in Workers :
        \/ InitTimerBufPush(w)
        \/ InitTimerBufDone(w)
        \/ \E k \in Keys : InsertConnectionTimer(w, k)
        \/ \E t \in Timers : DeleteConnectionTimer(w, t)
    \/ \E k \in Keys : InsertRefreshConnectionInfo(ClientOf[k])
    \/ \E t \in Timers : Expire(t)
    \/ Run
    \/ \E fault \in BOOLEAN : HeartbeatServerRun(fault)

Spec == Init /\ [][Next]_vars
\* The timer thread runs and its sleep(1) ends.
FairSpec == Spec /\ WF_vars(Run)
-----------------------------------------------------------------------------
(* Properties *)

InBuffer(t) == \E b \in Buffers : \E k \in DOMAIN connection_buf[b] : connection_buf[b][k] = t
InPool(t) == \E k \in DOMAIN pool : pool[k] = t

\* A timer is in one place at a time, a buffer or a bucket, though ConnectionBufCrawler
\* moves it from one to the other, and a visit erases it at most once: whatever pair the
\* call of RestartWorkerThread reads from the erased node, no timer makes two calls.
ErasedOnce ==
    \A t \in DOMAIN info :
        /\ erased[t] <= 1
        /\ erased[t] = 1 => ~InBuffer(t) /\ ~InPool(t)
        /\ ~(InBuffer(t) /\ InPool(t))

\* A deleted timer that is still in a buffer or a bucket has its deletion still to come,
\* though the two lists are taken under two locks, one after the other
\* (ConnectionBufCrawler): no deletion is spent before its timer arrives.
DeletionPending ==
    \A t \in deleted : InBuffer(t) \/ InPool(t) =>
        info[t].key \in connection_del_list[info[t].buf] \union (IF cur = info[t].buf THEN taken ELSE {})

\* The timer of an open connection that has not erased is in a buffer or a bucket, unless
\* its key (address and descriptor) was used by an earlier connection: insert does not
\* overwrite, and the earlier one's deletion removes both.
LostOnlyByReuse ==
    \A t \in DOMAIN info :
        t \in deleted \/ erased[t] > 0 \/ InBuffer(t) \/ InPool(t)
          \/ \E u \in 1 .. t - 1 : info[u].key = info[t].key

\* A deleted timer leaves the wheel, as long as the timer thread lives.
DeletedForgotten ==
    \A t \in Timers : (t \in deleted) ~> (~(InBuffer(t) \/ InPool(t)) \/ pc \in {"new", "ended", "aborted"})
=============================================================================
