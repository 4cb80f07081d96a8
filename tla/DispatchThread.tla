--------------------------- MODULE DispatchThread ---------------------------
(***************************************************************************)
(* The dispatch thread of rpc_server/dispatch_thread.{h,cpp}: one libev     *)
(* loop accepts connections, watches each with an event item (EIO_ITEM)     *)
(* until it is readable, and hands it to RpcServer::RpcCall.  The items in  *)
(* use form a list in the order of acceptance; spare ones a free list.      *)
(*                                                                          *)
(* libev keeps, for every descriptor, the watchers started on it, and       *)
(* after a poll the watchers with pending events.  A watcher is the memory  *)
(* of its item: an item that is used again while the loop still refers to   *)
(* it stands for its new descriptor wherever the loop finds it.             *)
(***************************************************************************)
EXTENDS Integers, SequencesExt

CONSTANTS
    Conns,          \* connections clients may open; each is a descriptor
    NoConn,         \* eio.fd of an item that has not been used
    ItemPerAlloc,   \* ei_per_alloc_
    MaxItems        \* bound: memory for items; malloc fails beyond

ASSUME DispatchAssumption ==
    /\ IsFiniteSet(Conns) /\ NoConn \notin Conns
    /\ ItemPerAlloc \in Nat /\ ItemPerAlloc > 1
    /\ MaxItems \in Nat

Items == 1 .. MaxItems
Listener == 0       \* socket_watcher_

VARIABLES
    serial,     \* how the clients behave: see Request; never changes
    conn,       \* "none", "backlog", "open" or "closed"
    sent,       \* connections whose client has sent its request
    readable,   \* connections with data nobody has read
    freelist,   \* eio_freelist_, head first
    uselist,    \* eio_uselist_, head first
    brk,        \* items malloc'ed so far: 1 .. brk
    fd,         \* eio.fd of each item
    active,     \* eio.active of each item
    watchers,   \* libev: the items in the list of each descriptor
    pending,    \* libev: watchers whose callback is to be called
    pool,       \* the worker pool: "new", "table" (no queues yet), "ready"
    handed,     \* how often each connection was passed to RpcCall
    premature,  \* connections passed to RpcCall before they had data
    aborted     \* a NULL pointer was dereferenced

vars == <<serial, conn, sent, readable, freelist, uselist, brk, fd, active, watchers,
          pending, pool, handed, premature, aborted>>
clientVars == <<serial, conn, sent, readable>>
itemVars == <<freelist, uselist, brk, fd, active, watchers>>
callVars == <<handed, premature>>

(* InitializeService has started the listening watcher.                     *)
Init ==
    /\ serial \in BOOLEAN
    /\ conn = [c \in Conns |-> "none"] /\ sent = {} /\ readable = {}
    /\ freelist = <<>> /\ uselist = <<>> /\ brk = 0
    /\ fd = [i \in Items |-> NoConn]
    /\ active = [i \in Items |-> FALSE]
    /\ watchers = [c \in Conns |-> {}]
    /\ pending = {}
    /\ pool = "new"
    /\ handed = [c \in Conns |-> 0]
    /\ premature = {}
    /\ aborted = FALSE

-----------------------------------------------------------------------------
(***************************************************************************)
(* The clients, the worker pool, and the start of the server.               *)
(***************************************************************************)
Connect(c) ==
    /\ conn[c] = "none"
    /\ conn' = [conn EXCEPT ![c] = "backlog"]
    /\ UNCHANGED <<serial, sent, readable, itemVars, pending, pool, callVars, aborted>>

(* Serial clients send in the order in which they were accepted, each after *)
(* the request before it has been passed on; others send at any time.       *)
Request(c) ==
    /\ conn[c] \in {"backlog", "open"} /\ c \notin sent
    /\ serial => uselist # <<>> /\ fd[Head(uselist)] = c
    /\ sent' = sent \cup {c}
    /\ readable' = readable \cup {c}
    /\ UNCHANGED <<serial, conn, itemVars, pending, pool, callVars, aborted>>

(* A worker reads the request of a connection it was handed.                *)
WorkerReads(c) ==
    /\ c \in readable /\ conn[c] = "open" /\ handed[c] > 0
    /\ readable' = readable \ {c}
    /\ UNCHANGED <<serial, conn, sent, itemVars, pending, pool, callVars, aborted>>

(* RpcServer::Start starts the dispatch thread before the pool, whose Start *)
(* allocates the table of threads and then fills it.                        *)
PoolStarts ==
    /\ \/ pool = "new" /\ pool' = "table"
       \/ pool = "table" /\ pool' = "ready"
    /\ UNCHANGED <<clientVars, itemVars, pending, callVars, aborted>>

-----------------------------------------------------------------------------
(***************************************************************************)
(* ev_run.                                                                  *)
(***************************************************************************)
Ready ==
    (UNION {watchers[c] : c \in {d \in readable : conn[d] = "open"}})
    \cup (IF \E c \in Conns : conn[c] = "backlog" THEN {Listener} ELSE {})

(* epoll_wait: every watcher of a ready descriptor becomes pending.         *)
Poll ==
    /\ pending = {} /\ Ready # {}
    /\ pending' = Ready
    /\ UNCHANGED <<clientVars, itemVars, pool, callVars, aborted>>

(* Mutant: a fresh block is linked one item too far.                        *)
MutNewEIO ==
    IF freelist # <<>>
      THEN [item |-> Head(freelist), rest |-> Tail(freelist), brk |-> brk]
      ELSE [item |-> brk + 1, brk |-> brk + ItemPerAlloc,
            rest |-> [k \in 1 .. ItemPerAlloc |-> brk + 1 + k]]
(* NewEIO: the item and the free list it leaves.  A fresh block goes to the *)
(* free list but for its first item.                                        *)
NewEIO ==
    IF freelist # <<>>
      THEN [item |-> Head(freelist), rest |-> Tail(freelist), brk |-> brk]
      ELSE [item |-> brk + 1, brk |-> brk + ItemPerAlloc,
            rest |-> [k \in 1 .. ItemPerAlloc - 1 |-> brk + 1 + k]]

(* Mutant: ev_io_start is not called.                                       *)
MutStarted(c) == watchers[c]
(* The list of descriptor c after ev_io_start of the new item.              *)
Started(c) == watchers[c] \cup {NewEIO.item}

(* AcceptCb: Accept, NewEIO, ev_io_init, which makes the watcher inactive   *)
(* wherever it still is, ev_io_start, PushEIO.  Without memory the NULL     *)
(* item is used.                                                            *)
AcceptCb(c) ==
    /\ Listener \in pending /\ conn[c] = "backlog"
    /\ pending' = pending \ {Listener}
    /\ conn' = [conn EXCEPT ![c] = "open"]
    /\ \/ /\ NewEIO.brk <= MaxItems
          /\ freelist' = NewEIO.rest /\ brk' = NewEIO.brk
          /\ fd' = [fd EXCEPT ![NewEIO.item] = c]
          /\ active' = [active EXCEPT ![NewEIO.item] = TRUE]
          /\ watchers' = [watchers EXCEPT ![c] = Started(c)]
          /\ uselist' = Append(uselist, NewEIO.item)
          /\ UNCHANGED aborted
       \/ /\ NewEIO.brk > MaxItems
          /\ aborted' = TRUE
          /\ UNCHANGED itemVars
    /\ UNCHANGED <<serial, sent, readable, pool, callVars>>

(* AcceptCb when Accept returns an error.                                   *)
AcceptFails ==
    /\ Listener \in pending
    /\ pending' = pending \ {Listener}
    /\ UNCHANGED <<clientVars, itemVars, pool, callVars, aborted>>

(* RpcServer::RpcCall(c): DispatchRpcCall returns false while the pool has  *)
(* no table, or without memory for a request item, and the connection is    *)
(* closed; without a queue in the table it faults on a NULL pointer.        *)
RpcCall(c, faults) ==
    /\ handed' = [handed EXCEPT ![c] = @ + 1]
    /\ premature' = premature \cup ({c} \ sent)
    /\ \/ ~faults /\ conn' = [conn EXCEPT ![c] = "closed"]
       \/ pool # "new" /\ faults = (pool = "table") /\ UNCHANGED conn

(* Mutant: the item is freed and stays in front of the list.                *)
MutPopEIO == uselist
(* The list in use after PopEIO, and the free list after FreeEIO of what it *)
(* returned: the item accepted first, whichever watcher has fired.          *)
PopEIO == Tail(uselist)
FreeEIO == <<Head(uselist)>> \o freelist

(* Mutant: ev_io_stop is not called.                                        *)
MutStopped(i) == watchers[fd[i]]
(* The list of i's descriptor after ev_io_stop(i), which does nothing to an *)
(* inactive watcher.                                                        *)
Stopped(i) == IF active[i] THEN watchers[fd[i]] \ {i} ELSE watchers[fd[i]]

(* ProcessCb: RpcCall, ev_io_stop, PopEIO, FreeEIO.  With no item in use,   *)
(* FreeEIO(NULL) faults.                                                    *)
ProcessCb(i) ==
    /\ i \in pending \ {Listener}
    /\ pending' = pending \ {i}
    /\ watchers' = [watchers EXCEPT ![fd[i]] = Stopped(i)]
    /\ active' = [active EXCEPT ![i] = FALSE]
    /\ \E faults \in BOOLEAN :
         /\ RpcCall(fd[i], faults)
         /\ \/ /\ uselist # <<>>
               /\ uselist' = PopEIO /\ freelist' = FreeEIO
               /\ aborted' = faults
            \/ /\ uselist = <<>>
               /\ aborted' = TRUE
               /\ UNCHANGED <<uselist, freelist>>
    /\ UNCHANGED <<serial, sent, readable, brk, fd, pool>>

Run ==
    \/ Poll
    \/ AcceptFails
    \/ \E c \in Conns : AcceptCb(c)
    \/ \E i \in Items : ProcessCb(i)

Next ==
    \/ \E c \in Conns : ~aborted /\ (Connect(c) \/ Request(c) \/ WorkerReads(c))
    \/ ~aborted /\ PoolStarts
    \/ ~aborted /\ Run

Spec == Init /\ [][Next]_vars

(* ev_run goes on as long as there are events, a worker reads what it is    *)
(* given, and Start of the pool is not interrupted.                         *)
FairSpec ==
    /\ Spec
    /\ WF_vars(~aborted /\ Run)
    /\ \A c \in Conns : WF_vars(~aborted /\ WorkerReads(c))
    /\ WF_vars(~aborted /\ PoolStarts)

-----------------------------------------------------------------------------
(* Every variable has its type: in particular only items that were          *)
(* allocated are listed, watched or called back by the loop.                *)
TypeOK ==
    /\ serial \in BOOLEAN /\ aborted \in BOOLEAN
    /\ conn \in [Conns -> {"none", "backlog", "open", "closed"}]
    /\ readable \subseteq sent /\ sent \subseteq Conns
    /\ brk \in 0 .. MaxItems
    /\ freelist \in Seq(1 .. brk) /\ uselist \in Seq(1 .. brk)
    /\ fd \in [Items -> Conns \cup {NoConn}]
    /\ active \in [Items -> BOOLEAN]
    /\ watchers \in [Conns -> SUBSET (1 .. brk)]
    /\ pending \subseteq {Listener} \cup 1 .. brk
    /\ pool \in {"new", "table", "ready"}
    /\ handed \in [Conns -> Nat] /\ premature \subseteq Conns

(* NewEIO, PushEIO, PopEIO and FreeEIO never lose an item nor link it       *)
(* twice, however accepts and callbacks alternate.                          *)
ItemsAccounted ==
    /\ ToSet(uselist) \cup ToSet(freelist) = 1 .. brk
    /\ Len(uselist) + Len(freelist) = brk

(* AcceptCb and ProcessCb pass a connection to RpcCall once, and only when  *)
(* its request has come.                                                    *)
HandedOnce ==
    /\ \A c \in Conns : handed[c] <= 1
    /\ premature = {}

(* They do so when requests come one at a time, across reuse of the items,  *)
(* connections that wait and the start of the pool.                         *)
SerialHandedOnce == serial => HandedOnce

(* Every request of a serial client is passed to RpcCall, unless the        *)
(* process dies: reused items are watched like fresh ones.                  *)
SerialHanded ==
    \A c \in Conns : (serial /\ c \in sent) ~> (handed[c] > 0 \/ aborted)
=============================================================================
