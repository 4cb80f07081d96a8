-------------------------- MODULE LibevThreadPool --------------------------
(***************************************************************************)
(* The libev thread pool of rpc_server/libev_thread_pool.{h,cpp}: callers   *)
(* of DispatchRpcCall hand request items to a fixed number of slots (the    *)
(* LIBEV_THREAD array), each slot with its own pipe, request queue and      *)
(* event loop served by one thread; RestartThread cancels the thread of a   *)
(* slot and creates another; Destroy sends every slot a quit byte and joins.*)
(*                                                                          *)
(* One action is one stretch of code between two points where another       *)
(* thread can matter (a lock taken or released, a pipe written or read, a   *)
(* shared field loaded or stored).  Threads are cancelled in the POSIX      *)
(* default (deferred) mode: RestartThread changes the cancel type of its    *)
(* own caller only, so the target dies at epoll_wait, at read, inside the   *)
(* request's processor, or at the first close() of ev_loop_destroy.         *)
(***************************************************************************)
EXTENDS Integers, Sequences, FiniteSets

CONSTANTS
    NumThreads,     \* num_threads_: slots of the pool
    Dispatchers,    \* threads that call DispatchRpcCall
    ItemPerAlloc,   \* item_per_alloc_: request items per malloc
    MaxItems,       \* bound: memory for request items; malloc fails beyond
    MaxCalls,       \* bound: calls of DispatchRpcCall
    MaxTids,        \* bound: threads ever created, replacements included
    MaxSnaps,       \* bound: (thread_id, running_version) pairs observed
    TimersOnly,     \* TRUE: only a running call is noted, and once (a timer)
    MaxDestroys,    \* bound: whether Destroy is called (it is at most once)
    PipeCap         \* bytes a notify pipe holds before write blocks

ASSUME PoolAssumption ==
    /\ NumThreads \in Nat \ {0}
    /\ ItemPerAlloc \in Nat \ {0, 1}
    /\ MaxItems \in Nat
    /\ MaxCalls \in Nat
    /\ MaxTids \in Nat /\ MaxTids >= NumThreads
    /\ MaxSnaps \in Nat
    /\ TimersOnly \in BOOLEAN
    /\ MaxDestroys \in {0, 1}
    /\ PipeCap \in Nat \ {0}
    /\ IsFiniteSet(Dispatchers)

Slots == 0 .. NumThreads - 1
Items == 1 .. MaxItems
Calls == 1 .. MaxCalls
Tids == 1 .. MaxTids

NoItem == 0     \* a NULL RQ_ITEM pointer
NoCall == 0     \* the param of an item never dispatched
NoSlot == -1

VARIABLES
    \* the pool's shared memory
    freelist,           \* rqi_freelist_, head first
    brk,                \* items malloc'ed so far: 1..brk
    param,              \* param field of every item: the call it carries
    queue,              \* new_request_queue of each slot, head first
    current_thread,     \* current_thread_
    thread_id,          \* LIBEV_THREAD.thread_id
    running_version,    \* LIBEV_THREAD.running_version
    \* the notify pipe of each slot: notes 'c' bytes, then perhaps one 'q'
    \* byte, then late 'c' bytes written behind the 'q'
    notes, quit, late,
    \* the event loop of each slot
    loop,               \* "live", "stopped" (its watcher is), "destroyed"
    loop_done,          \* libev's flag: "cancel", "one", "all"
    \* callers of DispatchRpcCall
    dpc, dcall, ditem, dslot, issued,
    \* pool threads
    tpc, tslot, titem, tcancel, completed, nextTid,
    \* the caller of RestartThread and what it has observed
    rpc, rsnap, rslot, snaps, noted, observed,
    \* the caller of Destroy
    xpc, xidx, xtid, xprom,
    \* what became of each call, and undefined behaviour that ended the run
    outcome, aborted

itemVars == <<freelist, brk, param>>
pipeVars == <<notes, quit, late>>
loopVars == <<loop, loop_done>>
dispVars == <<dpc, dcall, ditem, dslot, issued, current_thread>>
thrVars == <<tpc, tslot, titem, tcancel, completed>>
slotVars == <<thread_id, nextTid>>
restVars == <<rpc, rsnap, rslot>>
obsVars == <<snaps, noted, observed>>
destVars == <<xpc, xidx, xtid, xprom>>

vars == <<itemVars, queue, slotVars, running_version, pipeVars, loopVars,
          dispVars, thrVars, restVars, obsVars, destVars, outcome, aborted>>

\* what the steps of each kind of thread all leave alone
notDisp == <<slotVars, running_version, loopVars, thrVars, restVars, obsVars,
             destVars>>
notThr == <<slotVars, dispVars, restVars, obsVars, destVars>>
notRest == <<itemVars, queue, running_version, pipeVars, dispVars, destVars,
             outcome, aborted>>
notDest == <<itemVars, queue, slotVars, running_version, loopVars, dispVars,
             thrVars, restVars, obsVars, outcome, aborted>>

Snapshots == [tid : Tids, ver : Nat, done : Nat]
NoSnap == [tid |-> 1, ver |-> 0, done |-> 0]

(***************************************************************************)
(* LibevThreadInitialization: every slot gets an empty queue, a pipe and a  *)
(* started watcher; then one thread per slot is created (slot s runs thread *)
(* s + 1).  The pool is idle and has malloc'ed no item.                     *)
(***************************************************************************)
Init ==
    /\ freelist = <<>> /\ brk = 0
    /\ param = [i \in Items |-> NoCall]
    /\ queue = [s \in Slots |-> <<>>]
    /\ current_thread = -1
    /\ thread_id = [s \in Slots |-> s + 1]
    /\ nextTid = NumThreads + 1
    /\ running_version = [s \in Slots |-> 0]
    /\ notes = [s \in Slots |-> 0]
    /\ quit = [s \in Slots |-> "no"]
    /\ late = [s \in Slots |-> 0]
    /\ loop = [s \in Slots |-> "live"]
    /\ loop_done = [s \in Slots |-> "cancel"]
    /\ dpc = [d \in Dispatchers |-> "idle"]
    /\ dcall = [d \in Dispatchers |-> NoCall]
    /\ ditem = [d \in Dispatchers |-> NoItem]
    /\ dslot = [d \in Dispatchers |-> 0]
    /\ issued = 0
    /\ tpc = [t \in Tids |-> IF t <= NumThreads THEN "start" ELSE "none"]
    /\ tslot = [t \in Tids |-> IF t <= NumThreads THEN t - 1 ELSE NoSlot]
    /\ titem = [t \in Tids |-> NoItem]
    /\ tcancel = [t \in Tids |-> FALSE]
    /\ completed = [t \in Tids |-> 0]
    /\ rpc = "idle" /\ rsnap = NoSnap /\ rslot = 0
    /\ snaps = {} /\ noted = {} /\ observed = 0
    /\ xpc = "no" /\ xidx = 0 /\ xtid = 1 /\ xprom = {}
    /\ outcome = [c \in Calls |-> "none"]
    /\ aborted = FALSE

-----------------------------------------------------------------------------
(***************************************************************************)
(* DispatchRpcCall.                                                         *)
(***************************************************************************)

(* RQItemNew, first critical section: the head of the free list, if any.    *)
RQItemNewTake(d) ==
    /\ dpc[d] = "idle" /\ issued < MaxCalls
    /\ issued' = issued + 1
    /\ dcall' = [dcall EXCEPT ![d] = issued + 1]
    /\ \/ /\ freelist # <<>>
          /\ ditem' = [ditem EXCEPT ![d] = Head(freelist)]
          /\ freelist' = Tail(freelist)
          /\ dpc' = [dpc EXCEPT ![d] = "pick"]
       \/ /\ freelist = <<>>
          /\ dpc' = [dpc EXCEPT ![d] = "alloc"]
          /\ UNCHANGED <<freelist, ditem>>
    /\ UNCHANGED <<brk, param, queue, dslot, current_thread, outcome, aborted,
                   pipeVars, notDisp>>

(* RQItemNew without a free item: malloc a block, keep its first item and   *)
(* put the others in front of the free list (which may have filled since).  *)
(* When malloc fails DispatchRpcCall returns false.                         *)
RQItemNewAlloc(d) ==
    /\ dpc[d] = "alloc"
    /\ \/ /\ brk + ItemPerAlloc <= MaxItems
          /\ ditem' = [ditem EXCEPT ![d] = brk + 1]
          /\ freelist' = [k \in 1 .. ItemPerAlloc - 1 |-> brk + 1 + k]
                           \o freelist
          /\ brk' = brk + ItemPerAlloc
          /\ dpc' = [dpc EXCEPT ![d] = "pick"]
          /\ UNCHANGED <<dcall, outcome>>
       \/ /\ brk + ItemPerAlloc > MaxItems
          /\ outcome' = [outcome EXCEPT ![dcall[d]] = "rejected"]
          /\ dpc' = [dpc EXCEPT ![d] = "idle"]
          /\ dcall' = [dcall EXCEPT ![d] = NoCall]
          /\ UNCHANGED <<freelist, brk, ditem>>
    /\ UNCHANGED <<param, queue, dslot, issued, current_thread,
                   aborted, pipeVars, notDisp>>

(* Mutant: the index is not wrapped.                                        *)
MutNextThread == current_thread + 1
NextThread == (current_thread + 1) % NumThreads

(* The unsynchronised load of current_thread_ ...                           *)
PickThread(d) ==
    /\ dpc[d] = "pick"
    /\ dslot' = [dslot EXCEPT ![d] = NextThread]
    /\ dpc' = [dpc EXCEPT ![d] = "store"]
    /\ UNCHANGED <<queue, dcall, ditem, issued, current_thread, outcome,
                   aborted, itemVars, pipeVars, notDisp>>

(* ... and its store; the item's processor and param are then set.          *)
StoreThread(d) ==
    /\ dpc[d] = "store"
    /\ current_thread' = dslot[d]
    /\ param' = [param EXCEPT ![ditem[d]] = dcall[d]]
    /\ dpc' = [dpc EXCEPT ![d] = "push"]
    /\ UNCHANGED <<freelist, brk, queue, dcall, ditem, dslot, issued, outcome,
                   aborted, pipeVars, notDisp>>

(* Mutant: an item pushed to an empty queue becomes its tail only.          *)
MutPushed(s, i) == IF queue[s] = <<>> THEN <<>> ELSE Append(queue[s], i)
Pushed(s, i) == Append(queue[s], i)

(* RQItemPush; Destroy may have deleted the queue (a use after free).       *)
RQItemPush(d) ==
    /\ dpc[d] = "push"
    /\ \/ /\ xpc # "deleted"
          /\ queue' = [queue EXCEPT ![dslot[d]] = Pushed(dslot[d], ditem[d])]
          /\ ditem' = [ditem EXCEPT ![d] = NoItem]
          /\ dpc' = [dpc EXCEPT ![d] = "notify"]
          /\ UNCHANGED aborted
       \/ /\ xpc = "deleted"
          /\ aborted' = TRUE
          /\ UNCHANGED <<queue, dpc, ditem>>
    /\ UNCHANGED <<dcall, dslot, issued, current_thread, outcome, itemVars,
                   pipeVars, notDisp>>

PipeBytes(s) == notes[s] + late[s] + (IF quit[s] = "sent" THEN 1 ELSE 0)

(* write(notify_send_fd, "c"): blocks while the pipe is full.               *)
Notify(d) ==
    /\ dpc[d] = "notify"
    /\ PipeBytes(dslot[d]) < PipeCap
    /\ \/ /\ quit[dslot[d]] = "sent"
          /\ late' = [late EXCEPT ![dslot[d]] = @ + 1]
          /\ UNCHANGED notes
       \/ /\ quit[dslot[d]] # "sent"
          /\ notes' = [notes EXCEPT ![dslot[d]] = @ + 1]
          /\ UNCHANGED late
    /\ dpc' = [dpc EXCEPT ![d] = "idle"]
    /\ dcall' = [dcall EXCEPT ![d] = NoCall]
    /\ dslot' = [dslot EXCEPT ![d] = 0]
    /\ UNCHANGED <<queue, quit, ditem, issued, current_thread, outcome,
                   aborted, itemVars, notDisp>>

DispatchStep(d) ==
    \/ RQItemNewAlloc(d) \/ PickThread(d) \/ StoreThread(d)
    \/ RQItemPush(d) \/ Notify(d)
DispatchRpcCall(d) == RQItemNewTake(d) \/ DispatchStep(d)

-----------------------------------------------------------------------------
(***************************************************************************)
(* LibevWorker and LibevProcessor.  tpc of a thread:                        *)
(*   none  not created          start  created, before ev_run               *)
(*   loop  in epoll_wait        read   in LibevProcessor, at read()         *)
(*   pop   has read a 'c'       call   in the item's processor              *)
(*   post  processor returned   free   running_version increased            *)
(*   check callback returned, ev_run tests loop_done                        *)
(*   leave ev_run returned      dead                                        *)
(***************************************************************************)
Goto(t, pc) == tpc' = [tpc EXCEPT ![t] = pc]

(* A thread that touches a destroyed loop reads freed memory and a closed   *)
(* epoll descriptor, on which libev aborts the process.                     *)
TouchDestroyedLoop(t) ==
    /\ \/ tpc[t] \in {"start", "check", "leave"}
       \/ tpc[t] = "loop" /\ ~tcancel[t] /\ PipeBytes(tslot[t]) > 0
    /\ loop[tslot[t]] = "destroyed"
    /\ aborted' = TRUE
    /\ UNCHANGED <<queue, outcome, itemVars, pipeVars, dispVars, notDisp>>

(* ev_run clears loop_done and polls, without waiting when no watcher is    *)
(* active.                                                                  *)
EnterRun(t) ==
    /\ tpc[t] = "start" /\ loop[tslot[t]] # "destroyed"
    /\ loop_done' = [loop_done EXCEPT ![tslot[t]] = "cancel"]
    /\ Goto(t, IF loop[tslot[t]] = "stopped" /\ ~tcancel[t]
                  THEN "check" ELSE "loop")
    /\ UNCHANGED <<queue, running_version, loop, tslot, titem, tcancel,
                   completed, outcome, aborted, itemVars, pipeVars, notThr>>

(* epoll_wait reports the pipe readable: LibevProcessor is called, unless   *)
(* its watcher was stopped meanwhile.                                       *)
Wake(t) ==
    /\ tpc[t] = "loop" /\ ~tcancel[t]
    /\ PipeBytes(tslot[t]) > 0
    /\ \/ loop[tslot[t]] = "live" /\ Goto(t, "read")
       \/ loop[tslot[t]] = "stopped" /\ Goto(t, "check")
    /\ UNCHANGED <<queue, running_version, tslot, titem, tcancel, completed,
                   outcome, aborted, itemVars, pipeVars, loopVars, notThr>>

(* read(watcher->fd) takes a 'c' byte.                                      *)
ReadCall(t) ==
    /\ tpc[t] = "read" /\ ~tcancel[t]
    /\ notes[tslot[t]] > 0
    /\ notes' = [notes EXCEPT ![tslot[t]] = @ - 1]
    /\ Goto(t, "pop")
    /\ UNCHANGED <<queue, running_version, quit, late, tslot, titem, tcancel,
                   completed, outcome, aborted, itemVars, loopVars, notThr>>

(* Mutant of ReadQuit: the 'q' byte is taken and nothing done about it.     *)
MutReadQuit(t) ==
    /\ tpc[t] = "read" /\ ~tcancel[t]
    /\ notes[tslot[t]] = 0 /\ quit[tslot[t]] = "sent"
    /\ quit' = [quit EXCEPT ![tslot[t]] = "read"]
    /\ notes' = [notes EXCEPT ![tslot[t]] = late[tslot[t]]]
    /\ late' = [late EXCEPT ![tslot[t]] = 0]
    /\ Goto(t, "check")
    /\ UNCHANGED <<queue, running_version, tslot, titem, tcancel, completed,
                   outcome, aborted, itemVars, loopVars, notThr>>

(* read takes the 'q' byte: stop the watcher and break out of ev_run.       *)
ReadQuit(t) ==
    /\ tpc[t] = "read" /\ ~tcancel[t]
    /\ notes[tslot[t]] = 0 /\ quit[tslot[t]] = "sent"
    /\ quit' = [quit EXCEPT ![tslot[t]] = "read"]
    /\ notes' = [notes EXCEPT ![tslot[t]] = late[tslot[t]]]
    /\ late' = [late EXCEPT ![tslot[t]] = 0]
    /\ loop' = [loop EXCEPT ![tslot[t]] = IF @ = "live" THEN "stopped" ELSE @]
    /\ loop_done' = [loop_done EXCEPT ![tslot[t]] = "all"]
    /\ Goto(t, "check")
    /\ UNCHANGED <<queue, running_version, tslot, titem, tcancel, completed,
                   outcome, aborted, itemVars, notThr>>

(* RQItemPop; a NULL item, or a queue Destroy has deleted, is dereferenced. *)
RQItemPop(t) ==
    /\ tpc[t] = "pop"
    /\ \/ /\ queue[tslot[t]] # <<>> /\ xpc # "deleted"
          /\ titem' = [titem EXCEPT ![t] = Head(queue[tslot[t]])]
          /\ queue' = [queue EXCEPT ![tslot[t]] = Tail(@)]
          /\ Goto(t, "call")
          /\ UNCHANGED aborted
       \/ /\ queue[tslot[t]] = <<>> \/ xpc = "deleted"
          /\ aborted' = TRUE
          /\ UNCHANGED <<queue, tpc, titem>>
    /\ UNCHANGED <<running_version, tslot, tcancel, completed, outcome,
                   itemVars, pipeVars, loopVars, notThr>>

(* The item's processor returns.                                            *)
CallReturns(t) ==
    /\ tpc[t] = "call"
    /\ outcome' = [outcome EXCEPT ![param[titem[t]]] = "finished"]
    /\ Goto(t, "post")
    /\ UNCHANGED <<queue, running_version, tslot, titem, tcancel, completed,
                   aborted, itemVars, pipeVars, loopVars, notThr>>

(* RestartThread holds version_mutex from its test to pthread_cancel.       *)
VersionLocked(s) == rpc = "broken" /\ rslot = s

(* ++running_version under version_mutex; the cleanup handler is popped.    *)
BumpVersion(t) ==
    /\ tpc[t] = "post" /\ ~VersionLocked(tslot[t])
    /\ running_version' = [running_version EXCEPT ![tslot[t]] = @ + 1]
    /\ completed' = [completed EXCEPT ![t] = @ + 1]
    /\ Goto(t, "free")
    /\ UNCHANGED <<queue, tslot, titem, tcancel, outcome, aborted, itemVars,
                   pipeVars, loopVars, notThr>>

(* Mutant: the item is not given back.                                      *)
MutFreed(i) == freelist

(* The free list after RQItemFree(i).                                       *)
Freed(i) == <<i>> \o freelist

RQItemFree(t) ==
    /\ tpc[t] = "free"
    /\ freelist' = Freed(titem[t])
    /\ titem' = [titem EXCEPT ![t] = NoItem]
    /\ Goto(t, "check")
    /\ UNCHANGED <<brk, param, queue, running_version, tslot, tcancel,
                   completed, outcome, aborted, pipeVars, loopVars, notThr>>

(* The loop condition of ev_run: activecnt && !loop_done.  Leaving because  *)
(* of EVBREAK_ONE clears the flag again.                                    *)
CheckDone(t) ==
    LET s == tslot[t]
    IN  /\ tpc[t] = "check" /\ loop[s] # "destroyed"
        /\ \/ /\ loop[s] = "stopped" \/ loop_done[s] # "cancel"
              /\ loop_done' = [loop_done EXCEPT
                                 ![s] = IF @ = "one" THEN "cancel" ELSE @]
              /\ Goto(t, "leave")
           \/ /\ loop[s] = "live" /\ loop_done[s] = "cancel"
              /\ Goto(t, "loop")
              /\ UNCHANGED loop_done
        /\ UNCHANGED <<queue, running_version, loop, tslot, titem, tcancel,
                       completed, outcome, aborted, itemVars, pipeVars,
                       notThr>>

(* ev_loop_destroy; its first close() is a cancellation point, reached      *)
(* before anything is released.                                             *)
LoopDestroy(t) ==
    /\ tpc[t] = "leave" /\ loop[tslot[t]] # "destroyed" /\ ~tcancel[t]
    /\ loop' = [loop EXCEPT ![tslot[t]] = "destroyed"]
    /\ Goto(t, "dead")
    /\ UNCHANGED <<queue, running_version, loop_done, tslot, titem, tcancel,
                   completed, outcome, aborted, itemVars, pipeVars, notThr>>

(* Where a thread that holds no item acts upon a cancellation: epoll_wait   *)
(* and read.  Mutant: also between read and RQItemPop.                      *)
MutCancelPoints == {"loop", "read", "pop"}
CancelPoints == {"loop", "read"}

(* Where it does so with the cleanup handler RetrieveDataAction pushed: in  *)
(* the item's processor.  Mutant: also after it has returned.               *)
MutHandlerPoints == {"call", "post"}
HandlerPoints == {"call"}

(* A pending cancellation is acted upon; the handler gives the item back.   *)
Cancelled(t) ==
    /\ tcancel[t]
    /\ \/ /\ tpc[t] \in CancelPoints
          /\ UNCHANGED <<freelist, titem, outcome>>
       \/ /\ tpc[t] = "leave" /\ loop[tslot[t]] # "destroyed"
          /\ UNCHANGED <<freelist, titem, outcome>>
       \/ /\ tpc[t] \in HandlerPoints
          /\ freelist' = Freed(titem[t])
          /\ titem' = [titem EXCEPT ![t] = NoItem]
          /\ outcome' = [outcome EXCEPT ![param[titem[t]]] = "killed"]
    /\ Goto(t, "dead")
    /\ UNCHANGED <<brk, param, queue, running_version, tslot, tcancel,
                   completed, aborted, pipeVars, loopVars, notThr>>

LibevWorker(t) ==
    \/ TouchDestroyedLoop(t) \/ EnterRun(t) \/ Wake(t) \/ ReadCall(t)
    \/ ReadQuit(t) \/ RQItemPop(t) \/ CallReturns(t) \/ BumpVersion(t)
    \/ RQItemFree(t) \/ CheckDone(t) \/ LoopDestroy(t) \/ Cancelled(t)

-----------------------------------------------------------------------------
(***************************************************************************)
(* RestartThread(thread_id, running_version).  Its caller noted the two     *)
(* arguments earlier: a connection timer while the call was running, a test *)
(* at any time.  done is the number of calls the thread had completed.      *)
(***************************************************************************)
Observe(s) ==
    LET sn == [tid |-> thread_id[s], ver |-> running_version[s],
               done |-> completed[thread_id[s]]]
    IN  /\ observed < MaxSnaps /\ xpc = "no"
        /\ TimersOnly => tpc[thread_id[s]] = "call" /\ sn \notin noted
        /\ observed' = observed + 1
        /\ snaps' = snaps \cup {sn}
        /\ noted' = noted \cup {sn}
        /\ UNCHANGED <<loopVars, thrVars, slotVars, restVars, notRest>>

(* The slots that hold thread t; an unknown thread leaves index at 0.       *)
IndexOf(t) ==
    IF \E s \in Slots : thread_id[s] = t
      THEN CHOOSE s \in Slots : thread_id[s] = t
      ELSE 0

(* The call the caller named is over.  Mutant: the version is tested by     *)
(* one too late.                                                            *)
MutSuperseded(s, ver) == running_version[s] > ver + 1
Superseded(s, ver) == running_version[s] > ver

(* Then there is nothing to restart.                                        *)
RestartStale(sn) ==
    /\ rpc = "idle" /\ sn \in snaps /\ xpc # "deleted"
    /\ Superseded(IndexOf(sn.tid), sn.ver)
    /\ snaps' = snaps \ {sn}
    /\ UNCHANGED <<noted, observed, loopVars, thrVars, slotVars, restVars, notRest>>

(* Otherwise take version_mutex and break the slot's loop (a write to freed *)
(* memory without effect when the loop is already destroyed) ...            *)
RestartBreak(sn) ==
    LET s == IndexOf(sn.tid)
    IN  /\ rpc = "idle" /\ sn \in snaps /\ xpc # "deleted"
        /\ nextTid <= MaxTids
        /\ ~Superseded(s, sn.ver)
        /\ snaps' = snaps \ {sn}
        /\ loop_done' = [loop_done EXCEPT
                           ![s] = IF loop[s] = "destroyed" THEN @ ELSE "one"]
        /\ rpc' = "broken" /\ rsnap' = sn /\ rslot' = s
        /\ UNCHANGED <<noted, loop, observed, thrVars, slotVars, notRest>>

(* ... cancel the thread, release version_mutex ...                         *)
RestartCancel ==
    /\ rpc = "broken"
    /\ tcancel' = [tcancel EXCEPT ![rsnap.tid] = @ \/ tpc[rsnap.tid] # "dead"]
    /\ rpc' = "create"
    /\ UNCHANGED <<tpc, tslot, titem, completed, rsnap, rslot, loopVars,
                   slotVars, obsVars, notRest>>

(* ... and create the replacement.                                          *)
RestartCreate ==
    /\ rpc = "create"
    /\ tpc' = [tpc EXCEPT ![nextTid] = "start"]
    /\ tslot' = [tslot EXCEPT ![nextTid] = rslot]
    /\ thread_id' = [thread_id EXCEPT ![rslot] = nextTid]
    /\ nextTid' = nextTid + 1
    /\ rpc' = "idle" /\ rsnap' = NoSnap /\ rslot' = 0
    /\ UNCHANGED <<titem, tcancel, completed, loopVars, obsVars,
                   notRest>>

RestartThread ==
    \/ \E sn \in snaps : RestartStale(sn) \/ RestartBreak(sn)
    \/ RestartCancel \/ RestartCreate

-----------------------------------------------------------------------------
(***************************************************************************)
(* Destroy.                                                                 *)
(***************************************************************************)

Queued(c) == \E s \in Slots : \E k \in DOMAIN queue[s] : param[queue[s][k]] = c

(* Dispatchers between RQItemPush and write, threads between read and pop. *)
Notifying(s) == {d \in Dispatchers : dpc[d] = "notify" /\ dslot[d] = s}
Popping(s) == {t \in Tids : tpc[t] = "pop" /\ tslot[t] = s}

(* The calls a notification has come for: of the items in a slot's queue as *)
(* many as there are 'c' bytes in its pipe or just read, the oldest first.  *)
Waiting ==
    {c \in Calls : \E s \in Slots :
        \E k \in DOMAIN queue[s] : /\ k <= notes[s] + Cardinality(Popping(s))
                                   /\ param[queue[s][k]] = c}

DestroyBegin ==
    /\ xpc = "no" /\ MaxDestroys = 1
    /\ xpc' = "quit" /\ xidx' = 0 /\ xprom' = Waiting
    /\ UNCHANGED <<xtid, pipeVars, notDest>>

(* The last slot Destroy writes to.                                         *)
LastSlot == NumThreads - 1

(* write(notify_send_fd, "q") slot by slot; then Wait starts joining.       *)
WriteQuit ==
    /\ xpc = "quit"
    /\ PipeBytes(xidx) < PipeCap
    /\ quit' = [quit EXCEPT ![xidx] = "sent"]
    /\ \/ /\ xidx < LastSlot
          /\ xidx' = xidx + 1
          /\ UNCHANGED <<xpc, xtid>>
       \/ /\ xidx = LastSlot
          /\ xpc' = "join" /\ xidx' = 0 /\ xtid' = thread_id[0]
    /\ UNCHANGED <<notes, late, xprom, notDest>>

(* The thread pthread_join waits for has ended.  Mutant: it is not waited   *)
(* for (as when the thread was detached).                                   *)
MutThreadEnded(t) == TRUE
ThreadEnded(t) == tpc[t] = "dead"

(* pthread_join(thread_id of slot xidx) returns; after the last, the queues *)
(* are deleted.                                                             *)
Joined ==
    /\ xpc = "join" /\ ThreadEnded(xtid)
    /\ \/ /\ xidx < NumThreads - 1
          /\ xidx' = xidx + 1
          /\ xtid' = thread_id[xidx + 1]
          /\ UNCHANGED xpc
       \/ /\ xidx = NumThreads - 1
          /\ xpc' = "deleted"
          /\ UNCHANGED <<xidx, xtid>>
    /\ UNCHANGED <<xprom, pipeVars, notDest>>

Destroy == DestroyBegin \/ WriteQuit \/ Joined

-----------------------------------------------------------------------------
Next ==
    /\ ~aborted
    /\ \/ \E d \in Dispatchers : DispatchRpcCall(d)
       \/ \E t \in Tids : LibevWorker(t)
       \/ \E s \in Slots : Observe(s)
       \/ RestartThread
       \/ Destroy

Spec == Init /\ [][Next]_vars

(***************************************************************************)
(* Fairness: every thread the kernel runs keeps running (a dispatcher that  *)
(* is inside DispatchRpcCall, a pool thread, a RestartThread or Destroy     *)
(* that has begun), and a request's processor returns or is cancelled.      *)
(* Nothing obliges anybody to dispatch, restart or destroy.                 *)
(***************************************************************************)
Fairness ==
    /\ \A d \in Dispatchers : WF_vars(~aborted /\ DispatchStep(d))
    /\ \A t \in Tids : WF_vars(~aborted /\ LibevWorker(t))
    /\ WF_vars(~aborted /\ (RestartCancel \/ RestartCreate))
    /\ WF_vars(~aborted /\ (WriteQuit \/ Joined))

FairSpec == Spec /\ Fairness
-----------------------------------------------------------------------------
(***************************************************************************)
(* Properties.                                                              *)
(***************************************************************************)

PoolTypeOK ==
    /\ brk \in 0 .. MaxItems /\ freelist \in Seq(1 .. brk)
    /\ param \in [Items -> Calls \cup {NoCall}]
    /\ queue \in [Slots -> Seq(1 .. brk)]
    /\ running_version \in [Slots -> Nat]
    /\ outcome \in [Calls -> {"none", "rejected", "finished", "killed"}]
    /\ aborted \in BOOLEAN
PipeTypeOK ==
    /\ notes \in [Slots -> Nat] /\ late \in [Slots -> Nat]
    /\ quit \in [Slots -> {"no", "sent", "read"}]
    /\ loop \in [Slots -> {"live", "stopped", "destroyed"}]
    /\ loop_done \in [Slots -> {"cancel", "one", "all"}]
DispatcherTypeOK ==
    /\ dpc \in [Dispatchers ->
                  {"idle", "alloc", "pick", "store", "push", "notify"}]
    /\ dcall \in [Dispatchers -> Calls \cup {NoCall}]
    /\ ditem \in [Dispatchers -> 0 .. brk] /\ dslot \in [Dispatchers -> Slots]
    /\ issued \in 0 .. MaxCalls /\ current_thread \in -1 .. NumThreads - 1
ThreadTypeOK ==
    /\ tpc \in [Tids -> {"none", "start", "loop", "read", "pop", "call",
                          "post", "free", "check", "leave", "dead"}]
    /\ tslot \in [Tids -> Slots \cup {NoSlot}] /\ titem \in [Tids -> 0 .. brk]
    /\ tcancel \in [Tids -> BOOLEAN] /\ completed \in [Tids -> Nat]
    /\ thread_id \in [Slots -> Tids] /\ nextTid \in 1 .. MaxTids + 1
CallerTypeOK ==
    /\ rpc \in {"idle", "broken", "create"} /\ rslot \in Slots
    /\ rsnap \in Snapshots /\ snaps \subseteq Snapshots
    /\ noted \subseteq Snapshots /\ observed \in 0 .. MaxSnaps
    /\ xpc \in {"no", "quit", "join", "deleted"} /\ xidx \in Slots
    /\ xtid \in Tids /\ xprom \subseteq Calls

(* Type invariant: every field holds a value the code can store in it; the  *)
(* items in use are ones malloc has returned, and slots are in range.       *)
TypeOK ==
    /\ PoolTypeOK /\ PipeTypeOK /\ DispatcherTypeOK /\ ThreadTypeOK
    /\ CallerTypeOK

(* The places that hold request item i.                                     *)
HoldingDispatchers(i) ==
    {d \in Dispatchers : dpc[d] \in {"pick", "store", "push"} /\ ditem[d] = i}
HoldingThreads(i) ==
    {t \in Tids : tpc[t] \in {"call", "post", "free"} /\ titem[t] = i}
Holders(i) ==
    {<<"free", 0, k>> : k \in {n \in DOMAIN freelist : freelist[n] = i}}
    \cup (UNION {{<<"queue", s, k>> :
                    k \in {n \in DOMAIN queue[s] : queue[s][n] = i}} :
                s \in Slots})
    \cup {<<"dispatcher", 0, d>> : d \in HoldingDispatchers(i)}
    \cup {<<"thread", 0, t>> : t \in HoldingThreads(i)}

(* Every item malloc has returned is in exactly one place: on the free      *)
(* list, in one request queue, in the hand of one dispatcher or of one      *)
(* thread.  So an item is neither leaked nor freed twice, not even when its *)
(* thread is cancelled in the middle of the call (RQItemNew, RQItemFree and *)
(* the cleanup handler RetrieveDataAction).                                 *)
ItemHeldOnce == \A i \in 1 .. brk : Cardinality(Holders(i)) = 1

(* A slot's queue is exactly as long as the number of pops still to come:   *)
(* its unread 'c' bytes, those about to be written and those just read.     *)
QueueMatchesPipe ==
    \A s \in Slots :
        Len(queue[s]) = notes[s] + late[s] + Cardinality(Notifying(s))
                          + Cardinality(Popping(s))

(* A thread that has read a 'c' byte finds an item in its queue: RQItemPop  *)
(* never returns the NULL that LibevProcessor would dereference, however    *)
(* many dispatchers push, whichever thread is cancelled, and even when two  *)
(* threads serve one slot.                                                  *)
NoNullPop == \A t \in Tids : tpc[t] = "pop" => queue[tslot[t]] # <<>>

(* RestartThread cancels a thread only while that thread has completed no   *)
(* call since the caller noted its running_version: the version_mutex test  *)
(* keeps a late timeout from killing the next caller's request.             *)
CancelNamesRunningCall ==
    [][\A t \in Tids :
          ~tcancel[t] /\ tcancel'[t] => completed[t] = rsnap.done]_vars

(* A queued call is eventually taken by a thread, restarts included, as     *)
(* long as the pool is not being destroyed and no undefined behaviour ends  *)
(* the process: no notification is lost.                                    *)
CallsTaken ==
    \A c \in Calls : Queued(c) ~> (~Queued(c) \/ xpc # "no" \/ aborted)

(* RestartThread has never gone beyond its test of the version.             *)
NoRestart == rpc = "idle" /\ nextTid = NumThreads + 1

(* Destroy returns only after the calls that had been notified before it    *)
(* were run to their end, unless RestartThread broke a loop meanwhile: the  *)
(* 'q' byte is read behind their 'c'.                                       *)
DrainedOnDestroy ==
    xpc = "deleted" /\ NoRestart => \A c \in xprom : outcome[c] = "finished"

(* Destroy returns: every thread reads its 'q' and can be joined.           *)
DestroyReturns == (xpc = "quit") ~> (xpc = "deleted" \/ aborted)

(***************************************************************************)
(* Refinement: the pool implements CallService.                             *)
(***************************************************************************)
callStatus ==
    [c \in Calls |->
        IF outcome[c] # "none" THEN outcome[c]
        ELSE IF \E t \in Tids : tpc[t] = "call" /\ param[titem[t]] = c
               THEN "running"
        ELSE IF Queued(c) THEN "accepted"
        ELSE "none"]

Service == INSTANCE CallService WITH status <- callStatus

(* Each call is accepted, begun and ended at most once, in that order: a    *)
(* recycled item never makes the pool run a call twice or drop one.         *)
ImplementsCallService == Service!Spec
=============================================================================
