----------------------------- MODULE RpcServer -----------------------------
(***************************************************************************)
(* The request path of the server: RegisteService, RpcCall, RpcProcessor in *)
(* a pool that keeps the promise of CallService, and the destructor. One    *)
(* hash code is registered, by any of the registrars; the methods made for  *)
(* it are numbered. Each connection is passed to RpcCall once.              *)
(***************************************************************************)
EXTENDS Integers, FiniteSets

CONSTANTS
    Conns,       \* connections passed on by the dispatch thread
    Registrars,  \* threads that call RegisteService
    MaxMethods   \* bound on the RpcMethods made

ASSUME ServerAssumption == MaxMethods \in Nat

VARIABLES
    status,      \* of each connection's call in the worker pool
    reading,     \* reader_thread_num is not 0
    readers,     \* reader_threads_ptr_ is not NULL
    sent,        \* what the client sent: "none", "error", "unknown", "bad", "valid"
    cpc,         \* where each call's RpcProcessor is
    held,        \* the RpcMethod it found
    closes,      \* how often a connection was closed
    methods,     \* RpcMethods made
    entry,       \* the one in method_hashmap_, or 0
    freed,       \* those deleted
    twice,       \* one was deleted twice
    rpc,         \* where each registrar is
    made, seen,  \* its new method; the entry it found, or 0
    disturbed,   \* registrars whose search overlapped a change of the map
    phase        \* "running", "deleting" the pools, worker pool "gone", or "died"

connVars == <<status, sent, cpc, held, closes>>
mapVars == <<methods, entry, freed, twice, rpc, made, seen, disturbed>>
vars == <<reading, readers, phase, connVars, mapVars>>

Pool == INSTANCE CallService WITH Calls <- Conns

Init ==
    /\ Pool!Init
    /\ reading \in BOOLEAN /\ readers = FALSE
    /\ sent = [c \in Conns |-> "none"] /\ cpc = [c \in Conns |-> "none"]
    /\ held = [c \in Conns |-> 0] /\ closes = [c \in Conns |-> 0]
    /\ methods = 0 /\ entry = 0 /\ freed = {} /\ twice = FALSE
    /\ rpc = [r \in Registrars |-> "idle"]
    /\ made = [r \in Registrars |-> 0] /\ seen = [r \in Registrars |-> 0]
    /\ disturbed = {} /\ phase = "running"
-----------------------------------------------------------------------------
(* RegisteService: the map is searched without the lock, a data race with a *)
(* registrar that changes it.                                               *)

FindBegin(r) ==
    /\ phase = "running" /\ rpc[r] = "idle" /\ methods < MaxMethods
    /\ methods' = methods + 1
    /\ made' = [made EXCEPT ![r] = methods + 1]
    /\ rpc' = [rpc EXCEPT ![r] = "finding"]
    /\ UNCHANGED <<reading, readers, phase, connVars, entry, freed, twice, seen, disturbed>>

\* A search that overlaps a rehash may miss the entry.
FindMethod(r) ==
    /\ phase = "running" /\ rpc[r] = "finding"
    /\ \E found \in {entry} \cup (IF r \in disturbed THEN {0} ELSE {}) :
           seen' = [seen EXCEPT ![r] = found]
    /\ rpc' = [rpc EXCEPT ![r] = "found"] /\ disturbed' = disturbed \ {r}
    /\ UNCHANGED <<reading, readers, phase, connVars, methods, entry, freed, twice, made>>

\* Or follow a pointer into the buckets that were freed.
FindFaults(r) ==
    /\ phase = "running" /\ rpc[r] = "finding" /\ r \in disturbed
    /\ phase' = "died"
    /\ UNCHANGED <<reading, readers, connVars, mapVars>>

\* A change of the map, under the write lock, while others search.
Disturbing(r) == disturbed' = disturbed \cup {q \in Registrars \ {r} : rpc[q] = "finding"}

MutHolding == {}
\* Calls that have the read lock: from find to the end of the parse, or to
\* the return that closes the connection.
Holding == {c \in Conns : cpc[c] \in {"parse", "refuse"}}

\* The iterator points to the entry, whatever it holds by now.
Victim(r) == entry

Registered(r) ==
    /\ rpc' = [rpc EXCEPT ![r] = "idle"]
    /\ made' = [made EXCEPT ![r] = 0] /\ seen' = [seen EXCEPT ![r] = 0]

\* insert leaves an entry that another registrar has made: this one's method is lost.
InsertMethod(r) ==
    /\ phase = "running" /\ rpc[r] = "found" /\ seen[r] = 0 /\ Holding = {}
    /\ entry' = IF entry = 0 THEN made[r] ELSE entry
    /\ Registered(r) /\ Disturbing(r)
    /\ UNCHANGED <<reading, readers, phase, connVars, methods, freed, twice>>

ReplaceMethod(r) ==
    /\ phase = "running" /\ rpc[r] = "found" /\ seen[r] # 0 /\ Holding = {}
    /\ twice' = (twice \/ Victim(r) \in freed)
    /\ freed' = freed \cup {Victim(r)}
    /\ entry' = made[r]
    /\ Registered(r) /\ Disturbing(r)
    /\ UNCHANGED <<reading, readers, phase, connVars, methods>>

\* The registration of a method with another hash code.
InsertOther(r) ==
    /\ phase = "running" /\ rpc[r] = "idle" /\ Holding = {}
    /\ Disturbing(r)
    /\ UNCHANGED <<reading, readers, phase, connVars, methods, entry, freed, twice, rpc, made, seen>>
-----------------------------------------------------------------------------
(* Start makes the reader pool after the workers run. *)

StartReaders ==
    /\ phase = "running" /\ reading /\ ~readers
    /\ readers' = TRUE
    /\ UNCHANGED <<reading, phase, connVars, mapVars>>

connRest == <<reading, readers, mapVars>>
Goto(c, pc) == cpc' = [cpc EXCEPT ![c] = pc]
Closed(c) == closes' = [closes EXCEPT ![c] = @ + 1]

\* The client sends a request, or goes away (external).
ClientSends(c, what) ==
    /\ phase # "died" /\ sent[c] = "none"
    /\ sent' = [sent EXCEPT ![c] = what]
    /\ UNCHANGED <<connRest, phase, status, cpc, held, closes>>

\* The dispatch thread is deleted after the pools: calls come in all phases, and
\* are accepted by a pool that is being destroyed or freed too.
RpcCallAccepted(c) ==
    /\ phase # "died" /\ Pool!Move(c, "none", "accepted")
    /\ UNCHANGED <<connRest, phase, sent, cpc, held, closes>>

RpcCallRejected(c) ==
    /\ phase # "died" /\ Pool!Move(c, "none", "rejected")
    /\ Closed(c)
    /\ UNCHANGED <<connRest, phase, sent, cpc, held>>

\* A call or a thread that nobody joined uses queues or a pool that were freed.
UseAfterDelete(c) ==
    /\ \/ phase \in {"deleting", "gone"} /\ status[c] = "none"
       \/ phase = "gone" /\ status[c] = "running"
    /\ phase' = "died"
    /\ UNCHANGED <<connRest, connVars>>

RpcCall(c) == RpcCallAccepted(c) \/ RpcCallRejected(c)

\* The pool calls RpcProcessor. With a reader pool nothing is read, call_id
\* stays -1 and is not found.
Begin(c) ==
    /\ phase \in {"running", "deleting"} /\ Pool!Move(c, "accepted", "running")
    /\ Goto(c, IF readers THEN "refuse" ELSE "recv")
    /\ UNCHANGED <<connRest, phase, sent, held, closes>>

MutReceived(c) == IF sent[c] = "error" THEN "recv" ELSE "find"
Received(c) == IF sent[c] = "error" THEN "close" ELSE "find"

Recv(c) ==
    /\ phase # "died" /\ cpc[c] = "recv" /\ sent[c] # "none"
    /\ Goto(c, Received(c))
    /\ UNCHANGED <<connRest, phase, status, sent, held, closes>>

\* Under the read lock; a return releases it.
Find(c) ==
    /\ phase # "died" /\ cpc[c] = "find"
    /\ IF sent[c] = "unknown" \/ entry = 0
       THEN Goto(c, "refuse") /\ UNCHANGED held
       ELSE Goto(c, "parse") /\ held' = [held EXCEPT ![c] = entry]
    /\ UNCHANGED <<connRest, phase, status, sent, closes>>

\* New and ParseFromString use the method. It is assigned to a variable of
\* the block, the one used after the block is still NULL: the process dies.
Parse(c) ==
    /\ phase # "died" /\ cpc[c] = "parse"
    /\ \/ /\ sent[c] = "bad" \/ held[c] \in freed
          /\ Goto(c, "refuse") /\ held' = [held EXCEPT ![c] = 0]
          /\ UNCHANGED phase
       \/ /\ sent[c] = "valid" \/ held[c] \in freed
          /\ phase' = "died" /\ UNCHANGED <<cpc, held>>
    /\ UNCHANGED <<connRest, status, sent, closes>>

MutClose(c) ==
    /\ phase # "died" /\ cpc[c] \in {"close", "refuse"}
    /\ Pool!Move(c, "running", "finished") /\ Goto(c, "end")
    /\ UNCHANGED <<connRest, phase, sent, held, closes>>
\* The parameters are deleted, the connection closed.
Close(c) ==
    /\ phase # "died" /\ cpc[c] \in {"close", "refuse"}
    /\ Pool!Move(c, "running", "finished") /\ Closed(c) /\ Goto(c, "end")
    /\ UNCHANGED <<connRest, phase, sent, held>>

\* RestartWorkerThread: the thread ends in recv or in close, or when it
\* reports an error; the locks it has are released as the stack is unwound.
Kill(c) ==
    /\ phase \in {"running", "deleting"} /\ cpc[c] \in {"recv", "close", "refuse"}
    /\ Pool!Move(c, "running", "killed") /\ Goto(c, "end")
    /\ UNCHANGED closes \/ (cpc[c] # "recv" /\ Closed(c))
    /\ UNCHANGED <<connRest, phase, sent, held>>

\* ev_break came first: the thread ends its loop, and the process with it, as the
\* replacement runs that loop (LibevThreadPool, TouchDestroyedLoop).
KillFaults(c) ==
    /\ phase \in {"running", "deleting"} /\ status[c] \in {"running", "finished"}
    /\ phase' = "died"
    /\ UNCHANGED <<connRest, connVars>>

RpcProcessor(c) == Recv(c) \/ Find(c) \/ Parse(c) \/ Close(c)

\* The destructor frees the methods first, without the lock, and then destroys
\* the pools.
Delete ==
    /\ phase = "running"
    /\ freed' = freed \cup ({entry} \ {0})
    /\ phase' = "deleting"
    /\ UNCHANGED <<reading, readers, connVars, methods, entry, twice, rpc, made, seen, disturbed>>

\* The worker pool is freed when the threads in its table are joined, with calls still
\* queued perhaps, and with a thread that runs, if a restart left one outside the table.
PoolDeleted ==
    /\ phase = "deleting" /\ phase' = "gone"
    /\ UNCHANGED <<connRest, connVars>>
-----------------------------------------------------------------------------
Next ==
    \/ StartReaders \/ Delete \/ PoolDeleted
    \/ \E r \in Registrars :
        \/ FindBegin(r) \/ FindMethod(r) \/ FindFaults(r)
        \/ InsertMethod(r) \/ ReplaceMethod(r) \/ InsertOther(r)
    \/ \E c \in Conns :
        \/ \E what \in {"error", "unknown", "bad", "valid"} : ClientSends(c, what)
        \/ RpcCall(c) \/ Begin(c) \/ RpcProcessor(c)
        \/ Kill(c) \/ KillFaults(c) \/ UseAfterDelete(c)

Spec == Init /\ [][Next]_vars

\* A pool that is not being destroyed begins what it accepted, and its threads run on.
FairSpec ==
    Spec /\ \A c \in Conns : WF_vars(phase = "running" /\ Begin(c)) /\ WF_vars(RpcProcessor(c))
-----------------------------------------------------------------------------
(* Until the server is deleted, and whatever the search without the lock    *)
(* finds short of ending the process, neither the map nor a thread that     *)
(* parses a request refers to a method that RegisteService has freed, and   *)
(* none is freed twice. (The race may lose the second method registered.)   *)
MethodsLive ==
    phase = "running" =>
        /\ entry \notin freed /\ ~twice
        /\ \A c \in Conns : cpc[c] = "parse" => held[c] \notin freed

(* Every path through RpcCall and RpcProcessor closes the connection once:  *)
(* only a thread that RestartWorkerThread ends leaves it open.              *)
ClosedOnce ==
    phase # "died" => \A c \in Conns :
        /\ status[c] \in {"rejected", "finished"} => closes[c] = 1
        /\ status[c] \in {"accepted", "running"} => closes[c] = 0
        /\ closes[c] <= 1

(* A connection whose client has sent something, or gone, is closed unless  *)
(* its thread or the process ends, or the server was deleted before the     *)
(* pool had begun its call.                                                 *)
ConnectionEnds ==
    \A c \in Conns : (status[c] = "accepted" /\ sent[c] # "none")
        ~> \/ closes[c] = 1 \/ status[c] = "killed"
           \/ phase # "running" /\ status[c] = "accepted"
           \/ phase = "died"
=============================================================================
