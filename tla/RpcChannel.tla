----------------------------- MODULE RpcChannel -----------------------------
(***************************************************************************)
(* The client's channel: CallMethod, the thread of an asynchronous call and *)
(* GetAsyncResponse. Call c makes connection c; what the peer reads first   *)
(* on it is what it answers, and then it closes. An answer is the number of *)
(* the call it answers, 0 is the empty string of a closed connection.       *)
(***************************************************************************)
EXTENDS Integers, Sequences, FiniteSets, FiniteSetsExt

CONSTANTS
    Methods,     \* hash codes of the methods' names
    Users,       \* threads of the program that uses the client
    Limits,      \* values of SetCallLimit, called before the first call
    NumFds,      \* bound on the descriptors open at a time
    MaxCalls,    \* bound on the calls
    MaxUnder     \* bound on the calls under way at a time

ASSUME ChannelAssumption ==
    /\ NumFds \in Nat /\ MaxCalls \in Nat /\ MaxUnder \in Nat /\ Limits \subseteq Nat
    /\ Methods # {}

Calls == 1 .. MaxCalls
Fds == 1 .. NumFds
Tids == 1 .. MaxCalls
NoFd == -1       \* what TcpConnect returns when it fails

VARIABLES
    async,       \* is_channel_async_call_
    garbage,     \* center_client_heartbeat_ptr_, never set, is not NULL
    connect_fd,
    call_limit,
    calls,       \* calls made
    calling,     \* the call whose CallMethod has not returned, or 0
    method,      \* of each call
    cpc,         \* where each call's RpcCommunication is
    cfd, cconn,  \* descriptor and connection a call receives from
    got,         \* its response_str
    tid,         \* its thread, or 0
    unjoined,    \* ids of threads that run or were not joined
    ids,         \* thread_ids_vec_
    tids,        \* call_tids_map_
    known,       \* its keys
    results,     \* call_results_map_
    upc, ut,     \* where each user's GetAsyncResponse is, and its cur_tid
    um, want,    \* its method; the call whose answer is due to it
    phase,       \* "open", "closed" or "aborted"
    conn,        \* connection of each open descriptor, or 0
    asked,       \* the call a connection's peer read first, or 0
    ended,       \* connections at their end: answered or closed
    silent,      \* those whose server has lost the request and keeps them open
    due,         \* calls whose answers are due, oldest first
    delivered,   \* answers returned: <<call due, answer>>
    raced,       \* two users were between front and pop_front: a list is corrupt
    overlapped,  \* calls that another one was under way with
    conflict     \* a thread found a result under its own id

callVars == <<cpc, cfd, cconn, got>>
sockVars == <<conn, asked, ended, silent>>
getVars == <<upc, ut, um, want, delivered, raced>>
madeVars == <<calls, method, tid, ids, overlapped>>
listVars == <<tids, known, due>>
vars == <<async, garbage, connect_fd, call_limit, calling, unjoined, results, phase, conflict,
          callVars, sockVars, getVars, madeVars, listVars>>

Init ==
    /\ async = FALSE /\ garbage \in BOOLEAN /\ connect_fd = NoFd /\ phase = "open"
    /\ call_limit \in Limits /\ calls = 0 /\ calling = 0
    /\ method = [c \in Calls |-> CHOOSE m \in Methods : TRUE]
    /\ cpc = [c \in Calls |-> "none"] /\ cfd = [c \in Calls |-> NoFd]
    /\ cconn = [c \in Calls |-> 0] /\ got = [c \in Calls |-> 0]
    /\ tid = [c \in Calls |-> 0] /\ unjoined = {} /\ ids = {}
    /\ tids = [m \in Methods |-> <<>>] /\ known = {} /\ due = [m \in Methods |-> <<>>]
    /\ results = <<>>
    /\ upc = [u \in Users |-> "idle"] /\ ut = [u \in Users |-> 0]
    /\ um = [u \in Users |-> CHOOSE m \in Methods : TRUE] /\ want = [u \in Users |-> 0]
    /\ conn = [f \in Fds |-> 0] /\ asked = [c \in Calls |-> 0]
    /\ ended = {} /\ silent = {}
    /\ delivered = {} /\ raced = FALSE /\ overlapped = {} /\ conflict = FALSE

Under == {c \in Calls : cpc[c] \notin {"none", "done"}}
Idle == calling = 0 /\ \A u \in Users : upc[u] = "idle"
FreeFds == {f \in Fds : conn[f] = 0}
FdConn(f) == IF f \in Fds THEN conn[f] ELSE 0

-----------------------------------------------------------------------------
(* CallMethod is not thread safe: it is called while no user is in the      *)
(* channel. A connect that times out makes NonBlockMode fail on descriptor  *)
(* -999, so that TcpConnect returns -1 and the loop ends after one attempt. *)

OpenRpcAsyncMode ==
    /\ phase = "open" /\ Idle /\ ~async
    /\ async' = TRUE
    /\ UNCHANGED <<garbage, connect_fd, call_limit, calling, unjoined, results, phase, conflict,
                   callVars, sockVars, getVars, madeVars, listVars>>

CallGarbage ==
    /\ phase = "open" /\ Idle /\ garbage
    /\ phase' = "aborted"
    /\ UNCHANGED <<async, garbage, connect_fd, call_limit, calling, unjoined, results, conflict,
                   callVars, sockVars, getVars, madeVars, listVars>>

ConnectFailed ==
    /\ phase = "open" /\ Idle /\ ~garbage
    /\ connect_fd' = NoFd
    /\ UNCHANGED <<async, garbage, call_limit, calling, unjoined, results, phase, conflict,
                   callVars, sockVars, getVars, madeVars, listVars>>

\* The call is counted, connected, and goes on in state pc with thread t.
Made(m, pc, t) ==
    LET c == calls + 1
        f == Min(FreeFds)
    IN  /\ phase = "open" /\ Idle /\ ~garbage /\ calls < MaxCalls /\ FreeFds # {}
        /\ Cardinality(Under) < MaxUnder
        /\ calls' = c /\ method' = [method EXCEPT ![c] = m]
        /\ connect_fd' = f /\ conn' = [conn EXCEPT ![f] = c]
        /\ cpc' = [cpc EXCEPT ![c] = pc]
        /\ tid' = [tid EXCEPT ![c] = t]
        /\ calling' = IF pc = "none" THEN 0 ELSE c
        /\ overlapped' = overlapped \cup (IF Under = {} THEN {} ELSE Under \cup {c})
        /\ UNCHANGED <<async, garbage, call_limit, results, phase, conflict, ids, cfd, cconn, got,
                       asked, ended, silent, getVars, listVars>>

CallSync(m) == ~async /\ Made(m, "send", 0) /\ UNCHANGED unjoined

\* Too many methods have calls: nothing is told, the connection stays open.
CallOverLimit(m) ==
    /\ async /\ Cardinality(known) >= call_limit
    /\ Made(m, "none", 0) /\ UNCHANGED unjoined

\* pthread_create: an id is free again once its thread was joined.
CallAsync(m) ==
    /\ async /\ Cardinality(known) < call_limit
    /\ LET t == Min(Tids \ unjoined) IN Made(m, "send", t) /\ unjoined' = unjoined \cup {t}

MutListed(s, t) == <<t>> \o s
Listed(s, t) == Append(s, t)

\* The thread may have ended before its id is in the list.
AsyncRpcCall ==
    /\ calling # 0 /\ tid[calling] # 0
    /\ LET m == method[calling] IN
        /\ tids' = [tids EXCEPT ![m] = Listed(@, tid[calling])]
        /\ due' = [due EXCEPT ![m] = Append(@, calling)]
        /\ known' = known \cup {m}
    /\ ids' = ids \cup {tid[calling]}
    /\ calling' = 0
    /\ UNCHANGED <<async, garbage, connect_fd, call_limit, unjoined, results, phase, conflict, calls,
                   method, tid, overlapped, callVars, sockVars, getVars>>
-----------------------------------------------------------------------------
(* RpcCommunication of call c: in the user's thread or in its own. Each of  *)
(* RpcSend and RpcRecv reads the member connect_fd_ again.                  *)

rest == <<async, garbage, connect_fd, call_limit, unjoined, phase, silent, getVars, madeVars, listVars>>
Goto(c, pc) == cpc' = [cpc EXCEPT ![c] = pc]

\* SerializeToString fails: the connection stays open.
NotSerialized(c) ==
    /\ cpc[c] = "send" /\ Goto(c, "failed")
    /\ UNCHANGED <<rest, calling, results, conflict, cfd, cconn, got, sockVars>>

\* The descriptor is closed, or the peer gone.
SendFails(c) ==
    /\ cpc[c] = "send"
    /\ cfd' = [cfd EXCEPT ![c] = connect_fd] /\ Goto(c, "close_failed")
    /\ UNCHANGED <<rest, calling, results, conflict, cconn, got, sockVars>>

RpcSend(c) ==
    LET k == FdConn(connect_fd) IN
    /\ cpc[c] = "send" /\ k # 0
    /\ asked' = [asked EXCEPT ![k] = IF @ = 0 /\ k \notin ended THEN c ELSE @]
    /\ Goto(c, "recv")
    /\ UNCHANGED <<rest, calling, results, conflict, cfd, cconn, got, conn, ended>>

\* recv on a closed descriptor fails, else it waits on the connection.
RecvEnter(c) ==
    /\ cpc[c] = "recv"
    /\ cfd' = [cfd EXCEPT ![c] = connect_fd]
    /\ cconn' = [cconn EXCEPT ![c] = FdConn(connect_fd)]
    /\ Goto(c, IF FdConn(connect_fd) = 0 THEN "close_failed" ELSE "wait")
    /\ UNCHANGED <<rest, calling, results, conflict, got, sockVars>>

RecvAnswer(c) ==
    /\ cpc[c] = "wait" /\ asked[cconn[c]] # 0 /\ cconn[c] \notin ended \cup silent
    /\ got' = [got EXCEPT ![c] = asked[cconn[c]]]
    /\ ended' = ended \cup {cconn[c]} /\ asked' = [asked EXCEPT ![cconn[c]] = 0]
    /\ Goto(c, "close")
    /\ UNCHANGED <<rest, calling, results, conflict, cfd, cconn, conn>>

\* The server's thread is killed, or its pool destroyed, and the connection stays open
\* (RpcServer, ConnectionEnds): RpcRecv has no timeout.
ServerSilent(c) ==
    /\ cpc[c] = "wait" /\ asked[cconn[c]] # 0 /\ cconn[c] \notin ended
    /\ silent' = silent \cup {cconn[c]}
    /\ UNCHANGED <<async, garbage, connect_fd, call_limit, calling, unjoined, results, phase, conflict,
                   callVars, conn, asked, ended, getVars, madeVars, listVars>>

RecvReset(c) ==
    /\ cpc[c] = "wait" /\ ended' = ended \cup {cconn[c]} /\ Goto(c, "close_failed")
    /\ UNCHANGED <<rest, calling, results, conflict, cfd, cconn, got, conn, asked>>

MutAfterEof == "wait"
\* recv returns 0: RpcRecv returns 0, which is not ERROR_RECV.
AfterEof == "close"

\* The peer has closed the connection, after an answer or without one.
RecvEof(c) ==
    /\ cpc[c] = "wait" /\ ended' = ended \cup {cconn[c]} /\ Goto(c, AfterEof)
    /\ UNCHANGED <<rest, calling, results, conflict, cfd, cconn, got, conn, asked>>

\* close of whatever has the number by now.
Close(c) ==
    /\ cpc[c] \in {"close", "close_failed"}
    /\ conn' = [f \in Fds |-> IF f = cfd[c] THEN 0 ELSE conn[f]]
    /\ ended' = ended \cup ({FdConn(cfd[c])} \ {0})
    /\ Goto(c, IF cpc[c] = "close" THEN "store" ELSE "failed")
    /\ UNCHANGED <<rest, calling, results, conflict, cfd, cconn, got, asked>>

Stored(t, s) == [x \in DOMAIN results \cup {t} |-> IF x = t THEN s ELSE results[x]]

\* The call is over and its parameters are deleted.
Over(c) ==
    /\ Goto(c, "done") /\ got' = [got EXCEPT ![c] = 0]
    /\ cfd' = [cfd EXCEPT ![c] = NoFd] /\ cconn' = [cconn EXCEPT ![c] = 0]

\* A thread puts its answer in the map, and replaces an old one.
RpcProcessor(c) ==
    /\ cpc[c] = "store" /\ tid[c] # 0
    /\ conflict' = (conflict \/ tid[c] \in DOMAIN results)
    /\ results' = Stored(tid[c], got[c])
    /\ Over(c)
    /\ UNCHANGED <<rest, calling, sockVars>>

\* A thread that failed ends, and a synchronous call returns.
Return(c) ==
    /\ cpc[c] = "failed" \/ (cpc[c] = "store" /\ tid[c] = 0)
    /\ calling' = IF tid[c] = 0 THEN 0 ELSE calling
    /\ Over(c)
    /\ UNCHANGED <<rest, results, conflict, sockVars>>

RpcCommunication(c) ==
    \/ NotSerialized(c) \/ SendFails(c) \/ RpcSend(c) \/ RecvEnter(c) \/ RecvAnswer(c)
    \/ RecvReset(c) \/ RecvEof(c) \/ Close(c) \/ RpcProcessor(c) \/ Return(c)
-----------------------------------------------------------------------------
(* GetAsyncResponse *)

getRest == <<async, garbage, connect_fd, call_limit, calling, conflict, callVars, sockVars, madeVars, known>>

\* What a race between users leaves of the list of a method is not known.
Known(list, m) == IF raced' THEN [list EXCEPT ![m] = <<>>] ELSE list

\* front() under a read lock, which other users hold too. While another one is about to
\* pop the node may be freed, and nodes and size are wrong ever after: any id is read.
Front(u, m) ==
    /\ phase = "open" /\ calling = 0 /\ upc[u] = "idle"
    /\ raced' = (raced \/ \E v \in Users : upc[v] = "pop" /\ um[v] = m)
    /\ tids[m] # <<>> \/ raced'
    /\ \E t \in IF raced' THEN Tids ELSE {Head(tids[m])} : ut' = [ut EXCEPT ![u] = t]
    /\ upc' = [upc EXCEPT ![u] = "pop"] /\ um' = [um EXCEPT ![u] = m]
    /\ tids' = Known(tids, m) /\ due' = Known(due, m)
    /\ UNCHANGED <<getRest, unjoined, results, phase, want, delivered>>

\* Alone, it takes the head it has read: the list is not empty.
PopFront(u) ==
    /\ upc[u] = "pop" /\ ~raced /\ tids[um[u]] # <<>>
    /\ tids' = [tids EXCEPT ![um[u]] = Tail(@)]
    /\ due' = [due EXCEPT ![um[u]] = Tail(@)]
    /\ want' = [want EXCEPT ![u] = Head(due[um[u]])]
    /\ upc' = [upc EXCEPT ![u] = "join"]
    /\ UNCHANGED <<getRest, unjoined, results, phase, ut, um, delivered, raced>>

\* Two pop_front of one list may unhook and free a node twice, which ends the process
\* when the heap finds out.
PopTorn(u) ==
    /\ upc[u] = "pop" /\ raced
    /\ \/ phase' = "aborted" /\ UNCHANGED upc
       \/ upc' = [upc EXCEPT ![u] = "join"] /\ UNCHANGED phase
    /\ UNCHANGED <<getRest, unjoined, results, tids, due, ut, um, want, delivered, raced>>

Join(u) ==
    /\ upc[u] = "join"
    /\ \A c \in Calls : tid[c] = ut[u] => cpc[c] = "done" \/ ut[u] \notin unjoined
    /\ unjoined' = unjoined \ {ut[u]}
    /\ upc' = [upc EXCEPT ![u] = "fetch"]
    /\ UNCHANGED <<getRest, results, phase, tids, due, ut, um, want, delivered, raced>>

\* pthread_join of an id that another user joins returns an error at once; of one that
\* was joined, or of no thread, it may fault.
JoinFails(u) ==
    /\ upc[u] = "join"
    /\ \/ /\ \E v \in Users \ {u} : upc[v] = "join" /\ ut[v] = ut[u]
          /\ upc' = [upc EXCEPT ![u] = "fetch"] /\ UNCHANGED phase
       \/ ut[u] \notin unjoined /\ phase' = "aborted" /\ UNCHANGED upc
    /\ UNCHANGED <<getRest, unjoined, results, tids, due, ut, um, want, delivered, raced>>

MutErased(t) == results
\* call_results_map_ without t.
Erased(t) == [x \in DOMAIN results \ {t} |-> results[x]]

Fetch(u) ==
    /\ upc[u] = "fetch"
    /\ results' = Erased(ut[u])
    /\ delivered' = IF ut[u] \in DOMAIN results
                    THEN delivered \cup {<<want[u], results[ut[u]]>>} ELSE delivered
    /\ upc' = [upc EXCEPT ![u] = "idle"] /\ ut' = [ut EXCEPT ![u] = 0]
    /\ want' = [want EXCEPT ![u] = 0]
    /\ UNCHANGED <<getRest, unjoined, phase, tids, due, um, raced>>

Answered(u) == PopFront(u) \/ PopTorn(u) \/ Join(u) \/ JoinFails(u) \/ Fetch(u)
GetAsyncResponse(u) == (\E m \in Methods : Front(u, m)) \/ Answered(u)

\* ~Channel joins every thread ever made, those joined before once more.
Delete ==
    /\ phase = "open" /\ Idle /\ Under = {}
    /\ phase' \in {"closed"} \cup (IF ids \subseteq unjoined THEN {} ELSE {"aborted"})
    /\ unjoined' = {}
    /\ UNCHANGED <<getRest, results, tids, due, getVars>>
-----------------------------------------------------------------------------
Next ==
    /\ phase # "aborted"
    /\ \/ OpenRpcAsyncMode \/ CallGarbage \/ ConnectFailed \/ AsyncRpcCall \/ Delete
       \/ \E m \in Methods : CallSync(m) \/ CallOverLimit(m) \/ CallAsync(m)
       \/ \E c \in Calls : RpcCommunication(c) \/ ServerSilent(c)
       \/ \E u \in Users : GetAsyncResponse(u)

Spec == Init /\ [][Next]_vars

\* Threads run on; a request that was read is answered, or its connection closed, unless
\* the server has lost it, and then the client is told.
Fairness ==
    /\ \A c \in Calls :
        /\ WF_vars(phase # "aborted" /\ cpc[c] # "wait" /\ RpcCommunication(c))
        /\ WF_vars(phase # "aborted" /\ RecvAnswer(c))
        /\ WF_vars(phase # "aborted" /\ cconn[c] \in ended /\ RecvEof(c))
    /\ \A u \in Users : WF_vars(phase # "aborted" /\ Answered(u))

FairSpec == Spec /\ Fairness
-----------------------------------------------------------------------------
(* A thread never finds an answer under its own id, ids being used again:   *)
(* the branch "if conflict, replace old one" is never taken.                *)
NoResultConflict == ~conflict

(* However the users race for the list of threads, and whatever id a corrupt *)
(* list gives them, no answer of the server is returned to two of them, as   *)
(* long as the process lives: answers are taken out under the write lock.    *)
AnswerOnce == \A d, e \in delivered : d[2] = e[2] /\ d[2] # 0 => d = e

(* A call that was not under way together with another one gets its own     *)
(* answer, the answers of a method being returned in the order of the calls *)
(* (users that do not race).                                                *)
OwnAnswer ==
    ~raced => \A d \in delivered : d[1] \notin overlapped => d[2] \in {0, d[1]}

(* An answer in the map can still be asked for: its thread is listed, or a  *)
(* user has taken it from the list (users that do not race).                *)
AnswersReachable ==
    ~raced /\ phase = "open" => \A t \in DOMAIN results :
        \/ \E m \in Methods : \E i \in DOMAIN tids[m] : tids[m][i] = t
        \/ \E u \in Users : upc[u] \in {"join", "fetch"} /\ ut[u] = t
        \/ calling # 0 /\ tid[calling] = t

(* A call that waits for an answer on its own connection ends, whether the  *)
(* server answers or closes the connection; only a server that has lost the *)
(* request and keeps the connection open leaves it waiting.                 *)
CallsEnd ==
    \A c \in Calls : (cpc[c] = "wait" /\ cconn[c] = c)
        ~> (cpc[c] = "done" \/ c \in silent \/ phase = "aborted")

(* What GetAsyncResponse returns is the answer to the call it is due for.   *)
AnswerIsOfCall == ~raced => \A d \in delivered : d[2] \in {0, d[1]}
=============================================================================
