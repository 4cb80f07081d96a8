---------------------------- MODULE CenterService ----------------------------
(***************************************************************************)
(* A center that serves requests: its server thread, its election thread    *)
(* and the descriptors both use; and one of its users, the heartbeat of an  *)
(* rpc server or that of an rpc client. Other peers may send anything of   *)
(* the protocol. What a proposal leads to is the subject of                 *)
(* RpcCenterElection: here it may end in any status that module allows.     *)
(* The event items are those of DispatchThread, which shows what becomes of *)
(* them: a callback stops its own item and frees the list's first, an item  *)
(* that libev still watches is used again, and a descriptor that another    *)
(* thread closes stays watched when its number is used again. Here that is  *)
(* taken for the worst: a number that was once watched may be called back   *)
(* at any time, whatever it stands for by then.                             *)
(***************************************************************************)
EXTENDS Integers, Sequences, FiniteSets, FiniteSetsExt

CONSTANTS
    ring,          \* center_hash_map_: its addresses in the order of their hashes
    should_reinit, \* failed connections before the server registers again
    NumFds,        \* bound on the descriptors open at a time
    MaxConns,      \* bound on the connections made to the center
    MaxFailures,   \* bound on failed connects of the server's heartbeat
    Addrs          \* bound on the length of the heartbeat's list of centers

ASSUME ServiceAssumption ==
    /\ NumFds \in Nat /\ MaxConns \in Nat /\ MaxFailures \in Nat /\ should_reinit \in Nat
    /\ Addrs \in Nat /\ ring \in Seq(STRING) /\ ring # <<>>

Conns == 1 .. MaxConns
Fds == 1 .. NumFds
ei_per_alloc_ == 4
Main == MaxConns + 1     \* the connection of main's broadcast
ElectionKinds == {"INQUIRY", "PROPOSAL", "LEADER_CONFIRM", "ACCEPT"}
FromPeers == ElectionKinds \cup {"FOLLOWER_PING", "OTHER_REGISTER", "CLUSTER_PING",
                               "CLIENT_INIT_REQ", "UPDATE_SERVER_INFO", "BAD"}

VARIABLES
    status, vn_map, server_buf, died,   \* of the center
    conns,       \* connections made
    accepted,    \* the first of them are accepted
    kind,        \* the request on each, until it is read
    conn,        \* the connection a descriptor stands for, or 0
    watched,     \* numbers that event items were started for
    items,       \* length of eio_uselist_
    answer,      \* what the heartbeat has received on its connection
    ended,       \* the center has closed that connection
    spc, sfd, scur, sans,  \* server thread: where it is, its descriptor, the connection
                           \* whose request it has read, or 0, and its answer
    queue,       \* of the election thread: <<descriptor, kind>>
    epc, efd,    \* election thread
    mfd,         \* descriptor of main's broadcast, or 0
    hpc, hconn, reporters, rca_size, failures, reinit_cnt,  \* server's heartbeat
    lpc, lconn, centers, servers         \* client's heartbeat

centerVars == <<status, vn_map, server_buf, died>>
connRest == <<conns, accepted, kind, conn, watched, items>>
connVars == <<connRest, answer, ended>>
serverVars == <<spc, sfd, scur, sans>>
threadVars == <<serverVars, queue, epc, efd, mfd>>
hbVars == <<hpc, hconn, reporters, rca_size, failures, reinit_cnt>>
clientVars == <<lpc, lconn, centers, servers>>
vars == <<centerVars, connVars, threadVars, hbVars, clientVars>>

\* Earlier connections, all closed, may have led to any status but LEADING (NeverLeading of
\* RpcCenterElection).
Init ==
    /\ status \in {"LOOKING", "FOLLOWING", "OBSERVING"} /\ vn_map = {} /\ server_buf = {} /\ died = FALSE
    /\ conns = 0 /\ accepted = 0 /\ kind = [k \in Conns |-> "none"]
    /\ conn = [f \in Fds |-> 0] /\ watched = {} /\ items = 0 /\ answer = "none" /\ ended = FALSE
    /\ spc = "idle" /\ sfd = 0 /\ scur = 0 /\ sans = "none" /\ queue = <<>> /\ epc = "idle" /\ efd = 0 /\ mfd = 0
    /\ \/ hpc = "init" /\ lpc = "absent"
       \/ hpc = "absent" /\ lpc = "init"
    /\ hconn = 0 /\ reporters = 0 /\ rca_size = 0
    /\ failures = 0 /\ reinit_cnt = 0
    /\ lconn = 0 /\ centers = FALSE /\ servers = {}

\* A heartbeat reads what comes first.
Received(k, a) == IF k \in {hconn, lconn} /\ answer = "none" THEN a ELSE answer
FreeFds == {f \in Fds : conn[f] = 0}

\* A peer connects and sends its request.
Connect(what) ==
    /\ conns < MaxConns /\ conns' = conns + 1
    /\ kind' = [kind EXCEPT ![conns + 1] = what]
    /\ UNCHANGED <<accepted, conn, watched, items, answer, ended>>

\* What another peer asks is left open until it is read.
OtherPeer ==
    /\ Connect("any")
    /\ UNCHANGED <<centerVars, threadVars, hbVars, clientVars>>

\* close(f): of whatever has the number by now.
CloseFd(f) ==
    /\ conn' = [conn EXCEPT ![f] = 0]
    /\ ended' = (ended \/ conn[f] \in {hconn, lconn} \ {0})
-----------------------------------------------------------------------------
(* The ring. The iterator moves before it is read: the first center is      *)
(* skipped, and past the last one end() is read.                            *)

\* Read positions, from lower_bound p; Len(ring) + 1 is end().
ClientWalk(p) ==
    LET n == Len(ring) + 1 - p IN [i \in 1 .. IF n < 3 THEN n ELSE 3 |-> p + i]
ClusterStep(p) == IF p = Len(ring) + 1 THEN 1 ELSE p + 1
ClusterWalk(p) == <<ClusterStep(p), ClusterStep(ClusterStep(p)), ClusterStep(ClusterStep(ClusterStep(p)))>>
ReadsEnd(walk) == \E i \in DOMAIN walk : walk[i] = Len(ring) + 1
-----------------------------------------------------------------------------
(* CenterServerThread *)

\* Memory for the next items may be missing: NULL is used. The callbacks of one event
\* loop run one at a time.
AcceptCb ==
    /\ spc = "idle" /\ accepted < conns /\ FreeFds # {}
    /\ accepted' = accepted + 1
    /\ conn' = [conn EXCEPT ![Min(FreeFds)] = accepted + 1]
    /\ watched' = watched \cup {Min(FreeFds)} /\ items' = items + 1
    /\ died' \in {FALSE} \cup {items % ei_per_alloc_ = 0}
    /\ UNCHANGED <<status, vn_map, server_buf, conns, kind, answer, ended, threadVars, hbVars, clientVars>>

\* GetRpcServer of the load balancer: a server, if there is one.
GetRpcServer == IF vn_map = {} THEN "no servers" ELSE "servers"

Registering(what) == what \in {"REGISTER", "OTHER_REGISTER"}
NameOf(what) == IF what = "REGISTER" THEN "server" ELSE "other"
CenterIsReady == status \in {"FOLLOWING", "LEADING"}

\* A leader balances, any other center buffers.
AddRpcServer(what) == IF status = "LEADING" THEN vn_map \cup {NameOf(what)} ELSE vn_map
MutAddRpcServerToBuf(what) == IF status = "LEADING" THEN server_buf \cup {NameOf(what)} ELSE server_buf
AddRpcServerToBuf(what) == IF status = "LEADING" THEN server_buf ELSE server_buf \cup {NameOf(what)}

\* What can be read on a connection, another peer's, one that was read, or none.
Requests(k) == IF k \notin Conns THEN {"BAD"} ELSE IF kind[k] = "any" THEN FromPeers ELSE {kind[k]}

\* CenterProcessor, up to the answer, called back for number f: it reads the request of
\* the connection f stands for. A request that is read already, none at all and "BAD" are
\* not received, or not parsed.
CenterProcessor(f, what) ==
    LET k == conn[f]
        adds == Registering(what) /\ CenterIsReady
    IN
    /\ spc = "idle" /\ f \in watched
    /\ sfd' = f /\ spc' = "answer" /\ scur' = IF what \in {"read", "BAD"} THEN 0 ELSE k
    /\ \E p \in 1 .. Len(ring) + 1 :
        LET walk == IF what = "CLIENT_INIT_REQ" THEN ClientWalk(p)
                    ELSE IF adds THEN ClusterWalk(p) ELSE <<>> IN
        died' \in {FALSE} \cup {ReadsEnd(walk)}
    /\ vn_map' = IF adds THEN AddRpcServer(what) ELSE vn_map
    /\ server_buf' = IF adds THEN AddRpcServerToBuf(what) ELSE server_buf
    /\ sans' \in CASE what = "FOLLOWER_PING" /\ status # "LEADING" -> {"REFUSED"}
                   [] what \in {"CLIENT_INIT_REQ", "UPDATE_SERVER_INFO"} -> {GetRpcServer}
                   [] (Registering(what) \/ what = "CLUSTER_PING") /\ ~CenterIsReady -> {"CENTER_NOT_READY"}
                   [] adds -> {"CLUSTER_RESP"}
                   [] what \in {"BAD", "read"} -> {"none", "failed"}
                   [] OTHER -> {"none"}
    /\ queue' = IF what \in ElectionKinds THEN Append(queue, <<f, what>>) ELSE queue
    /\ kind' = IF k \in Conns THEN [kind EXCEPT ![k] = "read"] ELSE kind
    /\ UNCHANGED <<status, conns, accepted, conn, watched, items, answer, ended, epc, efd, mfd,
                   hbVars, clientVars>>

\* RpcSend on the descriptor, whichever connection it stands for. It closes it after the
\* answer to a client, and when the send fails; CenterProcessor does when RpcRecv failed.
Answer ==
    LET k == conn[sfd]
        closes == CloseFd(sfd)
        stays == UNCHANGED <<conn, ended>>
    IN
    /\ spc = "answer" /\ spc' = "close" /\ scur' = 0 /\ sans' = "none"
    /\ \/ sans = "none" /\ UNCHANGED answer /\ stays
       \/ sans = "failed" /\ UNCHANGED answer /\ closes
       \/ /\ sans \notin {"none", "failed"} /\ k # 0
          /\ answer' = Received(k, sans)
          /\ IF sans \in {"servers", "no servers"} THEN closes ELSE stays
       \/ sans \notin {"none", "failed"} /\ UNCHANGED answer /\ closes
    /\ UNCHANGED <<centerVars, conns, accepted, kind, watched, items, sfd, queue, epc, efd, mfd, hbVars, clientVars>>

\* "After every execution, close the connection", and free the first item of the list;
\* when it has none, NULL is used.
Processor ==
    /\ spc = "close" /\ spc' = "idle" /\ sfd' = 0
    /\ CloseFd(sfd)
    /\ items' = IF items > 0 THEN items - 1 ELSE 0
    /\ died' = (items = 0)
    /\ UNCHANGED <<status, vn_map, server_buf, conns, accepted, kind, watched, answer, scur, sans,
                   queue, epc, efd, mfd, hbVars, clientVars>>
-----------------------------------------------------------------------------
(* ElectionThread: a message keeps the number of its descriptor. *)

MutPopElectionMessage == Len(queue) > 1 /\ queue' = Tail(queue)
PopElectionMessage == queue # <<>> /\ queue' = Tail(queue)

\* ProcessCenterData. LEADER_CONFIRM also starts the reporter thread, which
\* returns at once: reporter_running_ is set by StartReporter, which nobody
\* calls. The answer to an INQUIRY goes to whatever has the number by now, which
\* RpcSend closes if it fails.
ProcessCenterData ==
    LET el_item == Head(queue)
        k == conn[el_item[1]]
        inquiry == el_item[2] = "INQUIRY"
    IN  /\ epc = "idle" /\ PopElectionMessage
        /\ status' \in CASE el_item[2] = "LEADER_CONFIRM" -> {status, "FOLLOWING"}
                         [] el_item[2] = "PROPOSAL" /\ status # "FOLLOWING" -> {status, "OBSERVING"}
                         [] OTHER -> {status}
        /\ \/ inquiry /\ k # 0 /\ answer' = Received(k, "INQUIRY") /\ UNCHANGED <<conn, ended>>
           \/ inquiry /\ CloseFd(el_item[1]) /\ UNCHANGED answer
           \/ ~inquiry /\ UNCHANGED <<answer, conn, ended>>
        /\ efd' = el_item[1] /\ epc' = "close"
        /\ UNCHANGED <<vn_map, server_buf, died, conns, accepted, kind, watched, items, serverVars,
                       mfd, hbVars, clientVars>>

\* ProcessCenterData closes the descriptor, and then Run does.
ElectionClose ==
    /\ epc \in {"close", "again"}
    /\ epc' = IF epc = "close" THEN "again" ELSE "idle"
    /\ efd' = IF epc = "close" THEN efd ELSE 0
    /\ CloseFd(efd)
    /\ UNCHANGED <<centerVars, conns, accepted, kind, watched, items, answer, serverVars, queue,
                   mfd, hbVars, clientVars>>

\* main's BroadcastInfo connects to the other centers in turn, and closes.
MainConnect ==
    /\ mfd = 0 /\ FreeFds # {}
    /\ mfd' = Min(FreeFds) /\ conn' = [conn EXCEPT ![Min(FreeFds)] = Main]
    /\ UNCHANGED <<centerVars, conns, accepted, kind, watched, items, answer, ended, serverVars,
                   queue, epc, efd, hbVars, clientVars>>
MainClose ==
    /\ mfd > 0 /\ mfd' = 0 /\ CloseFd(mfd)
    /\ UNCHANGED <<centerVars, conns, accepted, kind, watched, items, answer, serverVars,
                   queue, epc, efd, hbVars, clientVars>>
-----------------------------------------------------------------------------
(* CenterClusterHeartbeat of an rpc server *)

hbRest == <<centerVars, threadVars, clientVars>>
Returned == answer # "none" \/ ended

\* InitCenterClusterHB, from Run or, after failures, from its loop.
Register ==
    /\ hpc \in {"init", "reinit"} /\ Connect("REGISTER")
    /\ hconn' = conns + 1 /\ hpc' = IF hpc = "init" THEN "wait" ELSE "rewait"
    /\ UNCHANGED <<hbRest, reporters, rca_size, failures, reinit_cnt>>

\* The first one fails: Run returns. A later one: the loop goes on.
RegisterFails ==
    /\ hpc \in {"init", "reinit"} /\ hpc' = IF hpc = "init" THEN "returned" ELSE "loop"
    /\ UNCHANGED <<hbRest, connVars, hconn, reporters, rca_size, failures, reinit_cnt>>

MutReported(n) == n
\* The addresses are added to those of an earlier registration.
Reported(n) == reporters + n

\* Connections closed without an answer give an empty list as well.
Registered ==
    /\ hpc \in {"wait", "rewait"} /\ Returned
    /\ reporters' = Reported(IF answer = "CLUSTER_RESP" /\ reporters + 3 <= Addrs THEN 3 ELSE 0)
    /\ rca_size' = IF hpc = "wait" THEN reporters' ELSE rca_size
    /\ hpc' = IF hpc = "rewait" THEN "loop" ELSE IF reporters' = 0 THEN "returned" ELSE "loop"
    /\ hconn' = 0 /\ answer' = "none" /\ ended' = FALSE
    /\ UNCHANGED <<hbRest, connRest, failures, reinit_cnt>>

\* The loop: the ping is sent and closed at once, nobody waits for it.
Ping ==
    /\ hpc = "loop" /\ Connect("CLUSTER_PING")
    /\ UNCHANGED <<hbRest, hbVars>>

PingFails ==
    /\ hpc = "loop" /\ failures < MaxFailures /\ failures' = failures + 1
    /\ reinit_cnt' = IF reinit_cnt + 1 > should_reinit THEN 0 ELSE reinit_cnt + 1
    /\ hpc' = IF reinit_cnt + 1 > should_reinit THEN "reinit" ELSE "loop"
    /\ UNCHANGED <<hbRest, connVars, hconn, reporters, rca_size>>
-----------------------------------------------------------------------------
(* CenterClientHeartbeat of an rpc client *)

clientRest == <<centerVars, threadVars, hbVars>>

InitClient ==
    /\ lpc \in {"init", "loop"}
    /\ Connect(IF lpc = "init" THEN "CLIENT_INIT_REQ" ELSE "UPDATE_SERVER_INFO")
    /\ lconn' = conns + 1 /\ lpc' = IF lpc = "init" THEN "wait" ELSE "update"
    /\ UNCHANGED <<clientRest, centers, servers>>

InitClientFails ==
    /\ lpc = "init" /\ lpc' = "returned"
    /\ UNCHANGED <<clientRest, connVars, lconn, centers, servers>>

\* An answer has servers, and centers unless the walk began at end().
InitClientHB ==
    /\ lpc = "wait" /\ Returned
    /\ centers' \in IF answer \in {"servers", "no servers"} THEN BOOLEAN ELSE {FALSE}
    /\ servers' = IF answer = "servers" THEN {"server"} ELSE {}
    /\ lpc' = IF ~centers' THEN "returned" ELSE "loop"
    /\ lconn' = 0 /\ answer' = "none" /\ ended' = FALSE
    /\ UNCHANGED <<clientRest, connRest>>

\* "RpcRecv >= 0 || Parse...": what was received is not parsed.
UpdateClient ==
    /\ lpc = "update" /\ Returned
    /\ lpc' = "loop"
    /\ lconn' = 0 /\ answer' = "none" /\ ended' = FALSE
    /\ UNCHANGED <<clientRest, connRest, centers, servers>>

\* RandomGetRpcServerAddr: the remainder by the length of an empty list.
CallServer ==
    /\ lpc \notin {"died", "absent"}
    /\ lpc' = IF servers = {} THEN "died" ELSE lpc
    /\ UNCHANGED <<clientRest, connVars, lconn, centers, servers>>
-----------------------------------------------------------------------------
ServerThread == AcceptCb \/ Answer \/ Processor \/ \E f \in Fds : \E what \in Requests(conn[f]) : CenterProcessor(f, what)
ElectionThread == ProcessCenterData \/ ElectionClose

Heartbeats ==
    \/ Register \/ RegisterFails \/ Registered \/ Ping \/ PingFails
    \/ InitClient \/ InitClientFails \/ InitClientHB \/ UpdateClient \/ CallServer

\* Up to the center's death.
Next ==
    /\ ~died
    /\ ServerThread \/ ElectionThread \/ MainConnect \/ MainClose \/ OtherPeer \/ Heartbeats

Spec == Init /\ [][Next]_vars

\* The center's election thread runs on.
FairSpec == Spec /\ WF_vars(~died /\ ElectionThread)
-----------------------------------------------------------------------------
(* Whatever the index drawn from the length of the first registration, the  *)
(* list of centers to ping has an entry there: a stale length is harmless.  *)
PingIndexInRange == hpc \in {"loop", "reinit", "rewait"} => rca_size \in 1 .. reporters

(* An rpc server that takes itself for registered and pings is known to the *)
(* center: no answer meant for another peer, of the server thread or of the *)
(* election thread, passes for its own while descriptors are closed twice,  *)
(* called back when stale and given out again.                              *)
RegistrationKept ==
    hpc \in {"loop", "reinit", "rewait"} => "server" \in server_buf \cup vn_map

(* Every message queued for the election thread is processed.               *)
ElectionDrains == queue # <<>> ~> (queue = <<>> \/ died)
==============================================================================
