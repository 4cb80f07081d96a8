------------------------ MODULE CenterServiceProofs ------------------------
(***************************************************************************)
(* Theorems about CenterService, for any ring of centers and any number of  *)
(* connections, descriptors and failures.                                   *)
(***************************************************************************)
EXTENDS CenterService, WellFoundedInduction, TLAPS

(* A set of numbers that is not empty has a least one, which Min chooses.   *)
LEMMA MinIn ==
    ASSUME NEW S \in SUBSET Nat, S # {}
    PROVE  Min(S) \in S
<1>1. PICK x \in S : \A y \in S : ~(<<y, x>> \in OpToRel(<, Nat))
    BY WFMin, NatLessThanWellFounded
<1>2. ASSUME NEW y \in S PROVE x <= y
  <2>1. ~(<<y, x>> \in {ss \in Nat \X Nat : ss[1] < ss[2]})
    BY <1>1 DEF OpToRel
  <2>2. x \in Nat /\ y \in Nat
    OBVIOUS
  <2> QED BY <2>1, <2>2
<1> QED BY <1>2 DEF Min

USE DEF centerVars, connRest, connVars, serverVars, threadVars, hbVars, clientVars, hbRest, clientRest
-----------------------------------------------------------------------------
(* The list of centers to ping only grows.                                  *)
PingInv ==
    /\ reporters \in Nat
    /\ hpc \in {"absent", "init"} => reporters = 0
    /\ PingIndexInRange

(* It keeps growing with every registration.                                *)
LEMMA PingAlways == Spec => []PingInv
<1>1. Init => PingInv
    BY DEF Init, PingInv, PingIndexInRange
<1>2. PingInv /\ [Next]_vars => PingInv'
  <2> SUFFICES ASSUME PingInv, [Next]_vars PROVE PingInv'
    OBVIOUS
  <2> USE DEF PingInv, PingIndexInRange
  <2>1. CASE UNCHANGED <<hpc, reporters, rca_size>>
    BY <2>1
  <2>2. CASE Register \/ RegisterFails \/ PingFails
    BY <2>2 DEF Register, RegisterFails, PingFails
  <2>3. CASE Registered
    <3>1. reporters' \in Nat /\ reporters' >= reporters
        BY <2>3 DEF Registered, Reported
    <3>2. CASE hpc = "wait"
        BY <2>3, <3>1, <3>2 DEF Registered
    <3>3. CASE hpc = "rewait"
        BY <2>3, <3>1, <3>3 DEF Registered
    <3> QED BY <2>3, <3>2, <3>3 DEF Registered
  <2>4. CASE ServerThread \/ ElectionThread \/ MainConnect \/ MainClose \/ Ping
    BY <2>1, <2>4 DEF ServerThread, Answer, Processor, AcceptCb, CenterProcessor, ElectionThread,
        ProcessCenterData, ElectionClose, MainConnect, MainClose, Ping
  <2>5. CASE InitClient \/ InitClientFails \/ InitClientHB \/ UpdateClient \/ CallServer
    BY <2>1, <2>5 DEF InitClient, InitClientFails, InitClientHB, UpdateClient, CallServer
  <2>6. CASE OtherPeer
    BY <2>1, <2>6 DEF OtherPeer
  <2>7. CASE UNCHANGED vars
    BY <2>1, <2>7 DEF vars
  <2> QED BY <2>2, <2>3, <2>4, <2>5, <2>6, <2>7 DEF Next, Heartbeats
<1> QED BY <1>1, <1>2, PTL DEF Spec

(* However often the heartbeat registers again, the index it draws from the *)
(* length of its first list is an index of the list it has.                 *)
THEOREM PingIndexAlwaysInRange == Spec => []PingIndexInRange
<1>1. PingInv => PingIndexInRange
    BY DEF PingInv
<1> QED BY <1>1, PingAlways, PTL
-----------------------------------------------------------------------------
(* Connections are numbered in the order in which they are made.            *)
ConnInv ==
    /\ conns \in 0 .. MaxConns /\ accepted \in 0 .. conns
    /\ kind \in [Conns -> FromPeers \cup {"none", "any", "read", "REGISTER"}]
    /\ conn \in [Fds -> (0 .. conns) \cup {Main}]

(* At most one heartbeat waits for an answer, which only its connection     *)
(* gives it, and on a server's connection its own request is read.          *)
WaitInv ==
    /\ hconn = 0 \/ hconn \in 1 .. conns
    /\ hpc = "absent" \/ lpc = "absent"
    /\ hconn # 0 <=> hpc \in {"wait", "rewait"}
    /\ lpc = "absent" => lconn = 0
    /\ hconn = 0 /\ lconn = 0 => answer = "none"
    /\ hconn # 0 => kind[hconn] \in {"REGISTER", "read"}

(* While the server thread answers, its descriptor stands for the           *)
(* connection whose request it read, for nothing, or for main's broadcast:  *)
(* it accepts no connection before it is done.                              *)
AnswerInv ==
    spc = "answer" =>
        /\ sfd \in Fds
        /\ \/ scur = 0 /\ sans \in {"none", "failed"}
           \/ scur \in 1 .. conns /\ conn[sfd] \in {0, scur, Main}

(* The center has the server, once its answer to it is under way.           *)
Recorded == "server" \in server_buf \cup vn_map
RecordInv ==
    /\ spc = "answer" /\ sans = "CLUSTER_RESP" /\ scur = hconn => Recorded
    /\ answer = "CLUSTER_RESP" /\ hconn # 0 => Recorded
    /\ reporters # 0 => Recorded

ServerInv == ConnInv /\ WaitInv /\ AnswerInv /\ RecordInv

(* close(f), of any number, leaves a descriptor what it was or free.        *)
LEMMA CloseKeeps ==
    ASSUME ConnInv, NEW f, CloseFd(f), UNCHANGED <<conns, accepted, kind>>
    PROVE  ConnInv' /\ \A g \in Fds : conn'[g] \in {0, conn[g]}
<1>1. CASE f \in Fds
  <2>1. conn' \in [Fds -> (0 .. conns) \cup {Main}] /\ \A g \in Fds : conn'[g] \in {0, conn[g]}
    BY <1>1 DEF ConnInv, CloseFd
  <2> QED BY <2>1 DEF ConnInv
<1>2. CASE f \notin Fds
  <2>1. conn' = conn
    BY <1>2 DEF ConnInv, CloseFd
  <2> QED BY <2>1 DEF ConnInv
<1> QED BY <1>1, <1>2

(* A descriptor that is given out was free.                                 *)
LEMMA FreeFd == ConnInv /\ FreeFds # {} => Min(FreeFds) \in Fds /\ conn[Min(FreeFds)] = 0
<1> SUFFICES ASSUME ConnInv, FreeFds # {} PROVE Min(FreeFds) \in Fds /\ conn[Min(FreeFds)] = 0
    OBVIOUS
<1>1. FreeFds \in SUBSET Nat
    BY ServiceAssumption DEF FreeFds, Fds
<1> QED BY <1>1, MinIn DEF FreeFds

(* A new connection is no one's that waits.                                 *)
LEMMA ConnectKeeps ==
    ASSUME ConnInv, NEW what \in {"any", "REGISTER", "CLUSTER_PING", "CLIENT_INIT_REQ", "UPDATE_SERVER_INFO"},
           Connect(what)
    PROVE  /\ ConnInv' /\ conns' = conns + 1 /\ conns' \in Conns /\ kind'[conns'] = what
           /\ \A k \in 1 .. conns : kind'[k] = kind[k]
<1>1. conns \in Nat /\ MaxConns \in Nat /\ conns + 1 \in Conns
    BY ServiceAssumption DEF ConnInv, Connect, Conns
<1>2. what \in FromPeers \cup {"none", "any", "read", "REGISTER"}
    BY DEF FromPeers
<1>3. kind' \in [Conns -> FromPeers \cup {"none", "any", "read", "REGISTER"}]
    BY <1>1, <1>2 DEF ConnInv, Connect
<1>4. conns' \in 0 .. MaxConns /\ accepted' \in 0 .. conns' /\ conn' \in [Fds -> (0 .. conns') \cup {Main}]
    BY <1>1 DEF ConnInv, Connect, Conns
<1> QED BY <1>1, <1>3, <1>4 DEF ConnInv, Connect, Conns

(* A step of the server thread.                                             *)
LEMMA ServerThreadStep == ServerInv /\ ServerThread => ServerInv'
<1> SUFFICES ASSUME ServerInv, ServerThread PROVE ServerInv'
    OBVIOUS
<1>0. ConnInv /\ WaitInv /\ AnswerInv /\ RecordInv /\ MaxConns \in Nat /\ conns \in Nat
    BY ServiceAssumption DEF ServerInv, ConnInv
<1>1. CASE AcceptCb
  <2>1. Min(FreeFds) \in Fds
    BY <1>0, <1>1, FreeFd DEF AcceptCb
  <2>2. ConnInv'
    BY <1>0, <1>1, <2>1 DEF AcceptCb, ConnInv
  <2>3. WaitInv' /\ AnswerInv' /\ RecordInv'
    BY <1>0, <1>1 DEF AcceptCb, WaitInv, AnswerInv, RecordInv, Recorded
  <2> QED BY <2>2, <2>3 DEF ServerInv
<1>2. ASSUME NEW f \in Fds, NEW what \in Requests(conn[f]), CenterProcessor(f, what) PROVE ServerInv'
  <2> DEFINE k == conn[f]
  <2>1. UNCHANGED <<conns, accepted, conn, answer, hpc, hconn, lpc, lconn, reporters>>
        /\ kind' = IF k \in Conns THEN [kind EXCEPT ![k] = "read"] ELSE kind
    BY <1>2 DEF CenterProcessor
  <2>2. k \in (0 .. conns) \cup {Main}
    BY <1>0 DEF ConnInv
  <2>3. ConnInv'
    BY <1>0, <2>1 DEF ConnInv
  <2>4. WaitInv'
    BY <1>0, <2>1, <2>2 DEF WaitInv, ConnInv, Conns
  <2>5. spc' = "answer" /\ sfd' = f /\ scur' = IF what \in {"read", "BAD"} THEN 0 ELSE k
    BY <1>2 DEF CenterProcessor
  <2>6. what \in {"read", "BAD"} => sans' \in {"none", "failed"}
    BY <1>2 DEF CenterProcessor, Registering
  <2>7. what \notin {"read", "BAD"} => k \in 1 .. conns
    <3>1. CASE k \in Conns
      BY <1>0, <2>2, <3>1 DEF Conns, Main
    <3>2. CASE k \notin Conns
      BY <3>2 DEF Requests
    <3> QED BY <3>1, <3>2
  <2>8. AnswerInv'
    BY <2>1, <2>5, <2>6, <2>7 DEF AnswerInv
  <2>9. Recorded => Recorded'
    BY <1>2 DEF CenterProcessor, Recorded, AddRpcServer, AddRpcServerToBuf
  <2>10. ASSUME sans' = "CLUSTER_RESP", scur' = hconn PROVE Recorded'
    <3>1. what \notin {"read", "BAD"}
      BY <2>6, <2>10
    <3>2. k = hconn /\ k \in Conns /\ hconn # 0
      BY <1>0, <2>5, <2>7, <2>10, <3>1 DEF Conns, ConnInv
    <3>3. what = "REGISTER"
      BY <1>0, <3>1, <3>2 DEF Requests, WaitInv
    <3>4. CenterIsReady
      BY <1>2, <2>10, <3>3 DEF CenterProcessor, Registering
    <3> QED BY <1>2, <3>3, <3>4 DEF CenterProcessor, Registering, Recorded, AddRpcServer, AddRpcServerToBuf, NameOf
  <2>11. RecordInv'
    BY <1>0, <2>1, <2>9, <2>10 DEF RecordInv
  <2> QED BY <2>3, <2>4, <2>8, <2>11 DEF ServerInv
<1>3. CASE Answer
  <2>1. spc = "answer" /\ spc' = "close" /\ sfd \in Fds
        /\ UNCHANGED <<conns, accepted, kind, hpc, hconn, lpc, lconn, reporters, server_buf, vn_map>>
        /\ (CloseFd(sfd) \/ UNCHANGED conn)
    BY <1>0, <1>3 DEF Answer, AnswerInv
  <2>2. ConnInv'
    BY <1>0, <2>1, CloseKeeps DEF ConnInv
  <2>3. answer' = answer \/
        /\ answer' = Received(conn[sfd], sans) /\ conn[sfd] \in {scur, Main} /\ scur \in 1 .. conns
    BY <1>0, <1>3 DEF Answer, AnswerInv
  <2>4. WaitInv'
    <3>1. hconn = 0 /\ lconn = 0 => answer' = answer
      BY <1>0, <2>3, ServiceAssumption DEF Received, Main, ConnInv
    <3> QED BY <1>0, <2>1, <3>1 DEF WaitInv
  <2>5. AnswerInv'
    BY <2>1 DEF AnswerInv
  <2>6. ASSUME answer' = "CLUSTER_RESP", hconn # 0 PROVE Recorded
    <3>1. CASE answer' = answer
      BY <1>0, <2>6, <3>1 DEF RecordInv
    <3>2. CASE answer' # answer
      <4>1. conn[sfd] \in {hconn, lconn} /\ answer' = sans /\ conn[sfd] \in {scur, Main} /\ scur \in 1 .. conns
        BY <2>3, <3>2 DEF Received
      <4>2. lconn = 0 /\ hconn \in 1 .. conns
        BY <1>0, <2>6 DEF WaitInv
      <4>3. Main # 0 /\ Main \notin 1 .. conns
        BY <1>0 DEF Main, ConnInv
      <4>4. scur = hconn
        BY <1>0, <4>1, <4>2, <4>3
      <4> QED BY <1>0, <2>1, <2>6, <4>1, <4>4 DEF RecordInv
    <3> QED BY <3>1, <3>2
  <2>7. RecordInv'
    BY <1>0, <2>1, <2>6 DEF RecordInv, Recorded
  <2> QED BY <2>2, <2>4, <2>5, <2>7 DEF ServerInv
<1>4. CASE Processor
  <2>1. spc' = "idle" /\ CloseFd(sfd)
        /\ UNCHANGED <<conns, accepted, kind, answer, hpc, hconn, lpc, lconn, reporters, server_buf, vn_map>>
    BY <1>4 DEF Processor
  <2>2. ConnInv'
    BY <1>0, <2>1, CloseKeeps
  <2>3. WaitInv' /\ AnswerInv' /\ RecordInv'
    BY <1>0, <2>1 DEF WaitInv, AnswerInv, RecordInv, Recorded
  <2> QED BY <2>2, <2>3 DEF ServerInv
<1> QED BY <1>1, <1>2, <1>3, <1>4 DEF ServerThread

(* A step of the election thread or of main, which close and open           *)
(* descriptors that they do not own, and may answer whoever has one.        *)
LEMMA OthersStep == ServerInv /\ (ElectionThread \/ MainConnect \/ MainClose) => ServerInv'
<1> SUFFICES ASSUME ServerInv, ElectionThread \/ MainConnect \/ MainClose PROVE ServerInv'
    OBVIOUS
<1>0. ConnInv /\ WaitInv /\ AnswerInv /\ RecordInv /\ MaxConns \in Nat /\ conns \in Nat
    BY ServiceAssumption DEF ServerInv, ConnInv
<1>1. UNCHANGED <<conns, accepted, kind, spc, sfd, scur, sans, hpc, hconn, lpc, lconn, reporters, server_buf, vn_map>>
    BY DEF ElectionThread, ProcessCenterData, ElectionClose, MainConnect, MainClose
<1>2. ConnInv' /\ \A g \in Fds : conn'[g] \in {0, conn[g]} \/ (conn[g] = 0 /\ conn'[g] = Main)
  <2>1. CASE MainConnect
    <3>1. Min(FreeFds) \in Fds /\ conn[Min(FreeFds)] = 0 /\ conn' = [conn EXCEPT ![Min(FreeFds)] = Main]
      BY <1>0, <2>1, FreeFd DEF MainConnect
    <3>2. conn' \in [Fds -> (0 .. conns) \cup {Main}]
      BY <1>0, <3>1 DEF ConnInv
    <3>3. \A g \in Fds : conn'[g] = conn[g] \/ (conn[g] = 0 /\ conn'[g] = Main)
      BY <1>0, <3>1 DEF ConnInv
    <3> QED BY <1>0, <1>1, <3>2, <3>3 DEF ConnInv
  <2>2. CASE MainClose \/ ElectionThread
    <3>1. (\E f : CloseFd(f)) \/ UNCHANGED conn
      BY <2>2 DEF ElectionThread, ProcessCenterData, ElectionClose, MainClose
    <3>2. CASE \E f : CloseFd(f)
      BY <1>0, <1>1, <3>2, CloseKeeps
    <3>3. CASE UNCHANGED conn
      BY <1>0, <1>1, <3>3 DEF ConnInv
    <3> QED BY <3>1, <3>2, <3>3
  <2> QED BY <2>1, <2>2
<1>3. answer' = answer \/ (\E k : k # 0 /\ answer' = Received(k, "INQUIRY"))
    BY DEF ElectionThread, ProcessCenterData, ElectionClose, MainConnect, MainClose
<1>4. WaitInv'
  <2>1. hconn = 0 /\ lconn = 0 => answer' = answer
    BY <1>3 DEF Received
  <2> QED BY <1>0, <1>1, <2>1 DEF WaitInv
<1>5. AnswerInv'
    BY <1>0, <1>1, <1>2 DEF AnswerInv
<1>6. RecordInv'
    BY <1>0, <1>1, <1>3 DEF RecordInv, Recorded, Received
<1> QED BY <1>2, <1>4, <1>5, <1>6 DEF ServerInv

(* A step of a heartbeat or of another peer.                                *)
LEMMA PeersStep == ServerInv /\ PingInv /\ (Heartbeats \/ OtherPeer) => ServerInv'
<1> SUFFICES ASSUME ServerInv, PingInv, Heartbeats \/ OtherPeer PROVE ServerInv'
    OBVIOUS
<1>0. ConnInv /\ WaitInv /\ AnswerInv /\ RecordInv /\ MaxConns \in Nat /\ conns \in Nat /\ reporters \in Nat
    BY ServiceAssumption DEF ServerInv, ConnInv, PingInv
<1>1. UNCHANGED <<server_buf, vn_map, spc, sfd, scur, sans>>
    BY DEF Heartbeats, Register, RegisterFails, Registered, Ping, PingFails, InitClient, InitClientFails,
           InitClientHB, UpdateClient, CallServer, OtherPeer
<1>2. CASE Register
  <2>1. /\ Connect("REGISTER") /\ hconn' = conns + 1 /\ hpc \in {"init", "reinit"} /\ hpc' \in {"wait", "rewait"}
        /\ UNCHANGED <<lpc, lconn, reporters, answer, conn>>
    BY <1>2 DEF Register, Connect
  <2>2. /\ ConnInv' /\ conns' = conns + 1 /\ conns' \in Conns /\ kind'[conns'] = "REGISTER"
    BY <1>0, <2>1, ConnectKeeps
  <2>3. answer = "none"
    BY <1>0, <2>1 DEF WaitInv
  <2>4. WaitInv'
    BY <1>0, <2>1, <2>2, <2>3 DEF WaitInv
  <2>5. AnswerInv'
    BY <1>0, <1>1, <2>1, <2>2 DEF AnswerInv
  <2>6. spc = "answer" /\ sans = "CLUSTER_RESP" => scur \in 1 .. conns
    BY <1>0 DEF AnswerInv
  <2>7. RecordInv'
    BY <1>0, <1>1, <2>1, <2>3, <2>6 DEF RecordInv, Recorded
  <2> QED BY <2>2, <2>4, <2>5, <2>7 DEF ServerInv
<1>3. ASSUME NEW what \in {"any", "CLUSTER_PING", "CLIENT_INIT_REQ", "UPDATE_SERVER_INFO"}, Connect(what),
             UNCHANGED <<hpc, hconn, reporters>>, UNCHANGED <<lpc, lconn>> \/ (hpc = "absent" /\ lconn' # 0),
             lpc' = "absent" => lpc = "absent" /\ lconn' = lconn
      PROVE  ServerInv'
  <2>1. /\ ConnInv' /\ conns' = conns + 1 /\ \A k \in 1 .. conns : kind'[k] = kind[k]
        /\ UNCHANGED <<answer, conn>>
    BY <1>0, <1>3, ConnectKeeps DEF Connect
  <2>2. WaitInv'
    <3>1. CASE UNCHANGED <<lpc, lconn>>
      BY <1>0, <1>3, <2>1, <3>1 DEF WaitInv
    <3>2. CASE hpc = "absent" /\ lconn' # 0
      BY <1>0, <1>3, <2>1, <3>2 DEF WaitInv
    <3> QED BY <1>3, <3>1, <3>2
  <2>3. AnswerInv'
    BY <1>0, <1>1, <2>1 DEF AnswerInv
  <2>4. RecordInv'
    BY <1>0, <1>1, <1>3, <2>1 DEF RecordInv, Recorded
  <2> QED BY <2>1, <2>2, <2>3, <2>4 DEF ServerInv
<1>4. CASE OtherPeer \/ Ping \/ InitClient
  <2>1. CASE OtherPeer \/ Ping
    BY <1>3, <2>1 DEF OtherPeer, Ping
  <2>2. CASE InitClient
    <3>1. /\ hpc = "absent" /\ lpc # "absent" /\ lpc' # "absent" /\ lconn' # 0
          /\ UNCHANGED <<hpc, hconn, reporters>>
      BY <1>0, <2>2 DEF InitClient, WaitInv
    <3>2. \E w \in {"CLIENT_INIT_REQ", "UPDATE_SERVER_INFO"} : Connect(w)
      BY <2>2 DEF InitClient
    <3> QED BY <1>3, <3>1, <3>2
  <2> QED BY <1>4, <2>1, <2>2
<1>5. CASE Registered
  <2>1. /\ hpc \in {"wait", "rewait"} /\ hconn' = 0 /\ answer' = "none" /\ UNCHANGED <<connRest, lpc, lconn>>
        /\ reporters' = reporters \/ answer = "CLUSTER_RESP"
        /\ hpc' \in {"loop", "returned"}
    BY <1>0, <1>5 DEF Registered, Reported
  <2>2. ConnInv' /\ AnswerInv'
    BY <1>0, <1>1, <2>1 DEF ConnInv, AnswerInv
  <2>3. WaitInv'
    BY <1>0, <2>1 DEF WaitInv
  <2>4. hconn # 0 /\ (spc = "answer" /\ sans = "CLUSTER_RESP" => scur # 0)
    BY <1>0, <2>1 DEF WaitInv, AnswerInv
  <2>5. RecordInv'
    BY <1>0, <1>1, <2>1, <2>4 DEF RecordInv, Recorded
  <2> QED BY <2>2, <2>3, <2>5 DEF ServerInv
<1>6. CASE RegisterFails \/ PingFails \/ InitClientFails \/ CallServer
  <2>1. UNCHANGED <<connVars, hconn, lconn, reporters>>
        /\ (hpc' = hpc \/ (lpc' = lpc /\ hpc \in {"init", "reinit"} /\ hpc' \in {"returned", "loop"})
             \/ (lpc' = lpc /\ hpc = "loop" /\ hpc' \in {"loop", "reinit"}))
        /\ (lpc' = lpc \/ (hpc' = hpc /\ lpc # "absent" /\ lpc' # "absent"))
    BY <1>6 DEF RegisterFails, PingFails, InitClientFails, CallServer
  <2>2. ConnInv' /\ AnswerInv' /\ RecordInv'
    BY <1>0, <1>1, <2>1 DEF ConnInv, AnswerInv, RecordInv, Recorded
  <2>3. WaitInv'
    BY <1>0, <2>1 DEF WaitInv
  <2> QED BY <2>2, <2>3 DEF ServerInv
<1>7. CASE InitClientHB \/ UpdateClient
  <2>1. /\ lpc # "absent" /\ lpc' # "absent" /\ lconn' = 0 /\ answer' = "none"
        /\ UNCHANGED <<connRest, hpc, hconn, reporters>>
    BY <1>7 DEF InitClientHB, UpdateClient
  <2>2. ConnInv' /\ AnswerInv' /\ RecordInv'
    BY <1>0, <1>1, <2>1 DEF ConnInv, AnswerInv, RecordInv, Recorded
  <2>3. WaitInv'
    BY <1>0, <2>1 DEF WaitInv
  <2> QED BY <2>2, <2>3 DEF ServerInv
<1> QED BY <1>2, <1>4, <1>5, <1>6, <1>7 DEF Heartbeats

(* In any center, whatever the election thread and main close, answer and   *)
(* open, and whichever stale numbers are called back: an rpc server that    *)
(* takes itself for registered is known to the center.                      *)
THEOREM RegistrationAlwaysKept == Spec => []RegistrationKept
<1>1. Init => ServerInv
  <2> SUFFICES ASSUME Init PROVE ServerInv
    OBVIOUS
  <2>1. ConnInv
    BY ServiceAssumption DEF Init, ConnInv
  <2> QED BY <2>1 DEF Init, ServerInv, WaitInv, AnswerInv, RecordInv
<1>2. ServerInv /\ PingInv /\ [Next]_vars => ServerInv'
  <2>1. ServerInv /\ UNCHANGED vars => ServerInv'
    BY DEF vars, ServerInv, ConnInv, WaitInv, AnswerInv, RecordInv, Recorded
  <2> QED BY <2>1, ServerThreadStep, OthersStep, PeersStep DEF Next
<1>3. ServerInv /\ PingInv => RegistrationKept
    BY DEF ServerInv, RecordInv, PingInv, PingIndexInRange, RegistrationKept, Recorded
<1> QED BY <1>1, <1>2, <1>3, PingAlways, PTL DEF Spec
=============================================================================
