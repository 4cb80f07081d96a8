-------------------------- MODULE RpcChannelProofs --------------------------
(***************************************************************************)
(* Theorems about RpcChannel, for any number of calls, users, methods and   *)
(* descriptors.                                                             *)
(***************************************************************************)
EXTENDS RpcChannel, WellFoundedInduction, TLAPS

Answers == 0 .. MaxCalls
Pcs == {"none", "send", "recv", "wait", "close", "close_failed", "store", "failed", "done"}

CallTypes ==
    /\ calls \in 0 .. MaxCalls /\ calling \in 0 .. calls
    /\ method \in [Calls -> Methods]
    /\ cpc \in [Calls -> Pcs] /\ cconn \in [Calls -> Answers] /\ got \in [Calls -> Answers]
    /\ tid \in [Calls -> Answers] /\ unjoined \subseteq 1 .. calls
    /\ conn \in [Fds -> Answers] /\ asked \in [Calls -> Answers]
    /\ DOMAIN results \subseteq Tids /\ \A t \in DOMAIN results : results[t] \in Answers

(* What a call that has not been made, or waits, has.                       *)
CallFacts ==
    /\ \A c \in Calls : c > calls => cpc[c] = "none" /\ tid[c] = 0 /\ asked[c] = 0 /\ cconn[c] = 0
    /\ \A c \in Calls : cpc[c] = "wait" => cconn[c] # 0
    /\ \A c \in Calls : cpc[c] = "none" => got[c] = 0
    /\ \A f \in Fds : conn[f] <= calls

CallInv == CallTypes /\ CallFacts

UserInv ==
    /\ tids \in [Methods -> Seq(Tids)] /\ due \in [Methods -> Seq(Calls)]
    /\ \A m \in Methods : Len(tids[m]) = Len(due[m])
    /\ upc \in [Users -> {"idle", "pop", "join", "fetch"}] /\ um \in [Users -> Methods]
    /\ ut \in [Users -> 0 .. MaxCalls] /\ want \in [Users -> 0 .. MaxCalls]
    /\ phase \in {"open", "closed", "aborted"} /\ raced \in BOOLEAN
    /\ delivered \subseteq Answers \X Answers

Fetching(t) == \E u \in Users : upc[u] = "fetch" /\ ut[u] = t

(* An id that is in use is not given out again: an answer that nobody has   *)
(* fetched keeps its id, and so does a call that is under way.              *)
ResultsInUse == \A t \in DOMAIN results : t \in unjoined \/ Fetching(t)
UnderInUse ==
    \A c \in Under : tid[c] # 0 =>
        /\ tid[c] \in unjoined /\ tid[c] \notin DOMAIN results
        /\ \A d \in Under : tid[d] = tid[c] => d = c

IdInv ==
    /\ ~conflict
    /\ phase = "closed" => Idle /\ Under = {}
    /\ phase = "open" => ResultsInUse /\ UnderInUse

(* An answer is in one place: in flight, with a call that received it, in   *)
(* the map, or returned; before the request is sent it is nowhere.          *)
TokenInv ==
    /\ \A k, l \in Calls : asked[k] # 0 /\ asked[k] = asked[l] => k = l
    /\ \A c, d \in Calls : got[c] # 0 /\ got[c] = got[d] => c = d
    /\ \A s, t \in DOMAIN results : results[s] # 0 /\ results[s] = results[t] => s = t
    /\ \A d, e \in delivered : d[2] # 0 /\ d[2] = e[2] => d = e
    /\ \A k, c \in Calls : asked[k] # 0 => asked[k] # got[c]
    /\ \A k \in Calls, t \in DOMAIN results : asked[k] # 0 => asked[k] # results[t]
    /\ \A k \in Calls, d \in delivered : asked[k] # 0 => asked[k] # d[2]
    /\ \A c \in Calls, t \in DOMAIN results : got[c] # 0 => got[c] # results[t]
    /\ \A c \in Calls, d \in delivered : got[c] # 0 => got[c] # d[2]
    /\ \A t \in DOMAIN results, d \in delivered : results[t] # 0 => results[t] # d[2]
    /\ \A a \in Calls : cpc[a] \in {"none", "send"} =>
         /\ \A k \in Calls : asked[k] # a /\ got[k] # a
         /\ \A t \in DOMAIN results : results[t] # a
         /\ \A d \in delivered : d[2] # a

(* As long as no users have raced: the two lists of a method tell of the    *)
(* same calls, and a user between front and pop_front has the head.         *)
ListsAgree ==
    \A m \in Methods : \A i \in DOMAIN due[m] :
        tids[m][i] = tid[due[m][i]] /\ method[due[m][i]] = m /\ due[m][i] <= calls
WantsMade == \A u \in Users : upc[u] \in {"join", "fetch"} => want[u] \in 1 .. calls
PopsHead ==
    \A u \in Users : upc[u] = "pop" =>
        /\ tids[um[u]] # <<>> /\ ut[u] = Head(tids[um[u]])
        /\ \A v \in Users : upc[v] = "pop" /\ um[v] = um[u] => v = u
WantsOwn == \A u \in Users : upc[u] \in {"join", "fetch"} => ut[u] = tid[want[u]]

ListInv == ListsAgree /\ WantsMade /\ PopsHead /\ WantsOwn

(* Call c can be asked for: it is about to be listed, in a list, or taken   *)
(* from it by a user.                                                       *)
Making(c) == calling = c /\ c # 0 /\ tid[c] # 0
InList(c) == \E m \in Methods : \E i \in DOMAIN due[m] : due[m][i] = c
Taken(c) == \E u \in Users : upc[u] \in {"join", "fetch"} /\ want[u] = c
Kept(c) == Making(c) \/ InList(c) \/ Taken(c)

(* It is in one place.                                                      *)
OnePlace ==
    /\ \A m \in Methods : \A i, j \in DOMAIN due[m] : due[m][i] = due[m][j] => i = j
    /\ \A u, v \in Users : upc[u] \in {"join", "fetch"} /\ upc[v] \in {"join", "fetch"} /\ want[u] = want[v] => u = v
    /\ \A c \in Calls : ~(Making(c) /\ (InList(c) \/ Taken(c))) /\ ~(InList(c) /\ Taken(c))

(* A synchronous call is the one that was called last, and until CallMethod *)
(* returns no user is in the channel.                                       *)
CallingInv ==
    /\ \A u \in Users : calling # 0 => upc[u] = "idle"
    /\ \A c \in Under : tid[c] = 0 => calling = c

(* A call has an id of its own until its answer is fetched,                 *)
(* and answers and calls under way belong to such a call.                   *)
OwnIds ==
    /\ \A u \in Users : upc[u] = "fetch" => ut[u] \notin unjoined
    /\ \A c, d \in Calls : Kept(c) /\ Kept(d) /\ tid[c] = tid[d] => c = d
    /\ \A c \in Calls : Kept(c) => tid[c] # 0 /\
         (tid[c] \in unjoined \/ \E u \in Users : upc[u] = "fetch" /\ want[u] = c)
    /\ \A c \in Under : tid[c] # 0 => Kept(c)
    /\ \A t \in DOMAIN results : \E c \in Calls : Kept(c) /\ tid[c] = t

KeptInv == OnePlace /\ CallingInv /\ (phase = "open" => OwnIds)

(* A call that met no other one is alone, uses its own connection and gets  *)
(* its own answer or none; the map has it under its id.                     *)
Alone ==
    \A c \in Under \ overlapped :
        /\ Under = {c} /\ FdConn(connect_fd) \in {0, c}
        /\ cconn[c] \in {0, c} /\ asked[c] \in {0, c}
GotOwn == \A c \in Calls \ overlapped : got[c] \in {0, c}
StoredOwn ==
    \A c \in Calls \ overlapped : Kept(c) /\ tid[c] \in DOMAIN results => results[tid[c]] \in {0, c}

OwnInv == Alone /\ GotOwn /\ (phase = "open" => StoredOwn) /\ OwnAnswer

-----------------------------------------------------------------------------
USE DEF callVars, sockVars, getVars, madeVars, listVars, rest, getRest, Goto, Over, Answers

(* A set of numbers that is not empty has a least one, which Min chooses.   *)
LEMMA MinIs ==
    ASSUME NEW S \in SUBSET Nat, S # {}
    PROVE  Min(S) \in S /\ \A y \in S : Min(S) <= y
<1>1. PICK x \in S : \A y \in S : ~(<<y, x>> \in OpToRel(<, Nat))
    BY WFMin, NatLessThanWellFounded
<1>2. ASSUME NEW y \in S PROVE x <= y
  <2>1. ~(<<y, x>> \in {ss \in Nat \X Nat : ss[1] < ss[2]})
    BY <1>1 DEF OpToRel
  <2>2. x \in Nat /\ y \in Nat
    OBVIOUS
  <2> QED BY <2>1, <2>2
<1> QED BY <1>2 DEF Min

(* The next call c is made on a free descriptor f, by a thread whose id t   *)
(* is free, or by the user's own.                                           *)
CallMade(m, c, f, t, pc) ==
    /\ phase = "open" /\ Idle /\ c = calls + 1 /\ c \in Calls /\ f \in Fds /\ conn[f] = 0
    /\ t \in 0 .. c /\ t \notin unjoined /\ pc \in {"none", "send"} /\ (pc = "none" => t = 0)
    /\ calls' = c /\ method' = [method EXCEPT ![c] = m]
    /\ connect_fd' = f /\ conn' = [conn EXCEPT ![f] = c]
    /\ cpc' = [cpc EXCEPT ![c] = pc] /\ tid' = [tid EXCEPT ![c] = t]
    /\ calling' = IF pc = "none" THEN 0 ELSE c
    /\ overlapped' = overlapped \cup (IF Under = {} THEN {} ELSE Under \cup {c})
    /\ unjoined' = unjoined \cup ({t} \ {0})
    /\ UNCHANGED <<async, garbage, call_limit, results, phase, conflict, ids, cfd, cconn, got,
                   asked, ended, getVars, listVars>>

(* So does each of the three forms of CallMethod: the least id that is free *)
(* is at most the number of the call.                                       *)
LEMMA CallIsMade ==
    ASSUME CallInv, NEW m \in Methods, CallSync(m) \/ CallOverLimit(m) \/ CallAsync(m)
    PROVE  \E c, f, t, pc : CallMade(m, c, f, t, pc)
<1> DEFINE c == calls + 1
           f == Min(FreeFds)
<1>1. calls \in Nat /\ MaxCalls \in Nat /\ NumFds \in Nat /\ unjoined \subseteq 1 .. calls
    BY ChannelAssumption DEF CallInv, CallTypes
<1>2. calls < MaxCalls /\ FreeFds # {}
    BY DEF CallSync, CallOverLimit, CallAsync, Made
<1>3. c \in Calls
    BY <1>1, <1>2 DEF Calls
<1>4. f \in Fds /\ conn[f] = 0
  <2>1. FreeFds \in SUBSET Nat
    BY <1>1 DEF FreeFds, Fds
  <2> QED BY <1>2, <2>1, MinIs DEF FreeFds
<1>5. CASE CallSync(m)
  <2>1. CallMade(m, c, f, 0, "send")
    BY <1>1, <1>3, <1>4, <1>5 DEF CallSync, Made, CallMade
  <2> QED BY <2>1
<1>6. CASE CallOverLimit(m)
  <2>1. CallMade(m, c, f, 0, "none")
    BY <1>1, <1>3, <1>4, <1>6 DEF CallOverLimit, Made, CallMade
  <2> QED BY <2>1
<1>7. CASE CallAsync(m)
  <2> DEFINE t == Min(Tids \ unjoined)
  <2>1. c \in Tids \ unjoined /\ Tids \ unjoined \in SUBSET Nat
    BY <1>1, <1>2 DEF Tids
  <2>2. t \in Tids \ unjoined /\ t <= c
    BY <2>1, MinIs
  <2>3. t \in 0 .. c /\ t \notin unjoined /\ t # 0
    BY <1>1, <2>2 DEF Tids
  <2>4. Made(m, "send", t) /\ unjoined' = unjoined \cup {t}
    BY <1>7 DEF CallAsync
  <2> HIDE DEF t
  <2>5. CallMade(m, c, f, t, "send")
    BY <1>1, <1>3, <1>4, <2>3, <2>4 DEF Made, CallMade
  <2> QED BY <2>5
<1> QED BY <1>5, <1>6, <1>7

(* Where a call can be, and the numbers of calls.                           *)
LEMMA Ranges ==
    /\ MaxCalls \in Nat /\ Calls \subseteq Nat /\ Calls \subseteq 0 .. MaxCalls /\ Calls = (0 .. MaxCalls) \ {0}
    /\ Tids = Calls /\ 0 \in 0 .. MaxCalls
    /\ \A pc \in {"none", "send", "recv", "wait", "close", "close_failed", "store", "failed", "done"} : pc \in Pcs
BY ChannelAssumption DEF Calls, Tids, Pcs

(* The connection of a descriptor.                                          *)
LEMMA FdConnType == CallTypes => FdConn(connect_fd) \in Answers /\ \A f : FdConn(f) \in Answers
BY ChannelAssumption DEF CallTypes, FdConn

(* The types of what the calls have, and what they have when.               *)
LEMMA CallInvStep == CallInv /\ [Next]_vars => CallInv'
<1> SUFFICES ASSUME CallInv, [Next]_vars PROVE CallInv'
    OBVIOUS
<1>0. CallTypes /\ CallFacts /\ MaxCalls \in Nat
    BY ChannelAssumption DEF CallInv
<1> USE Ranges
<1>1. CASE OpenRpcAsyncMode \/ CallGarbage \/ ConnectFailed \/ AsyncRpcCall \/ Delete \/ UNCHANGED vars
         \/ \E c \in Calls : ServerSilent(c)
  <2>1. UNCHANGED <<calls, method, cpc, cconn, got, tid, conn, asked, results>>
        /\ unjoined' \in {unjoined, {}} /\ calling' \in {calling, 0}
    BY <1>1 DEF OpenRpcAsyncMode, CallGarbage, ConnectFailed, AsyncRpcCall, Delete, ServerSilent, vars
  <2>2. CallTypes'
    BY <1>0, <2>1 DEF CallTypes
  <2>3. CallFacts'
    BY <1>0, <2>1 DEF CallFacts
  <2> QED BY <2>2, <2>3 DEF CallInv
<1>2. ASSUME NEW m \in Methods, CallSync(m) \/ CallOverLimit(m) \/ CallAsync(m) PROVE CallInv'
  <2>1. PICK c, f, t, pc : CallMade(m, c, f, t, pc)
    BY <1>2, CallIsMade
  <2>2. c \in Calls /\ f \in Fds /\ c = calls + 1 /\ t \in 0 .. c /\ pc \in {"none", "send"}
    BY <2>1 DEF CallMade
  <2>3. UNCHANGED <<cconn, got, asked, results>> /\ calls' = c /\ calling' \in {0, c}
        /\ method' = [method EXCEPT ![c] = m] /\ cpc' = [cpc EXCEPT ![c] = pc]
        /\ tid' = [tid EXCEPT ![c] = t] /\ conn' = [conn EXCEPT ![f] = c]
        /\ unjoined' = unjoined \cup ({t} \ {0})
    BY <2>1 DEF CallMade
  <2>4. CallTypes'
    <3>1. calls' \in 0 .. MaxCalls /\ calling' \in 0 .. calls' /\ unjoined' \subseteq 1 .. calls'
      BY <1>0, <2>2, <2>3 DEF CallTypes
    <3> QED BY <1>0, <2>2, <2>3, <3>1 DEF CallTypes
  <2>5. CallFacts'
    BY <1>0, <2>2, <2>3 DEF CallTypes, CallFacts
  <2> QED BY <2>4, <2>5 DEF CallInv
<1>3. ASSUME NEW c \in Calls, RpcCommunication(c) PROVE CallInv'
  <2>1. UNCHANGED <<calls, method, tid, unjoined>> /\ calling' \in {calling, 0}
    BY <1>3 DEF RpcCommunication, NotSerialized, SendFails, RpcSend, RecvEnter, RecvAnswer, RecvReset,
                RecvEof, Close, RpcProcessor, Return
  <2>2. CASE NotSerialized(c) \/ SendFails(c)
    <3>1. UNCHANGED <<cconn, got, conn, asked, results>> /\ cpc[c] = "send"
          /\ \E pc \in Pcs \ {"none", "wait"} : cpc' = [cpc EXCEPT ![c] = pc]
      BY <2>2 DEF NotSerialized, SendFails
    <3>2. CallTypes'
      BY <1>0, <2>1, <3>1 DEF CallTypes
    <3>3. CallFacts'
      BY <1>0, <2>1, <3>1 DEF CallTypes, CallFacts
    <3> QED BY <3>2, <3>3 DEF CallInv
  <2>3. CASE RpcSend(c)
    <3>1. PICK k \in Calls : k = FdConn(connect_fd)
      BY <1>0, <2>3, FdConnType DEF RpcSend
    <3>2. UNCHANGED <<cconn, got, conn, results>> /\ cpc[c] = "send" /\ cpc' = [cpc EXCEPT ![c] = "recv"]
          /\ asked' = [asked EXCEPT ![k] = IF asked[k] = 0 /\ k \notin ended THEN c ELSE asked[k]]
      BY <2>3, <3>1 DEF RpcSend
    <3>3. k <= calls
      BY <1>0, <2>3, <3>1 DEF FdConn, CallFacts, RpcSend
    <3>4. CallTypes'
      BY <1>0, <2>1, <3>2 DEF CallTypes
    <3>5. CallFacts'
      BY <1>0, <2>1, <3>2, <3>3 DEF CallTypes, CallFacts
    <3> QED BY <3>4, <3>5 DEF CallInv
  <2>4. CASE RecvEnter(c)
    <3>1. PICK k \in Answers : k = FdConn(connect_fd)
      BY <1>0, FdConnType
    <3>2. UNCHANGED <<got, conn, asked, results>> /\ cpc[c] = "recv" /\ cconn' = [cconn EXCEPT ![c] = k]
          /\ cpc' = [cpc EXCEPT ![c] = IF k = 0 THEN "close_failed" ELSE "wait"]
      BY <2>4, <3>1 DEF RecvEnter
    <3>3. CallTypes'
      BY <1>0, <2>1, <3>2 DEF CallTypes
    <3>4. CallFacts'
      BY <1>0, <2>1, <3>2 DEF CallTypes, CallFacts
    <3> QED BY <3>3, <3>4 DEF CallInv
  <2>5. CASE RecvAnswer(c)
    <3>1. cpc[c] = "wait"
      BY <2>5 DEF RecvAnswer
    <3>2. PICK k \in Calls : k = cconn[c]
      BY <1>0, <3>1 DEF CallTypes, CallFacts
    <3>3. UNCHANGED <<cconn, conn, results>> /\ got' = [got EXCEPT ![c] = asked[k]]
          /\ asked' = [asked EXCEPT ![k] = 0] /\ cpc' = [cpc EXCEPT ![c] = "close"]
      BY <2>5, <3>2 DEF RecvAnswer
    <3>4. CallTypes'
      BY <1>0, <2>1, <3>3 DEF CallTypes
    <3>5. CallFacts'
      BY <1>0, <2>1, <3>1, <3>3 DEF CallTypes, CallFacts
    <3> QED BY <3>4, <3>5 DEF CallInv
  <2>6. CASE RecvReset(c) \/ RecvEof(c)
    <3>1. UNCHANGED <<cconn, got, conn, asked, results>> /\ cpc[c] = "wait"
          /\ \E pc \in {"close", "close_failed"} : cpc' = [cpc EXCEPT ![c] = pc]
      BY <2>6 DEF RecvReset, RecvEof, AfterEof
    <3>2. CallTypes'
      BY <1>0, <2>1, <3>1 DEF CallTypes
    <3>3. CallFacts'
      BY <1>0, <2>1, <3>1 DEF CallTypes, CallFacts
    <3> QED BY <3>2, <3>3 DEF CallInv
  <2>7. CASE Close(c)
    <3>1. UNCHANGED <<cconn, got, asked, results>> /\ cpc[c] \in {"close", "close_failed"}
          /\ (\E pc \in {"store", "failed"} : cpc' = [cpc EXCEPT ![c] = pc])
          /\ conn' = [f \in Fds |-> IF f = cfd[c] THEN 0 ELSE conn[f]]
      BY <2>7 DEF Close
    <3>2. CallTypes'
      BY <1>0, <2>1, <3>1 DEF CallTypes
    <3>3. CallFacts'
      BY <1>0, <2>1, <3>1 DEF CallTypes, CallFacts
    <3> QED BY <3>2, <3>3 DEF CallInv
  <2>8. CASE RpcProcessor(c) \/ Return(c)
    <3>1. UNCHANGED <<conn, asked>> /\ cpc[c] \in {"store", "failed"} /\ got' = [got EXCEPT ![c] = 0]
          /\ cconn' = [cconn EXCEPT ![c] = 0] /\ cpc' = [cpc EXCEPT ![c] = "done"]
      BY <2>8 DEF RpcProcessor, Return
    <3>2. results' = results \/ (results' = Stored(tid[c], got[c]) /\ tid[c] # 0)
      BY <2>8 DEF RpcProcessor, Return
    <3>3. DOMAIN results' \subseteq Tids /\ \A t \in DOMAIN results' : results'[t] \in Answers
      BY <1>0, <3>2 DEF CallTypes, Stored
    <3>4. CallTypes'
      BY <1>0, <2>1, <3>1, <3>3 DEF CallTypes
    <3>5. CallFacts'
      BY <1>0, <2>1, <3>1 DEF CallTypes, CallFacts
    <3> QED BY <3>4, <3>5 DEF CallInv
  <2> QED BY <1>3, <2>2, <2>3, <2>4, <2>5, <2>6, <2>7, <2>8 DEF RpcCommunication
<1>4. ASSUME NEW u \in Users, GetAsyncResponse(u) PROVE CallInv'
  <2>1. UNCHANGED <<calls, calling, method, cpc, cconn, got, tid, conn, asked>>
        /\ unjoined' \subseteq unjoined /\ (results' = results \/ results' = Erased(ut[u]))
    BY <1>4 DEF GetAsyncResponse, Answered, Front, PopFront, PopTorn, Join, JoinFails, Fetch
  <2>2. DOMAIN results' \subseteq Tids /\ \A t \in DOMAIN results' : results'[t] \in Answers
    BY <1>0, <2>1 DEF CallTypes, Erased
  <2>3. CallTypes'
    BY <1>0, <2>1, <2>2 DEF CallTypes
  <2>4. CallFacts'
    BY <1>0, <2>1 DEF CallFacts
  <2> QED BY <2>3, <2>4 DEF CallInv
<1> QED BY <1>1, <1>2, <1>3, <1>4 DEF Next

(* A list without its first.                                                *)
LEMMA FirstTaken ==
    ASSUME NEW S, NEW s \in Seq(S), s # <<>>
    PROVE  /\ Tail(s) \in Seq(S) /\ Len(Tail(s)) = Len(s) - 1
           /\ 1 \in DOMAIN s /\ Head(s) = s[1] /\ Head(s) \in S
           /\ \A i \in DOMAIN Tail(s) : i \in Nat /\ i + 1 \in DOMAIN s /\ Tail(s)[i] = s[i + 1] /\ i + 1 # 1
           /\ \A i \in DOMAIN s : i \in Nat /\ (i = 1 \/ (i - 1 \in DOMAIN Tail(s) /\ Tail(s)[i - 1] = s[i]))
OBVIOUS

(* A list with one more.                                                    *)
LEMMA LastAdded ==
    ASSUME NEW S, NEW s \in Seq(S), NEW x \in S
    PROVE  /\ Append(s, x) \in Seq(S) /\ Len(Append(s, x)) = Len(s) + 1
           /\ Len(s) + 1 \in DOMAIN Append(s, x) /\ Append(s, x)[Len(s) + 1] = x /\ Len(s) + 1 \notin DOMAIN s
           /\ \A i \in DOMAIN s : i \in DOMAIN Append(s, x) /\ Append(s, x)[i] = s[i]
           /\ \A i \in DOMAIN Append(s, x) : i = Len(s) + 1 \/ i \in DOMAIN s
           /\ s # <<>> => Head(Append(s, x)) = Head(s)
           /\ Append(s, x) # <<>>
<1>1. PICK n \in Nat : n = Len(s) /\ DOMAIN s = 1 .. n
    OBVIOUS
<1>2. PICK a \in Seq(S) : a = Append(s, x)
  <2>1. Append(s, x) \in Seq(S)
    OBVIOUS
  <2> QED BY <2>1
<1>3. Len(a) = n + 1 /\ DOMAIN a = 1 .. n + 1 /\ a[n + 1] = x /\ \A i \in 1 .. n : a[i] = s[i]
    BY <1>1, <1>2
<1>4. a # <<>> /\ (s # <<>> => Head(a) = Head(s))
  <2>1. a # <<>> /\ Head(a) = a[1]
    BY <1>3
  <2>2. s # <<>> => Head(s) = s[1] /\ 1 \in 1 .. n
    BY <1>1
  <2> QED BY <1>3, <2>1, <2>2
<1> QED BY <1>1, <1>2, <1>3, <1>4

(* The list of the threads and the list of the calls of a method grow and   *)
(* shrink together.                                                         *)
LEMMA ListsGrow ==
    ASSUME CallInv, UserInv, AsyncRpcCall
    PROVE  \E m \in Methods, c \in Calls :
        /\ c = calling /\ m = method[c] /\ tid[c] \in Tids
        /\ tids' = [tids EXCEPT ![m] = Append(tids[m], tid[c])]
        /\ due' = [due EXCEPT ![m] = Append(due[m], c)]
        /\ tids[m] \in Seq(Tids) /\ due[m] \in Seq(Calls) /\ Len(tids[m]) = Len(due[m])
<1>1. calling \in Calls /\ tid[calling] # 0
    BY Ranges DEF AsyncRpcCall, CallInv, CallTypes
<1>2. method[calling] \in Methods /\ tid[calling] \in Tids
    BY <1>1, Ranges DEF CallInv, CallTypes
<1>3. tids[method[calling]] \in Seq(Tids) /\ due[method[calling]] \in Seq(Calls)
      /\ Len(tids[method[calling]]) = Len(due[method[calling]])
    BY <1>2 DEF UserInv
<1> QED BY <1>1, <1>2, <1>3 DEF AsyncRpcCall, Listed

(* PopFront takes the first of both.                                        *)
LEMMA ListsShrink ==
    ASSUME UserInv, NEW u \in Users, PopFront(u)
    PROVE  \E m \in Methods :
        /\ m = um[u] /\ upc[u] = "pop"
        /\ tids[m] \in Seq(Tids) /\ due[m] \in Seq(Calls) /\ Len(tids[m]) = Len(due[m])
        /\ due[m] # <<>> /\ tids[m] # <<>> /\ UNCHANGED phase
        /\ tids' = [tids EXCEPT ![m] = Tail(tids[m])]
        /\ due' = [due EXCEPT ![m] = Tail(due[m])]
        /\ want' = [want EXCEPT ![u] = Head(due[m])] /\ Head(due[m]) \in Calls
        /\ upc' = [upc EXCEPT ![u] = "join"]
<1>1. PICK m \in Methods : m = um[u]
    BY DEF UserInv
<1>2. tids[m] \in Seq(Tids) /\ due[m] \in Seq(Calls) /\ Len(tids[m]) = Len(due[m])
    BY <1>1 DEF UserInv
<1>3. tids[m] # <<>>
    BY <1>1 DEF PopFront
<1>4. due[m] # <<>> /\ Head(due[m]) \in Calls
    BY <1>2, <1>3
<1> QED BY <1>1, <1>2, <1>3, <1>4 DEF PopFront

(* As long as no users race, a user that reads the front gets the first,    *)
(* and the lists stay.                                                      *)
LEMMA FrontAlone ==
    ASSUME UserInv, NEW u \in Users, NEW m \in Methods, Front(u, m), ~raced'
    PROVE  /\ UNCHANGED <<tids, due, want, tid, method, calls, results, delivered, unjoined, phase>>
           /\ upc[u] = "idle" /\ calling = 0 /\ tids[m] # <<>> /\ ut' = [ut EXCEPT ![u] = Head(tids[m])]
           /\ upc' = [upc EXCEPT ![u] = "pop"] /\ um' = [um EXCEPT ![u] = m]
           /\ \A v \in Users : upc[v] = "pop" => um[v] # m
BY DEF Front, Known

(* The types of what the users have.                                        *)
LEMMA UserInvStep == CallInv /\ UserInv /\ [Next]_vars => UserInv'
<1> SUFFICES ASSUME CallInv, UserInv, [Next]_vars PROVE UserInv'
    OBVIOUS
<1> DEFINE Others == UNCHANGED <<upc, um, ut, want, raced, delivered>>
<1>1. ASSUME Others, UNCHANGED <<tids, due>>, phase' \in {"open", "closed", "aborted"} PROVE UserInv'
    BY <1>1 DEF UserInv
<1>2. CASE OpenRpcAsyncMode \/ CallGarbage \/ ConnectFailed \/ Delete \/ UNCHANGED vars
         \/ \E c \in Calls : ServerSilent(c)
  <2>1. Others /\ UNCHANGED <<tids, due>> /\ phase' \in {phase, "aborted", "closed"}
    BY <1>2 DEF OpenRpcAsyncMode, CallGarbage, ConnectFailed, Delete, ServerSilent, vars
  <2> QED BY <1>1, <2>1 DEF UserInv
<1>3. CASE AsyncRpcCall
  <2>1. Others /\ UNCHANGED phase
    BY <1>3 DEF AsyncRpcCall
  <2>2. PICK m \in Methods, c \in Calls :
          /\ tid[c] \in Tids
          /\ tids' = [tids EXCEPT ![m] = Append(tids[m], tid[c])]
          /\ due' = [due EXCEPT ![m] = Append(due[m], c)]
          /\ tids[m] \in Seq(Tids) /\ due[m] \in Seq(Calls) /\ Len(tids[m]) = Len(due[m])
    BY <1>3, ListsGrow
  <2>3. Append(tids[m], tid[c]) \in Seq(Tids) /\ Append(due[m], c) \in Seq(Calls)
        /\ Len(Append(tids[m], tid[c])) = Len(Append(due[m], c))
    BY <2>2
  <2>4. tids' \in [Methods -> Seq(Tids)] /\ due' \in [Methods -> Seq(Calls)]
        /\ \A n \in Methods : Len(tids'[n]) = Len(due'[n])
    BY <2>2, <2>3 DEF UserInv
  <2> QED BY <2>1, <2>4 DEF UserInv
<1>4. ASSUME NEW m \in Methods, CallSync(m) \/ CallOverLimit(m) \/ CallAsync(m) PROVE UserInv'
    BY <1>1, <1>4, CallIsMade DEF CallMade, UserInv
<1>5. ASSUME NEW c \in Calls, RpcCommunication(c) PROVE UserInv'
  <2>1. Others /\ UNCHANGED <<tids, due, phase>>
    BY <1>5 DEF RpcCommunication, NotSerialized, SendFails, RpcSend, RecvEnter, RecvAnswer, RecvReset,
                RecvEof, Close, RpcProcessor, Return
  <2> QED BY <1>1, <2>1 DEF UserInv
<1>6. ASSUME NEW u \in Users, GetAsyncResponse(u) PROVE UserInv'
  <2>1. ASSUME NEW m \in Methods, Front(u, m) PROVE UserInv'
    <3>1. PICK t \in 0 .. MaxCalls : ut' = [ut EXCEPT ![u] = t]
      <4>1. tids[m] \in Seq(Tids)
        BY DEF UserInv
      <4>2. CASE raced'
        BY <2>1, <4>2, Ranges DEF Front
      <4>3. CASE ~raced'
        BY <2>1, <4>1, <4>3, FrontAlone, FirstTaken, Ranges
      <4> QED BY <4>2, <4>3
    <3>2. UNCHANGED <<phase, want, delivered>> /\ raced' \in BOOLEAN
          /\ upc' = [upc EXCEPT ![u] = "pop"] /\ um' = [um EXCEPT ![u] = m]
      BY <2>1 DEF Front, UserInv
    <3>3. tids' \in [Methods -> Seq(Tids)] /\ due' \in [Methods -> Seq(Calls)]
          /\ \A n \in Methods : Len(tids'[n]) = Len(due'[n])
      <4>1. CASE raced'
        <5>1. tids' = [tids EXCEPT ![m] = <<>>] /\ due' = [due EXCEPT ![m] = <<>>]
          BY <2>1, <4>1 DEF Front, Known
        <5> QED BY <5>1 DEF UserInv
      <4>2. CASE ~raced'
        BY <2>1, <4>2, FrontAlone DEF UserInv
      <4> QED BY <4>1, <4>2
    <3> QED BY <3>1, <3>2, <3>3 DEF UserInv
  <2>2. CASE PopFront(u)
    <3>1. UNCHANGED <<um, ut, raced, delivered>>
      BY <2>2 DEF PopFront
    <3>2. PICK m \in Methods :
            /\ tids[m] \in Seq(Tids) /\ due[m] \in Seq(Calls) /\ Len(tids[m]) = Len(due[m])
            /\ due[m] # <<>> /\ tids[m] # <<>> /\ UNCHANGED phase
            /\ tids' = [tids EXCEPT ![m] = Tail(tids[m])]
            /\ due' = [due EXCEPT ![m] = Tail(due[m])]
            /\ want' = [want EXCEPT ![u] = Head(due[m])] /\ Head(due[m]) \in Calls
            /\ upc' = [upc EXCEPT ![u] = "join"]
      BY <2>2, ListsShrink
    <3>3. Tail(tids[m]) \in Seq(Tids) /\ Tail(due[m]) \in Seq(Calls) /\ Len(Tail(tids[m])) = Len(Tail(due[m]))
      BY <3>2, FirstTaken
    <3>4. tids' \in [Methods -> Seq(Tids)] /\ due' \in [Methods -> Seq(Calls)]
          /\ \A n \in Methods : Len(tids'[n]) = Len(due'[n])
      BY <3>2, <3>3 DEF UserInv
    <3> QED BY <3>1, <3>2, <3>4, Ranges DEF UserInv
  <2>3. CASE PopTorn(u) \/ Join(u) \/ JoinFails(u)
    BY <2>3 DEF PopTorn, Join, JoinFails, UserInv
  <2>4. CASE Fetch(u)
    <3>1. delivered' \subseteq Answers \X Answers
      BY <2>4 DEF Fetch, UserInv, CallInv, CallTypes
    <3>2. UNCHANGED <<tids, due, phase, um, raced>> /\ upc' = [upc EXCEPT ![u] = "idle"]
          /\ ut' = [ut EXCEPT ![u] = 0] /\ want' = [want EXCEPT ![u] = 0]
      BY <2>4 DEF Fetch
    <3> QED BY <3>1, <3>2, Ranges DEF UserInv
  <2> QED BY <1>6, <2>1, <2>2, <2>3, <2>4 DEF GetAsyncResponse, Answered
<1> QED BY <1>2, <1>3, <1>4, <1>5, <1>6 DEF Next

-----------------------------------------------------------------------------
(* The ids of the threads *)

(* Calls and users go on only while the channel is open.                    *)
LEMMA OpenOnly ==
    ASSUME CallInv, UserInv, IdInv, phase # "aborted",
           \/ AsyncRpcCall
           \/ \E c \in Calls : RpcCommunication(c)
           \/ \E u \in Users : GetAsyncResponse(u)
    PROVE  phase = "open"
<1> SUFFICES ASSUME phase = "closed" PROVE FALSE
    BY DEF UserInv
<1>1. Idle /\ Under = {}
    BY DEF IdInv
<1>2. ~AsyncRpcCall
    BY <1>1 DEF AsyncRpcCall, Idle
<1>3. ASSUME NEW c \in Calls, RpcCommunication(c) PROVE FALSE
  <2>1. cpc[c] \notin {"none", "done"}
    BY <1>3 DEF RpcCommunication, NotSerialized, SendFails, RpcSend, RecvEnter, RecvAnswer, RecvReset,
                RecvEof, Close, RpcProcessor, Return
  <2> QED BY <1>1, <2>1 DEF Under
<1>4. ASSUME NEW u \in Users, GetAsyncResponse(u) PROVE FALSE
    BY <1>1, <1>4 DEF GetAsyncResponse, Answered, Front, PopFront, PopTorn, Join, JoinFails, Fetch, Idle
<1> QED BY <1>2, <1>3, <1>4

(* A call that goes on, and does not store its answer: it stays under way,  *)
(* or ends.                                                                 *)
LEMMA CallGoesOn ==
    ASSUME CallInv, NEW c \in Calls, RpcCommunication(c)
    PROVE  /\ c \in Under /\ Under' \in {Under, Under \ {c}}
           /\ UNCHANGED <<async, garbage, connect_fd, call_limit, unjoined, phase, getVars, madeVars, listVars>>
           /\ \/ UNCHANGED <<results, conflict>>
              \/ RpcProcessor(c) /\ Under' = Under \ {c}
           /\ calling' = IF Return(c) /\ tid[c] = 0 THEN 0 ELSE calling
<1>1. c \in Under
    BY DEF RpcCommunication, NotSerialized, SendFails, RpcSend, RecvEnter, RecvAnswer, RecvReset,
           RecvEof, Close, RpcProcessor, Return, Under
<1>2. UNCHANGED <<async, garbage, connect_fd, call_limit, unjoined, phase, getVars, madeVars, listVars>>
    BY DEF RpcCommunication, NotSerialized, SendFails, RpcSend, RecvEnter, RecvAnswer, RecvReset,
           RecvEof, Close, RpcProcessor, Return
<1>3. PICK pc : cpc' = [cpc EXCEPT ![c] = pc] /\ pc # "none" /\ (RpcProcessor(c) => pc = "done")
  <2>1. CASE RpcProcessor(c)
    BY <2>1 DEF RpcProcessor
  <2>2. CASE Close(c)
    <3>1. cpc' = [cpc EXCEPT ![c] = IF cpc[c] = "close" THEN "store" ELSE "failed"] /\ cpc[c] # "store"
      BY <2>2 DEF Close
    <3> QED BY <3>1 DEF RpcProcessor
  <2>3. CASE RecvEnter(c)
    <3>1. cpc' = [cpc EXCEPT ![c] = IF FdConn(connect_fd) = 0 THEN "close_failed" ELSE "wait"] /\ cpc[c] # "store"
      BY <2>3 DEF RecvEnter
    <3> QED BY <3>1 DEF RpcProcessor
  <2>4. CASE ~RpcProcessor(c) /\ ~Close(c) /\ ~RecvEnter(c)
    BY <2>4 DEF RpcCommunication, NotSerialized, SendFails, RpcSend, RecvAnswer, RecvReset, RecvEof,
                AfterEof, Return
  <2> QED BY <2>1, <2>2, <2>3, <2>4
<1>4. Under' = IF pc = "done" THEN Under \ {c} ELSE Under
    BY <1>1, <1>3 DEF Under, CallInv, CallTypes
<1>5. UNCHANGED <<results, conflict>> \/ RpcProcessor(c)
    BY DEF RpcCommunication, NotSerialized, SendFails, RpcSend, RecvEnter, RecvAnswer, RecvReset,
           RecvEof, Close, Return
<1>6. calling' = IF Return(c) /\ tid[c] = 0 THEN 0 ELSE calling
    BY DEF RpcCommunication, NotSerialized, SendFails, RpcSend, RecvEnter, RecvAnswer, RecvReset,
           RecvEof, AfterEof, Close, RpcProcessor, Return
<1> QED BY <1>1, <1>2, <1>3, <1>4, <1>5, <1>6

(* The new call is under way, unless it is over the limit.                  *)
LEMMA UnderGrows ==
    ASSUME CallInv, NEW m \in Methods, NEW c, NEW f, NEW t, NEW pc, CallMade(m, c, f, t, pc)
    PROVE  Under' = (IF pc = "none" THEN Under ELSE Under \cup {c}) /\ c \in Calls /\ c \notin Under
           /\ (\A d \in Calls : tid'[d] = IF d = c THEN t ELSE tid[d])
<1>1. c \in Calls /\ cpc' = [cpc EXCEPT ![c] = pc] /\ pc \in {"none", "send"} /\ tid' = [tid EXCEPT ![c] = t]
    BY DEF CallMade
<1>2. cpc[c] = "none"
    BY Ranges DEF CallMade, CallInv, CallTypes, CallFacts
<1> QED BY <1>1, <1>2 DEF Under, CallInv, CallTypes

(* No step gives an id out that is in use.                                  *)
LEMMA IdInvStep == CallInv /\ UserInv /\ IdInv /\ [Next]_vars => IdInv'
<1> SUFFICES ASSUME CallInv, UserInv, IdInv, [Next]_vars PROVE IdInv'
    OBVIOUS
<1>1. CASE UNCHANGED vars \/ \E c \in Calls : ServerSilent(c)
  <2>0. UNCHANGED <<cpc, calling, upc, ut, tid, unjoined, results, phase, conflict>>
    BY <1>1 DEF vars, ServerSilent
  <2>1. Under' = Under /\ Idle' = Idle /\ \A t : Fetching(t)' = Fetching(t)
    BY <2>0 DEF Under, Idle, Fetching
  <2> QED BY <2>0, <2>1 DEF IdInv, ResultsInUse, UnderInUse
<1>2. CASE OpenRpcAsyncMode \/ CallGarbage \/ ConnectFailed
  <2>1. UNCHANGED <<cpc, tid, unjoined, results, upc, ut, calling, conflict>> /\ phase = "open" /\ phase' \in {"open", "aborted"}
    BY <1>2 DEF OpenRpcAsyncMode, CallGarbage, ConnectFailed
  <2>2. Under' = Under /\ \A t : Fetching(t)' = Fetching(t)
    BY <2>1 DEF Under, Fetching
  <2> QED BY <2>1, <2>2 DEF IdInv, ResultsInUse, UnderInUse
<1>3. CASE Delete
  <2>1. UNCHANGED <<cpc, calling, upc, conflict>> /\ phase' # "open" /\ Idle /\ Under = {}
    BY <1>3 DEF Delete
  <2>2. Under' = Under /\ Idle' = Idle
    BY <2>1 DEF Under, Idle
  <2> QED BY <2>1, <2>2 DEF IdInv
<1>4. CASE phase # "aborted" /\ AsyncRpcCall
  <2>1. UNCHANGED <<cpc, tid, unjoined, results, upc, ut, conflict, phase>> /\ phase = "open"
    BY <1>4, OpenOnly DEF AsyncRpcCall
  <2>2. Under' = Under /\ \A t : Fetching(t)' = Fetching(t)
    BY <2>1 DEF Under, Fetching
  <2> QED BY <2>1, <2>2 DEF IdInv, ResultsInUse, UnderInUse
<1>5. ASSUME NEW m \in Methods, CallSync(m) \/ CallOverLimit(m) \/ CallAsync(m) PROVE IdInv'
  <2>1. PICK c, f, t, pc : CallMade(m, c, f, t, pc)
    BY <1>5, CallIsMade
  <2>2. phase = "open" /\ Idle /\ t \notin unjoined /\ (pc = "none" => t = 0) /\ unjoined' = unjoined \cup ({t} \ {0})
        /\ UNCHANGED <<results, upc, ut, conflict, phase>>
    BY <2>1 DEF CallMade
  <2>3. Under' = (IF pc = "none" THEN Under ELSE Under \cup {c}) /\ c \in Calls /\ c \notin Under
        /\ (\A d \in Calls : tid'[d] = IF d = c THEN t ELSE tid[d])
    BY <2>1, UnderGrows
  <2>4. DOMAIN results \subseteq unjoined
    BY <2>2 DEF IdInv, ResultsInUse, Fetching, Idle
  <2>5. ResultsInUse'
    BY <2>2, <2>4 DEF ResultsInUse
  <2>6. UnderInUse'
    <3>1. Under \subseteq Calls /\ UnderInUse
      BY <2>2 DEF Under, IdInv
    <3>2. \A d \in Under : tid'[d] = tid[d] /\ (tid[d] # 0 => tid[d] # t)
      BY <2>2, <2>3, <3>1 DEF UnderInUse
    <3>3. t # 0 => t \notin DOMAIN results'
      BY <2>2, <2>4
    <3>4. tid'[c] = t
      BY <2>3
    <3> QED BY <2>2, <2>3, <3>1, <3>2, <3>3, <3>4 DEF UnderInUse
  <2> QED BY <2>2, <2>5, <2>6 DEF IdInv
<1>6. ASSUME NEW c \in Calls, phase # "aborted", RpcCommunication(c) PROVE IdInv'
  <2>1. c \in Under /\ Under' \in {Under, Under \ {c}} /\ UNCHANGED <<unjoined, phase, upc, ut, tid>>
    BY <1>6, CallGoesOn
  <2>2. phase = "open" /\ ResultsInUse /\ UnderInUse /\ ~conflict
    BY <1>6, OpenOnly DEF IdInv
  <2>3. \A t : Fetching(t)' = Fetching(t)
    BY <2>1 DEF Fetching
  <2>4. CASE UNCHANGED <<results, conflict>>
    BY <2>1, <2>2, <2>3, <2>4 DEF IdInv, ResultsInUse, UnderInUse
  <2>5. CASE RpcProcessor(c) /\ Under' = Under \ {c}
    <3>1. tid[c] # 0 /\ conflict' = (conflict \/ tid[c] \in DOMAIN results)
          /\ DOMAIN results' = DOMAIN results \cup {tid[c]}
      BY <2>5 DEF RpcProcessor, Stored
    <3>2. tid[c] \in unjoined /\ tid[c] \notin DOMAIN results
      BY <2>1, <2>2, <3>1 DEF UnderInUse
    <3>3. ResultsInUse'
      BY <2>1, <2>2, <2>3, <3>1, <3>2 DEF ResultsInUse
    <3>4. UnderInUse'
      BY <2>1, <2>2, <2>5, <3>1 DEF UnderInUse
    <3> QED BY <2>1, <2>2, <3>1, <3>2, <3>3, <3>4 DEF IdInv
  <2> QED BY <1>6, <2>4, <2>5, CallGoesOn
<1>7. ASSUME NEW u \in Users, phase # "aborted", GetAsyncResponse(u) PROVE IdInv'
  <2>1. phase = "open" /\ ResultsInUse /\ UnderInUse /\ ~conflict
    BY <1>7, OpenOnly DEF IdInv
  <2>2. UNCHANGED <<cpc, tid, conflict, calling>> /\ phase' \in {"open", "aborted"}
    BY <1>7, <2>1 DEF GetAsyncResponse, Answered, Front, PopFront, PopTorn, Join, JoinFails, Fetch
  <2>3. Under' = Under
    BY <2>2 DEF Under
  <2>4. CASE (\E m \in Methods : Front(u, m)) \/ PopFront(u) \/ PopTorn(u) \/ JoinFails(u)
    <3>1. UNCHANGED <<results, unjoined>> /\ \A v \in Users : upc[v] = "fetch" => upc'[v] = "fetch" /\ ut'[v] = ut[v]
      <4>1. ASSUME NEW m \in Methods, Front(u, m)
            PROVE  UNCHANGED <<results, unjoined>> /\ \A v \in Users : upc[v] = "fetch" => upc'[v] = "fetch" /\ ut'[v] = ut[v]
        BY <4>1 DEF Front, UserInv
      <4>2. CASE PopFront(u) \/ PopTorn(u) \/ JoinFails(u)
        BY <4>2 DEF PopFront, PopTorn, JoinFails, UserInv
      <4> QED BY <2>4, <4>1, <4>2
    <3>2. \A t : Fetching(t) => Fetching(t)'
      BY <3>1 DEF Fetching
    <3> QED BY <2>1, <2>2, <2>3, <3>1, <3>2 DEF IdInv, ResultsInUse, UnderInUse
  <2>5. CASE Join(u)
    <3>1. UNCHANGED <<results, ut>> /\ unjoined' = unjoined \ {ut[u]} /\ upc' = [upc EXCEPT ![u] = "fetch"]
          /\ \A c \in Calls : tid[c] = ut[u] => cpc[c] = "done" \/ ut[u] \notin unjoined
      BY <2>5 DEF Join
    <3>2. \A t : Fetching(t) \/ t = ut[u] => Fetching(t)'
      BY <3>1 DEF Fetching, UserInv
    <3>3. ResultsInUse'
      BY <2>1, <3>1, <3>2 DEF ResultsInUse
    <3>4. UnderInUse'
      <4>1. \A c \in Under : tid[c] # 0 => tid[c] # ut[u]
        BY <2>1, <3>1 DEF UnderInUse, Under
      <4> QED BY <2>1, <2>2, <2>3, <3>1, <4>1 DEF UnderInUse
    <3> QED BY <2>1, <2>2, <3>3, <3>4 DEF IdInv
  <2>6. CASE Fetch(u)
    <3>1. UNCHANGED unjoined /\ DOMAIN results' = DOMAIN results \ {ut[u]}
          /\ upc' = [upc EXCEPT ![u] = "idle"] /\ ut' = [ut EXCEPT ![u] = 0]
      BY <2>6 DEF Fetch, Erased
    <3>2. \A t : Fetching(t) /\ t # ut[u] => Fetching(t)'
      BY <3>1 DEF Fetching, UserInv
    <3>3. ResultsInUse'
      BY <2>1, <3>1, <3>2 DEF ResultsInUse
    <3>4. UnderInUse'
      BY <2>1, <2>2, <2>3, <3>1 DEF UnderInUse
    <3> QED BY <2>1, <2>2, <3>3, <3>4 DEF IdInv
  <2> QED BY <1>7, <2>4, <2>5, <2>6 DEF GetAsyncResponse, Answered
<1> QED BY <1>1, <1>2, <1>3, <1>4, <1>5, <1>6, <1>7 DEF Next

(* At first there are no calls.                                             *)
LEMMA ChannelInit == Init => CallInv /\ UserInv /\ IdInv
<1> SUFFICES ASSUME Init PROVE CallInv /\ UserInv /\ IdInv
    OBVIOUS
<1>1. (CHOOSE m \in Methods : TRUE) \in Methods
    BY ChannelAssumption
<1>2. CallTypes
    BY <1>1, Ranges DEF Init, CallTypes
<1>3. CallFacts
    BY Ranges DEF Init, CallFacts
<1>4. UserInv
  <2>1. tids \in [Methods -> Seq(Tids)] /\ due \in [Methods -> Seq(Calls)] /\ \A m \in Methods : tids[m] = due[m]
    BY DEF Init
  <2>2. upc \in [Users -> {"idle", "pop", "join", "fetch"}] /\ um \in [Users -> Methods]
    BY <1>1 DEF Init
  <2>3. ut \in [Users -> 0 .. MaxCalls] /\ want \in [Users -> 0 .. MaxCalls]
    BY Ranges DEF Init
  <2>4. phase \in {"open", "closed", "aborted"} /\ raced \in BOOLEAN /\ delivered \subseteq Answers \X Answers
    BY DEF Init
  <2> QED BY <2>1, <2>2, <2>3, <2>4 DEF UserInv
<1>5. IdInv
    BY DEF Init, IdInv, ResultsInUse, UnderInUse, Under
<1> QED BY <1>2, <1>3, <1>4, <1>5 DEF CallInv

(* The ids are in order in every state.                                     *)
LEMMA IdsAlways == Spec => [](CallInv /\ UserInv /\ IdInv)
<1>1. CallInv /\ UserInv /\ IdInv /\ [Next]_vars => (CallInv /\ UserInv /\ IdInv)'
    BY CallInvStep, UserInvStep, IdInvStep
<1> QED BY <1>1, ChannelInit, PTL DEF Spec

(* With any number of calls, users and methods, and however the users race: *)
(* no thread finds an answer under its own id.                              *)
THEOREM ResultsNeverConflict == Spec => []NoResultConflict
<1>1. IdInv => NoResultConflict
    BY DEF IdInv, NoResultConflict
<1> QED BY <1>1, IdsAlways, PTL

-----------------------------------------------------------------------------
(* The answers *)

(* No step copies an answer.                                                *)
LEMMA TokenInvStep == CallInv /\ UserInv /\ TokenInv /\ [Next]_vars => TokenInv'
<1> SUFFICES ASSUME CallInv, UserInv, TokenInv, [Next]_vars PROVE TokenInv'
    OBVIOUS
<1>1. ASSUME UNCHANGED <<asked, got, results, delivered>>,
             \A a \in Calls : cpc'[a] \in {"none", "send"} => cpc[a] \in {"none", "send"}
      PROVE  TokenInv'
    BY <1>1 DEF TokenInv
<1>2. CASE OpenRpcAsyncMode \/ CallGarbage \/ ConnectFailed \/ AsyncRpcCall \/ Delete \/ UNCHANGED vars
         \/ \E c \in Calls : ServerSilent(c)
    BY <1>1, <1>2 DEF OpenRpcAsyncMode, CallGarbage, ConnectFailed, AsyncRpcCall, Delete, ServerSilent, vars
<1>3. ASSUME NEW m \in Methods, CallSync(m) \/ CallOverLimit(m) \/ CallAsync(m) PROVE TokenInv'
  <2>1. PICK c, f, t, pc : CallMade(m, c, f, t, pc)
    BY <1>3, CallIsMade
  <2>2. c \in Calls /\ cpc[c] = "none" /\ cpc' = [cpc EXCEPT ![c] = pc]
        /\ UNCHANGED <<asked, got, results, delivered>>
    BY <2>1, Ranges DEF CallMade, CallInv, CallTypes, CallFacts
  <2> QED BY <1>1, <2>2 DEF CallInv, CallTypes
<1>4. ASSUME NEW c \in Calls, RpcCommunication(c) PROVE TokenInv'
  <2>1. CASE NotSerialized(c) \/ SendFails(c) \/ RecvEnter(c) \/ RecvReset(c) \/ RecvEof(c) \/ Close(c)
    <3>1. UNCHANGED <<asked, got, results, delivered>>
      BY <2>1 DEF NotSerialized, SendFails, RecvEnter, RecvReset, RecvEof, Close
    <3>2. PICK pc : cpc' = [cpc EXCEPT ![c] = pc] /\ pc \notin {"none", "send"}
      <4>1. CASE Close(c)
        <5>1. \E pc \in {"store", "failed"} : cpc' = [cpc EXCEPT ![c] = pc]
          BY <4>1 DEF Close
        <5> QED BY <5>1
      <4>2. CASE RecvEnter(c)
        <5>1. \E pc \in {"close_failed", "wait"} : cpc' = [cpc EXCEPT ![c] = pc]
          BY <4>2 DEF RecvEnter
        <5> QED BY <5>1
      <4>3. CASE NotSerialized(c) \/ SendFails(c) \/ RecvReset(c) \/ RecvEof(c)
        BY <4>3 DEF NotSerialized, SendFails, RecvReset, RecvEof, AfterEof
      <4> QED BY <2>1, <4>1, <4>2, <4>3
    <3> QED BY <1>1, <3>1, <3>2 DEF CallInv, CallTypes
  <2>2. CASE RpcSend(c)
    <3>1. PICK k \in Calls : k = FdConn(connect_fd)
      BY <2>2, Ranges, FdConnType DEF RpcSend, CallInv
    <3>2. UNCHANGED <<got, results, delivered>> /\ cpc[c] = "send" /\ cpc' = [cpc EXCEPT ![c] = "recv"]
          /\ asked' = [asked EXCEPT ![k] = IF asked[k] = 0 /\ k \notin ended THEN c ELSE asked[k]]
      BY <2>2, <3>1 DEF RpcSend
    <3>3. /\ \A l \in Calls : asked[l] # c /\ got[l] # c
          /\ \A t \in DOMAIN results : results[t] # c
          /\ \A d \in delivered : d[2] # c
      BY <3>2 DEF TokenInv
    <3>4. \A l \in Calls : asked'[l] = asked[l] \/ (asked'[l] = c /\ l = k)
      BY <3>2 DEF CallInv, CallTypes
    <3>5. \A a \in Calls : cpc'[a] \in {"none", "send"} => cpc[a] \in {"none", "send"} /\ a # c
      BY <3>2 DEF CallInv, CallTypes
    <3> QED BY <3>2, <3>3, <3>4, <3>5 DEF TokenInv
  <2>3. CASE RecvAnswer(c)
    <3>1. PICK k \in Calls : k = cconn[c]
      BY <2>3, Ranges DEF RecvAnswer, CallInv, CallTypes, CallFacts
    <3>2. UNCHANGED <<results, delivered>> /\ got' = [got EXCEPT ![c] = asked[k]] /\ cpc[c] = "wait"
          /\ asked' = [asked EXCEPT ![k] = 0] /\ cpc' = [cpc EXCEPT ![c] = "close"] /\ asked[k] # 0
      BY <2>3, <3>1 DEF RecvAnswer
    <3>3. \A l \in Calls : asked'[l] = IF l = k THEN 0 ELSE asked[l]
      BY <3>2 DEF CallInv, CallTypes
    <3>4. \A l \in Calls : got'[l] = IF l = c THEN asked[k] ELSE got[l]
      BY <3>2 DEF CallInv, CallTypes
    <3>5. \A a \in Calls : cpc'[a] \in {"none", "send"} => cpc[a] \in {"none", "send"} /\ a # 0
      BY <3>2, Ranges DEF CallInv, CallTypes
    <3> QED BY <3>2, <3>3, <3>4, <3>5 DEF TokenInv
  <2>4. CASE RpcProcessor(c)
    <3>1. UNCHANGED <<asked, delivered>> /\ got' = [got EXCEPT ![c] = 0] /\ cpc' = [cpc EXCEPT ![c] = "done"]
          /\ results' = Stored(tid[c], got[c])
      BY <2>4 DEF RpcProcessor
    <3>2. \A l \in Calls : got'[l] = IF l = c THEN 0 ELSE got[l]
      BY <3>1 DEF CallInv, CallTypes
    <3>3. \A t \in DOMAIN results' : (t \in DOMAIN results /\ t # tid[c] /\ results'[t] = results[t]) \/ (t = tid[c] /\ results'[t] = got[c])
      BY <3>1 DEF Stored
    <3>4. \A a \in Calls : cpc'[a] \in {"none", "send"} => cpc[a] \in {"none", "send"} /\ a # 0
      BY <3>1, Ranges DEF CallInv, CallTypes
    <3> QED BY <3>1, <3>2, <3>3, <3>4 DEF TokenInv
  <2>5. CASE Return(c)
    <3>1. UNCHANGED <<asked, delivered, results>> /\ got' = [got EXCEPT ![c] = 0] /\ cpc' = [cpc EXCEPT ![c] = "done"]
      BY <2>5 DEF Return
    <3>2. \A l \in Calls : got'[l] = 0 \/ got'[l] = got[l]
      BY <3>1 DEF CallInv, CallTypes
    <3>3. \A a \in Calls : cpc'[a] \in {"none", "send"} => cpc[a] \in {"none", "send"} /\ a # 0
      BY <3>1, Ranges DEF CallInv, CallTypes
    <3> QED BY <3>1, <3>2, <3>3 DEF TokenInv
  <2> QED BY <1>4, <2>1, <2>2, <2>3, <2>4, <2>5 DEF RpcCommunication
<1>5. ASSUME NEW u \in Users, GetAsyncResponse(u) PROVE TokenInv'
  <2>1. CASE Fetch(u)
    <3>1. UNCHANGED <<asked, got, cpc>> /\ results' = Erased(ut[u])
          /\ delivered' = IF ut[u] \in DOMAIN results THEN delivered \cup {<<want[u], results[ut[u]]>>} ELSE delivered
      BY <2>1 DEF Fetch
    <3>2. \A t \in DOMAIN results' : t \in DOMAIN results /\ t # ut[u] /\ results'[t] = results[t]
      BY <3>1 DEF Erased
    <3>3. \A d \in delivered' : d \in delivered \/ (ut[u] \in DOMAIN results /\ d = <<want[u], results[ut[u]]>> /\ d[2] = results[ut[u]])
      BY <3>1
    <3> QED BY <3>1, <3>2, <3>3 DEF TokenInv
  <2>2. CASE (\E m \in Methods : Front(u, m)) \/ PopFront(u) \/ PopTorn(u) \/ Join(u) \/ JoinFails(u)
    BY <1>1, <2>2 DEF Front, PopFront, PopTorn, Join, JoinFails
  <2> QED BY <1>5, <2>1, <2>2 DEF GetAsyncResponse, Answered
<1> QED BY <1>2, <1>3, <1>4, <1>5 DEF Next

(* At first there are no answers.                                           *)
LEMMA TokenInit == Init => TokenInv
BY Ranges DEF Init, TokenInv

(* However the calls overlap and the users race, and whatever ids a corrupt *)
(* list then gives them, as long as the process lives: no answer of the     *)
(* server is returned twice.                                                *)
THEOREM AnswersReturnedOnce == Spec => []AnswerOnce
<1>1. CallInv /\ UserInv /\ TokenInv /\ [Next]_vars => TokenInv'
    BY TokenInvStep
<1>2. TokenInv => AnswerOnce
    BY DEF TokenInv, AnswerOnce
<1> QED BY <1>1, <1>2, TokenInit, IdsAlways, PTL DEF Spec
-----------------------------------------------------------------------------
(* Which call an answer is returned for *)

(* The lists stay in step.                                                  *)
LEMMA ListInvStep == CallInv /\ UserInv /\ ListInv /\ ~raced /\ ~raced' /\ [Next]_vars => ListInv'
<1> SUFFICES ASSUME CallInv, UserInv, ListInv, ~raced, ~raced', [Next]_vars PROVE ListInv'
    OBVIOUS
<1>1. ASSUME UNCHANGED <<tids, due, upc, ut, um, want, tid, method, calls>> PROVE ListInv'
    BY <1>1 DEF ListInv, ListsAgree, WantsMade, PopsHead, WantsOwn
<1>2. CASE OpenRpcAsyncMode \/ CallGarbage \/ ConnectFailed \/ Delete \/ UNCHANGED vars
         \/ \E c \in Calls : ServerSilent(c)
    BY <1>1, <1>2 DEF OpenRpcAsyncMode, CallGarbage, ConnectFailed, Delete, ServerSilent, vars
<1>3. ASSUME NEW c \in Calls, RpcCommunication(c) PROVE ListInv'
    BY <1>1, <1>3, CallGoesOn
<1>4. ASSUME NEW m \in Methods, CallSync(m) \/ CallOverLimit(m) \/ CallAsync(m) PROVE ListInv'
  <2>1. PICK c, f, t, pc : CallMade(m, c, f, t, pc)
    BY <1>4, CallIsMade
  <2>2. c \in Calls /\ c = calls + 1 /\ calls' = c /\ method' = [method EXCEPT ![c] = m] /\ tid' = [tid EXCEPT ![c] = t]
        /\ UNCHANGED <<tids, due, upc, ut, um, want, raced>> /\ \A u \in Users : upc[u] = "idle"
    BY <2>1 DEF CallMade, Idle
  <2>3. calls \in Nat /\ \A d \in Calls : d <= calls => tid'[d] = tid[d] /\ method'[d] = method[d]
    BY <2>2, Ranges DEF CallInv, CallTypes
  <2>4. \A n \in Methods : \A i \in DOMAIN due[n] : due[n][i] \in Calls
    BY DEF UserInv
  <2>5. ListsAgree'
    <3> SUFFICES ASSUME NEW n \in Methods, NEW i \in DOMAIN due[n]
                 PROVE  tids[n][i] = tid'[due[n][i]] /\ method'[due[n][i]] = n /\ due[n][i] <= calls'
      BY <2>2 DEF ListsAgree
    <3>1. due[n][i] \in Calls /\ tids[n][i] = tid[due[n][i]] /\ method[due[n][i]] = n /\ due[n][i] <= calls
      BY <2>4 DEF ListInv, ListsAgree
    <3> QED BY <2>2, <2>3, <3>1, Ranges
  <2>6. WantsMade' /\ PopsHead' /\ WantsOwn'
    BY <2>2 DEF WantsMade, PopsHead, WantsOwn
  <2> QED BY <2>5, <2>6 DEF ListInv
<1>5. CASE AsyncRpcCall
  <2>1. UNCHANGED <<upc, ut, um, want, raced, tid, method, calls>>
    BY <1>5 DEF AsyncRpcCall
  <2>2. PICK m \in Methods, c \in Calls :
          /\ c = calling /\ m = method[c] /\ tid[c] \in Tids
          /\ tids' = [tids EXCEPT ![m] = Append(tids[m], tid[c])]
          /\ due' = [due EXCEPT ![m] = Append(due[m], c)]
          /\ tids[m] \in Seq(Tids) /\ due[m] \in Seq(Calls) /\ Len(tids[m]) = Len(due[m])
    BY <1>5, ListsGrow
  <2>3. c <= calls
    BY <2>2, Ranges DEF CallInv, CallTypes
  <2>4. tids' = [n \in Methods |-> IF n = m THEN Append(tids[m], tid[c]) ELSE tids[n]]
        /\ due' = [n \in Methods |-> IF n = m THEN Append(due[m], c) ELSE due[n]]
    BY <2>2 DEF UserInv
  <2>5. ListsAgree'
    <3> SUFFICES ASSUME NEW n \in Methods, NEW i \in DOMAIN due'[n]
                 PROVE  tids'[n][i] = tid[due'[n][i]] /\ method[due'[n][i]] = n /\ due'[n][i] <= calls
      BY <2>1 DEF ListsAgree
    <3>1. CASE n # m
      BY <2>4, <3>1 DEF ListInv, ListsAgree
    <3>2. CASE n = m
      <4>1. due'[m] = Append(due[m], c) /\ tids'[m] = Append(tids[m], tid[c])
        BY <2>4
      <4>2. CASE i \in DOMAIN due[m]
        <5>1. i \in DOMAIN tids[m]
          BY <2>2, <4>2
        <5>2. due'[m][i] = due[m][i] /\ tids'[m][i] = tids[m][i]
          BY <2>2, <4>1, <4>2, <5>1, LastAdded
        <5> QED BY <3>2, <4>2, <5>2 DEF ListInv, ListsAgree
      <4>3. CASE i = Len(due[m]) + 1
        <5>1. due'[m][i] = c /\ tids'[m][i] = tid[c]
          BY <2>2, <4>1, <4>3, LastAdded
        <5> QED BY <2>2, <2>3, <3>2, <5>1
      <4> QED BY <2>2, <3>2, <4>1, <4>2, <4>3, LastAdded
    <3> QED BY <3>1, <3>2
  <2>6. \A n \in Methods : tids[n] # <<>> => tids'[n] # <<>> /\ Head(tids'[n]) = Head(tids[n])
    BY <2>2, <2>4, LastAdded
  <2>7. PopsHead => PopsHead'
    BY <2>1, <2>6 DEF PopsHead, UserInv
  <2>8. WantsMade' /\ (WantsOwn => WantsOwn')
    BY <2>1 DEF ListInv, WantsMade, WantsOwn
  <2> QED BY <2>1, <2>5, <2>7, <2>8 DEF ListInv
<1>6. ASSUME NEW u \in Users, GetAsyncResponse(u) PROVE ListInv'
  <2>1. ASSUME NEW m \in Methods, Front(u, m) PROVE ListInv'
    <3>1. UNCHANGED <<tids, due, want, tid, method, calls>> /\ upc[u] = "idle" /\ tids[m] # <<>>
          /\ upc' = [upc EXCEPT ![u] = "pop"] /\ um' = [um EXCEPT ![u] = m]
          /\ ut' = [ut EXCEPT ![u] = Head(tids[m])] /\ \A v \in Users : upc[v] = "pop" => um[v] # m
      BY <2>1, FrontAlone
    <3>2. \A v \in Users : upc'[v] = (IF v = u THEN "pop" ELSE upc[v]) /\ um'[v] = (IF v = u THEN m ELSE um[v])
            /\ ut'[v] = (IF v = u THEN Head(tids[m]) ELSE ut[v])
      BY <3>1 DEF UserInv
    <3>3. ListsAgree' /\ WantsMade' /\ WantsOwn'
      BY <3>1, <3>2 DEF ListInv, ListsAgree, WantsMade, WantsOwn
    <3>4. PopsHead'
      BY <3>1, <3>2 DEF ListInv, PopsHead
    <3> QED BY <3>3, <3>4 DEF ListInv
  <2>2. CASE PopFront(u)
    <3>1. UNCHANGED <<ut, um, tid, method, calls>>
      BY <2>2 DEF PopFront
    <3>2. PICK m \in Methods :
            /\ m = um[u] /\ upc[u] = "pop"
            /\ tids[m] \in Seq(Tids) /\ due[m] \in Seq(Calls) /\ Len(tids[m]) = Len(due[m])
            /\ due[m] # <<>> /\ tids[m] # <<>>
            /\ tids' = [tids EXCEPT ![m] = Tail(tids[m])]
            /\ due' = [due EXCEPT ![m] = Tail(due[m])]
            /\ want' = [want EXCEPT ![u] = Head(due[m])] /\ Head(due[m]) \in Calls
            /\ upc' = [upc EXCEPT ![u] = "join"]
      BY <2>2, ListsShrink
    <3>3. tids' = [n \in Methods |-> IF n = m THEN Tail(tids[m]) ELSE tids[n]]
          /\ due' = [n \in Methods |-> IF n = m THEN Tail(due[m]) ELSE due[n]]
      BY <3>2 DEF UserInv
    <3>4. \A v \in Users : upc'[v] = (IF v = u THEN "join" ELSE upc[v])
            /\ want'[v] = (IF v = u THEN Head(due[m]) ELSE want[v])
      BY <3>2 DEF UserInv
    <3>5. ListsAgree'
      <4> SUFFICES ASSUME NEW n \in Methods, NEW i \in DOMAIN due'[n]
                   PROVE  tids'[n][i] = tid[due'[n][i]] /\ method[due'[n][i]] = n /\ due'[n][i] <= calls
        BY <3>1 DEF ListsAgree
      <4>1. CASE n # m
        BY <3>3, <4>1 DEF ListInv, ListsAgree
      <4>2. CASE n = m
        <5>1. due'[m] = Tail(due[m]) /\ tids'[m] = Tail(tids[m])
          BY <3>3
        <5>2. PICK s \in Seq(Calls), r \in Seq(Tids) :
                s = due[m] /\ r = tids[m] /\ Len(r) = Len(s) /\ s # <<>> /\ r # <<>>
          BY <3>2, <3>2
        <5>3. i \in DOMAIN Tail(s) /\ i + 1 \in DOMAIN s /\ Tail(s)[i] = s[i + 1]
          BY <4>2, <5>1, <5>2, FirstTaken
        <5>4. Tail(s) \in Seq(Calls) /\ Tail(r) \in Seq(Tids) /\ Len(Tail(r)) = Len(Tail(s))
          BY <5>2, FirstTaken
        <5>5. i \in DOMAIN Tail(r)
          BY <5>3, <5>4
        <5>6. Tail(r)[i] = r[i + 1]
          BY <5>2, <5>5, FirstTaken
        <5> QED BY <4>2, <5>1, <5>2, <5>3, <5>6 DEF ListInv, ListsAgree
      <4> QED BY <4>1, <4>2
    <3>6. 1 \in DOMAIN due[m] /\ Head(due[m]) = due[m][1] /\ Head(tids[m]) = tids[m][1]
      BY <3>2, <3>2, FirstTaken
    <3>7. Head(due[m]) \in 1 .. calls /\ Head(tids[m]) = tid[Head(due[m])]
      <4>1. calls \in Nat
        BY Ranges DEF CallInv, CallTypes
      <4> QED BY <3>2, <3>6, <4>1, Ranges DEF ListInv, ListsAgree
    <3>8. WantsMade'
      BY <3>1, <3>4, <3>7 DEF ListInv, WantsMade
    <3>9. PopsHead' /\ WantsOwn'
      <4>1. PopsHead /\ WantsOwn
        BY DEF ListInv
      <4>2. ut[u] = Head(tids[m]) /\ \A v \in Users : upc[v] = "pop" /\ v # u => um[v] # m
        BY <3>2, <4>1 DEF PopsHead
      <4>3. PopsHead'
        BY <3>1, <3>3, <3>4, <4>1, <4>2 DEF PopsHead, UserInv
      <4>4. WantsOwn'
        BY <3>1, <3>4, <3>7, <4>1, <4>2 DEF WantsOwn
      <4> QED BY <4>3, <4>4
    <3> QED BY <3>5, <3>8, <3>9 DEF ListInv
  <2>3. CASE Join(u) \/ JoinFails(u) \/ Fetch(u)
    <3>1. UNCHANGED <<tids, due, um, tid, method, calls>>
      BY <2>3 DEF Join, JoinFails, Fetch
    <3>2. \A v \in Users :
            \/ v # u /\ upc'[v] = upc[v] /\ ut'[v] = ut[v] /\ want'[v] = want[v]
            \/ v = u /\ upc'[v] = "idle"
            \/ v = u /\ upc[v] = "join" /\ upc'[v] \in {"join", "fetch"} /\ ut'[v] = ut[v] /\ want'[v] = want[v]
      BY <2>3 DEF Join, JoinFails, Fetch, UserInv
    <3>3. ListsAgree' /\ WantsMade'
      BY <3>1, <3>2 DEF ListInv, ListsAgree, WantsMade
    <3>4. (PopsHead => PopsHead') /\ (WantsOwn => WantsOwn')
      BY <3>1, <3>2 DEF PopsHead, WantsOwn
    <3> QED BY <3>1, <3>3, <3>4 DEF ListInv
  <2>4. CASE PopTorn(u)
    BY <2>4 DEF PopTorn
  <2> QED BY <1>6, <2>1, <2>2, <2>3, <2>4 DEF GetAsyncResponse, Answered
<1> QED BY <1>2, <1>3, <1>4, <1>5, <1>6 DEF Next

(* AsyncRpcCall lists the call that was being made.                         *)
LEMMA CallListed ==
    ASSUME CallInv, UserInv, OnePlace, AsyncRpcCall
    PROVE  /\ Making(calling) /\ calling \in Calls /\ calling' = 0 /\ UNCHANGED <<cpc, tid, upc, ut, want, raced, results, unjoined, phase>>
           /\ \A d : InList(d)' <=> InList(d) \/ d = calling
           /\ \A n \in Methods : \A i, j \in DOMAIN due'[n] : due'[n][i] = due'[n][j] => i = j
<1>1. Making(calling) /\ calling' = 0 /\ UNCHANGED <<cpc, tid, upc, ut, want, raced, results, unjoined, phase>>
    BY DEF AsyncRpcCall, Making
<1>2. PICK m \in Methods, c \in Calls :
        /\ c = calling /\ due' = [due EXCEPT ![m] = Append(due[m], c)] /\ due[m] \in Seq(Calls)
    BY ListsGrow
<1>3. due' = [n \in Methods |-> IF n = m THEN Append(due[m], c) ELSE due[n]]
    BY <1>2 DEF UserInv
<1>4. PICK s \in Seq(Calls) : s = due[m]
    BY <1>2
<1>5. due'[m] = Append(s, c) /\ \A n \in Methods : n # m => due'[n] = due[n]
    BY <1>3, <1>4
<1>6. ASSUME NEW d PROVE InList(d)' <=> InList(d) \/ d = calling
  <2>1. ASSUME InList(d)' PROVE InList(d) \/ d = calling
    <3>1. PICK n \in Methods : \E i \in DOMAIN due'[n] : due'[n][i] = d
      BY <2>1 DEF InList
    <3>2. PICK i \in DOMAIN due'[n] : due'[n][i] = d
      BY <3>1
    <3>3. CASE n # m
      BY <1>5, <3>2, <3>3 DEF InList
    <3>4. CASE n = m
      <4>1. i = Len(s) + 1 \/ i \in DOMAIN s
        BY <1>5, <3>2, <3>4, LastAdded
      <4>2. CASE i = Len(s) + 1
        BY <1>2, <1>5, <3>2, <3>4, <4>2, LastAdded
      <4>3. CASE i \in DOMAIN s
        BY <1>4, <1>5, <3>2, <3>4, <4>3, LastAdded DEF InList
      <4> QED BY <4>1, <4>2, <4>3
    <3> QED BY <3>3, <3>4
  <2>2. ASSUME InList(d) PROVE InList(d)'
    <3>1. PICK n \in Methods : \E i \in DOMAIN due[n] : due[n][i] = d
      BY <2>2 DEF InList
    <3>2. PICK i \in DOMAIN due[n] : due[n][i] = d
      BY <3>1
    <3>3. i \in DOMAIN due'[n] /\ due'[n][i] = d
      BY <1>4, <1>5, <3>2, LastAdded
    <3> QED BY <3>3 DEF InList
  <2>3. ASSUME d = calling PROVE InList(d)'
    <3>1. Len(s) + 1 \in DOMAIN due'[m] /\ due'[m][Len(s) + 1] = d
      BY <1>2, <1>5, <2>3, LastAdded
    <3> QED BY <3>1 DEF InList
  <2> QED BY <2>1, <2>2, <2>3
<1>7. ASSUME NEW n \in Methods, NEW i \in DOMAIN due'[n], NEW j \in DOMAIN due'[n], due'[n][i] = due'[n][j]
      PROVE  i = j
  <2>1. CASE n # m
    BY <1>5, <1>7, <2>1 DEF OnePlace
  <2>2. CASE n = m
    <3>1. \A k \in DOMAIN s : s[k] # c
      BY <1>1, <1>2, <1>4 DEF OnePlace, InList
    <3>2. (i = Len(s) + 1 \/ i \in DOMAIN s) /\ (j = Len(s) + 1 \/ j \in DOMAIN s)
      BY <1>5, <2>2, LastAdded
    <3>3. (i \in DOMAIN s => due'[n][i] = s[i]) /\ (j \in DOMAIN s => due'[n][j] = s[j])
      BY <1>5, <2>2, LastAdded
    <3>4. due'[n][Len(s) + 1] = c
      BY <1>5, <2>2, LastAdded
    <3>5. \A k, l \in DOMAIN s : s[k] = s[l] => k = l
      BY <1>4 DEF OnePlace
    <3> QED BY <1>7, <3>1, <3>2, <3>3, <3>4, <3>5
  <2> QED BY <2>1, <2>2
<1> QED BY <1>1, <1>2, <1>6, <1>7

(* PopFront takes a call from its list, in which it was once.               *)
LEMMA CallTaken ==
    ASSUME CallInv, UserInv, ListInv, OnePlace, NEW u \in Users, PopFront(u)
    PROVE  \E c \in Calls :
           /\ upc[u] = "pop" /\ InList(c) /\ UNCHANGED <<cpc, tid, ut, raced, results, unjoined, phase, calling>>
           /\ upc' = [upc EXCEPT ![u] = "join"] /\ want' = [want EXCEPT ![u] = c]
           /\ \A d : InList(d)' <=> InList(d) /\ d # c
           /\ \A n \in Methods : \A i, j \in DOMAIN due'[n] : due'[n][i] = due'[n][j] => i = j
<1>1. PICK m \in Methods :
        /\ upc[u] = "pop" /\ due[m] \in Seq(Calls) /\ due[m] # <<>> /\ UNCHANGED phase
        /\ due' = [due EXCEPT ![m] = Tail(due[m])]
        /\ want' = [want EXCEPT ![u] = Head(due[m])] /\ Head(due[m]) \in Calls
        /\ upc' = [upc EXCEPT ![u] = "join"]
    BY ListsShrink
<1>2. UNCHANGED <<cpc, tid, ut, raced, results, unjoined, calling>>
    BY DEF PopFront
<1>3. PICK s \in Seq(Calls) : s = due[m] /\ s # <<>>
    BY <1>1
<1>4. PICK c \in Calls : c = Head(s) /\ c = s[1] /\ 1 \in DOMAIN s
    BY <1>1, <1>3, FirstTaken
<1>5. due'[m] = Tail(s) /\ \A n \in Methods : n # m => due'[n] = due[n]
    BY <1>1, <1>3 DEF UserInv
<1>6. \A k, l \in DOMAIN s : s[k] = s[l] => k = l
    BY <1>3 DEF OnePlace
<1>7. \A n \in Methods : n # m => \A i \in DOMAIN due[n] : due[n][i] # c
    BY <1>3, <1>4 DEF ListInv, ListsAgree
<1>8. ASSUME NEW d PROVE InList(d)' <=> InList(d) /\ d # c
  <2>1. ASSUME InList(d)' PROVE InList(d) /\ d # c
    <3>1. PICK n \in Methods : \E i \in DOMAIN due'[n] : due'[n][i] = d
      BY <2>1 DEF InList
    <3>2. PICK i \in DOMAIN due'[n] : due'[n][i] = d
      BY <3>1
    <3>3. CASE n # m
      BY <1>5, <1>7, <3>2, <3>3 DEF InList
    <3>4. CASE n = m
      <4>0. i \in DOMAIN Tail(s) /\ Tail(s)[i] = d
        BY <1>5, <3>2, <3>4
      <4>1. i + 1 \in DOMAIN s /\ s[i + 1] = d /\ i + 1 # 1
        BY <1>3, <4>0, FirstTaken
      <4> QED BY <1>3, <1>4, <1>6, <4>1 DEF InList
    <3> QED BY <3>3, <3>4
  <2>2. ASSUME InList(d), d # c PROVE InList(d)'
    <3>1. PICK n \in Methods : \E i \in DOMAIN due[n] : due[n][i] = d
      BY <2>2 DEF InList
    <3>2. PICK i \in DOMAIN due[n] : due[n][i] = d
      BY <3>1
    <3>3. CASE n # m
      BY <1>5, <3>2, <3>3 DEF InList
    <3>4. CASE n = m
      <4>1. i - 1 \in DOMAIN Tail(s) /\ Tail(s)[i - 1] = d
        BY <1>3, <1>4, <2>2, <3>2, <3>4, FirstTaken
      <4> QED BY <1>5, <3>4, <4>1 DEF InList
    <3> QED BY <3>3, <3>4
  <2> QED BY <2>1, <2>2
<1>9. ASSUME NEW n \in Methods, NEW i \in DOMAIN due'[n], NEW j \in DOMAIN due'[n], due'[n][i] = due'[n][j]
      PROVE  i = j
  <2>1. CASE n # m
    BY <1>5, <1>9, <2>1 DEF OnePlace
  <2>2. CASE n = m
    <3>1. i \in DOMAIN Tail(s) /\ j \in DOMAIN Tail(s) /\ Tail(s)[i] = Tail(s)[j]
      BY <1>5, <1>9, <2>2
    <3>2. i \in Nat /\ j \in Nat /\ i + 1 \in DOMAIN s /\ j + 1 \in DOMAIN s /\ s[i + 1] = s[j + 1]
      BY <1>3, <3>1, FirstTaken
    <3>3. i + 1 = j + 1
      BY <1>6, <3>2
    <3> QED BY <3>2, <3>3
  <2> QED BY <2>1, <2>2
<1>10. InList(c)
    BY <1>3, <1>4 DEF InList
<1>11. want' = [want EXCEPT ![u] = c]
    BY <1>1, <1>3, <1>4
<1> QED BY <1>1, <1>2, <1>8, <1>9, <1>10, <1>11

(* A call stays in one place, and it has its id alone.                      *)
LEMMA KeptInvStep ==
    CallInv /\ UserInv /\ IdInv /\ ListInv /\ KeptInv /\ ~raced /\ ~raced' /\ [Next]_vars => KeptInv'
<1> SUFFICES ASSUME CallInv, UserInv, IdInv, ListInv, KeptInv, ~raced, ~raced', [Next]_vars PROVE KeptInv'
    OBVIOUS
<1>0. OnePlace /\ CallingInv
    BY DEF KeptInv
<1>1. CASE OpenRpcAsyncMode \/ CallGarbage \/ ConnectFailed \/ Delete \/ UNCHANGED vars
         \/ \E c \in Calls : ServerSilent(c)
  <2>1. UNCHANGED <<cpc, tid, upc, ut, want, raced, results, calling, due>>
        /\ (phase' = "open" => phase = "open" /\ unjoined' = unjoined)
    BY <1>1 DEF OpenRpcAsyncMode, CallGarbage, ConnectFailed, Delete, ServerSilent, vars
  <2>2. Under' = Under /\ \A c : (Making(c)' <=> Making(c)) /\ (InList(c)' <=> InList(c)) /\ (Taken(c)' <=> Taken(c))
    BY <2>1 DEF Under, Making, InList, Taken
  <2>3. OnePlace' /\ CallingInv'
    BY <1>0, <2>1, <2>2 DEF OnePlace, CallingInv
  <2>4. OwnIds /\ phase' = "open" => OwnIds'
    BY <2>1, <2>2 DEF OwnIds, Kept
  <2> QED BY <2>1, <2>3, <2>4 DEF KeptInv
<1>2. CASE AsyncRpcCall
  <2>1. /\ Making(calling) /\ calling \in Calls /\ calling' = 0 /\ UNCHANGED <<cpc, tid, upc, ut, want, raced, results, unjoined, phase>>
        /\ \A d : InList(d)' <=> InList(d) \/ d = calling
        /\ \A n \in Methods : \A i, j \in DOMAIN due'[n] : due'[n][i] = due'[n][j] => i = j
    BY <1>0, <1>2, CallListed
  <2>2. Under' = Under /\ \A d : ~Making(d)' /\ (Making(d) => d = calling) /\ (Taken(d)' <=> Taken(d))
    BY <2>1 DEF Under, Making, Taken
  <2>3. \A d : Kept(d)' <=> Kept(d)
    BY <2>1, <2>2 DEF Kept
  <2>4. OnePlace'
    BY <1>0, <2>1, <2>2 DEF OnePlace
  <2>5. CallingInv'
    <3>1. \A c \in Under : tid[c] # 0
      BY <1>0, <2>1 DEF CallingInv, Making
    <3> QED BY <2>1, <2>2, <3>1 DEF CallingInv
  <2>6. OwnIds => OwnIds'
    BY <2>1, <2>2, <2>3 DEF OwnIds
  <2> QED BY <2>1, <2>4, <2>5, <2>6 DEF KeptInv
<1>3. ASSUME NEW m \in Methods, CallSync(m) \/ CallOverLimit(m) \/ CallAsync(m) PROVE KeptInv'
  <2>1. PICK c, f, t, pc : CallMade(m, c, f, t, pc)
    BY <1>3, CallIsMade
  <2>2. /\ phase = "open" /\ calling = 0 /\ (\A u \in Users : upc[u] = "idle") /\ c \in Calls /\ c = calls + 1
        /\ t \notin unjoined /\ (pc = "none" => t = 0) /\ pc \in {"none", "send"}
        /\ unjoined' = unjoined \cup ({t} \ {0}) /\ calling' = (IF pc = "none" THEN 0 ELSE c)
        /\ UNCHANGED <<results, upc, ut, want, raced, due, phase>>
    BY <2>1 DEF CallMade, Idle
  <2>3. Under' = (IF pc = "none" THEN Under ELSE Under \cup {c}) /\ c \notin Under /\ Under \subseteq Calls
        /\ (\A d \in Calls : tid'[d] = IF d = c THEN t ELSE tid[d])
    BY <2>1, UnderGrows DEF Under
  <2>4. c # 0 /\ ~InList(c) /\ \A d : ~Taken(d) /\ ~Making(d)
    <3>1. c # 0 /\ ~(c <= calls) /\ calls \in Nat
      BY <2>2, Ranges DEF CallInv, CallTypes
    <3> QED BY <2>2, <3>1 DEF InList, Taken, Making, ListInv, ListsAgree
  <2>5. \A d : (InList(d)' <=> InList(d)) /\ (Taken(d)' <=> Taken(d)) /\ (Making(d)' <=> d = c /\ t # 0)
    BY <2>2, <2>3, <2>4 DEF InList, Taken, Making
  <2>6. OnePlace'
    BY <1>0, <2>2, <2>4, <2>5 DEF OnePlace
  <2>7. CallingInv'
    <3>1. \A d \in Under : tid[d] # 0
      BY <1>0, <2>2, <2>3, Ranges DEF CallingInv
    <3> QED BY <1>0, <2>2, <2>3, <3>1 DEF CallingInv
  <2>8. OwnIds'
    <3>1. OwnIds
      BY <2>2 DEF KeptInv
    <3>2. \A d : Kept(d)' <=> Kept(d) \/ (d = c /\ t # 0)
      BY <2>4, <2>5 DEF Kept
    <3>3. \A d \in Calls : Kept(d) => d # c /\ tid'[d] = tid[d] /\ tid[d] \in unjoined /\ tid[d] # 0
      BY <2>2, <2>3, <2>4, <3>1 DEF OwnIds, Kept
    <3>4. \A u \in Users : upc'[u] # "fetch"
      BY <2>2
    <3>5. \A d, e \in Calls : Kept(d)' /\ Kept(e)' /\ tid'[d] = tid'[e] => d = e
      BY <2>2, <2>3, <3>1, <3>2, <3>3 DEF OwnIds
    <3>6. \A d \in Calls : Kept(d)' => tid'[d] # 0 /\ tid'[d] \in unjoined'
      BY <2>2, <2>3, <3>2, <3>3
    <3>7. \A d \in Under' : tid'[d] # 0 => Kept(d)'
      BY <2>2, <2>3, <3>1, <3>2 DEF OwnIds
    <3>8. \A r \in DOMAIN results' : \E d \in Calls : Kept(d)' /\ tid'[d] = r
      BY <2>2, <3>1, <3>2, <3>3 DEF OwnIds
    <3> QED BY <3>4, <3>5, <3>6, <3>7, <3>8 DEF OwnIds
  <2> QED BY <2>6, <2>7, <2>8 DEF KeptInv
<1>4. ASSUME NEW c \in Calls, phase # "aborted", RpcCommunication(c) PROVE KeptInv'
  <2>1. /\ c \in Under /\ Under' \in {Under, Under \ {c}} /\ UNCHANGED <<unjoined, phase, upc, ut, want, raced, tid, due>>
        /\ (results' = results \/ RpcProcessor(c)) /\ calling' = IF Return(c) /\ tid[c] = 0 THEN 0 ELSE calling
    BY <1>4, CallGoesOn
  <2>2. \A d : (InList(d)' <=> InList(d)) /\ (Taken(d)' <=> Taken(d))
    BY <2>1 DEF InList, Taken
  <2>3. \A d : Making(d)' <=> Making(d)
    BY <1>0, <2>1 DEF Making, CallingInv
  <2>4. OnePlace'
    BY <1>0, <2>1, <2>2, <2>3 DEF OnePlace
  <2>5. CallingInv'
    <3>1. CASE Return(c) /\ tid[c] = 0
      <4>1. Under' = Under \ {c}
        BY <2>1, <3>1 DEF Return, Under, CallInv, CallTypes
      <4>2. \A d \in Under' : tid[d] # 0
        BY <1>0, <2>1, <3>1, <4>1 DEF CallingInv
      <4> QED BY <2>1, <3>1, <4>2 DEF CallingInv
    <3>2. CASE ~(Return(c) /\ tid[c] = 0)
      BY <1>0, <2>1, <3>2 DEF CallingInv
    <3> QED BY <3>1, <3>2
  <2>6. ASSUME phase' = "open" PROVE OwnIds'
    <3>1. OwnIds
      BY <2>1, <2>6 DEF KeptInv
    <3>2. \A d : Kept(d)' <=> Kept(d)
      BY <2>2, <2>3 DEF Kept
    <3>3. \A r \in DOMAIN results' : r \in DOMAIN results \/ (r = tid[c] /\ tid[c] # 0)
      BY <2>1 DEF RpcProcessor, Stored
    <3>4. \A r \in DOMAIN results' : \E d \in Calls : Kept(d)' /\ tid'[d] = r
      BY <2>1, <3>1, <3>2, <3>3 DEF OwnIds
    <3> QED BY <2>1, <3>1, <3>2, <3>4 DEF OwnIds
  <2> QED BY <2>4, <2>5, <2>6 DEF KeptInv
<1>5. ASSUME NEW u \in Users, phase # "aborted", GetAsyncResponse(u) PROVE KeptInv'
  <2>1. phase = "open" /\ Under' = Under /\ UNCHANGED <<tid, calling, cpc>>
    BY <1>5, OpenOnly DEF GetAsyncResponse, Answered, Front, PopFront, PopTorn, Join, JoinFails, Fetch, Under
  <2>2. \A d : Making(d)' <=> Making(d)
    BY <2>1 DEF Making
  <2>3. ASSUME NEW m \in Methods, Front(u, m) PROVE KeptInv'
    <3>1. /\ UNCHANGED <<due, want, results, unjoined>> /\ calling = 0 /\ upc[u] = "idle"
          /\ upc' = [upc EXCEPT ![u] = "pop"] /\ ut' = [ut EXCEPT ![u] = Head(tids[m])]
      BY <2>3, FrontAlone
    <3>2. \A v \in Users : (v # u => upc'[v] = upc[v] /\ ut'[v] = ut[v]) /\ upc'[u] = "pop"
      BY <3>1 DEF UserInv
    <3>3. \A d : (InList(d)' <=> InList(d)) /\ (Taken(d)' <=> Taken(d))
      BY <3>1, <3>2 DEF InList, Taken
    <3>4. OnePlace' /\ CallingInv'
      BY <1>0, <2>1, <2>2, <3>1, <3>2, <3>3 DEF OnePlace, CallingInv
    <3>5. OwnIds => OwnIds'
      <4>1. \A d : Kept(d)' <=> Kept(d)
        BY <2>2, <3>3 DEF Kept
      <4>2. \A v \in Users : upc'[v] = "fetch" <=> upc[v] = "fetch"
        BY <3>1, <3>2
      <4> QED BY <2>1, <3>1, <3>2, <4>1, <4>2 DEF OwnIds
    <3> QED BY <2>1, <3>1, <3>4, <3>5 DEF KeptInv
  <2>4. CASE JoinFails(u)
    <3>1. /\ UNCHANGED <<due, want, ut, results, unjoined>> /\ upc[u] = "join"
          /\ \/ phase' = "aborted" /\ UNCHANGED upc
             \/ /\ \E v \in Users \ {u} : upc[v] = "join" /\ ut[v] = ut[u]
                /\ upc' = [upc EXCEPT ![u] = "fetch"]
      BY <2>4 DEF JoinFails
    <3>2. \A v \in Users : want[v] \in Calls \/ upc[v] # "join"
      BY Ranges DEF ListInv, WantsMade, CallInv, CallTypes, UserInv
    <3>3. ~\E v \in Users \ {u} : upc[v] = "join" /\ ut[v] = ut[u]
      <4> SUFFICES ASSUME NEW v \in Users, upc[v] = "join", ut[v] = ut[u] PROVE v = u
        OBVIOUS
      <4>1. Kept(want[u]) /\ Kept(want[v]) /\ tid[want[u]] = tid[want[v]]
        BY <3>1 DEF Kept, Taken, ListInv, WantsOwn
      <4>2. want[u] = want[v]
        BY <2>1, <3>1, <3>2, <4>1 DEF KeptInv, OwnIds
      <4> QED BY <1>0, <3>1, <4>2 DEF OnePlace
    <3>4. phase' = "aborted" /\ UNCHANGED upc
      BY <3>1, <3>3
    <3>5. \A d : (InList(d)' <=> InList(d)) /\ (Taken(d)' <=> Taken(d))
      BY <3>1, <3>4 DEF InList, Taken
    <3>6. OnePlace' /\ CallingInv'
      BY <1>0, <2>1, <2>2, <3>1, <3>4, <3>5 DEF OnePlace, CallingInv
    <3> QED BY <3>4, <3>6 DEF KeptInv
  <2>5. CASE PopFront(u)
    <3>1. PICK c \in Calls :
           /\ upc[u] = "pop" /\ InList(c) /\ UNCHANGED <<cpc, tid, ut, raced, results, unjoined, phase, calling>>
           /\ upc' = [upc EXCEPT ![u] = "join"] /\ want' = [want EXCEPT ![u] = c]
           /\ \A d : InList(d)' <=> InList(d) /\ d # c
           /\ \A n \in Methods : \A i, j \in DOMAIN due'[n] : due'[n][i] = due'[n][j] => i = j
      BY <1>0, <2>5, CallTaken
    <3>2. \A v \in Users : (v # u => upc'[v] = upc[v] /\ want'[v] = want[v]) /\ upc'[u] = "join" /\ want'[u] = c
      BY <3>1 DEF UserInv
    <3>3. \A d : Taken(d)' <=> Taken(d) \/ d = c
      BY <3>1, <3>2 DEF Taken
    <3>4. ~Taken(c) /\ ~Making(c)
      BY <1>0, <3>1 DEF OnePlace
    <3>5. OnePlace'
      <4>1. \A v, w \in Users : upc'[v] \in {"join", "fetch"} /\ upc'[w] \in {"join", "fetch"} /\ want'[v] = want'[w] => v = w
        BY <1>0, <3>2, <3>4 DEF OnePlace, Taken
      <4>2. \A d \in Calls : ~(Making(d)' /\ (InList(d)' \/ Taken(d)')) /\ ~(InList(d)' /\ Taken(d)')
        BY <1>0, <2>2, <3>1, <3>3, <3>4 DEF OnePlace
      <4> QED BY <3>1, <4>1, <4>2 DEF OnePlace
    <3>6. CallingInv'
      BY <1>0, <2>1, <3>1, <3>2 DEF CallingInv
    <3>7. OwnIds => OwnIds'
      <4>1. \A d : Kept(d)' <=> Kept(d)
        BY <2>2, <3>1, <3>3 DEF Kept
      <4>2. \A v \in Users : (upc'[v] = "fetch" <=> upc[v] = "fetch") /\ (upc[v] = "fetch" => want'[v] = want[v])
        BY <3>1, <3>2
      <4> QED BY <2>1, <3>1, <4>1, <4>2 DEF OwnIds
    <3> QED BY <2>1, <3>1, <3>5, <3>6, <3>7 DEF KeptInv
  <2>6. CASE Join(u)
    <3>1. UNCHANGED <<due, want, ut, results, raced, phase>> /\ upc[u] = "join" /\ unjoined' = unjoined \ {ut[u]}
          /\ upc' = [upc EXCEPT ![u] = "fetch"]
      BY <2>6 DEF Join
    <3>2. \A v \in Users : (v # u => upc'[v] = upc[v]) /\ upc'[u] = "fetch"
      BY <3>1 DEF UserInv
    <3>3. \A d : (InList(d)' <=> InList(d)) /\ (Taken(d)' <=> Taken(d))
      BY <3>1, <3>2 DEF InList, Taken
    <3>4. OnePlace' /\ CallingInv'
      BY <1>0, <2>1, <2>2, <3>1, <3>2, <3>3 DEF OnePlace, CallingInv
    <3>5. OwnIds'
      <4>1. OwnIds /\ ut[u] = tid[want[u]]
        BY <2>1, <3>1 DEF KeptInv, ListInv, WantsOwn
      <4>2. \A d : Kept(d)' <=> Kept(d)
        BY <2>2, <3>3 DEF Kept
      <4>3. want[u] \in Calls /\ Kept(want[u])
        <5>1. want[u] \in 1 .. calls
          BY <3>1 DEF ListInv, WantsMade
        <5>2. want[u] \in Calls
          BY <5>1, Ranges DEF CallInv, CallTypes, UserInv
        <5> QED BY <3>1, <5>2 DEF Kept, Taken
      <4>4. \A d \in Calls : Kept(d) /\ tid[d] = ut[u] => d = want[u]
        BY <4>1, <4>3 DEF OwnIds
      <4>5. \A d \in Calls : Kept(d) => tid[d] # 0 /\
              (tid[d] \in unjoined' \/ \E v \in Users : upc'[v] = "fetch" /\ want'[v] = d)
        BY <3>1, <3>2, <4>1, <4>4 DEF OwnIds
      <4>6. \A v \in Users : upc'[v] = "fetch" => ut'[v] \notin unjoined'
        BY <3>1, <3>2, <4>1 DEF OwnIds
      <4> QED BY <2>1, <3>1, <4>1, <4>2, <4>5, <4>6 DEF OwnIds
    <3> QED BY <2>1, <3>1, <3>4, <3>5 DEF KeptInv
  <2>7. CASE Fetch(u)
    <3>1. UNCHANGED <<due, unjoined, raced, phase>> /\ upc[u] = "fetch" /\ DOMAIN results' = DOMAIN results \ {ut[u]}
          /\ upc' = [upc EXCEPT ![u] = "idle"] /\ ut' = [ut EXCEPT ![u] = 0] /\ want' = [want EXCEPT ![u] = 0]
      BY <2>7 DEF Fetch, Erased
    <3>2. \A v \in Users : (v # u => upc'[v] = upc[v] /\ ut'[v] = ut[v] /\ want'[v] = want[v]) /\ upc'[u] = "idle"
      BY <3>1 DEF UserInv
    <3>3. \A d : (InList(d)' <=> InList(d)) /\ (Taken(d)' <=> Taken(d) /\ d # want[u])
      BY <1>0, <3>1, <3>2 DEF InList, Taken, OnePlace
    <3>4. OnePlace' /\ CallingInv'
      BY <1>0, <2>1, <2>2, <3>1, <3>2, <3>3 DEF OnePlace, CallingInv
    <3>5. OwnIds'
      <4>1. OwnIds /\ ut[u] = tid[want[u]]
        BY <2>1, <3>1 DEF KeptInv, ListInv, WantsOwn
      <4>2. want[u] \in Calls
        <5>1. want[u] \in 1 .. calls
          BY <3>1 DEF ListInv, WantsMade
        <5> QED BY <5>1, Ranges DEF CallInv, CallTypes, UserInv
      <4>3. ~InList(want[u]) /\ ~Making(want[u])
        BY <1>0, <3>1, <4>2 DEF OnePlace, Taken
      <4>4. \A d : Kept(d)' <=> Kept(d) /\ d # want[u]
        BY <2>2, <3>3, <4>3 DEF Kept
      <4>5. \A d \in Calls : Kept(d)' => tid[d] # 0 /\
              (tid[d] \in unjoined' \/ \E v \in Users : upc'[v] = "fetch" /\ want'[v] = d)
        BY <3>1, <3>2, <4>1, <4>4 DEF OwnIds
      <4>6. \A v \in Users : upc'[v] = "fetch" => ut'[v] \notin unjoined'
        BY <3>1, <3>2, <4>1 DEF OwnIds
      <4>7. \A d \in Under : tid[d] # 0 => Kept(d)'
        <5>1. ut[u] \notin unjoined
          BY <3>1, <4>1 DEF OwnIds
        <5>2. \A d \in Under : tid[d] # 0 => tid[d] \in unjoined
          BY <2>1 DEF IdInv, UnderInUse
        <5> QED BY <4>1, <4>4, <5>1, <5>2 DEF OwnIds
      <4>8. \A r \in DOMAIN results' : \E d \in Calls : Kept(d)' /\ tid[d] = r
        BY <3>1, <4>1, <4>4 DEF OwnIds
      <4>9. \A d, e \in Calls : Kept(d)' /\ Kept(e)' /\ tid[d] = tid[e] => d = e
        BY <4>1, <4>4 DEF OwnIds
      <4> QED BY <2>1, <4>5, <4>6, <4>7, <4>8, <4>9 DEF OwnIds
    <3> QED BY <2>1, <3>1, <3>4, <3>5 DEF KeptInv
  <2>8. CASE PopTorn(u)
    BY <2>8 DEF PopTorn
  <2> QED BY <1>5, <2>3, <2>4, <2>5, <2>6, <2>7, <2>8 DEF GetAsyncResponse, Answered
<1> QED BY <1>1, <1>2, <1>3, <1>4, <1>5 DEF Next

(* A call that is alone receives from its own connection.                   *)
LEMMA AloneStep == CallInv /\ Alone /\ GotOwn /\ [Next]_vars => Alone' /\ GotOwn'
<1> SUFFICES ASSUME CallInv, Alone, GotOwn, [Next]_vars PROVE Alone' /\ GotOwn'
    OBVIOUS
<1>1. ASSUME UNCHANGED <<cpc, cconn, got, asked, conn, overlapped>>, connect_fd' \in {connect_fd, NoFd}
      PROVE  Alone' /\ GotOwn'
  <2>1. Under' = Under
    BY <1>1 DEF Under
  <2>2. FdConn(connect_fd)' \in {FdConn(connect_fd), 0}
    BY <1>1, ChannelAssumption DEF FdConn, NoFd, Fds
  <2> QED BY <1>1, <2>1, <2>2 DEF Alone, GotOwn
<1>2. CASE OpenRpcAsyncMode \/ CallGarbage \/ ConnectFailed \/ AsyncRpcCall \/ Delete \/ UNCHANGED vars
         \/ \E c \in Calls : ServerSilent(c)
    BY <1>1, <1>2 DEF OpenRpcAsyncMode, CallGarbage, ConnectFailed, AsyncRpcCall, Delete, ServerSilent, vars
<1>3. ASSUME NEW u \in Users, GetAsyncResponse(u) PROVE Alone' /\ GotOwn'
    BY <1>1, <1>3 DEF GetAsyncResponse, Answered, Front, PopFront, PopTorn, Join, JoinFails, Fetch
<1>4. ASSUME NEW m \in Methods, CallSync(m) \/ CallOverLimit(m) \/ CallAsync(m) PROVE Alone' /\ GotOwn'
  <2>1. PICK c, f, t, pc : CallMade(m, c, f, t, pc)
    BY <1>4, CallIsMade
  <2>2. /\ c \in Calls /\ c = calls + 1 /\ f \in Fds /\ connect_fd' = f /\ conn' = [conn EXCEPT ![f] = c]
        /\ overlapped' = overlapped \cup (IF Under = {} THEN {} ELSE Under \cup {c})
        /\ UNCHANGED <<cconn, got, asked>>
    BY <2>1 DEF CallMade
  <2>3. Under' = (IF pc = "none" THEN Under ELSE Under \cup {c})
    BY <2>1, UnderGrows
  <2>4. GotOwn'
    BY <2>2 DEF GotOwn
  <2>5. CASE Under # {}
    BY <2>2, <2>3, <2>4, <2>5 DEF Alone
  <2>6. CASE Under = {}
    <3>1. FdConn(connect_fd)' = c
      BY <2>2 DEF FdConn, CallInv, CallTypes
    <3>2. asked[c] = 0 /\ cconn[c] \in {0, c}
      BY <2>2, Ranges DEF CallInv, CallTypes, CallFacts
    <3> QED BY <2>2, <2>3, <2>4, <2>6, <3>1, <3>2 DEF Alone
  <2> QED BY <2>5, <2>6
<1>5. ASSUME NEW c \in Calls, RpcCommunication(c) PROVE Alone' /\ GotOwn'
  <2>1. /\ c \in Under /\ Under' \in {Under, Under \ {c}} /\ UNCHANGED <<connect_fd, overlapped>>
    BY <1>5, CallGoesOn
  <2>2. ASSUME \A d \in Calls : d # c => got'[d] = got[d] /\ cconn'[d] = cconn[d],
               FdConn(connect_fd)' \in {FdConn(connect_fd), 0},
               c \notin overlapped => got'[c] \in {0, c} /\ (c \in Under' => cconn'[c] \in {0, c} /\ asked'[c] \in {0, c})
        PROVE  Alone' /\ GotOwn'
    <3>1. Under \subseteq Calls /\ \A d \in Under \ overlapped : d = c
      BY <2>1 DEF Alone, Under
    <3>2. GotOwn'
      BY <2>1, <2>2 DEF GotOwn
    <3>3. Alone'
      BY <2>1, <2>2, <3>1 DEF Alone
    <3> QED BY <3>2, <3>3
  <2>3. c \notin overlapped => /\ FdConn(connect_fd) \in {0, c} /\ cconn[c] \in {0, c}
                               /\ asked[c] \in {0, c} /\ got[c] \in {0, c}
    BY <2>1 DEF Alone, GotOwn
  <2>4. CASE NotSerialized(c) \/ SendFails(c) \/ RecvReset(c) \/ RecvEof(c)
    <3>1. UNCHANGED <<got, cconn, asked, conn>>
      BY <2>4 DEF NotSerialized, SendFails, RecvReset, RecvEof
    <3>2. FdConn(connect_fd)' = FdConn(connect_fd)
      BY <2>1, <3>1 DEF FdConn
    <3> QED BY <2>2, <2>3, <3>1, <3>2
  <2>5. CASE RpcSend(c)
    <3>1. PICK k \in Calls : k = FdConn(connect_fd)
      BY <2>5, Ranges, FdConnType DEF RpcSend, CallInv
    <3>2. UNCHANGED <<got, cconn, conn>>
          /\ asked' = [asked EXCEPT ![k] = IF asked[k] = 0 /\ k \notin ended THEN c ELSE asked[k]]
      BY <2>5, <3>1 DEF RpcSend
    <3>3. FdConn(connect_fd)' = FdConn(connect_fd)
      BY <2>1, <3>2 DEF FdConn
    <3>4. asked'[c] \in {asked[c], c}
      BY <3>2 DEF CallInv, CallTypes
    <3> QED BY <2>2, <2>3, <3>2, <3>3, <3>4
  <2>6. CASE RecvEnter(c)
    <3>1. UNCHANGED <<got, asked, conn>> /\ cconn' = [cconn EXCEPT ![c] = FdConn(connect_fd)]
      BY <2>6 DEF RecvEnter
    <3>2. FdConn(connect_fd)' = FdConn(connect_fd)
      BY <2>1, <3>1 DEF FdConn
    <3>3. \A d \in Calls : cconn'[d] = IF d = c THEN FdConn(connect_fd) ELSE cconn[d]
      BY <3>1 DEF CallInv, CallTypes
    <3> QED BY <2>2, <2>3, <3>1, <3>2, <3>3
  <2>7. CASE RecvAnswer(c)
    <3>1. PICK k \in Calls : k = cconn[c]
      BY <2>7, Ranges DEF RecvAnswer, CallInv, CallTypes, CallFacts
    <3>2. UNCHANGED <<cconn, conn>> /\ got' = [got EXCEPT ![c] = asked[k]] /\ asked' = [asked EXCEPT ![k] = 0]
      BY <2>7, <3>1 DEF RecvAnswer
    <3>3. FdConn(connect_fd)' = FdConn(connect_fd)
      BY <2>1, <3>2 DEF FdConn
    <3>4. \A d \in Calls : got'[d] = (IF d = c THEN asked[k] ELSE got[d]) /\ asked'[d] \in {0, asked[d]}
      BY <3>2 DEF CallInv, CallTypes
    <3>5. c \notin overlapped => k = c
      BY <2>3, <3>1, Ranges
    <3> QED BY <2>2, <2>3, <3>2, <3>3, <3>4, <3>5
  <2>8. CASE Close(c)
    <3>1. UNCHANGED <<cconn, got, asked>> /\ conn' = [f \in Fds |-> IF f = cfd[c] THEN 0 ELSE conn[f]]
      BY <2>8 DEF Close
    <3>2. FdConn(connect_fd)' \in {FdConn(connect_fd), 0}
      BY <2>1, <3>1 DEF FdConn
    <3> QED BY <2>2, <2>3, <3>1, <3>2
  <2>9. CASE RpcProcessor(c) \/ Return(c)
    <3>1. UNCHANGED <<asked, conn>> /\ got' = [got EXCEPT ![c] = 0] /\ cconn' = [cconn EXCEPT ![c] = 0]
      BY <2>9 DEF RpcProcessor, Return
    <3>2. FdConn(connect_fd)' = FdConn(connect_fd)
      BY <2>1, <3>1 DEF FdConn
    <3>3. \A d \in Calls : got'[d] = (IF d = c THEN 0 ELSE got[d]) /\ cconn'[d] = (IF d = c THEN 0 ELSE cconn[d])
      BY <3>1 DEF CallInv, CallTypes
    <3> QED BY <2>2, <2>3, <3>1, <3>2, <3>3
  <2> QED BY <1>5, <2>4, <2>5, <2>6, <2>7, <2>8, <2>9 DEF RpcCommunication
<1> QED BY <1>2, <1>3, <1>4, <1>5 DEF Next

(* Its answer is stored under its id and returned for it.                   *)
LEMMA OwnInvStep ==
    CallInv /\ UserInv /\ IdInv /\ ListInv /\ KeptInv /\ OwnInv /\ ~raced /\ ~raced' /\ [Next]_vars => OwnInv'
<1> SUFFICES ASSUME CallInv, UserInv, IdInv, ListInv, KeptInv, OwnInv, ~raced, ~raced', [Next]_vars PROVE OwnInv'
    OBVIOUS
<1>1. Alone' /\ GotOwn'
    BY AloneStep DEF OwnInv
<1>2. ASSUME UNCHANGED <<tid, results, raced, delivered, overlapped>>, phase' = "open" => phase = "open",
             phase' = "open" => \A c \in Calls : Kept(c)' => Kept(c)
      PROVE  OwnInv'
    BY <1>1, <1>2 DEF OwnInv, OwnAnswer, StoredOwn
<1>3. CASE OpenRpcAsyncMode \/ CallGarbage \/ ConnectFailed \/ Delete \/ UNCHANGED vars
         \/ \E c \in Calls : ServerSilent(c)
  <2>1. UNCHANGED <<tid, results, raced, delivered, overlapped, upc, want, calling, due>> /\ (phase' = "open" => phase = "open")
    BY <1>3 DEF OpenRpcAsyncMode, CallGarbage, ConnectFailed, Delete, ServerSilent, vars
  <2>2. \A c : Kept(c)' => Kept(c)
    BY <2>1 DEF Kept, Making, InList, Taken
  <2> QED BY <1>2, <2>1, <2>2
<1>4. CASE AsyncRpcCall
  <2>1. UNCHANGED <<tid, results, raced, delivered, overlapped, phase, upc, want>>
    BY <1>4 DEF AsyncRpcCall
  <2>2. Making(calling) /\ calling' = 0 /\ \A d : InList(d)' <=> InList(d) \/ d = calling
    BY <1>4, CallListed DEF KeptInv
  <2>3. \A c : Kept(c)' => Kept(c)
    BY <2>1, <2>2 DEF Kept, Making, Taken
  <2> QED BY <1>2, <2>1, <2>3
<1>5. ASSUME NEW m \in Methods, CallSync(m) \/ CallOverLimit(m) \/ CallAsync(m) PROVE OwnInv'
  <2>1. PICK c, f, t, pc : CallMade(m, c, f, t, pc)
    BY <1>5, CallIsMade
  <2>2. /\ phase = "open" /\ calling = 0 /\ (\A u \in Users : upc[u] = "idle") /\ c \in Calls
        /\ t \notin unjoined /\ calling' = (IF pc = "none" THEN 0 ELSE c) /\ overlapped \subseteq overlapped'
        /\ UNCHANGED <<results, upc, want, raced, due, delivered>>
    BY <2>1 DEF CallMade, Idle
  <2>3. \A d \in Calls : tid'[d] = IF d = c THEN t ELSE tid[d]
    BY <2>1, UnderGrows
  <2>4. DOMAIN results \subseteq unjoined
    BY <2>2 DEF IdInv, ResultsInUse, Fetching
  <2>5. \A d : Kept(d)' => Kept(d) \/ d = c
    BY <2>2 DEF Kept, Making, InList, Taken
  <2>6. StoredOwn'
    BY <2>2, <2>3, <2>4, <2>5 DEF OwnInv, StoredOwn
  <2>7. OwnAnswer'
    BY <2>2 DEF OwnInv, OwnAnswer
  <2> QED BY <1>1, <2>2, <2>6, <2>7 DEF OwnInv
<1>6. ASSUME NEW c \in Calls, phase # "aborted", RpcCommunication(c) PROVE OwnInv'
  <2>1. /\ c \in Under /\ UNCHANGED <<phase, upc, want, raced, tid, due, delivered, overlapped>>
        /\ (results' = results \/ RpcProcessor(c)) /\ calling' \in {0, calling}
    BY <1>6, CallGoesOn
  <2>2. \A d : Kept(d)' => Kept(d)
    BY <2>1 DEF Kept, Making, InList, Taken
  <2>3. CASE results' = results
    BY <1>2, <2>1, <2>2, <2>3
  <2>4. CASE RpcProcessor(c)
    <3>1. results' = Stored(tid[c], got[c]) /\ tid[c] # 0
      BY <2>4 DEF RpcProcessor
    <3>2. \A r \in DOMAIN results' : (r \in DOMAIN results /\ results'[r] = results[r] /\ r # tid[c]) \/ (r = tid[c] /\ results'[r] = got[c])
      BY <3>1 DEF Stored
    <3>3. ASSUME phase = "open" PROVE StoredOwn'
      <4>1. OwnIds /\ StoredOwn /\ GotOwn
        BY <3>3 DEF KeptInv, OwnInv
      <4>2. \A d \in Calls : Kept(d) /\ tid[d] = tid[c] => d = c
        BY <2>1, <3>1, <4>1 DEF OwnIds
      <4> QED BY <2>1, <2>2, <3>2, <4>1, <4>2 DEF StoredOwn, GotOwn
    <3>4. OwnAnswer'
      BY <2>1 DEF OwnInv, OwnAnswer
    <3> QED BY <1>1, <2>1, <3>3, <3>4 DEF OwnInv
  <2> QED BY <2>1, <2>3, <2>4
<1>7. ASSUME NEW u \in Users, phase # "aborted", GetAsyncResponse(u) PROVE OwnInv'
  <2>1. phase = "open" /\ UNCHANGED <<tid, overlapped, calling>>
    BY <1>7, OpenOnly DEF GetAsyncResponse, Answered, Front, PopFront, PopTorn, Join, JoinFails, Fetch
  <2>2. ASSUME NEW m \in Methods, Front(u, m) PROVE OwnInv'
    <3>1. UNCHANGED <<results, delivered, due, want, phase>> /\ upc[u] = "idle" /\ upc' = [upc EXCEPT ![u] = "pop"]
      BY <2>2, FrontAlone
    <3>2. \A v \in Users : upc'[v] = (IF v = u THEN "pop" ELSE upc[v])
      BY <3>1 DEF UserInv
    <3>3. \A d : Kept(d)' => Kept(d)
      BY <2>1, <3>1, <3>2 DEF Kept, Making, InList, Taken
    <3>4. OwnAnswer' /\ (StoredOwn => StoredOwn')
      BY <2>1, <3>1, <3>3 DEF OwnInv, OwnAnswer, StoredOwn
    <3> QED BY <1>1, <2>1, <3>1, <3>4 DEF OwnInv
  <2>3. CASE PopFront(u)
    <3>1. UNCHANGED <<results, delivered, raced>>
      BY <2>3 DEF PopFront
    <3>2. \A d \in Calls : Kept(d)' => Kept(d)
      <4>1. PICK c \in Calls :
             /\ InList(c) /\ upc' = [upc EXCEPT ![u] = "join"] /\ want' = [want EXCEPT ![u] = c]
             /\ \A d : InList(d)' <=> InList(d) /\ d # c
        BY <2>3, CallTaken DEF KeptInv
      <4>2. \A v \in Users : (v # u => upc'[v] = upc[v] /\ want'[v] = want[v]) /\ want'[u] = c
        BY <4>1 DEF UserInv
      <4> QED BY <2>1, <4>1, <4>2 DEF Kept, Making, Taken
    <3> QED BY <1>2, <2>1, <3>1, <3>2
  <2>4. CASE Join(u) \/ JoinFails(u)
    <3>1. UNCHANGED <<results, delivered, raced, due, want>> /\ phase' \in {phase, "aborted"} /\ upc[u] = "join"
          /\ upc' \in {upc, [upc EXCEPT ![u] = "fetch"]}
      BY <2>4 DEF Join, JoinFails
    <3>2. \A v \in Users : upc'[v] = upc[v] \/ (upc[v] = "join" /\ upc'[v] = "fetch")
      BY <3>1 DEF UserInv
    <3>3. \A d \in Calls : Kept(d)' => Kept(d)
      BY <2>1, <3>1, <3>2 DEF Kept, Making, InList, Taken
    <3> QED BY <1>2, <2>1, <3>1, <3>3
  <2>5. CASE Fetch(u)
    <3>1. UNCHANGED <<raced, due, phase>> /\ upc[u] = "fetch" /\ upc' = [upc EXCEPT ![u] = "idle"]
          /\ want' = [want EXCEPT ![u] = 0] /\ results' = Erased(ut[u])
          /\ delivered' = IF ut[u] \in DOMAIN results THEN delivered \cup {<<want[u], results[ut[u]]>>} ELSE delivered
      BY <2>5 DEF Fetch
    <3>2. \A v \in Users : (v # u => upc'[v] = upc[v] /\ want'[v] = want[v]) /\ upc'[u] = "idle"
      BY <3>1 DEF UserInv
    <3>3. \A d : Kept(d)' => Kept(d)
      BY <2>1, <3>1, <3>2 DEF Kept, Making, InList, Taken
    <3>4. \A r \in DOMAIN results' : r \in DOMAIN results /\ results'[r] = results[r]
      BY <3>1 DEF Erased
    <3>5. StoredOwn'
      BY <2>1, <3>3, <3>4 DEF OwnInv, StoredOwn
    <3>6. ASSUME ut[u] \in DOMAIN results, want[u] \notin overlapped
          PROVE  results[ut[u]] \in {0, want[u]}
      <4>1. ut[u] = tid[want[u]] /\ StoredOwn
        BY <2>1, <3>1, <3>6 DEF ListInv, WantsOwn, OwnInv
      <4>2. want[u] \in Calls
        <5>1. want[u] \in 1 .. calls
          BY <3>1 DEF ListInv, WantsMade
        <5> QED BY <5>1, Ranges DEF CallInv, CallTypes, UserInv
      <4>3. Kept(want[u])
        BY <3>1 DEF Kept, Taken
      <4> QED BY <3>6, <4>1, <4>2, <4>3 DEF StoredOwn
    <3>7. OwnAnswer'
      <4> SUFFICES ASSUME NEW d \in delivered', d[1] \notin overlapped
                   PROVE  d[2] \in {0, d[1]}
        BY <2>1, <3>1 DEF OwnAnswer
      <4>1. CASE d \in delivered
        BY <4>1 DEF OwnInv, OwnAnswer
      <4>2. CASE ut[u] \in DOMAIN results /\ d = <<want[u], results[ut[u]]>>
        BY <3>6, <4>2
      <4> QED BY <3>1, <4>1, <4>2
    <3> QED BY <1>1, <3>1, <3>5, <3>7 DEF OwnInv
  <2>6. CASE PopTorn(u)
    BY <2>6 DEF PopTorn
  <2> QED BY <1>7, <2>2, <2>3, <2>4, <2>5, <2>6 DEF GetAsyncResponse, Answered
<1> QED BY <1>3, <1>4, <1>5, <1>6, <1>7 DEF Next

(* At first the lists are empty and nothing is kept.                        *)
LEMMA OwnInit == Init => ListInv /\ KeptInv /\ OwnInv
<1> SUFFICES ASSUME Init PROVE ListInv /\ KeptInv /\ OwnInv
    OBVIOUS
<1>1. \A m \in Methods : DOMAIN due[m] = {}
    BY DEF Init
<1>2. Under = {} /\ \A c \in Calls : ~Kept(c) /\ ~InList(c) /\ ~Making(c) /\ ~Taken(c)
    BY <1>1 DEF Init, Under, Kept, InList, Making, Taken
<1>3. ListInv
    BY <1>1 DEF Init, ListInv, ListsAgree, WantsMade, PopsHead, WantsOwn
<1>4. KeptInv
    BY <1>1, <1>2 DEF Init, KeptInv, OnePlace, CallingInv, OwnIds
<1>5. OwnInv
    BY <1>2 DEF Init, OwnInv, Alone, GotOwn, StoredOwn, OwnAnswer
<1> QED BY <1>3, <1>4, <1>5

(* A race is never forgotten.                                               *)
LEMMA RacedForever == UserInv /\ CallInv /\ [Next]_vars /\ raced => raced'
<1> SUFFICES ASSUME UserInv, CallInv, [Next]_vars, raced PROVE raced'
    OBVIOUS
<1>1. CASE OpenRpcAsyncMode \/ CallGarbage \/ ConnectFailed \/ AsyncRpcCall \/ Delete \/ UNCHANGED vars
           \/ \E c \in Calls : ServerSilent(c)
    BY <1>1 DEF OpenRpcAsyncMode, CallGarbage, ConnectFailed, AsyncRpcCall, Delete, ServerSilent, vars
<1>2. ASSUME NEW m \in Methods, CallSync(m) \/ CallOverLimit(m) \/ CallAsync(m) PROVE raced'
  <2>1. \E c, f, t, pc : CallMade(m, c, f, t, pc)
    BY <1>2, CallIsMade
  <2> QED BY <2>1 DEF CallMade
<1>3. ASSUME NEW c \in Calls, RpcCommunication(c) PROVE raced'
    BY <1>3, CallGoesOn
<1>4. ASSUME NEW u \in Users, GetAsyncResponse(u) PROVE raced'
    BY <1>4 DEF GetAsyncResponse, Answered, Front, PopFront, PopTorn, Join, JoinFails, Fetch
<1> QED BY <1>1, <1>2, <1>3, <1>4 DEF Next

(* As long as no users have raced: who has which id and which answer.       *)
LEMMA OwnAlways == Spec => [](~raced => ListInv /\ KeptInv /\ OwnInv)
<1>1. CallInv /\ UserInv /\ IdInv /\ (~raced => ListInv /\ KeptInv /\ OwnInv) /\ [Next]_vars
        => (~raced => ListInv /\ KeptInv /\ OwnInv)'
    BY ListInvStep, KeptInvStep, OwnInvStep, RacedForever
<1> QED BY <1>1, OwnInit, IdsAlways, PTL DEF Spec

(* With any number of calls, users and methods: a call that was not under   *)
(* way with another one gets its own answer, if the users do not race.      *)
THEOREM OwnAnswerReturned == Spec => []OwnAnswer
<1>1. (~raced => OwnInv) => OwnAnswer
    BY DEF OwnInv, OwnAnswer
<1> QED BY <1>1, OwnAlways, PTL

(* ... and no answer in the map is lost to its user: its thread is listed,  *)
(* about to be listed, or taken by a user who has not fetched it yet.       *)
THEOREM AnswersStayReachable == Spec => []AnswersReachable
<1>1. UserInv /\ (~raced => ListInv /\ KeptInv) => AnswersReachable
  <2> SUFFICES ASSUME UserInv, ListInv, KeptInv, ~raced, phase = "open", NEW t \in DOMAIN results
               PROVE  \/ \E m \in Methods : \E i \in DOMAIN tids[m] : tids[m][i] = t
                      \/ \E u \in Users : upc[u] \in {"join", "fetch"} /\ ut[u] = t
                      \/ calling # 0 /\ tid[calling] = t
    BY DEF AnswersReachable
  <2>1. PICK c \in Calls : Kept(c) /\ tid[c] = t
    BY DEF KeptInv, OwnIds
  <2>2. CASE Making(c)
    BY <2>1, <2>2 DEF Making
  <2>3. CASE InList(c)
    <3>1. PICK m \in Methods : \E i \in DOMAIN due[m] : due[m][i] = c
      BY <2>3 DEF InList
    <3>2. PICK i \in DOMAIN due[m] : due[m][i] = c
      BY <3>1
    <3>3. i \in DOMAIN tids[m]
      BY <3>2 DEF UserInv
    <3>4. tids[m][i] = t
      BY <2>1, <3>2 DEF ListInv, ListsAgree
    <3> QED BY <3>3, <3>4
  <2>4. CASE Taken(c)
    BY <2>1, <2>4 DEF Taken, ListInv, WantsOwn
  <2> QED BY <2>1, <2>2, <2>3, <2>4 DEF Kept
<1> QED BY <1>1, OwnAlways, IdsAlways, PTL

=============================================================================
