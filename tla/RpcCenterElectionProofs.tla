---------------------- MODULE RpcCenterElectionProofs ----------------------
(***************************************************************************)
(* Proofs about RpcCenterElection, for any number of centers, any centers   *)
(* files, any start times and any number of restarts.                       *)
(***************************************************************************)
EXTENDS RpcCenterElection, TLAPS, FiniteSetTheorems, SequenceTheorems

(* No message is addressed to the center it comes from, and none carries    *)
(* the status UNKONW or confirms a leader.                                  *)
Foreign(m, c) ==
    m.from # c /\ m.status # "UNKONW" /\ m.action # "LEADER_CONFIRM"

MessagesForeign ==
    /\ \A c \in Centers : \A k \in DOMAIN queue[c] : Foreign(queue[c][k], c)
    /\ \A c \in Centers : \A p \in out[c] : Foreign(p.msg, p.to)

NoneUnknown == \A c, x \in Centers : others[c][x].status # "UNKONW"

(* The inductive invariant.                                                 *)
IInv ==
    /\ TypeOK /\ MessagesForeign /\ NeverLeading /\ NoneUnknown
    /\ InquiryAsksNobody /\ LeaderHasQuorum

(* Number of votes an election takes: a natural number, whatever the file.  *)
LEMMA DoneNumNat ==
  ASSUME NEW c \in Centers
  PROVE  ElectionDoneNum(c) \in Nat
PROOF
<1>1. IsFiniteSet(Others(c))
  <2>1. Others(c) \subseteq Centers
    BY ElectionAssumption DEF Others
  <2> QED BY <2>1, ElectionAssumption, FS_Subset
<1>2. Cardinality(Others(c)) \in Nat
  BY <1>1, FS_CardinalityType
<1> QED BY <1>2 DEF ElectionDoneNum

(* The initial state.                                                       *)
LEMMA InitIInv == Init => IInv
PROOF
<1> SUFFICES ASSUME Init PROVE IInv
  OBVIOUS
<1>1. TypeOK
  <2>1. queue \in [Centers -> Seq(Messages)]
    BY DEF Init
  <2>2. others \in [Centers -> [Centers ->
                      [known : BOOLEAN, status : Statuses, votes : Nat]]]
    BY DEF Init, NoEntry, Statuses
  <2>3. leader \in [Centers -> [addr : Centers, start : Nat]]
    BY DEF Init
  <2>4. prop \in [Centers -> [addr : Centers, start : Nat]]
    BY DEF Init, NoProposal
  <2> QED BY <2>1, <2>2, <2>3, <2>4 DEF Init, TypeOK, Statuses
<1>2. MessagesForeign
  BY DEF Init, MessagesForeign
<1>3. NeverLeading /\ NoneUnknown /\ InquiryAsksNobody
  BY DEF Init, NeverLeading, NoneUnknown, InquiryAsksNobody, NoEntry
<1>4. LeaderHasQuorum
  BY DEF Init, LeaderHasQuorum
<1> QED BY <1>1, <1>2, <1>3, <1>4 DEF IInv

(* A message a center makes is a message, and stays foreign to any other.   *)
LEMMA MessageType ==
  ASSUME TypeOK, NEW c \in Centers,
         NEW l \in [addr : Centers, start : Nat]
  PROVE  /\ Message(c, "PROPOSAL", "LOOKING", l) \in Messages
         /\ \A x \in Centers \ {c} :
                Foreign(Message(c, "PROPOSAL", "LOOKING", l), x)
PROOF
<1>1. life[c] \in Nat /\ logical_clock[c] \in Nat
  BY DEF TypeOK
<1>2. Message(c, "PROPOSAL", "LOOKING", l) \in Messages
  BY <1>1 DEF Message, Messages, Statuses
<1>3. ASSUME NEW x \in Centers \ {c}
      PROVE  Foreign(Message(c, "PROPOSAL", "LOOKING", l), x)
  BY <1>3 DEF Foreign, Message
<1> QED BY <1>2, <1>3

(* A center that processes a proposal keeps the types, does not come to     *)
(* lead, and follows another only with the votes for it.                    *)
LEMMA UpdateOCStatusKeeps ==
  ASSUME IInv, NEW c \in Centers, NEW m \in Messages, Foreign(m, c),
         UpdateOCStatus(c, m)
  PROVE  /\ others' \in [Centers -> [Centers ->
                      [known : BOOLEAN, status : Statuses, votes : Nat]]]
         /\ counted' \in [Centers -> [Centers -> SUBSET (Centers \X Nat)]]
         /\ leader' \in [Centers -> [addr : Centers, start : Nat]]
         /\ status' \in [Centers -> Statuses]
         /\ threads' = threads /\ out' = out
         /\ NeverLeading' /\ NoneUnknown' /\ LeaderHasQuorum'
PROOF
<1> DEFINE T == [known : BOOLEAN, status : Statuses, votes : Nat]
<1>0. TypeOK /\ NeverLeading /\ NoneUnknown /\ LeaderHasQuorum
  BY DEF IInv
<1>a. others \in [Centers -> [Centers -> T]] /\ others[c] \in [Centers -> T]
  BY <1>0 DEF TypeOK
<1>m. /\ m.from \in Centers /\ m.leader \in Centers /\ m.life \in Nat
      /\ m.status \in Statuses /\ m.lc_start_time \in Nat
      /\ m.from # c /\ m.status # "UNKONW"
  BY DEF Messages, Foreign
<1> HIDE DEF T
<1>1. /\ WithProposer(c, m) \in [Centers -> T]
      /\ WithProposer(c, m)[c] = others[c][c]
      /\ \A x \in Centers : WithProposer(c, m)[x].votes = others[c][x].votes
      /\ \A x \in Centers : WithProposer(c, m)[x].status # "UNKONW"
  <2>1. others[c][m.from].votes \in Nat
    BY <1>a, <1>m DEF T
  <2>2. [known |-> TRUE, status |-> m.status,
         votes |-> others[c][m.from].votes] \in T
    BY <2>1, <1>m DEF T
  <2> QED BY <1>a, <1>m, <1>0, <2>2 DEF WithProposer, NoneUnknown
<1>2. /\ WithVote(c, m) \in [Centers -> T]
      /\ WithVote(c, m)[c].known = others[c][c].known
      /\ \A x \in Centers : WithVote(c, m)[x].status # "UNKONW"
      /\ \A x \in Centers :
            WithVote(c, m)[x].votes >= others[c][x].votes
  <2> DEFINE W == WithProposer(c, m)
  <2>1. W \in [Centers -> T]
    BY <1>1
  <2>2. \A x \in Centers : W[x].votes = others[c][x].votes /\ W[x].votes \in Nat
    BY <1>1, <2>1 DEF T
  <2>3. W[c].known = others[c][c].known
    BY <1>1
  <2>4. CASE ~Counts(c, m)
    <3>1. WithVote(c, m) = W
      BY <2>4 DEF WithVote
    <3> QED BY <3>1, <2>1, <2>2, <2>3, <1>1
  <2>5. CASE Counts(c, m)
    <3>1. WithVote(c, m) = [W EXCEPT ![m.leader].votes = W[m.leader].votes + 1]
      BY <2>5 DEF WithVote
    <3> DEFINE e == [W[m.leader] EXCEPT !.votes = W[m.leader].votes + 1]
    <3>2. e \in T /\ e.known = W[m.leader].known /\ e.status = W[m.leader].status
          /\ e.votes = W[m.leader].votes + 1
      BY <2>1, <2>2, <1>m DEF T
    <3>3. WithVote(c, m) = [W EXCEPT ![m.leader] = e]
      BY <3>1
    <3> HIDE DEF e, W
    <3> QED BY <3>2, <3>3, <2>1, <2>2, <2>3, <1>m, <1>1 DEF W
  <2> QED BY <2>4, <2>5
<1>3. ~(Elected(c, m) /\ m.leader = c)
  <2>1. ~others[c][c].known
    BY <1>0 DEF NeverLeading
  <2> QED BY <2>1, <1>1 DEF Elected, Counts
<1>4. /\ others' = [others EXCEPT ![c] = WithVote(c, m)]
      /\ leader' = [leader EXCEPT ![c] =
                      IF Elected(c, m)
                        THEN [addr |-> m.leader, start |-> m.lc_start_time]
                        ELSE leader[c]]
      /\ status' = [status EXCEPT ![c] =
                      IF Elected(c, m) /\ status[c] # "FOLLOWING"
                        THEN "OBSERVING" ELSE status[c]]
      /\ threads' = [threads EXCEPT ![c] = threads[c]]
      /\ out' = [out EXCEPT ![c] = out[c]]
  BY <1>3, <1>0 DEF UpdateOCStatus, TypeOK
<1>5. threads' = threads /\ out' = out
  BY <1>4, <1>0 DEF TypeOK
<1>6. others' \in [Centers -> [Centers -> T]]
  BY <1>4, <1>a, <1>2
<1>7. counted' \in [Centers -> [Centers -> SUBSET (Centers \X Nat)]]
  <2>1. counted' = [counted EXCEPT ![c][m.leader] =
                     IF Counts(c, m) THEN @ \cup {<<m.from, m.life>>} ELSE @]
    BY DEF UpdateOCStatus
  <2>2. counted \in [Centers -> [Centers -> SUBSET (Centers \X Nat)]]
    BY <1>0 DEF TypeOK
  <2> QED BY <2>1, <2>2, <1>m
<1>8. leader' \in [Centers -> [addr : Centers, start : Nat]]
  BY <1>4, <1>0, <1>m DEF TypeOK
<1>9. status' \in [Centers -> Statuses]
  BY <1>4, <1>0 DEF TypeOK, Statuses
<1>10. NeverLeading'
  <2> SUFFICES ASSUME NEW x \in Centers
               PROVE  /\ ~others'[x][x].known /\ status'[x] # "LEADING"
                      /\ threads'[x] \subseteq {"election"}
    BY DEF NeverLeading
  <2>1. ~others[x][x].known /\ status[x] # "LEADING"
        /\ threads[x] \subseteq {"election"}
    BY <1>0 DEF NeverLeading
  <2>2. ~others'[x][x].known
    BY <2>1, <1>4, <1>2, <1>a
  <2>3. status'[x] # "LEADING"
    BY <2>1, <1>4, <1>0 DEF TypeOK
  <2> QED BY <2>1, <2>2, <2>3, <1>5
<1>11. NoneUnknown'
  BY <1>4, <1>2, <1>a, <1>0 DEF NoneUnknown
<1>12. LeaderHasQuorum'
  <2> SUFFICES ASSUME NEW x \in Centers, leader'[x].addr # x
               PROVE  others'[x][leader'[x].addr].votes >= ElectionDoneNum(x)
    BY DEF LeaderHasQuorum, ElectionDoneNum, Others
  <2>0. ElectionDoneNum(x) \in Nat
    BY DoneNumNat
  <2>1. CASE x # c
    <3>1. leader'[x] = leader[x] /\ others'[x] = others[x]
      BY <2>1, <1>4, <1>a, <1>0 DEF TypeOK
    <3> QED BY <3>1, <1>0 DEF LeaderHasQuorum
  <2>2. CASE x = c /\ Elected(c, m)
    <3>1. leader'[x].addr = m.leader /\ others'[x] = WithVote(c, m)
      BY <2>2, <1>4, <1>a, <1>0 DEF TypeOK
    <3> QED BY <3>1, <2>2 DEF Elected
  <2>3. CASE x = c /\ ~Elected(c, m)
    <3>1. leader'[x] = leader[x] /\ others'[x] = WithVote(c, m)
      BY <2>3, <1>4, <1>a, <1>0 DEF TypeOK
    <3>2. leader[x].addr \in Centers
      BY <1>0 DEF TypeOK
    <3>3. others[x][leader[x].addr].votes >= ElectionDoneNum(x)
      BY <3>1, <1>0 DEF LeaderHasQuorum
    <3>4. WithVote(c, m)[leader[x].addr].votes >= others[x][leader[x].addr].votes
      BY <1>2, <2>3, <3>2
    <3>5. /\ WithVote(c, m)[leader[x].addr].votes \in Nat
          /\ others[x][leader[x].addr].votes \in Nat
      BY <1>2, <2>3, <3>2, <1>a DEF T
    <3> QED BY <3>1, <3>3, <3>4, <3>5, <2>0
  <2> QED BY <2>1, <2>2, <2>3
<1> QED BY <1>5, <1>6, <1>7, <1>8, <1>9, <1>10, <1>11, <1>12 DEF T

(* Every step keeps the invariant: one step per action.                     *)
LEMMA NextIInv == IInv /\ [Next]_vars => IInv'
PROOF
<1> SUFFICES ASSUME IInv, [Next]_vars PROVE IInv'
  OBVIOUS
<1>0. /\ TypeOK /\ MessagesForeign /\ NeverLeading /\ NoneUnknown
      /\ InquiryAsksNobody /\ LeaderHasQuorum
  BY DEF IInv
<1>1. ASSUME NEW c \in Centers, NEW now \in Times, StartCenter(c, now)
      PROVE  IInv'
  <2>1. TypeOK'
    <3>1. InitialOthers(c) \in [Centers ->
                      [known : BOOLEAN, status : Statuses, votes : Nat]]
      BY DEF InitialOthers, Entry, NoEntry, Statuses
    <3>2. now \in Nat
      BY ElectionAssumption
    <3>3. /\ others' \in [Centers -> [Centers ->
                      [known : BOOLEAN, status : Statuses, votes : Nat]]]
          /\ leader' \in [Centers -> [addr : Centers, start : Nat]]
      BY <1>0, <1>1, <3>1, <3>2 DEF TypeOK, StartCenter
    <3>4. /\ threads' \in [Centers -> SUBSET {"election", "leader", "reporter"}]
          /\ asked' \in [Centers -> SUBSET Centers]
          /\ counted' \in [Centers -> [Centers -> SUBSET (Centers \X Nat)]]
      BY <1>0, <1>1 DEF TypeOK, StartCenter
    <3>5. /\ pc' \in [Centers -> {"down", "started", "inquired", "clocked",
                                  "timed", "named", "up"}]
          /\ status' \in [Centers -> Statuses]
      BY <1>0, <1>1 DEF TypeOK, StartCenter, Statuses
    <3>6. /\ life' \in [Centers -> Nat] /\ start_time' \in [Centers -> Nat]
          /\ logical_clock' \in [Centers -> Nat] /\ starts' \in Nat
      BY <1>0, <1>1, <3>2 DEF TypeOK, StartCenter
    <3>7. UNCHANGED <<queue, prop, out>>
      BY <1>1 DEF StartCenter
    <3> QED BY <1>0, <3>3, <3>4, <3>5, <3>6, <3>7 DEF TypeOK
  <2>2. MessagesForeign'
    BY <1>0, <1>1 DEF MessagesForeign, StartCenter
  <2>3. NeverLeading' /\ NoneUnknown' /\ InquiryAsksNobody'
    <3>1. ~InitialOthers(c)[c].known
      BY DEF InitialOthers, Others, NoEntry
    <3>2. \A x \in Centers : InitialOthers(c)[x].status # "UNKONW"
      BY DEF InitialOthers, Entry, NoEntry
    <3> QED BY <1>0, <1>1, <3>1, <3>2
            DEF NeverLeading, NoneUnknown, InquiryAsksNobody, StartCenter, TypeOK
  <2>4. LeaderHasQuorum'
    BY <1>0, <1>1 DEF LeaderHasQuorum, StartCenter, TypeOK, ElectionDoneNum, Others
  <2> QED BY <2>1, <2>2, <2>3, <2>4 DEF IInv
<1>2. ASSUME NEW c \in Centers, InquiryCenters(c)
      PROVE  IInv'
  <2>1. {x \in Known(c) : others[c][x].status = "UNKONW"} = {}
    BY <1>0 DEF Known, NoneUnknown
  <2>2. asked' = [asked EXCEPT ![c] = {}]
    BY <1>2, <2>1 DEF InquiryCenters
  <2>3. TypeOK' /\ InquiryAsksNobody'
    BY <1>0, <1>2, <2>2 DEF TypeOK, InquiryCenters, InquiryAsksNobody
  <2>4. MessagesForeign' /\ NeverLeading' /\ NoneUnknown' /\ LeaderHasQuorum'
    BY <1>0, <1>2 DEF MessagesForeign, NeverLeading, NoneUnknown,
       LeaderHasQuorum, InquiryCenters, ElectionDoneNum, Others
  <2> QED BY <2>3, <2>4 DEF IInv
<1>3. ASSUME NEW c \in Centers, IncreaseLogicalClock(c)
      PROVE  IInv'
  <2>1. TypeOK'
    <3>1. /\ logical_clock' \in [Centers -> Nat]
          /\ pc' \in [Centers -> {"down", "started", "inquired", "clocked",
                                  "timed", "named", "up"}]
      BY <1>0, <1>3 DEF TypeOK, IncreaseLogicalClock
    <3>2. UNCHANGED <<life, start_time, status, leader, others, threads, queue,
                      prop, out, asked, counted, starts>>
      BY <1>3 DEF IncreaseLogicalClock
    <3> QED BY <1>0, <3>1, <3>2 DEF TypeOK
  <2> QED BY <2>1, <1>0, <1>3 DEF IInv, MessagesForeign, NeverLeading, NoneUnknown,
       InquiryAsksNobody, LeaderHasQuorum, IncreaseLogicalClock, ElectionDoneNum,
       Others
<1>4. ASSUME NEW c \in Centers, ReadLeaderStartTime(c) \/ ReadLeaderName(c)
      PROVE  IInv'
  <2>1. leader[c].addr \in Centers /\ leader[c].start \in Nat
    BY <1>0 DEF TypeOK
  <2>2. TypeOK'
    <3> DEFINE T == [addr : Centers, start : Nat]
    <3>1. prop[c] \in T /\ prop \in [Centers -> T]
      BY <1>0 DEF TypeOK
    <3>2. /\ [prop[c] EXCEPT !.start = leader[c].start] \in T
          /\ [prop[c] EXCEPT !.addr = leader[c].addr] \in T
      BY <2>1, <3>1
    <3>3. \/ prop' = [prop EXCEPT ![c] = [prop[c] EXCEPT !.start = leader[c].start]]
          \/ prop' = [prop EXCEPT ![c] = [prop[c] EXCEPT !.addr = leader[c].addr]]
      BY <1>4 DEF ReadLeaderStartTime, ReadLeaderName
    <3> HIDE DEF T
    <3>4. prop' \in [Centers -> T]
      BY <3>1, <3>2, <3>3
    <3>5. pc' \in [Centers -> {"down", "started", "inquired", "clocked",
                               "timed", "named", "up"}]
      BY <1>0, <1>4 DEF TypeOK, ReadLeaderStartTime, ReadLeaderName
    <3>6. UNCHANGED <<stateVars, life, queue, out, starts>>
      BY <1>4 DEF ReadLeaderStartTime, ReadLeaderName
    <3> QED BY <1>0, <3>4, <3>5, <3>6 DEF TypeOK, stateVars, T
  <2> QED BY <2>2, <1>0, <1>4 DEF IInv, MessagesForeign, NeverLeading, NoneUnknown,
       InquiryAsksNobody, LeaderHasQuorum, ReadLeaderStartTime, ReadLeaderName,
       stateVars, ElectionDoneNum, Others
<1>5. ASSUME NEW c \in Centers, BroadcastProposal(c)
      PROVE  IInv'
  <2> DEFINE m == Message(c, "PROPOSAL", "LOOKING", prop[c])
  <2>1. m \in Messages /\ \A x \in Centers \ {c} : Foreign(m, x)
    <3>1. prop[c] \in [addr : Centers, start : Nat]
      BY <1>0 DEF TypeOK
    <3> QED BY <3>1, <1>0, MessageType
  <2>2. Known(c) \subseteq Centers \ {c}
    BY <1>0 DEF Known, NeverLeading
  <2> HIDE DEF m
  <2>3. out' = [out EXCEPT ![c] = out[c] \cup {[to |-> x, msg |-> m] : x \in Known(c)}]
    BY <1>5 DEF BroadcastProposal, Broadcast, m
  <2>4. TypeOK'
    <3>1. NoProposal(c) \in [addr : Centers, start : Nat]
      BY DEF NoProposal
    <3>2. {[to |-> x, msg |-> m] : x \in Known(c)}
             \subseteq [to : Centers, msg : Messages]
      BY <2>1, <2>2
    <3>3. out' \in [Centers -> SUBSET [to : Centers, msg : Messages]]
      BY <2>3, <3>2, <1>0 DEF TypeOK
    <3> QED BY <1>0, <1>5, <3>1, <3>3 DEF TypeOK, BroadcastProposal, stateVars
  <2>5. MessagesForeign'
    <3>1. \A p \in {[to |-> x, msg |-> m] : x \in Known(c)} : Foreign(p.msg, p.to)
      BY <2>1, <2>2
    <3>2. queue' = queue /\ out \in [Centers -> SUBSET [to : Centers, msg : Messages]]
      BY <1>0, <1>5 DEF BroadcastProposal, TypeOK
    <3>3. \A x \in Centers : \A p \in out'[x] : Foreign(p.msg, p.to)
      BY <1>0, <2>3, <3>1, <3>2 DEF MessagesForeign
    <3> QED BY <1>0, <3>2, <3>3 DEF MessagesForeign
  <2>6. NeverLeading' /\ NoneUnknown' /\ InquiryAsksNobody' /\ LeaderHasQuorum'
    BY <1>0, <1>5 DEF NeverLeading, NoneUnknown, InquiryAsksNobody,
       LeaderHasQuorum, BroadcastProposal, stateVars, ElectionDoneNum, Others
  <2> QED BY <2>4, <2>5, <2>6 DEF IInv
<1>6. ASSUME NEW c \in Centers, NEW p \in out[c], Deliver(c, p)
      PROVE  IInv'
  <2>1. p \in [to : Centers, msg : Messages] /\ Foreign(p.msg, p.to)
    BY <1>0 DEF TypeOK, MessagesForeign
  <2> DEFINE y == p.to
             q == queue[y]
  <2>2. y \in Centers /\ p.msg \in Messages /\ q \in Seq(Messages)
    BY <2>1, <1>0 DEF TypeOK
  <2>3. /\ queue' = [queue EXCEPT ![y] = Append(q, p.msg)]
        /\ out' = [out EXCEPT ![c] = out[c] \ {p}]
    BY <1>6 DEF Deliver
  <2>4. TypeOK'
    <3>1. queue' \in [Centers -> Seq(Messages)]
      BY <2>2, <2>3, <1>0 DEF TypeOK
    <3>2. out' \in [Centers -> SUBSET [to : Centers, msg : Messages]]
      BY <2>3, <1>0 DEF TypeOK
    <3> QED BY <1>0, <1>6, <3>1, <3>2 DEF TypeOK, Deliver, stateVars
  <2>5. MessagesForeign'
    <3>1. \A k \in DOMAIN Append(q, p.msg) : Foreign(Append(q, p.msg)[k], y)
      <4>1. \A k \in DOMAIN q : Foreign(q[k], y)
        BY <1>0, <2>2 DEF MessagesForeign
      <4>2. /\ Len(Append(q, p.msg)) = Len(q) + 1
            /\ \A k \in 1 .. Len(q) : Append(q, p.msg)[k] = q[k]
            /\ Append(q, p.msg)[Len(q) + 1] = p.msg
        BY <2>2, AppendProperties
      <4>3. DOMAIN Append(q, p.msg) = 1 .. Len(q) + 1 /\ DOMAIN q = 1 .. Len(q)
        BY <2>2, <4>2, AppendProperties, LenProperties
      <4>4. Len(q) \in Nat
        BY <2>2, LenProperties
      <4> QED BY <4>1, <4>2, <4>3, <4>4, <2>1
    <3>2. queue \in [Centers -> Seq(Messages)]
          /\ out \in [Centers -> SUBSET [to : Centers, msg : Messages]]
      BY <1>0 DEF TypeOK
    <3>3. \A x \in Centers : queue'[x] = IF x = y THEN Append(q, p.msg) ELSE queue[x]
      BY <2>3, <3>2, <2>2
    <3> HIDE DEF q, y
    <3>4. \A x \in Centers : \A k \in DOMAIN queue'[x] : Foreign(queue'[x][k], x)
      BY <1>0, <3>1, <3>3 DEF MessagesForeign
    <3>5. \A x \in Centers : \A e \in out'[x] : Foreign(e.msg, e.to)
      BY <1>0, <2>3, <3>2 DEF MessagesForeign
    <3> QED BY <3>4, <3>5 DEF MessagesForeign
  <2>6. NeverLeading' /\ NoneUnknown' /\ InquiryAsksNobody' /\ LeaderHasQuorum'
    BY <1>0, <1>6 DEF NeverLeading, NoneUnknown, InquiryAsksNobody,
       LeaderHasQuorum, Deliver, stateVars, ElectionDoneNum, Others
  <2> QED BY <2>4, <2>5, <2>6 DEF IInv
<1>7. ASSUME NEW c \in Centers, NEW p \in out[c], Lose(c, p) \/ Unparsed(c, p)
      PROVE  IInv'
  <2>0. /\ out' = [out EXCEPT ![c] = @ \ {p}]
        /\ UNCHANGED <<stateVars, pc, life, queue, prop, starts>>
    BY <1>7 DEF Lose, Unparsed
  <2>1. TypeOK' /\ MessagesForeign'
    BY <1>0, <2>0 DEF TypeOK, MessagesForeign, stateVars
  <2>2. NeverLeading' /\ NoneUnknown' /\ InquiryAsksNobody' /\ LeaderHasQuorum'
    BY <1>0, <2>0 DEF NeverLeading, NoneUnknown, InquiryAsksNobody,
       LeaderHasQuorum, stateVars, ElectionDoneNum, Others
  <2> QED BY <2>1, <2>2 DEF IInv
<1>8. ASSUME NEW c \in Centers, ProcessCenterData(c)
      PROVE  IInv'
  <2> DEFINE q == queue[c]
             m == Head(q)
  <2>1. q \in Seq(Messages) /\ q # <<>>
    BY <1>0, <1>8 DEF TypeOK, ProcessCenterData
  <2>2. /\ m \in Messages /\ m = q[1] /\ 1 \in DOMAIN q
        /\ Tail(q) \in Seq(Messages) /\ Len(q) \in Nat
        /\ DOMAIN Tail(q) = 1 .. Len(q) - 1 /\ DOMAIN q = 1 .. Len(q)
        /\ \A k \in 1 .. Len(q) - 1 : Tail(q)[k] = q[k + 1]
    BY <2>1, HeadTailProperties, LenProperties, ElementOfSeq
  <2>3. \A k \in DOMAIN q : Foreign(q[k], c)
    BY <1>0 DEF MessagesForeign
  <2>4. Foreign(m, c)
    BY <2>2, <2>3
  <2>5. \A k \in DOMAIN Tail(q) : Foreign(Tail(q)[k], c)
    BY <2>2, <2>3
  <2>6. queue' = [queue EXCEPT ![c] = Tail(q)]
    BY <1>8 DEF ProcessCenterData, PopElectionMessage
  <2>7. UpdateOCStatus(c, m)
          \/ UNCHANGED <<others, counted, leader, status, threads, out>>
    BY <1>8, <2>4 DEF ProcessCenterData, Foreign
  <2> HIDE DEF q, m
  <2>8. queue' \in [Centers -> Seq(Messages)]
    BY <2>2, <2>6, <1>0 DEF TypeOK
  <2>9. /\ others' \in [Centers -> [Centers ->
                      [known : BOOLEAN, status : Statuses, votes : Nat]]]
        /\ counted' \in [Centers -> [Centers -> SUBSET (Centers \X Nat)]]
        /\ leader' \in [Centers -> [addr : Centers, start : Nat]]
        /\ status' \in [Centers -> Statuses]
        /\ threads' = threads /\ out' = out
        /\ NeverLeading' /\ NoneUnknown' /\ LeaderHasQuorum'
    <3>1. CASE UpdateOCStatus(c, m)
      BY <3>1, <2>2, <2>4, UpdateOCStatusKeeps
    <3>2. CASE UNCHANGED <<others, counted, leader, status, threads, out>>
      BY <3>2, <1>0 DEF TypeOK, NeverLeading, NoneUnknown, LeaderHasQuorum,
         ElectionDoneNum, Others
    <3> QED BY <2>7, <3>1, <3>2
  <2>10. TypeOK'
    BY <1>0, <1>8, <2>8, <2>9 DEF TypeOK, ProcessCenterData
  <2>11. MessagesForeign'
    <3>1. \A x \in Centers : queue'[x] = IF x = c THEN Tail(q) ELSE queue[x]
      BY <2>6, <1>0 DEF TypeOK
    <3>2. \A x \in Centers : \A k \in DOMAIN queue'[x] : Foreign(queue'[x][k], x)
      <4> SUFFICES ASSUME NEW x \in Centers, NEW k \in DOMAIN queue'[x]
                   PROVE  Foreign(queue'[x][k], x)
        OBVIOUS
      <4>1. CASE x = c
        BY <4>1, <3>1, <2>5
      <4>2. CASE x # c
        BY <4>2, <3>1, <1>0 DEF MessagesForeign
      <4> QED BY <4>1, <4>2
    <3>3. \A x \in Centers : \A p \in out'[x] : Foreign(p.msg, p.to)
      BY <2>9, <1>0 DEF MessagesForeign
    <3> QED BY <3>2, <3>3 DEF MessagesForeign
  <2>12. InquiryAsksNobody'
    BY <1>0, <1>8 DEF InquiryAsksNobody, ProcessCenterData
  <2> QED BY <2>9, <2>10, <2>11, <2>12 DEF IInv
<1>9. ASSUME NEW c \in Centers, Crash(c)
      PROVE  IInv'
  <2>1. TypeOK'
    <3>1. NoProposal(c) \in [addr : Centers, start : Nat]
      BY DEF NoProposal
    <3>2. /\ prop' \in [Centers -> [addr : Centers, start : Nat]]
          /\ out' \in [Centers -> SUBSET [to : Centers, msg : Messages]]
          /\ threads' \in [Centers -> SUBSET {"election", "leader", "reporter"}]
      BY <1>0, <1>9, <3>1 DEF TypeOK, Crash
    <3>3. queue' \in [Centers -> Seq(Messages)]
      <4>1. <<>> \in Seq(Messages)
        OBVIOUS
      <4> QED BY <1>0, <1>9, <4>1 DEF TypeOK, Crash
    <3>4. pc' \in [Centers -> {"down", "started", "inquired", "clocked",
                               "timed", "named", "up"}]
      BY <1>0, <1>9 DEF TypeOK, Crash
    <3>5. UNCHANGED <<life, start_time, logical_clock, status, leader, others,
                      asked, counted, starts>>
      BY <1>9 DEF Crash
    <3> QED BY <1>0, <3>2, <3>3, <3>4, <3>5 DEF TypeOK
  <2>2. MessagesForeign'
    BY <1>0, <1>9 DEF TypeOK, MessagesForeign, Crash
  <2>3. NeverLeading' /\ NoneUnknown' /\ InquiryAsksNobody' /\ LeaderHasQuorum'
    BY <1>0, <1>9 DEF TypeOK, NeverLeading, NoneUnknown, InquiryAsksNobody,
       LeaderHasQuorum, Crash, ElectionDoneNum, Others
  <2> QED BY <2>1, <2>2, <2>3 DEF IInv
<1>10. CASE UNCHANGED vars
  BY <1>0, <1>10 DEF IInv, TypeOK, MessagesForeign, NeverLeading, NoneUnknown,
     InquiryAsksNobody, LeaderHasQuorum, vars, ElectionDoneNum, Others
<1> QED
  BY <1>1, <1>2, <1>3, <1>4, <1>5, <1>6, <1>7, <1>8, <1>9, <1>10
     DEF Next, MainStep, SendStep

(* The election's variables keep their types, whatever is lost or crashes.  *)
THEOREM ElectionTypeCorrect == Spec => []TypeOK
PROOF
<1>1. IInv => TypeOK
  BY DEF IInv
<1> QED BY InitIInv, NextIInv, <1>1, PTL DEF Spec

(* No center of any cluster ever leads, so no leader or reporter thread     *)
(* ever runs: InitRpcCenter skips the local address and UpdateOCStatus only *)
(* counts votes for the centers it knows.                                   *)
THEOREM NobodyEverLeads == Spec => []NeverLeading
PROOF
<1>1. IInv => NeverLeading
  BY DEF IInv
<1> QED BY InitIInv, NextIInv, <1>1, PTL DEF Spec

(* In no cluster does a center send an INQUIRY: InitRpcCenter clears the    *)
(* status UNKONW it tests for, and no message brings it back.               *)
THEOREM InquiryNeverAsks == Spec => []InquiryAsksNobody
PROOF
<1>1. IInv => InquiryAsksNobody
  BY DEF IInv
<1> QED BY InitIInv, NextIInv, <1>1, PTL DEF Spec

(* In any cluster, a center that holds another for the leader has counted   *)
(* election_done_num_ votes for it in UpdateOCStatus.                       *)
THEOREM AdoptedLeaderHasVotes == Spec => []LeaderHasQuorum
PROOF
<1>1. IInv => LeaderHasQuorum
  BY DEF IInv
<1> QED BY InitIInv, NextIInv, <1>1, PTL DEF Spec
-----------------------------------------------------------------------------
(***************************************************************************)
(* Every vote counted is a proposal of its own.  A proposal is named by its *)
(* sender and the sender's start; it is made once in that start, is then in *)
(* at most one of the sender's out set, the receiver's queue and the        *)
(* receiver's counted proposals, and in the queue only once.                *)
(***************************************************************************)
Vote(m) == <<m.from, m.life>>

(* A proposal made by center f in its n-th start.                           *)
Made(f, n) == n < life[f] \/ (n = life[f] /\ pc[f] \in {"up", "down"})

WasCounted(c, v) == \E l \in Centers : v \in counted[c][l]
IsQueued(c, v) == \E k \in DOMAIN queue[c] : Vote(queue[c][k]) = v

(* Only made proposals are queued or counted.                               *)
MadeInv ==
    /\ \A c \in Centers : \A k \in DOMAIN queue[c] :
          Made(queue[c][k].from, queue[c][k].life)
    /\ \A c, f \in Centers : \A n \in Nat : WasCounted(c, <<f, n>>) => Made(f, n)

(* What is still to be sent was made in this start, one for each receiver.  *)
OutInv ==
    \A f \in Centers : \A p \in out[f] :
        /\ p.msg.from = f /\ p.msg.life = life[f] /\ pc[f] = "up"
        /\ \A q \in out[f] : p.to = q.to => p = q

(* A proposal is in one place, once.                                        *)
OnceInv ==
    /\ \A c \in Centers : \A j, k \in DOMAIN queue[c] :
          Vote(queue[c][j]) = Vote(queue[c][k]) => j = k
    /\ \A c \in Centers : \A k \in DOMAIN queue[c] :
          ~WasCounted(c, Vote(queue[c][k]))
    /\ \A f \in Centers : \A p \in out[f] :
          ~IsQueued(p.to, Vote(p.msg)) /\ ~WasCounted(p.to, Vote(p.msg))

CountInv ==
    /\ VotesAreProposals
    /\ \A c, l \in Centers : IsFiniteSet(counted[c][l])

VoteInv == MadeInv /\ OutInv /\ OnceInv /\ CountInv

(* What UpdateOCStatus does to votes and counted proposals: nothing, or one *)
(* more of each for the same leader.                                        *)
LEMMA VoteAdded ==
  ASSUME IInv, NEW c \in Centers, NEW m \in Messages, Foreign(m, c),
         UpdateOCStatus(c, m)
  PROVE  \/ /\ counted' = counted
            /\ \A x, l \in Centers : others'[x][l].votes = others[x][l].votes
         \/ /\ counted'[c][m.leader] = counted[c][m.leader] \cup {Vote(m)}
            /\ others'[c][m.leader].votes = others[c][m.leader].votes + 1
            /\ \A x, l \in Centers : ~(x = c /\ l = m.leader) =>
                  /\ counted'[x][l] = counted[x][l]
                  /\ others'[x][l].votes = others[x][l].votes
PROOF
<1> DEFINE T == [known : BOOLEAN, status : Statuses, votes : Nat]
           W == WithProposer(c, m)
<1>0. /\ others \in [Centers -> [Centers -> T]] /\ others[c] \in [Centers -> T]
      /\ counted \in [Centers -> [Centers -> SUBSET (Centers \X Nat)]]
  BY DEF IInv, TypeOK
<1>m. m.from \in Centers /\ m.leader \in Centers /\ m.status \in Statuses
  BY DEF Messages
<1>1. /\ W \in [Centers -> T]
      /\ \A x \in Centers : W[x].votes = others[c][x].votes
  <2>1. [known |-> TRUE, status |-> m.status,
         votes |-> others[c][m.from].votes] \in T
    BY <1>0, <1>m
  <2> HIDE DEF T
  <2> QED BY <1>0, <1>m, <2>1 DEF WithProposer
<1>2. others' = [others EXCEPT ![c] = WithVote(c, m)]
  BY DEF UpdateOCStatus
<1>3. CASE ~Counts(c, m)
  <2>1. WithVote(c, m) = W
    BY <1>3 DEF WithVote
  <2>2. counted' = counted
    BY <1>0, <1>3, <1>m DEF UpdateOCStatus
  <2>3. \A x, l \in Centers : others'[x][l].votes = others[x][l].votes
    <3> HIDE DEF T, W
    <3> QED BY <1>0, <1>1, <1>2, <2>1
  <2> QED BY <2>2, <2>3
<1>4. CASE Counts(c, m)
  <2> DEFINE e == [W[m.leader] EXCEPT !.votes = W[m.leader].votes + 1]
  <2>1. WithVote(c, m) = [W EXCEPT ![m.leader] = e]
    BY <1>4 DEF WithVote
  <2>2. e.votes = others[c][m.leader].votes + 1
    <3>1. W[m.leader] \in T
      BY <1>1, <1>m
    <3> QED BY <1>1, <1>m, <3>1
  <2>3. \A x, l \in Centers :
           others'[x][l].votes = IF x = c /\ l = m.leader
                                   THEN others[c][m.leader].votes + 1
                                   ELSE others[x][l].votes
    <3> HIDE DEF T, W, e
    <3> QED BY <1>0, <1>1, <1>2, <1>m, <2>1, <2>2
  <2>4. counted' = [counted EXCEPT ![c][m.leader] = counted[c][m.leader] \cup {Vote(m)}]
    BY <1>4 DEF UpdateOCStatus, Vote
  <2> QED BY <1>0, <1>m, <2>3, <2>4
<1> QED BY <1>3, <1>4

(* A center starts anew with a higher life, or stays in its life, and then  *)
(* has not taken back a proposal it made.                                   *)
LEMMA MadeKept ==
  ASSUME IInv, [Next]_vars
  PROVE  /\ \A f \in Centers : life'[f] \in Nat /\ life'[f] >= life[f]
         /\ \A f \in Centers, n \in Nat : Made(f, n) => Made(f, n)'
PROOF
<1> DEFINE P == {"down", "started", "inquired", "clocked", "timed", "named", "up"}
<1>0. /\ life \in [Centers -> Nat] /\ pc \in [Centers -> P]
  BY DEF IInv, TypeOK
<1>1. \A f \in Centers :
        \/ life'[f] = life[f] + 1
        \/ life'[f] = life[f] /\ (pc[f] \in {"up", "down"} => pc'[f] \in {"up", "down"})
  <2>1. ASSUME NEW c \in Centers, NEW now \in Times, StartCenter(c, now)
        PROVE  \A f \in Centers : \/ life'[f] = life[f] + 1
                                  \/ life'[f] = life[f] /\ pc'[f] = pc[f]
    BY <1>0, <2>1 DEF StartCenter
  <2>2. ASSUME NEW c \in Centers, MainStep(c)
        PROVE  life' = life /\ \A f \in Centers :
                  pc[f] \in {"up", "down"} => pc'[f] \in {"up", "down"}
    BY <1>0, <2>2 DEF MainStep, InquiryCenters, IncreaseLogicalClock,
       ReadLeaderStartTime, ReadLeaderName, BroadcastProposal
  <2>3. ASSUME NEW c \in Centers, SendStep(c) \/ ProcessCenterData(c)
        PROVE  life' = life /\ pc' = pc
    BY <2>3 DEF SendStep, Deliver, Lose, Unparsed, ProcessCenterData
  <2>4. ASSUME NEW c \in Centers, Crash(c)
        PROVE  life' = life /\ \A f \in Centers :
                  pc[f] \in {"up", "down"} => pc'[f] \in {"up", "down"}
    BY <1>0, <2>4 DEF Crash
  <2>5. CASE UNCHANGED vars
    BY <2>5 DEF vars
  <2> QED BY <2>1, <2>2, <2>3, <2>4, <2>5 DEF Next
<1>2. \A f \in Centers : life[f] \in Nat
  BY <1>0
<1>3. \A f \in Centers : life'[f] \in Nat /\ life'[f] >= life[f]
  BY <1>1, <1>2
<1>4. ASSUME NEW f \in Centers, NEW n \in Nat, Made(f, n) PROVE Made(f, n)'
  BY <1>1, <1>2, <1>4 DEF Made
<1> QED BY <1>3, <1>4

(* A step that adds nothing to the queues, the out sets and the counted     *)
(* proposals, and changes no votes, keeps the invariant.                    *)
LEMMA VoteInvKept ==
  ASSUME IInv, VoteInv, [Next]_vars, others' = others, counted' = counted,
         \A c \in Centers : queue'[c] = queue[c] \/ queue'[c] = <<>>,
         \A f \in Centers : out'[f] \subseteq out[f],
         \A f \in Centers : out'[f] # {} =>
              life'[f] = life[f] /\ (pc[f] = "up" => pc'[f] = "up")
  PROVE  VoteInv'
PROOF
<1>1. \A f \in Centers, n \in Nat : Made(f, n) => Made(f, n)'
  BY MadeKept
<1>2. \A c \in Centers : \A k \in DOMAIN queue'[c] :
         k \in DOMAIN queue[c] /\ queue'[c][k] = queue[c][k]
  OBVIOUS
<1>3. \A c \in Centers : \A k \in DOMAIN queue[c] :
         queue[c][k].from \in Centers /\ queue[c][k].life \in Nat
  <2>1. \A c \in Centers : \A k \in DOMAIN queue[c] : queue[c][k] \in Messages
    BY ElementOfSeq DEF IInv, TypeOK
  <2> QED BY <2>1 DEF Messages
<1>4. MadeInv'
  <2>1. \A c, v : WasCounted(c, v)' <=> WasCounted(c, v)
    BY DEF WasCounted
  <2>2. (\A c \in Centers : \A k \in DOMAIN queue[c] :
           Made(queue[c][k].from, queue[c][k].life))'
    <3> SUFFICES ASSUME NEW c \in Centers, NEW k \in DOMAIN queue'[c]
                 PROVE  Made(queue[c][k].from, queue[c][k].life)'
      OBVIOUS
    <3>1. PICK f, n : f = queue[c][k].from /\ n = queue[c][k].life
      OBVIOUS
    <3>2. f \in Centers /\ n \in Nat /\ Made(f, n)
      BY <1>2, <1>3, <3>1 DEF VoteInv, MadeInv
    <3>3. Made(f, n)' /\ queue'[c][k].from = f /\ queue'[c][k].life = n
      BY <1>1, <1>2, <3>1, <3>2
    <3> QED BY <3>3 DEF Made
  <2>3. \A c, f \in Centers : \A n \in Nat : WasCounted(c, <<f, n>>)' => Made(f, n)'
    BY <1>1, <2>1 DEF VoteInv, MadeInv
  <2> QED BY <2>2, <2>3 DEF MadeInv, WasCounted
<1>5. OutInv'
  BY DEF VoteInv, OutInv
<1>6. OnceInv'
  <2>1. \A c, v : WasCounted(c, v)' <=> WasCounted(c, v)
    BY DEF WasCounted
  <2>2. \A c \in Centers : \A v : IsQueued(c, v)' => IsQueued(c, v)
    BY <1>2 DEF IsQueued
  <2>3. \A f \in Centers : \A p \in out'[f] : p.to \in Centers
    BY DEF IInv, TypeOK
  <2>4. /\ \A c \in Centers : \A j, k \in DOMAIN queue'[c] :
              Vote(queue'[c][j]) = Vote(queue'[c][k]) => j = k
        /\ \A c \in Centers : \A k \in DOMAIN queue'[c] :
              ~WasCounted(c, Vote(queue'[c][k]))
    BY <1>2 DEF VoteInv, OnceInv
  <2>5. \A f \in Centers : \A p \in out'[f] :
           ~IsQueued(p.to, Vote(p.msg)) /\ ~WasCounted(p.to, Vote(p.msg))
    BY DEF VoteInv, OnceInv
  <2> QED BY <2>1, <2>2, <2>3, <2>4, <2>5 DEF OnceInv, WasCounted, IsQueued
<1>7. CountInv'
  BY DEF VoteInv, CountInv, VotesAreProposals
<1> QED BY <1>4, <1>5, <1>6, <1>7 DEF VoteInv

(* The initial state: nothing is queued, sent or counted.                   *)
LEMMA InitVoteInv == Init => VoteInv
PROOF
<1> SUFFICES ASSUME Init PROVE VoteInv
  OBVIOUS
<1>1. /\ \A c \in Centers : queue[c] = <<>> /\ out[c] = {}
      /\ \A c, l \in Centers : counted[c][l] = {} /\ others[c][l].votes = 0
  BY DEF Init, NoEntry
<1>2. MadeInv /\ OutInv /\ OnceInv
  BY <1>1 DEF MadeInv, OutInv, OnceInv, WasCounted
<1>3. CountInv
  BY <1>1, FS_EmptySet DEF CountInv, VotesAreProposals
<1> QED BY <1>2, <1>3 DEF VoteInv

(* A center starts: its queue and out set are as before, its counted        *)
(* proposals are gone.                                                      *)
LEMMA StartCenterVotes ==
  ASSUME IInv, VoteInv, NEW c \in Centers, NEW now \in Times,
         StartCenter(c, now), [Next]_vars
  PROVE  VoteInv'
PROOF
<1>0. TypeOK
  BY DEF IInv
<1>1. queue' = queue /\ out' = out
  BY DEF StartCenter
<1>2. /\ counted'[c] = [l \in Centers |-> {}]
      /\ \A x \in Centers : x # c => counted'[x] = counted[x] /\ others'[x] = others[x]
      /\ others'[c] = InitialOthers(c)
  BY <1>0 DEF StartCenter, TypeOK
<1>3. \A x \in Centers : \A v : WasCounted(x, v)' => WasCounted(x, v)
  BY <1>2 DEF WasCounted
<1>4. \A f \in Centers, n \in Nat : Made(f, n) => Made(f, n)'
  BY MadeKept
<1>5. MadeInv'
  <2>1. (\A x \in Centers : \A k \in DOMAIN queue[x] :
           Made(queue[x][k].from, queue[x][k].life))'
    <3> SUFFICES ASSUME NEW x \in Centers, NEW k \in DOMAIN queue[x]
                 PROVE  Made(queue[x][k].from, queue[x][k].life)'
      BY <1>1
    <3>1. queue[x][k] \in Messages
      BY <1>0, ElementOfSeq DEF TypeOK
    <3>2. PICK f, n : f = queue[x][k].from /\ n = queue[x][k].life
      OBVIOUS
    <3>3. f \in Centers /\ n \in Nat /\ Made(f, n)
      BY <3>1, <3>2 DEF Messages, VoteInv, MadeInv
    <3>4. Made(f, n)'
      BY <1>4, <3>3
    <3> QED BY <1>1, <3>2, <3>4 DEF Made
  <2>2. \A x, f \in Centers : \A n \in Nat : WasCounted(x, <<f, n>>)' => Made(f, n)'
    BY <1>3, <1>4 DEF VoteInv, MadeInv
  <2> QED BY <2>1, <2>2 DEF MadeInv, WasCounted
<1>6. OutInv'
  <2>1. out[c] = {}
    BY DEF VoteInv, OutInv, StartCenter
  <2>2. \A f \in Centers : f # c => life'[f] = life[f] /\ pc'[f] = pc[f]
    BY <1>0 DEF StartCenter, TypeOK
  <2> QED BY <1>1, <2>1, <2>2 DEF VoteInv, OutInv
<1>7. OnceInv'
  <2>1. \A f \in Centers : \A p \in out[f] : p.to \in Centers
    BY <1>0 DEF TypeOK
  <2>2. /\ \A x \in Centers : \A k \in DOMAIN queue[x] :
              ~WasCounted(x, Vote(queue[x][k]))
        /\ \A f \in Centers : \A p \in out[f] :
              ~IsQueued(p.to, Vote(p.msg)) /\ ~WasCounted(p.to, Vote(p.msg))
        /\ \A x \in Centers : \A j, k \in DOMAIN queue[x] :
              Vote(queue[x][j]) = Vote(queue[x][k]) => j = k
    BY DEF VoteInv, OnceInv
  <2> QED BY <1>1, <1>3, <2>1, <2>2 DEF OnceInv, WasCounted, IsQueued
<1>8. CountInv'
  <2>1. \A l \in Centers : others'[c][l].votes = 0 /\ counted'[c][l] = {}
    BY <1>2 DEF InitialOthers, Entry, NoEntry
  <2>2. Cardinality({}) = 0 /\ IsFiniteSet({})
    BY FS_EmptySet
  <2>3. \A x, l \in Centers : /\ others'[x][l].votes = Cardinality(counted'[x][l])
                              /\ IsFiniteSet(counted'[x][l])
    <3> TAKE x, l \in Centers
    <3>1. CASE x = c
      BY <2>1, <2>2, <3>1
    <3>2. CASE x # c
      <4>1. counted'[x][l] = counted[x][l] /\ others'[x][l].votes = others[x][l].votes
        BY <1>2, <3>2
      <4> QED BY <4>1 DEF VoteInv, CountInv, VotesAreProposals
    <3> QED BY <3>1, <3>2
  <2> QED BY <2>3 DEF CountInv, VotesAreProposals
<1> QED BY <1>5, <1>6, <1>7, <1>8 DEF VoteInv

(* A center broadcasts its proposal, the only one of its life.              *)
LEMMA BroadcastVotes ==
  ASSUME IInv, VoteInv, NEW c \in Centers, BroadcastProposal(c), [Next]_vars
  PROVE  VoteInv'
PROOF
<1>0. TypeOK
  BY DEF IInv
<1> DEFINE m == Message(c, "PROPOSAL", "LOOKING", prop[c])
<1>1. m.from = c /\ m.life = life[c] /\ life[c] \in Nat
  BY <1>0 DEF Message, TypeOK
<1>2. out[c] = {}
  BY DEF VoteInv, OutInv, BroadcastProposal
<1>3. /\ \A p \in out'[c] : p.to \in Centers /\ p.msg = m
      /\ \A p, q \in out'[c] : p.to = q.to => p = q
      /\ \A f \in Centers : f # c => out'[f] = out[f]
  <2> HIDE DEF m
  <2>1. out' = [out EXCEPT ![c] = {[to |-> x, msg |-> m] : x \in Known(c)}]
    BY <1>2 DEF BroadcastProposal, Broadcast, m
  <2>2. out'[c] = {[to |-> x, msg |-> m] : x \in Known(c)}
    BY <1>0, <2>1 DEF TypeOK
  <2>3. Known(c) \subseteq Centers
    BY DEF Known
  <2> QED BY <1>0, <2>1, <2>2, <2>3 DEF TypeOK
<1> HIDE DEF m
<1>4. /\ queue' = queue /\ counted' = counted /\ others' = others /\ life' = life
      /\ pc[c] = "named" /\ pc'[c] = "up"
      /\ \A f \in Centers : f # c => pc'[f] = pc[f]
  BY <1>0 DEF BroadcastProposal, stateVars, TypeOK
<1>5. \A x, v : /\ WasCounted(x, v)' <=> WasCounted(x, v)
                /\ IsQueued(x, v)' <=> IsQueued(x, v)
  BY <1>4 DEF WasCounted, IsQueued
<1>6. MadeInv'
  <2>1. \A f, n : Made(f, n) /\ f \in Centers => Made(f, n)'
    BY <1>0, <1>4 DEF Made, TypeOK
  <2>2. (\A x \in Centers : \A k \in DOMAIN queue[x] :
           Made(queue[x][k].from, queue[x][k].life))'
    <3> SUFFICES ASSUME NEW x \in Centers, NEW k \in DOMAIN queue[x]
                 PROVE  Made(queue[x][k].from, queue[x][k].life)'
      BY <1>4
    <3>1. queue[x][k] \in Messages
      BY <1>0, ElementOfSeq DEF TypeOK
    <3>2. PICK f, n : f = queue[x][k].from /\ n = queue[x][k].life
      OBVIOUS
    <3>3. f \in Centers /\ Made(f, n)
      BY <3>1, <3>2 DEF Messages, VoteInv, MadeInv
    <3>4. Made(f, n)'
      BY <2>1, <3>3
    <3> QED BY <1>4, <3>2, <3>4 DEF Made
  <2>3. \A x, f \in Centers : \A n \in Nat : WasCounted(x, <<f, n>>)' => Made(f, n)'
    BY <1>5, <2>1 DEF VoteInv, MadeInv
  <2> QED BY <2>2, <2>3 DEF MadeInv, WasCounted
<1>7. OutInv'
  BY <1>1, <1>3, <1>4 DEF VoteInv, OutInv
<1>8. OnceInv'
  <2>1. ~Made(c, life[c])
    BY <1>1, <1>4 DEF Made
  <2>2. \A x \in Centers : ~IsQueued(x, <<c, life[c]>>)
    BY <2>1 DEF VoteInv, MadeInv, IsQueued, Vote
  <2>3. \A x \in Centers : ~WasCounted(x, <<c, life[c]>>)
    BY <1>1, <2>1 DEF VoteInv, MadeInv
  <2>4. \A f \in Centers : \A p \in out'[f] :
           ~IsQueued(p.to, Vote(p.msg)) /\ ~WasCounted(p.to, Vote(p.msg))
    <3> TAKE f \in Centers
    <3> TAKE p \in out'[f]
    <3>1. CASE f = c
      <4>1. Vote(p.msg) = <<c, life[c]>> /\ p.to \in Centers
        BY <1>1, <1>3, <3>1 DEF Vote
      <4> QED BY <2>2, <2>3, <4>1
    <3>2. CASE f # c
      BY <1>3, <3>2 DEF VoteInv, OnceInv
    <3> QED BY <3>1, <3>2
  <2>5. /\ \A x \in Centers : \A j, k \in DOMAIN queue[x] :
              Vote(queue[x][j]) = Vote(queue[x][k]) => j = k
        /\ \A x \in Centers : \A k \in DOMAIN queue[x] :
              ~WasCounted(x, Vote(queue[x][k]))
    BY DEF VoteInv, OnceInv
  <2> QED BY <1>4, <1>5, <2>4, <2>5 DEF OnceInv, WasCounted, IsQueued
<1>9. CountInv'
  BY <1>4 DEF VoteInv, CountInv, VotesAreProposals
<1> QED BY <1>6, <1>7, <1>8, <1>9 DEF VoteInv

(* A proposal moves from the out set to the receiver's queue.               *)
LEMMA DeliverVotes ==
  ASSUME IInv, VoteInv, NEW c \in Centers, NEW p \in out[c], Deliver(c, p),
         [Next]_vars
  PROVE  VoteInv'
PROOF
<1>0. TypeOK
  BY DEF IInv
<1> DEFINE y == p.to
           q == queue[y]
<1>1. y \in Centers /\ p.msg \in Messages /\ q \in Seq(Messages)
  BY <1>0 DEF TypeOK
<1>2. /\ p.msg.from = c /\ p.msg.life = life[c] /\ life[c] \in Nat /\ pc[c] = "up"
      /\ \A e \in out[c] : e.to = y => e = p
  BY <1>0 DEF TypeOK, VoteInv, OutInv
<1>3. /\ counted' = counted /\ others' = others /\ life' = life /\ pc' = pc
      /\ out'[c] = out[c] \ {p}
      /\ \A f \in Centers : f # c => out'[f] = out[f]
      /\ queue'[y] = Append(q, p.msg)
      /\ \A x \in Centers : x # y => queue'[x] = queue[x]
  BY <1>0, <1>1 DEF Deliver, stateVars, TypeOK
<1>4. /\ Len(q) \in Nat /\ DOMAIN q = 1 .. Len(q)
      /\ DOMAIN queue'[y] = 1 .. Len(q) + 1
      /\ \A k \in 1 .. Len(q) : queue'[y][k] = q[k]
      /\ queue'[y][Len(q) + 1] = p.msg
  BY <1>1, <1>3, AppendProperties, LenProperties
<1>5. /\ ~IsQueued(y, Vote(p.msg)) /\ ~WasCounted(y, Vote(p.msg))
  BY DEF VoteInv, OnceInv
<1>6. \A k \in DOMAIN queue'[y] :
         \/ k \in DOMAIN q /\ queue'[y][k] = q[k]
         \/ k = Len(q) + 1 /\ queue'[y][k] = p.msg
  BY <1>4
<1>7. \A x, v : WasCounted(x, v)' <=> WasCounted(x, v)
  BY <1>3 DEF WasCounted
<1>8. \A x \in Centers : \A v :
         IsQueued(x, v)' => IsQueued(x, v) \/ (x = y /\ v = Vote(p.msg))
  BY <1>3, <1>6 DEF IsQueued
<1> HIDE DEF y, q
<1>9. MadeInv'
  <2>1. \A f, n : Made(f, n)' <=> Made(f, n)
    BY <1>3 DEF Made
  <2>2. Made(c, life[c])
    BY <1>2 DEF Made
  <2>3. \A x \in Centers : \A k \in DOMAIN queue'[x] :
           Made(queue'[x][k].from, queue'[x][k].life)
    <3> TAKE x \in Centers
    <3> TAKE k \in DOMAIN queue'[x]
    <3>1. CASE x = y
      BY <1>1, <1>2, <1>6, <2>2, <3>1 DEF VoteInv, MadeInv, q
    <3>2. CASE x # y
      BY <1>3, <3>2 DEF VoteInv, MadeInv
    <3> QED BY <3>1, <3>2
  <2>4. \A x, f \in Centers : \A n \in Nat : WasCounted(x, <<f, n>>)' => Made(f, n)'
    BY <1>7, <2>1 DEF VoteInv, MadeInv
  <2> QED BY <1>3, <2>3, <2>4 DEF MadeInv, WasCounted, Made
<1>10. OutInv'
  BY <1>3 DEF VoteInv, OutInv
<1>11. OnceInv'
  <2>1. \A x \in Centers : \A j, k \in DOMAIN queue'[x] :
           Vote(queue'[x][j]) = Vote(queue'[x][k]) => j = k
    <3> TAKE x \in Centers
    <3> TAKE j, k \in DOMAIN queue'[x]
    <3>1. CASE x # y
      BY <1>3, <3>1 DEF VoteInv, OnceInv
    <3>2. CASE x = y
      <4>1. \A i \in DOMAIN q : Vote(q[i]) # Vote(p.msg)
        BY <1>5 DEF IsQueued, q
      <4>2. \A i, h \in DOMAIN q : Vote(q[i]) = Vote(q[h]) => i = h
        BY <1>1 DEF VoteInv, OnceInv, q
      <4> QED BY <1>6, <3>2, <4>1, <4>2
    <3> QED BY <3>1, <3>2
  <2>2. \A x \in Centers : \A k \in DOMAIN queue'[x] :
           ~WasCounted(x, Vote(queue'[x][k]))
    <3> TAKE x \in Centers
    <3> TAKE k \in DOMAIN queue'[x]
    <3>1. CASE x = y
      BY <1>1, <1>5, <1>6, <3>1 DEF VoteInv, OnceInv, q
    <3>2. CASE x # y
      BY <1>3, <3>2 DEF VoteInv, OnceInv
    <3> QED BY <3>1, <3>2
  <2>3. ASSUME NEW f \in Centers, NEW e \in out'[f]
        PROVE  ~IsQueued(e.to, Vote(e.msg))' /\ ~WasCounted(e.to, Vote(e.msg))
    <3>1. e \in out[f] /\ e.to \in Centers /\ e.msg.from = f
      <4>1. e \in out[f]
        BY <1>3, <2>3
      <4>2. e.to \in Centers
        BY <1>0, <4>1 DEF TypeOK
      <4> QED BY <4>1, <4>2 DEF VoteInv, OutInv
    <3>2. ~IsQueued(e.to, Vote(e.msg)) /\ ~WasCounted(e.to, Vote(e.msg))
      BY <3>1 DEF VoteInv, OnceInv
    <3>3. ~(e.to = y /\ Vote(e.msg) = Vote(p.msg))
      BY <1>2, <1>3, <2>3, <3>1 DEF Vote
    <3> QED BY <1>8, <3>1, <3>2, <3>3
  <2> QED BY <1>3, <2>1, <2>2, <2>3 DEF OnceInv, WasCounted, IsQueued
<1>12. CountInv'
  BY <1>3 DEF VoteInv, CountInv, VotesAreProposals
<1> QED BY <1>9, <1>10, <1>11, <1>12 DEF VoteInv

(* The election thread takes a proposal off its queue and may count it.     *)
LEMMA ProcessVotes ==
  ASSUME IInv, VoteInv, NEW c \in Centers, ProcessCenterData(c), [Next]_vars
  PROVE  VoteInv'
PROOF
<1>0. TypeOK
  BY DEF IInv
<1> DEFINE q == queue[c]
           m == Head(q)
<1>1. q \in Seq(Messages) /\ q # <<>>
  BY <1>0 DEF TypeOK, ProcessCenterData
<1>2. /\ m \in Messages /\ m = q[1] /\ 1 \in DOMAIN q /\ Len(q) \in Nat
      /\ DOMAIN Tail(q) = 1 .. Len(q) - 1 /\ DOMAIN q = 1 .. Len(q)
      /\ \A k \in 1 .. Len(q) - 1 : Tail(q)[k] = q[k + 1]
  BY <1>1, HeadTailProperties, LenProperties, ElementOfSeq
<1>3. Foreign(m, c) /\ m.from \in Centers /\ m.leader \in Centers /\ m.life \in Nat
  BY <1>2 DEF IInv, MessagesForeign, Messages
<1>4. /\ queue'[c] = Tail(q) /\ \A x \in Centers : x # c => queue'[x] = queue[x]
      /\ life' = life /\ pc' = pc
  BY <1>0 DEF ProcessCenterData, PopElectionMessage, TypeOK
<1>5. UpdateOCStatus(c, m)
        \/ UNCHANGED <<others, counted, leader, status, threads, out>>
  BY <1>3 DEF ProcessCenterData, Foreign
<1> HIDE DEF q, m
<1>6. out' = out
  BY <1>3, <1>2, <1>5, UpdateOCStatusKeeps
<1>7. \/ /\ counted' = counted
         /\ \A x, l \in Centers : others'[x][l].votes = others[x][l].votes
      \/ /\ counted'[c][m.leader] = counted[c][m.leader] \cup {Vote(m)}
         /\ others'[c][m.leader].votes = others[c][m.leader].votes + 1
         /\ \A x, l \in Centers : ~(x = c /\ l = m.leader) =>
               /\ counted'[x][l] = counted[x][l]
               /\ others'[x][l].votes = others[x][l].votes
  <2>1. CASE UpdateOCStatus(c, m)
    <3>1. m \in Messages
      BY <1>2
    <3>2. Foreign(m, c)
      BY <1>3
    <3> QED BY <2>1, <3>1, <3>2, VoteAdded
  <2>2. CASE UNCHANGED <<others, counted, leader, status, threads, out>>
    BY ONLY <2>2
  <2> QED BY ONLY <1>5, <2>1, <2>2
<1>8. /\ \A k \in DOMAIN queue'[c] : /\ k + 1 \in DOMAIN q /\ k + 1 # 1 /\ k \in Nat
                                     /\ queue'[c][k] = q[k + 1]
      /\ q = queue[c]
  BY <1>2, <1>4 DEF q
<1>9. /\ ~WasCounted(c, Vote(m)) /\ Made(m.from, m.life)
      /\ \A k \in DOMAIN q : k # 1 => Vote(q[k]) # Vote(m)
      /\ \A f \in Centers : \A p \in out[f] : p.to = c => Vote(p.msg) # Vote(m)
  BY <1>2 DEF VoteInv, MadeInv, OnceInv, IsQueued, q
<1>10. \A x \in Centers : \A v :
         WasCounted(x, v)' => WasCounted(x, v) \/ (x = c /\ v = Vote(m))
  BY <1>3, <1>7 DEF WasCounted
<1>11. \A x \in Centers : \A v : IsQueued(x, v)' => IsQueued(x, v)
  <2>1. ASSUME NEW v, IsQueued(c, v)' PROVE IsQueued(c, v)
    <3>1. PICK k \in DOMAIN queue'[c] : Vote(queue'[c][k]) = v
      BY <2>1 DEF IsQueued
    <3>2. k + 1 \in DOMAIN queue[c] /\ Vote(queue[c][k + 1]) = v
      BY <1>8, <3>1
    <3> QED BY <3>2 DEF IsQueued
  <2>2. ASSUME NEW x \in Centers, x # c, NEW v, IsQueued(x, v)' PROVE IsQueued(x, v)
    BY <1>4, <2>2 DEF IsQueued
  <2> QED BY <2>1, <2>2
<1>12. MadeInv'
  <2>1. \A f, n : Made(f, n)' <=> Made(f, n)
    BY <1>4 DEF Made
  <2>2. \A x \in Centers : \A k \in DOMAIN queue'[x] :
           Made(queue'[x][k].from, queue'[x][k].life)
    <3> TAKE x \in Centers
    <3> TAKE k \in DOMAIN queue'[x]
    <3>1. CASE x = c
      BY <1>8, <3>1 DEF VoteInv, MadeInv
    <3>2. CASE x # c
      BY <1>4, <3>2 DEF VoteInv, MadeInv
    <3> QED BY <3>1, <3>2
  <2>3. \A x, f \in Centers : \A n \in Nat : WasCounted(x, <<f, n>>)' => Made(f, n)'
    BY <1>9, <1>10, <2>1 DEF VoteInv, MadeInv, Vote
  <2> QED BY <1>4, <2>2, <2>3 DEF MadeInv, WasCounted, Made
<1>13. OutInv'
  BY <1>4, <1>6 DEF VoteInv, OutInv
<1>14. OnceInv'
  <2>1. \A x \in Centers : \A j, k \in DOMAIN queue'[x] :
           Vote(queue'[x][j]) = Vote(queue'[x][k]) => j = k
    <3> TAKE x \in Centers
    <3> TAKE j, k \in DOMAIN queue'[x]
    <3>1. CASE x = c
      <4>1. \A i, h \in DOMAIN q : Vote(q[i]) = Vote(q[h]) => i = h
        BY <1>8 DEF VoteInv, OnceInv
      <4>2. Vote(queue'[x][j]) = Vote(queue'[x][k]) => j + 1 = k + 1
        BY <1>8, <3>1, <4>1
      <4>3. j \in Nat /\ k \in Nat
        BY <1>8, <3>1
      <4> QED BY <4>2, <4>3
    <3>2. CASE x # c
      BY <1>4, <3>2 DEF VoteInv, OnceInv
    <3> QED BY <3>1, <3>2
  <2>2. ASSUME NEW x \in Centers, NEW k \in DOMAIN queue'[x], NEW v,
               v = Vote(queue'[x][k])
        PROVE  ~WasCounted(x, v)'
    <3>1. CASE x = c
      <4>1. v # Vote(m)
        BY <1>8, <1>9, <2>2, <3>1
      <4>2. ~WasCounted(x, v)
        BY <1>8, <2>2, <3>1 DEF VoteInv, OnceInv
      <4> QED BY <1>10, <4>1, <4>2
    <3>2. CASE x # c
      <4>1. ~WasCounted(x, v)
        BY <1>4, <2>2, <3>2 DEF VoteInv, OnceInv
      <4> QED BY <1>10, <3>2, <4>1
    <3> QED BY <3>1, <3>2
  <2>3. ASSUME NEW f \in Centers, NEW p \in out'[f], NEW v, NEW x,
               v = Vote(p.msg), x = p.to
        PROVE  ~IsQueued(x, v)' /\ ~WasCounted(x, v)'
    <3>1. p \in out[f]
      BY <1>6
    <3>2. x \in Centers
      BY <1>0, <2>3, <3>1 DEF TypeOK
    <3>3. ~IsQueued(x, v) /\ ~WasCounted(x, v)
      BY <2>3, <3>1 DEF VoteInv, OnceInv
    <3> QED BY <1>9, <1>10, <1>11, <2>3, <3>1, <3>2, <3>3
  <2>4. \A x \in Centers : \A k \in DOMAIN queue'[x] :
           ~WasCounted(x, Vote(queue[x][k]))'
    BY <2>2 DEF WasCounted
  <2>5. \A f \in Centers : \A p \in out'[f] :
           ~IsQueued(p.to, Vote(p.msg))' /\ ~WasCounted(p.to, Vote(p.msg))'
    BY <2>3
  <2> QED BY <2>1, <2>4, <2>5 DEF OnceInv
<1>15. CountInv'
  <2> SUFFICES ASSUME NEW x \in Centers, NEW l \in Centers
               PROVE  /\ others'[x][l].votes = Cardinality(counted'[x][l])
                      /\ IsFiniteSet(counted'[x][l])
    BY DEF CountInv, VotesAreProposals
  <2>1. others[x][l].votes = Cardinality(counted[x][l]) /\ IsFiniteSet(counted[x][l])
    BY DEF VoteInv, CountInv, VotesAreProposals
  <2>2. CASE counted'[x][l] = counted[x][l] /\ others'[x][l].votes = others[x][l].votes
    BY <2>1, <2>2
  <2>3. CASE /\ x = c /\ l = m.leader
             /\ counted'[x][l] = counted[x][l] \cup {Vote(m)}
             /\ others'[x][l].votes = others[x][l].votes + 1
    <3>1. Vote(m) \notin counted[x][l]
      BY <1>9, <2>3 DEF WasCounted
    <3>2. /\ IsFiniteSet(counted[x][l] \cup {Vote(m)})
          /\ Cardinality(counted[x][l] \cup {Vote(m)}) = Cardinality(counted[x][l]) + 1
      BY <2>1, <3>1, FS_AddElement
    <3> QED BY <2>1, <2>3, <3>2
  <2> QED BY <1>7, <2>2, <2>3
<1> QED BY <1>12, <1>13, <1>14, <1>15 DEF VoteInv

(* Every step keeps the invariant.                                          *)
LEMMA NextVoteInv == IInv /\ VoteInv /\ [Next]_vars => VoteInv'
PROOF
<1> SUFFICES ASSUME IInv, VoteInv, [Next]_vars PROVE VoteInv'
  OBVIOUS
<1>0. TypeOK
  BY DEF IInv
<1>1. ASSUME NEW c \in Centers, NEW now \in Times, StartCenter(c, now)
      PROVE  VoteInv'
  BY <1>1, StartCenterVotes
<1>2. ASSUME NEW c \in Centers,
             \/ InquiryCenters(c) \/ IncreaseLogicalClock(c)
             \/ ReadLeaderStartTime(c) \/ ReadLeaderName(c)
      PROVE  VoteInv'
  <2>1. /\ others' = others /\ counted' = counted /\ queue' = queue
        /\ out' = out /\ life' = life
        /\ \A f \in Centers : pc[f] = "up" => pc'[f] = "up"
    BY <1>0, <1>2 DEF InquiryCenters, IncreaseLogicalClock, ReadLeaderStartTime,
       ReadLeaderName, stateVars, TypeOK
  <2> QED BY <2>1, VoteInvKept
<1>3. ASSUME NEW c \in Centers, BroadcastProposal(c)
      PROVE  VoteInv'
  BY <1>3, BroadcastVotes
<1>4. ASSUME NEW c \in Centers, NEW p \in out[c], Deliver(c, p)
      PROVE  VoteInv'
  BY <1>4, DeliverVotes
<1>5. ASSUME NEW c \in Centers, NEW p \in out[c], Lose(c, p) \/ Unparsed(c, p)
      PROVE  VoteInv'
  <2>0. /\ out' = [out EXCEPT ![c] = @ \ {p}]
        /\ UNCHANGED <<stateVars, pc, life, queue, prop, starts>>
    BY <1>5 DEF Lose, Unparsed
  <2>1. /\ others' = others /\ counted' = counted /\ queue' = queue
        /\ pc' = pc /\ life' = life
        /\ \A f \in Centers : out'[f] \subseteq out[f]
    BY <1>0, <2>0 DEF stateVars, TypeOK
  <2> QED BY <2>1, VoteInvKept
<1>6. ASSUME NEW c \in Centers, ProcessCenterData(c)
      PROVE  VoteInv'
  BY <1>6, ProcessVotes
<1>7. ASSUME NEW c \in Centers, Crash(c)
      PROVE  VoteInv'
  <2>1. /\ others' = others /\ counted' = counted /\ life' = life
        /\ \A f \in Centers : queue'[f] = queue[f] \/ queue'[f] = <<>>
        /\ \A f \in Centers : out'[f] \subseteq out[f]
        /\ \A f \in Centers : out'[f] # {} => pc'[f] = pc[f]
    BY <1>0, <1>7 DEF Crash, TypeOK
  <2> QED BY <2>1, VoteInvKept
<1>8. CASE UNCHANGED vars
  <2>1. /\ others' = others /\ counted' = counted /\ queue' = queue
        /\ out' = out /\ life' = life /\ pc' = pc
    BY <1>8 DEF vars
  <2> QED BY <2>1, VoteInvKept
<1> QED
  BY <1>1, <1>2, <1>3, <1>4, <1>5, <1>6, <1>7, <1>8 DEF Next, MainStep, SendStep

(* In any cluster, whatever is lost and however often a center restarts,    *)
(* the vote_count UpdateOCStatus keeps for a center is the number of        *)
(* different proposals for it that have come: none is counted twice.        *)
THEOREM VotesAlwaysProposals == Spec => []VotesAreProposals
PROOF
<1>1. VoteInv => VotesAreProposals
  BY DEF VoteInv, CountInv
<1> QED BY InitIInv, NextIInv, InitVoteInv, NextVoteInv, <1>1, PTL DEF Spec

=============================================================================
