------------------------- MODULE RpcCenterElection -------------------------
(***************************************************************************)
(* The leader election of a cluster of rpc centers (rpc_center/             *)
(* rpc_center.cpp, election_thread.cpp): every center starts its server and *)
(* election threads, asks the other centers, proposes a leader to all of    *)
(* them, and counts the proposals it receives.                              *)
(*                                                                          *)
(* A center runs two threads that matter here: main (pc) walks through      *)
(* StartCenter, the election thread takes messages from its queue.  Peers   *)
(* are reached over one connection per message; a send reaches the queue of *)
(* a running center or is lost.  A center may crash and be started again    *)
(* with nothing remembered.                                                 *)
(***************************************************************************)
EXTENDS Integers, Sequences, FiniteSets

CONSTANTS
    Centers,        \* addresses; their order is that of string comparison
    CenterList,     \* the addresses each center reads from its centers file
    Times,          \* values of time(0) when a center starts
    MaxStarts,      \* bound: processes started, restarts included
    Lossy           \* whether connections fail and centers crash

ASSUME ElectionAssumption ==
    /\ Centers \subseteq Nat /\ IsFiniteSet(Centers)
    /\ CenterList \in [Centers -> SUBSET Centers]
    /\ Times \subseteq Nat
    /\ MaxStarts \in Nat
    /\ Lossy \in BOOLEAN

VARIABLES
    pc,         \* main: "down", "started", "inquired", "clocked", "timed",
                \*       "named", "up"
    life,       \* how often the center was started
    start_time, \* start_time_
    logical_clock,
    status,     \* center_status_
    leader,     \* leader_infos_ptr_: leader_center and lc_start_time
    others,     \* other_centers_ptr_: which centers it holds, their votes
    threads,    \* running threads out of "election", "leader", "reporter"
    queue,      \* election_q_
    prop,       \* the leader ProposalLeaderElection has read to propose
    out,        \* what BroadcastInfo has still to send
    asked,      \* centers InquiryCenters has sent an INQUIRY to
    counted,    \* the proposals counted for each leader (a history variable)
    starts

vars == <<pc, life, start_time, logical_clock, status, leader, others,
          threads, queue, prop, out, asked, counted, starts>>
stateVars == <<start_time, logical_clock, status, leader, others, threads,
               asked, counted>>

Statuses == {"LOOKING", "FOLLOWING", "LEADING", "OBSERVING", "UNKONW"}
Messages == [action : {"PROPOSAL", "LEADER_CONFIRM"}, from : Centers,
             life : Nat, status : Statuses, clock : Nat, leader : Centers,
             lc_start_time : Nat]

(* An OtherCenter after the memset of InitRpcCenter, which turns the status *)
(* UNKONW just stored into LOOKING (in the mutant it does not); no entry.   *)
MutEntry == [known |-> TRUE, status |-> "UNKONW", votes |-> 0]
Entry == [known |-> TRUE, status |-> "LOOKING", votes |-> 0]
NoEntry == [known |-> FALSE, status |-> "LOOKING", votes |-> 0]
NoProposal(c) == [addr |-> c, start |-> 0]

Others(c) == CenterList[c] \ {c}

(* Mutant: the local address is not skipped.                                *)
MutInitialOthers(c) ==
    [x \in Centers |-> IF x \in CenterList[c] THEN Entry ELSE NoEntry]

(* The other centers of the centers file, and the votes an election takes.  *)
InitialOthers(c) == [x \in Centers |-> IF x \in Others(c) THEN Entry ELSE NoEntry]
ElectionDoneNum(c) == (Cardinality(Others(c)) + 1) \div 2 + 1
Known(c) == {x \in Centers : others[c][x].known}

Init ==
    /\ pc = [c \in Centers |-> "down"]
    /\ life = [c \in Centers |-> 0]
    /\ start_time = [c \in Centers |-> 0]
    /\ logical_clock = [c \in Centers |-> 0]
    /\ status = [c \in Centers |-> "LOOKING"]
    /\ leader = [c \in Centers |-> [addr |-> c, start |-> 0]]
    /\ others = [c \in Centers |-> [x \in Centers |-> NoEntry]]
    /\ threads = [c \in Centers |-> {}]
    /\ queue = [c \in Centers |-> <<>>]
    /\ prop = [c \in Centers |-> NoProposal(c)]
    /\ out = [c \in Centers |-> {}]
    /\ asked = [c \in Centers |-> {}]
    /\ counted = [c \in Centers |-> [l \in Centers |-> {}]]
    /\ starts = 0

-----------------------------------------------------------------------------
(* The constructor, InitRpcCenter, and the start of the server thread and   *)
(* of the election thread.                                                  *)
StartCenter(c, now) ==
    /\ pc[c] = "down" /\ starts < MaxStarts
    /\ starts' = starts + 1
    /\ pc' = [pc EXCEPT ![c] = "started"]
    /\ life' = [life EXCEPT ![c] = @ + 1]
    /\ start_time' = [start_time EXCEPT ![c] = now]
    /\ logical_clock' = [logical_clock EXCEPT ![c] = 0]
    /\ status' = [status EXCEPT ![c] = "LOOKING"]
    /\ leader' = [leader EXCEPT ![c] = [addr |-> c, start |-> now]]
    /\ others' = [others EXCEPT ![c] = InitialOthers(c)]
    /\ threads' = [threads EXCEPT ![c] = {"election"}]
    /\ asked' = [asked EXCEPT ![c] = {}]
    /\ counted' = [counted EXCEPT ![c] = [l \in Centers |-> {}]]
    /\ UNCHANGED <<queue, prop, out>>

(* InquiryCenters asks the centers whose status is UNKONW.  What it would   *)
(* do with their answers is not modelled: there never is such a center.     *)
InquiryCenters(c) ==
    /\ pc[c] = "started"
    /\ asked' = [asked EXCEPT
                   ![c] = {x \in Known(c) : others[c][x].status = "UNKONW"}]
    /\ pc' = [pc EXCEPT ![c] = "inquired"]
    /\ UNCHANGED <<life, start_time, logical_clock, status, leader, others,
                   threads, queue, prop, out, counted, starts>>

IncreaseLogicalClock(c) ==
    /\ pc[c] = "inquired"
    /\ logical_clock' = [logical_clock EXCEPT ![c] = @ + 1]
    /\ pc' = [pc EXCEPT ![c] = "clocked"]
    /\ UNCHANGED <<life, start_time, status, leader, others, threads, queue,
                   prop, out, asked, counted, starts>>

Message(c, action, st, l) ==
    [action |-> action, from |-> c, life |-> life[c], status |-> st,
     clock |-> logical_clock[c], leader |-> l.addr, lc_start_time |-> l.start]

(* BroadcastInfo(m): one message for every known center, sent one by one    *)
(* while the read lock on other_centers is held.                            *)
Broadcast(c, m) == {[to |-> x, msg |-> m] : x \in Known(c)}

(* The rest of ProposalLeaderElection reads the start time of the leader,   *)
(* then its name, each under a lock of its own, and broadcasts the two.     *)
ReadLeaderStartTime(c) ==
    /\ pc[c] = "clocked"
    /\ prop' = [prop EXCEPT ![c].start = leader[c].start]
    /\ pc' = [pc EXCEPT ![c] = "timed"]
    /\ UNCHANGED <<stateVars, life, queue, out, starts>>

ReadLeaderName(c) ==
    /\ pc[c] = "timed"
    /\ prop' = [prop EXCEPT ![c].addr = leader[c].addr]
    /\ pc' = [pc EXCEPT ![c] = "named"]
    /\ UNCHANGED <<stateVars, life, queue, out, starts>>

BroadcastProposal(c) ==
    /\ pc[c] = "named"
    /\ out' = [out EXCEPT
                 ![c] = @ \cup
                   Broadcast(c, Message(c, "PROPOSAL", "LOOKING", prop[c]))]
    /\ prop' = [prop EXCEPT ![c] = NoProposal(c)]
    /\ pc' = [pc EXCEPT ![c] = "up"]
    /\ UNCHANGED <<stateVars, life, queue, starts>>

(* TcpConnect and RpcSend to one center; its CenterProcessor parses the     *)
(* message and pushes it to the election queue.                             *)
Deliver(c, p) ==
    /\ p \in out[c] /\ pc[p.to] # "down"
    /\ out' = [out EXCEPT ![c] = @ \ {p}]
    /\ queue' = [queue EXCEPT ![p.to] = Append(@, p.msg)]
    /\ UNCHANGED <<stateVars, pc, life, prop, starts>>

(* CenterProcessor does not parse it: LOOKING is encoded as a 0 byte, at    *)
(* which the bytes received are cut (RpcFraming).  With the numbers in      *)
(* centers.proto no proposal is ever parsed; Deliver is kept for them, so   *)
(* that what is shown of the election does not rest on that.                *)
Unparsed(c, p) ==
    /\ p \in out[c] /\ pc[p.to] # "down" /\ p.msg.status = "LOOKING"
    /\ out' = [out EXCEPT ![c] = @ \ {p}]
    /\ UNCHANGED <<stateVars, pc, life, queue, prop, starts>>

(* The connection fails, always so when nobody listens.                     *)
Lose(c, p) ==
    /\ p \in out[c] /\ (Lossy \/ pc[p.to] = "down")
    /\ out' = [out EXCEPT ![c] = @ \ {p}]
    /\ UNCHANGED <<stateVars, pc, life, queue, prop, starts>>

-----------------------------------------------------------------------------
(***************************************************************************)
(* The election thread.                                                     *)
(***************************************************************************)

(* LeaderPredicate(m) = ACCEPT at center c.                                 *)
LeaderPredicate(c, m) ==
    \/ m.clock > logical_clock[c]
    \/ /\ m.clock = logical_clock[c]
       /\ \/ m.lc_start_time < leader[c].start
          \/ m.lc_start_time = leader[c].start /\ leader[c].addr < m.leader

(* Mutant: the entry of a known proposer is made anew as well.              *)
MutWithProposer(c, m) ==
    [others[c] EXCEPT ![m.from] =
        [known |-> TRUE, status |-> m.status, votes |-> 0]]

(* UpdateOCStatus, first section: the entry of the proposer.                *)
WithProposer(c, m) ==
    [others[c] EXCEPT ![m.from] =
        [known |-> TRUE, status |-> m.status, votes |-> @.votes]]

(* Second section: a vote for the proposed leader if it has an entry.       *)
Counts(c, m) == WithProposer(c, m)[m.leader].known

(* Mutant: the vote is subtracted.                                          *)
MutWithVote(c, m) ==
    IF Counts(c, m)
      THEN [WithProposer(c, m) EXCEPT ![m.leader].votes = @ - 1]
      ELSE WithProposer(c, m)

WithVote(c, m) ==
    IF Counts(c, m)
      THEN [WithProposer(c, m) EXCEPT ![m.leader].votes = @ + 1]
      ELSE WithProposer(c, m)

(* Mutant: > election_done_num_ / 2 instead of >= election_done_num_.       *)
MutElected(c, m) ==
    Counts(c, m) /\ 2 * WithVote(c, m)[m.leader].votes >= ElectionDoneNum(c)

(* vote_count has reached election_done_num_.                               *)
Elected(c, m) ==
    Counts(c, m) /\ WithVote(c, m)[m.leader].votes >= ElectionDoneNum(c)

(* The write lock on the other centers is free: no broadcast is under way.  *)
OthersUnlocked(c) == out[c] = {}

(* UpdateOCStatus(m): count the vote; when it decides, adopt the leader and *)
(* either lead, and say so, or observe.  It takes the write lock on the     *)
(* other centers, so it waits for a broadcast to end.                       *)
UpdateOCStatus(c, m) ==
    LET won == Elected(c, m) /\ m.leader = c
    IN  /\ OthersUnlocked(c)
        /\ others' = [others EXCEPT ![c] = WithVote(c, m)]
        /\ counted' = [counted EXCEPT ![c][m.leader] =
                         IF Counts(c, m) THEN @ \cup {<<m.from, m.life>>} ELSE @]
        /\ leader' = [leader EXCEPT ![c] =
                        IF Elected(c, m)
                          THEN [addr |-> m.leader, start |-> m.lc_start_time]
                          ELSE @]
        /\ status' = [status EXCEPT ![c] =
                        IF won THEN "LEADING"
                        ELSE IF Elected(c, m) /\ @ # "FOLLOWING"
                          THEN "OBSERVING" ELSE @]
        /\ threads' = [threads EXCEPT ![c] =
                         IF won THEN (@ \cup {"leader"}) \ {"election"} ELSE @]
        /\ out' = [out EXCEPT ![c] =
                     IF won
                       THEN Broadcast(c, Message(c, "LEADER_CONFIRM", "LEADING",
                                         [addr |-> c, start |-> start_time[c]]))
                       ELSE @]

(* LEADER_CONFIRM: the reporter thread starts; a leader that passes the     *)
(* predicate is followed.                                                   *)
LeaderConfirm(c, m) ==
    /\ status' = [status EXCEPT ![c] =
                    IF LeaderPredicate(c, m) THEN "FOLLOWING" ELSE @]
    /\ threads' = [threads EXCEPT ![c] =
                     IF LeaderPredicate(c, m)
                       THEN (@ \cup {"reporter"}) \ {"leader"}
                       ELSE @ \cup {"reporter"}]
    /\ UNCHANGED <<others, counted, leader, out>>

(* The queue after PopElectionMessage.                                      *)
PopElectionMessage(c) == Tail(queue[c])

(* One round of ElectionThread::Run: pop a message, ProcessCenterData.      *)
ProcessCenterData(c) ==
    /\ "election" \in threads[c] /\ queue[c] # <<>>
    /\ queue' = [queue EXCEPT ![c] = PopElectionMessage(c)]
    /\ LET m == Head(queue[c])
       IN  IF m.action = "LEADER_CONFIRM"
             THEN LeaderConfirm(c, m)
             ELSE IF LeaderPredicate(c, m)
               THEN UpdateOCStatus(c, m)
               ELSE UNCHANGED <<others, counted, leader, status, threads, out>>
    /\ UNCHANGED <<pc, life, start_time, logical_clock, prop, asked, starts>>

(* The process ends, at any point.                                          *)
Crash(c) ==
    /\ Lossy /\ pc[c] # "down"
    /\ pc' = [pc EXCEPT ![c] = "down"]
    /\ threads' = [threads EXCEPT ![c] = {}]
    /\ queue' = [queue EXCEPT ![c] = <<>>]
    /\ prop' = [prop EXCEPT ![c] = NoProposal(c)]
    /\ out' = [out EXCEPT ![c] = {}]
    /\ UNCHANGED <<life, start_time, logical_clock, status, leader, others,
                   asked, counted, starts>>

-----------------------------------------------------------------------------
MainStep(c) ==
    \/ InquiryCenters(c) \/ IncreaseLogicalClock(c)
    \/ ReadLeaderStartTime(c) \/ ReadLeaderName(c) \/ BroadcastProposal(c)
SendStep(c) == \E p \in out[c] : Deliver(c, p) \/ Unparsed(c, p) \/ Lose(c, p)

Next ==
    \E c \in Centers :
        \/ \E now \in Times : StartCenter(c, now)
        \/ MainStep(c) \/ SendStep(c) \/ ProcessCenterData(c) \/ Crash(c)

Spec == Init /\ [][Next]_vars

(***************************************************************************)
(* Fairness: every center is started, and its threads keep running.  A      *)
(* center need not crash.                                                   *)
(***************************************************************************)
Fairness ==
    \A c \in Centers :
        /\ WF_vars(\E now \in Times : StartCenter(c, now))
        /\ WF_vars(MainStep(c))
        /\ WF_vars(SendStep(c))
        /\ WF_vars(ProcessCenterData(c))

FairSpec == Spec /\ Fairness

-----------------------------------------------------------------------------
(***************************************************************************)
(* Properties.                                                              *)
(***************************************************************************)

(* Type invariant: statuses, clocks, entries and messages are well formed.  *)
TypeOK ==
    /\ pc \in [Centers -> {"down", "started", "inquired", "clocked",
                        "timed", "named", "up"}]
    /\ life \in [Centers -> Nat]
    /\ start_time \in [Centers -> Nat]
    /\ logical_clock \in [Centers -> Nat]
    /\ status \in [Centers -> Statuses]
    /\ leader \in [Centers -> [addr : Centers, start : Nat]]
    /\ others \in [Centers -> [Centers ->
                      [known : BOOLEAN, status : Statuses, votes : Nat]]]
    /\ threads \in [Centers -> SUBSET {"election", "leader", "reporter"}]
    /\ queue \in [Centers -> Seq(Messages)]
    /\ prop \in [Centers -> [addr : Centers, start : Nat]]
    /\ out \in [Centers -> SUBSET [to : Centers, msg : Messages]]
    /\ asked \in [Centers -> SUBSET Centers]
    /\ counted \in [Centers -> [Centers -> SUBSET (Centers \X Nat)]]
    /\ starts \in Nat

(* A center gives up itself as leader only for one that has gathered        *)
(* election_done_num_ votes with it: the adoption in UpdateOCStatus is      *)
(* never reached by a mere proposal, in whatever order messages arrive.     *)
LeaderHasQuorum ==
    \A c \in Centers :
        leader[c].addr # c =>
            others[c][leader[c].addr].votes >= ElectionDoneNum(c)

(* Every vote a center has counted stands for a proposal of its own: none   *)
(* is counted twice, also across restarts of the proposer.                  *)
VotesAreProposals ==
    \A c, l \in Centers :
        others[c][l].votes = Cardinality(counted[c][l])

(* No center ever counts a vote for itself, so none ever leads: the local   *)
(* address is skipped by InitRpcCenter and is never inserted later, and     *)
(* UpdateOCStatus only counts votes for centers with an entry.  So nobody   *)
(* sends LEADER_CONFIRM either, and the leader and reporter threads, which  *)
(* start on it, never run.                                                  *)
NeverLeading ==
    \A c \in Centers : /\ ~others[c][c].known
                       /\ status[c] # "LEADING"
                       /\ threads[c] \subseteq {"election"}

(* InquiryCenters asks nobody, however the election goes: no entry is ever  *)
(* UNKONW, neither when it is made nor after a message about it.  This is   *)
(* what the code does and not what it is for: the comments in it and the    *)
(* repository's README have every center ask the others.                    *)
InquiryAsksNobody == \A c \in Centers : asked[c] = {}

(* The election elects: some center comes to lead.                          *)
LeaderElected == <>(\E c \in Centers : status[c] = "LEADING")
=============================================================================
