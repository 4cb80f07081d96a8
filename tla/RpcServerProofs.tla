-------------------------- MODULE RpcServerProofs --------------------------
(***************************************************************************)
(* Theorems about RpcServer, for any connections, registrars and number of  *)
(* methods.                                                                 *)
(***************************************************************************)
EXTENDS RpcServer, TLAPS

TypeInv ==
    /\ status \in [Conns -> Pool!Statuses]
    /\ reading \in BOOLEAN /\ readers \in BOOLEAN /\ twice \in BOOLEAN
    /\ sent \in [Conns -> {"none", "error", "unknown", "bad", "valid"}]
    /\ cpc \in [Conns -> {"none", "recv", "find", "parse", "refuse", "close", "end"}]
    /\ methods \in Nat /\ entry \in 0 .. methods /\ freed \subseteq 1 .. methods
    /\ held \in [Conns -> 0 .. methods] /\ closes \in [Conns -> Nat]
    /\ rpc \in [Registrars -> {"idle", "finding", "found"}]
    /\ made \in [Registrars -> 0 .. methods] /\ seen \in [Registrars -> 0 .. methods]
    /\ phase \in {"running", "deleting", "gone", "died"}

(* What a registrar is about to insert is its own, live and not yet in the  *)
(* map; an entry it has seen is still there, perhaps replaced.              *)
MadeApart ==
    \A r \in Registrars : rpc[r] # "idle" =>
        /\ made[r] \in 1 .. methods /\ made[r] # entry /\ made[r] \notin freed
        /\ \A q \in Registrars : rpc[q] # "idle" /\ made[q] = made[r] => q = r
        /\ rpc[r] = "found" /\ seen[r] # 0 => entry # 0

(* A call that parses uses the entry itself, as the read lock keeps it.     *)
HeldIsEntry == \A c \in Conns : cpc[c] = "parse" => held[c] = entry /\ entry # 0

MapInv ==
    phase = "running" => /\ entry \notin freed /\ ~twice
                         /\ MadeApart /\ HeldIsEntry

(* Where a call stands in RpcProcessor, its status in the pool and whether  *)
(* its connection was closed go together.                                   *)
CloseInv ==
    \A c \in Conns :
        /\ status[c] \in {"none", "accepted"} => cpc[c] = "none" /\ closes[c] = 0
        /\ status[c] = "running" => cpc[c] \notin {"none", "end"} /\ closes[c] = 0
        /\ status[c] = "rejected" => cpc[c] = "none" /\ closes[c] = 1
        /\ status[c] = "finished" => cpc[c] = "end" /\ closes[c] = 1
        /\ status[c] = "killed" => cpc[c] = "end" /\ closes[c] <= 1

IInv == TypeInv /\ MapInv /\ CloseInv

USE DEF connVars, mapVars, connRest, Pool!Statuses

(* The server starts with no method registered and no connection.           *)
LEMMA InitIInv == Init => IInv
<1> SUFFICES ASSUME Init PROVE IInv
    OBVIOUS
<1> USE DEF Init, Pool!Init
<1>1. TypeInv
  <2>1. 0 \in 0 .. methods /\ entry \in 0 .. methods /\ methods \in Nat
    OBVIOUS
  <2>2. made \in [Registrars -> 0 .. methods] /\ seen \in [Registrars -> 0 .. methods]
    BY <2>1
  <2>3. held \in [Conns -> 0 .. methods] /\ closes \in [Conns -> Nat]
    BY <2>1
  <2> QED BY <2>1, <2>2, <2>3 DEF TypeInv
<1>2. MapInv
    BY DEF MapInv, MadeApart, HeldIsEntry
<1>3. CloseInv
    BY DEF CloseInv
<1> QED BY <1>1, <1>2, <1>3 DEF IInv

(* Only the registrars and the destructor change the map.                   *)
LEMMA MapSteps ==
    ASSUME IInv, NEW r \in Registrars,
           FindBegin(r) \/ FindMethod(r) \/ FindFaults(r)
             \/ InsertMethod(r) \/ ReplaceMethod(r) \/ InsertOther(r)
    PROVE  IInv'
<1> USE ServerAssumption DEF IInv
<1>1. CASE FindBegin(r)
  <2> USE <1>1 DEF FindBegin
  <2>1. TypeInv'
    BY DEF TypeInv
  <2>2. MapInv'
    BY DEF TypeInv, MapInv, MadeApart, HeldIsEntry
  <2>3. CloseInv'
    BY DEF CloseInv
  <2> QED BY <2>1, <2>2, <2>3
<1>4. CASE FindMethod(r)
  <2> USE <1>4 DEF FindMethod
  <2>0. PICK found \in 0 .. methods :
            (found = entry \/ found = 0) /\ seen' = [seen EXCEPT ![r] = found]
    <3>1. PICK found \in {entry} \cup (IF r \in disturbed THEN {0} ELSE {}) :
              seen' = [seen EXCEPT ![r] = found]
        OBVIOUS
    <3>2. (found = entry \/ found = 0) /\ found \in 0 .. methods
        BY DEF TypeInv
    <3> QED BY <3>1, <3>2
  <2>1. TypeInv'
    BY <2>0 DEF TypeInv
  <2>2. MapInv'
    BY <2>0 DEF TypeInv, MapInv, MadeApart, HeldIsEntry
  <2>3. CloseInv'
    BY DEF CloseInv
  <2> QED BY <2>1, <2>2, <2>3
<1>5. CASE FindFaults(r)
    BY <1>5 DEF FindFaults, TypeInv, MapInv, MadeApart, HeldIsEntry, CloseInv
<1>6. CASE InsertOther(r)
    BY <1>6 DEF InsertOther, Disturbing, TypeInv, MapInv, MadeApart, HeldIsEntry, CloseInv
<1>2. CASE InsertMethod(r)
  <2> USE <1>2 DEF InsertMethod, Registered, Disturbing
  <2>1. TypeInv'
    BY DEF TypeInv
  <2>2. MapInv'
    BY DEF TypeInv, MapInv, MadeApart, HeldIsEntry, Holding
  <2>3. CloseInv'
    BY DEF CloseInv
  <2> QED BY <2>1, <2>2, <2>3
<1>3. CASE ReplaceMethod(r)
  <2> USE <1>3 DEF ReplaceMethod, Registered, Disturbing, Victim
  <2>0. entry \in 1 .. methods /\ entry \notin freed /\ ~twice
    BY DEF TypeInv, MapInv, MadeApart
  <2>1. TypeInv'
    BY <2>0 DEF TypeInv
  <2>2. MapInv'
    BY <2>0 DEF TypeInv, MapInv, MadeApart, HeldIsEntry, Holding
  <2>3. CloseInv'
    BY DEF CloseInv
  <2> QED BY <2>1, <2>2, <2>3
<1> QED BY <1>1, <1>2, <1>3, <1>4, <1>5, <1>6

(* The steps of a call leave the map alone.                                 *)
LEMMA CallSteps ==
    ASSUME IInv, NEW c \in Conns,
           RpcCall(c) \/ Begin(c) \/ RpcProcessor(c)
             \/ Kill(c) \/ KillFaults(c) \/ UseAfterDelete(c)
    PROVE  IInv'
<1> USE DEF IInv, Goto, Closed, Pool!Move
<1>0. CASE RpcCallAccepted(c)
    BY <1>0 DEF RpcCallAccepted, TypeInv, MapInv, MadeApart, HeldIsEntry, CloseInv
<1>1. CASE RpcCallRejected(c)
  <2> USE <1>1 DEF RpcCallRejected
  <2>1. closes[c] = 0 /\ cpc[c] = "none"
    BY DEF CloseInv
  <2>2. TypeInv'
    BY DEF TypeInv
  <2>3. MapInv'
    BY DEF MapInv, MadeApart, HeldIsEntry
  <2>4. CloseInv'
    BY <2>1 DEF TypeInv, CloseInv
  <2> QED BY <2>2, <2>3, <2>4
<1>2. CASE Begin(c)
    BY <1>2 DEF Begin, TypeInv, MapInv, MadeApart, HeldIsEntry, CloseInv
<1>3. CASE Recv(c)
    BY <1>3 DEF Recv, Received, TypeInv, MapInv, MadeApart, HeldIsEntry, CloseInv
<1>4. CASE Find(c)
    BY <1>4 DEF Find, TypeInv, MapInv, MadeApart, HeldIsEntry, CloseInv
<1>5. CASE Parse(c)
    BY <1>5 DEF Parse, TypeInv, MapInv, MadeApart, HeldIsEntry, CloseInv
<1>6. CASE Close(c)
    BY <1>6 DEF Close, TypeInv, MapInv, MadeApart, HeldIsEntry, CloseInv
<1>7. CASE Kill(c)
    BY <1>7 DEF Kill, TypeInv, MapInv, MadeApart, HeldIsEntry, CloseInv
<1>8. CASE KillFaults(c) \/ UseAfterDelete(c)
  <2>1. phase' = "died" /\ UNCHANGED <<connRest, connVars>>
    BY <1>8 DEF KillFaults, UseAfterDelete
  <2> QED BY <2>1 DEF TypeInv, MapInv, CloseInv
<1> QED BY <1>0, <1>1, <1>2, <1>3, <1>4, <1>5, <1>6, <1>7, <1>8 DEF RpcCall, RpcProcessor

(* Every step preserves the inductive invariant.                            *)
LEMMA NextIInv == IInv /\ [Next]_vars => IInv'
<1> SUFFICES ASSUME IInv, [Next]_vars PROVE IInv'
    OBVIOUS
<1>1. CASE StartReaders
    BY <1>1 DEF StartReaders, IInv, TypeInv, MapInv, MadeApart, HeldIsEntry, CloseInv
<1>2. CASE Delete
    BY <1>2 DEF Delete, IInv, TypeInv, MapInv, CloseInv
<1>5. CASE PoolDeleted
    BY <1>5 DEF PoolDeleted, IInv, TypeInv, MapInv, CloseInv
<1>3. ASSUME NEW c \in Conns, NEW what \in {"error", "unknown", "bad", "valid"}, ClientSends(c, what)
      PROVE  IInv'
    BY <1>3 DEF ClientSends, IInv, TypeInv, MapInv, MadeApart, HeldIsEntry, CloseInv
<1>4. CASE UNCHANGED vars
    BY <1>4 DEF vars, IInv, TypeInv, MapInv, MadeApart, HeldIsEntry, CloseInv
<1> QED BY <1>1, <1>2, <1>3, <1>4, <1>5, MapSteps, CallSteps DEF Next

(* IInv holds in every state the server reaches.                            *)
LEMMA IInvAlways == Spec => []IInv
BY InitIInv, NextIInv, PTL DEF Spec

(* In any server, whichever threads register methods while others serve     *)
(* requests, and whatever a search that overlaps a change of the map finds  *)
(* short of a fault, neither the map nor a thread in ParseFromString refers *)
(* to a method that RegisteService has deleted, and none is deleted twice.  *)
THEOREM MethodsStayLive == Spec => []MethodsLive
<1>1. IInv => MethodsLive
    BY DEF IInv, MapInv, HeldIsEntry, MethodsLive
<1> QED BY <1>1, IInvAlways, PTL

(* In any server, every path through RpcCall and RpcProcessor closes its    *)
(* connection exactly once, and a killed thread's at most once.             *)
THEOREM ConnectionsClosedOnce == Spec => []ClosedOnce
<1>1. IInv => ClosedOnce
    BY DEF IInv, CloseInv, ClosedOnce, TypeInv
<1> QED BY <1>1, IInvAlways, PTL
=============================================================================
