----------------------------- MODULE SyncProofs -----------------------------
(***************************************************************************)
(* The sync thread visits only living objects, for any number of owners    *)
(* and of objects.                                                         *)
(***************************************************************************)
EXTENDS Sync, TLAPS

UserSites == {"none", "spawn", "push", "alive", "warned", "erase", "stop", "join"}

\* A user in a constructor or a destructor.
Busy(u) == upc[u] \notin {"none", "alive"}

TypeOK ==
    /\ oneThread \in BOOLEAN
    /\ upc \in [Users -> UserSites]
    /\ syncs \subseteq Users
    /\ thread \in Nat
    /\ started \in Nat
    /\ tpc \in [ThreadIds -> {"unborn", "test", "wait", "round", "ended"}]
    /\ todo \in [ThreadIds -> SUBSET Users]

\* What a round has still to visit is registered: the registry changes only
\* while no round holds the mutex.
Rounds ==
    \A k \in ThreadIds :
        IF tpc[k] = "round" THEN todo[k] \subseteq syncs ELSE todo[k] = {}

\* Owners in one thread: at most one is in a call; the registry holds the
\* objects that are alive; and while there is none of those the thread may be
\* missing, but never while there is one.
Ordered ==
    oneThread =>
        /\ \A u, v \in Users : Busy(u) /\ Busy(v) => u = v
        /\ \A u \in Users : upc[u] # "warned"
        /\ syncs = {u \in Users : upc[u] \in {"alive", "erase"}}
        /\ thread = NoThread => \A u \in Users : upc[u] \in {"none", "spawn"}
        /\ (\E u \in Users : upc[u] \in {"stop", "join"}) => syncs = {}

\* Threads are numbered in the order in which they are started.
Numbered == \A k \in ThreadIds : k > started => tpc[k] = "unborn"

Inv == TypeOK /\ Rounds /\ Numbered /\ Ordered

-----------------------------------------------------------------------------
USE DEF UserGoto, MayCall, NoThread, userVars, threadVars

LEMMA InvInit == Init => Inv
BY DEF Init, Inv, TypeOK, UserSites, Rounds, Numbered, Ordered, Busy

\* The constructor.
LEMMA ConstructorKeeps ==
    ASSUME Inv, NEW u \in Users, AddCheck(u) \/ Construct(u)
    PROVE  Inv'
<1> USE DEF Inv, TypeOK, UserSites
<1>1. CASE AddCheck(u)
  <2>1. TypeOK' /\ Rounds' /\ Numbered'
    BY <1>1 DEF AddCheck, Rounds, Numbered
  <2>2. Ordered'
    BY <1>1 DEF AddCheck, Ordered, Busy
  <2> QED BY <2>1, <2>2
<1>2. CASE AddSpawn(u)
  <2>0. tpc' = [tpc EXCEPT ![started + 1] = "test"] /\ started' = started + 1
    BY <1>2 DEF AddSpawn
  <2>1. TypeOK'
    <3>1. tpc' \in [ThreadIds -> {"unborn", "test", "wait", "round", "ended"}]
      BY <2>0
    <3> QED BY <1>2, <3>1 DEF AddSpawn
  <2>2. Rounds' /\ Numbered'
    <3>1. todo' = todo
      BY <1>2 DEF AddSpawn
    <3>2. ASSUME NEW k \in ThreadIds
          PROVE  /\ IF tpc'[k] = "round" THEN todo'[k] \subseteq syncs' ELSE todo'[k] = {}
                 /\ k > started' => tpc'[k] = "unborn"
      <4>1. k \in Int
        BY DEF ThreadIds
      <4>2. CASE k = started + 1
        <5>1. tpc'[k] = "test" /\ k \notin {j \in ThreadIds : j > started'}
          BY <2>0, <4>2
        <5>2. tpc[k] = "unborn"
          BY <4>1, <4>2 DEF Numbered
        <5>3. todo[k] = {}
          BY <5>2 DEF Rounds
        <5> QED BY <3>1, <5>1, <5>3
      <4>3. CASE k # started + 1
        <5>1. tpc'[k] = tpc[k] /\ syncs' = syncs
          BY <1>2, <2>0, <4>3 DEF AddSpawn
        <5> QED BY <2>0, <3>1, <4>1, <4>3, <5>1 DEF Rounds, Numbered
      <4> QED BY <4>2, <4>3
    <3> QED BY <3>2 DEF Rounds, Numbered
  <2>3. Ordered'
    BY <1>2 DEF AddSpawn, Ordered, Busy
  <2> QED BY <2>1, <2>2, <2>3
<1>3. CASE AddPush(u)
  <2>1. TypeOK' /\ Rounds' /\ Numbered'
    BY <1>3 DEF AddPush, Rounds, Numbered, MutexFree
  <2>2. Ordered'
    BY <1>3 DEF AddPush, Ordered, Busy
  <2> QED BY <2>1, <2>2
<1> QED BY <1>1, <1>2, <1>3 DEF Construct

\* The destructor.
LEMMA DestructorKeeps ==
    ASSUME Inv, NEW u \in Users, RemoveCheck(u) \/ Destruct(u)
    PROVE  Inv'
<1> USE DEF Inv, TypeOK, UserSites
<1>1. CASE RemoveCheck(u)
  <2>1. TypeOK' /\ Rounds' /\ Numbered'
    BY <1>1 DEF RemoveCheck, Rounds, Numbered
  <2>2. Ordered'
    BY <1>1 DEF RemoveCheck, Ordered, Busy
  <2> QED BY <2>1, <2>2
<1>2. CASE RemoveWarned(u)
  <2>1. TypeOK' /\ Rounds' /\ Numbered'
    BY <1>2 DEF RemoveWarned, Rounds, Numbered
  <2>2. Ordered'
    BY <1>2 DEF RemoveWarned, Ordered, Busy
  <2> QED BY <2>1, <2>2
<1>3. CASE RemoveErase(u)
  <2>1. TypeOK' /\ Rounds' /\ Numbered'
    BY <1>3 DEF RemoveErase, Rounds, Numbered, MutexFree
  <2>2. Ordered'
    BY <1>3 DEF RemoveErase, Ordered, Busy
  <2> QED BY <2>1, <2>2
<1>4. CASE StopThread(u)
  <2>1. TypeOK' /\ Rounds' /\ Numbered'
    BY <1>4 DEF StopThread, Rounds, Numbered
  <2>2. Ordered'
    BY <1>4 DEF StopThread, Ordered, Busy
  <2> QED BY <2>1, <2>2
<1>5. CASE JoinThread(u)
  <2>1. TypeOK' /\ Rounds' /\ Numbered'
    BY <1>5 DEF JoinThread, Rounds, Numbered
  <2>2. Ordered'
    BY <1>5 DEF JoinThread, Ordered, Busy
  <2> QED BY <2>1, <2>2
<1> QED BY <1>1, <1>2, <1>3, <1>4, <1>5 DEF Destruct

\* The sync thread.
LEMMA ThreadKeeps ==
    ASSUME Inv, NEW k \in ThreadIds, Thread(k)
    PROVE  Inv'
<1> USE DEF Inv, TypeOK, Thread, ThreadTest, ThreadWake, Trigger, EndRound, ThreadGoto
<1>1. TypeOK'
  OBVIOUS
<1>2. Rounds' /\ Numbered'
  BY DEF Rounds, Numbered, ThreadIds
<1>3. Ordered'
  BY DEF Ordered, Busy
<1> QED BY <1>1, <1>2, <1>3

LEMMA InvStep == ASSUME Inv, [Next]_vars PROVE Inv'
<1>1. ASSUME NEW u \in Users, AddCheck(u) \/ Construct(u) \/ RemoveCheck(u) \/ Destruct(u)
      PROVE  Inv'
  BY <1>1, ConstructorKeeps, DestructorKeeps
<1>2. ASSUME NEW k \in ThreadIds, Thread(k) PROVE Inv'
  BY <1>2, ThreadKeeps
<1>3. CASE Done \/ UNCHANGED vars
  BY <1>3 DEF Done, vars, Inv, TypeOK, Rounds, Numbered, Ordered, Busy
<1> QED BY <1>1, <1>2, <1>3 DEF Next

\* The rounds, the registry and the owners' calls stay in step.
THEOREM InvHolds == Spec => []Inv
<1>1. Init => Inv
  BY InvInit
<1>2. Inv /\ [Next]_vars => Inv'
  BY InvStep
<1> QED BY <1>1, <1>2, PTL DEF Spec

\* With the owners in one thread, the sync thread triggers only objects whose
\* destructor has not yet taken them out of the registry.
THEOREM VisitsOnlyLiveObjects == Spec => []VisitsLiveObjects
<1>1. Inv => VisitsLiveObjects
  BY DEF Inv, TypeOK, Rounds, Ordered, VisitsLiveObjects
<1> QED BY <1>1, InvHolds, PTL

=============================================================================
