-------------------------------- MODULE Sync --------------------------------
(***************************************************************************)
(* The registry of sync_t objects and the thread that triggers them        *)
(* (src/sync.cpp).  Constructing the first sync_t starts the thread,       *)
(* destroying the last one stops and joins it.  The pointer to the thread  *)
(* is read and written without the mutex.                                  *)
(***************************************************************************)
EXTENDS Integers, FiniteSets

CONSTANTS
    Users,          \* owners of one sync_t each at a time
    Lives           \* bound on the sync_t objects an owner constructs

ASSUME SyncAssumption ==
    Lives \in Nat \ {0} /\ IsFiniteSet(Users)

\* One std::thread per construction is the most that can be started.
MaxThreads == Cardinality(Users) * Lives
ThreadIds == 1..MaxThreads
NoThread == 0

VARIABLES
    oneThread,      \* whether the owners all live in the same thread
    upc,            \* where each user is
    lives,          \* sync_t objects each user has constructed
    syncs,          \* users whose sync_t is in global_sync_state_t::syncs
    saved,          \* users whose registered sync_t has been triggered
    thread,         \* global_sync_state_t::thread, or NoThread
    shouldRun,      \* global_sync_state_t::should_run
    started,        \* number of threads ever started
    tpc,            \* where each started thread is
    todo            \* per thread: syncs not yet visited in this round

vars == <<oneThread, upc, lives, syncs, saved, thread, shouldRun, started, tpc, todo>>
userVars == <<oneThread, upc, lives>>
threadVars == <<started, tpc, todo>>

Init ==
    /\ oneThread \in BOOLEAN
    /\ upc = [u \in Users |-> "none"]
    /\ lives = [u \in Users |-> 0]
    /\ syncs = {}
    /\ saved = {}
    /\ thread = NoThread
    /\ shouldRun = TRUE
    /\ started = 0
    /\ tpc = [k \in ThreadIds |-> "unborn"]
    /\ todo = [k \in ThreadIds |-> {}]

\* The mutex is held by a thread from its wake-up to the end of its round;
\* the users' critical sections are one step each.
MutexFree == \A k \in ThreadIds : tpc[k] # "round"

UserGoto(u, label) == upc' = [upc EXCEPT ![u] = label]

\* A thread calls one constructor or destructor at a time.
MayCall == oneThread => \A u \in Users : upc[u] \in {"none", "alive"}

-----------------------------------------------------------------------------
(* sync_t's constructor: add.                                              *)

AddCheck(u) ==
    /\ upc[u] = "none" /\ lives[u] < Lives /\ MayCall
    /\ lives' = [lives EXCEPT ![u] = @ + 1]
    /\ UserGoto(u, IF thread = NoThread THEN "spawn" ELSE "push")
    /\ UNCHANGED <<oneThread, syncs, saved, thread, shouldRun, threadVars>>

AddSpawn(u) ==
    /\ upc[u] = "spawn"
    /\ started' = started + 1
    /\ thread' = started + 1
    /\ tpc' = [tpc EXCEPT ![started + 1] = "test"]
    /\ UserGoto(u, "push")
    /\ UNCHANGED <<oneThread, lives, syncs, saved, shouldRun, todo>>

AddPush(u) ==
    /\ upc[u] = "push" /\ MutexFree
    /\ syncs' = syncs \cup {u}
    /\ saved' = saved \ {u}
    /\ UserGoto(u, "alive")
    /\ UNCHANGED <<oneThread, lives, thread, shouldRun, threadVars>>

-----------------------------------------------------------------------------
(* ~sync_t(): remove.                                                      *)

RemoveCheck(u) ==
    /\ upc[u] = "alive" /\ MayCall
    /\ UserGoto(u, IF thread = NoThread THEN "warned" ELSE "erase")
    /\ UNCHANGED <<oneThread, lives, syncs, saved, thread, shouldRun, threadVars>>

\* "Tried to remove sync ..., but no thread was running": the object is gone
\* and its pointer stays in syncs.
RemoveWarned(u) ==
    /\ upc[u] = "warned"
    /\ UserGoto(u, "none")
    /\ UNCHANGED <<oneThread, lives, syncs, saved, thread, shouldRun, threadVars>>

\* Mutated: the object is taken out without the mutex.
RemoveEraseUnlocked(u) ==
    /\ upc[u] = "erase"
    /\ syncs' = syncs \ {u}
    /\ UserGoto(u, IF syncs = {u} THEN "stop" ELSE "none")
    /\ UNCHANGED <<oneThread, lives, saved, thread, shouldRun, threadVars>>

RemoveErase(u) ==
    /\ upc[u] = "erase" /\ MutexFree
    /\ syncs' = syncs \ {u}
    /\ UserGoto(u, IF syncs = {u} THEN "stop" ELSE "none")
    /\ UNCHANGED <<oneThread, lives, saved, thread, shouldRun, threadVars>>

\* Mutated: the thread is joined without being told to stop.
StopThreadSilent(u) ==
    /\ upc[u] = "stop"
    /\ UserGoto(u, "join")
    /\ UNCHANGED <<oneThread, lives, syncs, saved, thread, shouldRun, threadVars>>

\* should_run = false, notify_all.
StopThread(u) ==
    /\ upc[u] = "stop"
    /\ shouldRun' = FALSE
    /\ UserGoto(u, "join")
    /\ UNCHANGED <<oneThread, lives, syncs, saved, thread, threadVars>>

\* thread->join(); delete thread; thread = nullptr.  Through a pointer that
\* another user has cleared the program fails; the user stays here.
JoinThread(u) ==
    /\ upc[u] = "join"
    /\ thread # NoThread
    /\ tpc[thread] = "ended"
    /\ thread' = NoThread
    /\ UserGoto(u, "none")
    /\ UNCHANGED <<oneThread, lives, syncs, saved, shouldRun, threadVars>>

-----------------------------------------------------------------------------
(* The thread.  Its wait ends after 100 ms whether it is notified or not.  *)

ThreadGoto(k, label) == tpc' = [tpc EXCEPT ![k] = label]

ThreadTest(k) ==
    /\ tpc[k] = "test"
    /\ ThreadGoto(k, IF shouldRun THEN "wait" ELSE "ended")
    /\ UNCHANGED <<userVars, syncs, saved, thread, shouldRun, started, todo>>

\* Mutated: the thread sleeps for good unless somebody notifies it.
ThreadWakeNotified(k) ==
    /\ tpc[k] = "wait" /\ MutexFree
    /\ ~shouldRun
    /\ todo' = [todo EXCEPT ![k] = syncs]
    /\ ThreadGoto(k, "round")
    /\ UNCHANGED <<userVars, syncs, saved, thread, shouldRun, started>>

ThreadWake(k) ==
    /\ tpc[k] = "wait" /\ MutexFree
    /\ todo' = [todo EXCEPT ![k] = syncs]
    /\ ThreadGoto(k, "round")
    /\ UNCHANGED <<userVars, syncs, saved, thread, shouldRun, started>>

\* sync->trigger(current_time), which saves when it is due.
\* sync_t::trigger.  Whether the object is due is left out: what counts is
\* that it is asked.
Triggered(u) == saved' = saved \cup {u}

Trigger(k) ==
    /\ tpc[k] = "round"
    /\ \E u \in todo[k] :
         /\ Triggered(u)
         /\ todo' = [todo EXCEPT ![k] = @ \ {u}]
    /\ UNCHANGED <<userVars, syncs, thread, shouldRun, started, tpc>>

EndRound(k) ==
    /\ tpc[k] = "round" /\ todo[k] = {}
    /\ ThreadGoto(k, "test")
    /\ UNCHANGED <<userVars, syncs, saved, thread, shouldRun, started, todo>>

-----------------------------------------------------------------------------
Construct(u) == AddSpawn(u) \/ AddPush(u)
Destruct(u) == RemoveWarned(u) \/ RemoveErase(u) \/ StopThread(u) \/ JoinThread(u)
Thread(k) == ThreadTest(k) \/ ThreadWake(k) \/ Trigger(k) \/ EndRound(k)

\* Every user is done with its objects.
Done ==
    /\ \A u \in Users : upc[u] \in {"none", "join"}
    /\ UNCHANGED vars

Next ==
    \/ \E u \in Users : AddCheck(u) \/ Construct(u) \/ RemoveCheck(u) \/ Destruct(u)
    \/ \E k \in ThreadIds : Thread(k)
    \/ Done

Spec == Init /\ [][Next]_vars

\* Users and threads run and are given the mutex in turn; nobody has to
\* construct or destroy an object.
FairSpec ==
    /\ Spec
    /\ \A u \in Users :
         /\ WF_vars(AddSpawn(u)) /\ SF_vars(AddPush(u))
         /\ WF_vars(RemoveWarned(u)) /\ SF_vars(RemoveErase(u))
         /\ WF_vars(StopThread(u)) /\ WF_vars(JoinThread(u))
    /\ \A k \in ThreadIds :
         /\ WF_vars(ThreadTest(k)) /\ SF_vars(ThreadWake(k))
         /\ WF_vars(Trigger(k)) /\ WF_vars(EndRound(k))

-----------------------------------------------------------------------------
(* Properties.                                                             *)

\* When one thread owns all objects, the sync thread visits only objects that
\* exist: the mutex keeps a destructor out of a round that has still to visit
\* its object.
VisitsLiveObjects ==
    oneThread => \A k \in ThreadIds : \A u \in todo[k] : upc[u] \in {"alive", "erase"}

\* When one thread owns all objects, a destructor returns: the sync thread it
\* stops always ends, whether the notification finds it waiting or not.
DestructorReturns ==
    \A u \in Users : oneThread /\ upc[u] = "stop" ~> upc[u] = "none"

\* While the sync thread is wanted, every registered object gets its turn,
\* also when several threads construct and destroy objects at once.
SavesWhileRunning ==
    \A u \in Users : (u \in syncs /\ shouldRun) ~> (u \in saved \/ u \notin syncs \/ ~shouldRun)

=============================================================================
