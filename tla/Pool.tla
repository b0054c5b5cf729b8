--------------------------------- MODULE Pool ---------------------------------
(***************************************************************************)
(* The connection pool of store/ebow/pool.go: a Pool of DbPoolObjects, one *)
(* per database, and the goroutines that open and close a BowStorage on    *)
(* it.  A critical section of dpo.mu is one step; Pool.mu is free except   *)
(* during Pool.Close, which keeps it while it shuts down every database.   *)
(***************************************************************************)
EXTENDS Integers, FiniteSets

CONSTANTS Keys,     \* databases, named by poolKey(tenant, ecId)
          Clients,  \* goroutines that open a storage
          size,     \* Pool.poolSize
          MaxGets   \* bound: storages a client opens

ASSUME PoolConfig ==
    Keys # {} /\ IsFiniteSet(Clients) /\ size \in Nat \ {0} /\ MaxGets \in Nat

VARIABLES
    pool,        \* databases with a DbPoolObject
    poolClosed,  \* Pool.closed
    closePc,     \* the caller of Pool.Close
    toShut,      \* databases it still has to shut down
    db,          \* database -> dpo.db is not nil
    inUse,       \* database -> dpo.inUse
    closed,      \* database -> dpo.closed
    pc,          \* client -> where it is; "waiting" is freed.Wait
    key,         \* client -> the database it works on
    handle,      \* client -> its DbObject: no Db, an open DB, or one closed since
    gets         \* client -> number of calls of Get

vars == <<pool, poolClosed, closePc, toShut, db, inUse, closed, pc, key, handle, gets>>

\* The variables have their types; inUse is never negative.
TypeOK ==
    /\ pool \subseteq Keys /\ toShut \subseteq pool
    /\ poolClosed \in BOOLEAN /\ closePc \in {"idle", "closing", "returned"}
    /\ db \in [Keys -> BOOLEAN] /\ closed \in [Keys -> BOOLEAN]
    /\ inUse \in [Keys -> Nat]
    /\ pc \in [Clients -> {"idle", "entering", "waiting", "woken", "holding", "released"}]
    /\ key \in [Clients -> Keys]
    /\ handle \in [Clients -> {"none", "open", "stale"}]
    /\ gets \in [Clients -> Nat]

NewPool ==
    /\ pool = {} /\ poolClosed = FALSE /\ closePc = "idle" /\ toShut = {}
    /\ db = [k \in Keys |-> FALSE] /\ closed = [k \in Keys |-> FALSE]
    /\ inUse = [k \in Keys |-> 0]
    /\ pc = [c \in Clients |-> "idle"] /\ key = [c \in Clients |-> CHOOSE k \in Keys : TRUE]
    /\ handle = [c \in Clients |-> "none"] /\ gets = [c \in Clients |-> 0]

-----------------------------------------------------------------------------
Waiting(p, k) == {c \in Clients : p[c] = "waiting" /\ key[c] = k}

\* freed.Signal: one waiting Get wakes, if there is one (p: the states of the
\* clients so far).
Signal(p, k) ==
    IF Waiting(p, k) = {} THEN {p}
    ELSE {[p EXCEPT ![w] = "woken"] : w \in Waiting(p, k)}

\* The handles after dpo.close() of k (h: the handles so far).
HandlesAfterClose(h, k) ==
    [c \in Clients |-> IF key[c] = k /\ h[c] = "open" THEN "stale" ELSE h[c]]

PoolMuFree == closePc # "closing"

\* OpenStorage, Pool.Get: a refused call, or the object of k is found or made
\* and the client goes on to its Get without Pool.mu.
Get(c, k) ==
    /\ pc[c] \in {"idle", "released"} /\ gets[c] < MaxGets /\ PoolMuFree
    /\ gets' = [gets EXCEPT ![c] = @ + 1]
    /\ IF poolClosed
       THEN pc' = [pc EXCEPT ![c] = "idle"] /\ UNCHANGED <<pool, key>>
       ELSE /\ pool' = pool \cup {k}
            /\ key' = [key EXCEPT ![c] = k]
            /\ pc' = [pc EXCEPT ![c] = "entering"]
    /\ handle' = [handle EXCEPT ![c] = "none"]
    /\ UNCHANGED <<poolClosed, closePc, toShut, db, inUse, closed>>

\* The client gets a handle; dpo.db was open or could be opened.
TakeHandle(c, k) ==
    /\ db' = [db EXCEPT ![k] = TRUE]
    /\ inUse' = [inUse EXCEPT ![k] = @ + 1]
    /\ handle' = [handle EXCEPT ![c] = "open"]
    /\ pc' = [pc EXCEPT ![c] = "holding"]

\* Mutant: the wake-up is not passed on.
OpenFails_NoSignal(c, k) ==
    /\ ~db[k]
    /\ pc' = [pc EXCEPT ![c] = "idle"]
    /\ UNCHANGED <<db, inUse, handle>>

\* The database cannot be opened: Get passes its wake-up on and returns nil.
OpenFails(c, k) ==
    /\ ~db[k]
    /\ pc' \in Signal([pc EXCEPT ![c] = "idle"], k)
    /\ UNCHANGED <<db, inUse, handle>>

\* Mutant: one handle too many, and no look at closed.
DpoGet_OffByOne(c) ==
    LET k == key[c] IN
    /\ pc[c] \in {"entering", "woken"}
    /\ IF inUse[k] > size
       THEN pc' = [pc EXCEPT ![c] = "waiting"] /\ UNCHANGED <<db, inUse, handle>>
       ELSE TakeHandle(c, k)
    /\ UNCHANGED <<pool, poolClosed, closePc, toShut, closed, key, gets>>

\* DbPoolObject.Get, from the start or after freed.Wait.
DpoGet(c) ==
    LET k == key[c] IN
    /\ pc[c] \in {"entering", "woken"}
    /\ \/ /\ ~closed[k] /\ inUse[k] >= size
          /\ pc' = [pc EXCEPT ![c] = "waiting"]
          /\ UNCHANGED <<db, inUse, handle>>
       \/ /\ closed[k]
          /\ pc' = [pc EXCEPT ![c] = "idle"]
          /\ UNCHANGED <<db, inUse, handle>>
       \/ ~closed[k] /\ inUse[k] < size /\ (TakeHandle(c, k) \/ OpenFails(c, k))
    /\ UNCHANGED <<pool, poolClosed, closePc, toShut, closed, key, gets>>

\* The handle is taken back; the last one closes the database.
PutBack(c, k) ==
    LET h == [handle EXCEPT ![c] = "none"]
        last == inUse[k] = 1
    IN  /\ inUse' = [inUse EXCEPT ![k] = @ - 1]
        /\ db' = [db EXCEPT ![k] = @ /\ ~last]
        /\ handle' = IF last THEN HandlesAfterClose(h, k) ELSE h
        /\ pc' \in Signal([pc EXCEPT ![c] = "released"], k)

\* Mutant: a handle can be given back twice.
Put_Twice(c) ==
    /\ pc[c] \in {"holding", "released"} /\ PoolMuFree /\ inUse[key[c]] > 0
    /\ PutBack(c, key[c])
    /\ UNCHANGED <<pool, poolClosed, closePc, toShut, closed, key, gets>>

\* BowStorage.Close, Pool.Put and DbPoolObject.Put; a client may close its
\* storage again after it released it.
Put(c) ==
    LET k == key[c] IN
    /\ pc[c] \in {"holding", "released"} /\ PoolMuFree
    /\ IF handle[c] = "none" \/ inUse[k] = 0
       THEN pc' = [pc EXCEPT ![c] = "idle"] /\ UNCHANGED <<db, inUse, handle>>
       ELSE PutBack(c, k)
    /\ UNCHANGED <<pool, poolClosed, closePc, toShut, closed, key, gets>>

\* Pool.Close takes Pool.mu,
Close ==
    /\ closePc = "idle"
    /\ closePc' = "closing" /\ poolClosed' = TRUE /\ toShut' = pool
    /\ UNCHANGED <<pool, db, inUse, closed, pc, key, handle, gets>>

\* Mutant: the waiting Gets are not woken.
shutdown_NoBroadcast(k) ==
    /\ closePc = "closing" /\ k \in toShut
    /\ toShut' = toShut \ {k}
    /\ closed' = [closed EXCEPT ![k] = TRUE]
    /\ db' = [db EXCEPT ![k] = FALSE]
    /\ handle' = HandlesAfterClose(handle, k)
    /\ UNCHANGED <<pool, poolClosed, closePc, inUse, pc, key, gets>>

\* shuts down one database after the other
shutdown(k) ==
    /\ closePc = "closing" /\ k \in toShut
    /\ toShut' = toShut \ {k}
    /\ closed' = [closed EXCEPT ![k] = TRUE]
    /\ db' = [db EXCEPT ![k] = FALSE]
    /\ handle' = HandlesAfterClose(handle, k)
    /\ pc' = [c \in Clients |-> IF c \in Waiting(pc, k) THEN "woken" ELSE pc[c]]
    /\ UNCHANGED <<pool, poolClosed, closePc, inUse, key, gets>>

\* and returns.
CloseReturn ==
    /\ closePc = "closing" /\ toShut = {}
    /\ closePc' = "returned"
    /\ UNCHANGED <<pool, poolClosed, toShut, db, inUse, closed, pc, key, handle, gets>>

\* Nobody has anything left to do.
Terminated ==
    /\ \A c \in Clients : pc[c] \in {"idle", "released"} /\ gets[c] = MaxGets
    /\ closePc = "returned"
    /\ UNCHANGED vars

Next ==
    \/ \E c \in Clients : (\E k \in Keys : Get(c, k)) \/ DpoGet(c) \/ Put(c)
    \/ Close \/ (\E k \in Keys : shutdown(k)) \/ CloseReturn
    \/ Terminated

Spec == NewPool /\ [][Next]_vars

\* The goroutines run, a storage is closed after use (the callers defer
\* Close), and Pool.Close goes through its databases.
FairSpec ==
    /\ Spec
    /\ \A c \in Clients : WF_vars(DpoGet(c)) /\ WF_vars(Put(c))
    /\ \A k \in Keys : WF_vars(shutdown(k))
    /\ WF_vars(CloseReturn)

-----------------------------------------------------------------------------
(* Properties.                                                             *)

holders == [k \in Keys |-> {c \in Clients : pc[c] = "holding" /\ key[c] = k}]

H == INSTANCE Handles WITH open <- db, shut <- closed

\* The pool implements Handles: never more than size handles, the database is
\* closed with the last handle and not before, and never reopened after the
\* shutdown.
ImplementsHandles == H!Spec

\* The DB behind a handle is not closed while the handle is out, unless the
\* pool was shut down (the flaw of the former channel-based pool that the
\* comment of DbPoolObject describes).
NoUseAfterClose ==
    \A c \in Clients : pc[c] = "holding" /\ ~closed[key[c]] => handle[c] = "open" /\ db[key[c]]

\* inUse counts the handles that are out, also across double Close, failed
\* opens and the shutdown.
InUseCounts == \A k \in Keys : inUse[k] = Cardinality(holders[k])

\* A free handle is never left lying while a Get waits for one: as many
\* waiting Gets are awake as there are free handles.
NoIdleHandle ==
    \A k \in Keys :
        Waiting(pc, k) # {} =>
            inUse[k] + Cardinality({c \in Clients : pc[c] = "woken" /\ key[c] = k}) >= size

\* Every Get returns (with a handle or nil), and Pool.Close returns.
GetReturns ==
    /\ \A c \in Clients : pc[c] = "waiting" ~> pc[c] \in {"idle", "holding", "released"}
    /\ closePc = "closing" ~> closePc = "returned"

=============================================================================
