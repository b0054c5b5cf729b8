------------------------------- MODULE Service -------------------------------
(***************************************************************************)
(* The process of server.go: HTTP handlers and the lanes of the dispatcher *)
(* as clients of the connection pool, the value log GC beside them, the    *)
(* readiness probe, and the shutdown in the order of main.                 *)
(***************************************************************************)
EXTENDS VlogGC, Ready

CONSTANTS
    Handlers,   \* clients of the pool that are HTTP handlers
    Lanes,      \* clients that are executors of the dispatcher
    Work,       \* client -> the databases it opens
    MaxCalls    \* bound: storages a handler or an executor opens

VARIABLE main   \* where main is

svars == <<vars, gvars, rvars, main>>

ASSUME ServiceConfig ==
    /\ IsFiniteSet(Keys) /\ \A c \in Handlers \cup Lanes : Work[c] \subseteq Keys
    /\ Clients = Handlers \cup Lanes \cup {gc} /\ gc \notin Handlers \cup Lanes
    /\ Handlers \cap Lanes = {}
    \* An executor holds one storage per community, so the lanes alone never
    \* use up a pool object (20 handles in the code).
    /\ Cardinality(Lanes) < size

\* The variables of the GC and of main have their types, and the goroutine of
\* the GC has no handle outside of collectDatabase.
ServiceTypeOK ==
    /\ TypeOK
    /\ gcPc \in {"start", "select", "enumerate", "next", "open", "collect", "rewrite", "probe", "close", "exited"}
    /\ main \in {"running", "draining", "waitGC", "dispatcher", "pool", "exited"}
    /\ now \in 0 .. MaxNow /\ tick \in -1 .. now /\ ticker \in -1 .. checkEvery - 1
    /\ known \subseteq Keys
    /\ \A k \in Keys : db[k] => DOMAIN vlog[k] # {}
    /\ pc[gc] = "holding" => gcPc \in {"open", "collect", "rewrite", "probe", "close"}

\* One step of the pool by a client other than the GC.
PoolStep(A) ==
    /\ A /\ DiskFollows
    /\ UNCHANGED <<cfg, now, ticker, tick, ctxDone, gcPc, lastDay, run, col, late, seen, served, forecast>>
    /\ UNCHANGED <<rvars, main>>

\* A handler opens a storage while the server accepts requests.
HandlerOpens(c) ==
    main = "running" /\ gets[c] < MaxCalls /\ \E k \in Work[c] : PoolStep(Get(c, k))

\* An executor opens a storage until the dispatcher is closed.
LaneOpens(c) ==
    /\ main \in {"running", "draining", "waitGC", "dispatcher"}
    /\ gets[c] < MaxCalls /\ \E k \in Work[c] : PoolStep(Get(c, k))

\* Get goes on, for the GC too.
Opening(c) == PoolStep(DpoGet(c))

\* A handler closes its storage when it returns; an executor when it is idle or
\* the dispatcher closes.
Closing(c) == c # gc /\ PoolStep(Put(c))

GC == GCStep /\ UNCHANGED <<rvars, main>>

Clock == Tick /\ UNCHANGED <<vars, rvars, main>>

Writes(c) == Overwrites(c) /\ UNCHANGED <<rvars, main>>

\* readyz takes no handle; it only looks whether the pool is closed.
readyz(r) ==
    /\ caller[r].pc = "idle" => main = "running"
    /\ PoolMuFree /\ ReadyStep(r, poolClosed)
    /\ UNCHANGED <<vars, gvars, main>>

Probe == (\E n \in Checks : probeDir(n)) /\ UNCHANGED <<vars, gvars, main>>

To(l) == main' = l /\ UNCHANGED rvars

Idle(cs) == \A c \in cs : pc[c] \in {"idle", "released"}

\* A signal arrives: Shutdown takes no new requests and waits for the handlers.
quit == main = "running" /\ To("draining") /\ UNCHANGED <<vars, gvars>>

\* Mutant: the GC is not waited for.
shutdownDone_NoWait ==
    /\ main = "draining" /\ Idle(Handlers) /\ \A r \in Callers : caller[r].pc = "idle"
    /\ ctxDone' = TRUE /\ To("dispatcher")
    /\ UNCHANGED <<vars, cfg, now, ticker, tick, known, vlog, gcPc, lastDay, run, col, late, seen, served, forecast>>

\* Shutdown returns: cancel, then waitVlogGC.
shutdownDone ==
    /\ main = "draining" /\ Idle(Handlers) /\ \A r \in Callers : caller[r].pc = "idle"
    /\ ctxDone' = TRUE /\ To("waitGC")
    /\ UNCHANGED <<vars, cfg, now, ticker, tick, known, vlog, gcPc, lastDay, run, col, late, seen, served, forecast>>

waitVlogGC == main = "waitGC" /\ gcPc = "exited" /\ To("dispatcher") /\ UNCHANGED <<vars, gvars>>

\* dispatcher.Close returns when the executors have closed their storages.
dispatcherClose == main = "dispatcher" /\ Idle(Lanes) /\ To("pool") /\ UNCHANGED <<vars, gvars>>

ClosePool == main = "pool" /\ PoolStep(Close \/ (\E k \in Keys : shutdown(k)) \/ CloseReturn)

exit == main = "pool" /\ closePc = "returned" /\ To("exited") /\ UNCHANGED <<vars, gvars>>

Ended == main = "exited" /\ UNCHANGED svars

Shutdown == shutdownDone \/ waitVlogGC \/ dispatcherClose \/ ClosePool \/ exit

ServiceNext ==
    \/ \E c \in Handlers : HandlerOpens(c)
    \/ \E c \in Lanes : LaneOpens(c)
    \/ \E c \in Clients : Opening(c) \/ Closing(c)
    \/ \E c \in Lanes : Writes(c)
    \/ GC \/ Clock \/ Probe
    \/ \E r \in Callers : readyz(r)
    \/ quit \/ Shutdown \/ Ended

\* The service starts with one of the given configurations on one of the given
\* disks.
main_Init(configs, disks) ==
    /\ NewPool /\ ReadyInit /\ main = "running"
    /\ \E c \in configs, v \in disks : StartVlogGC(c, v)

ServiceSpec(configs, disks) == main_Init(configs, disks) /\ [][ServiceNext]_svars

\* Goroutines run, handlers return, the timer of a check fires, and after a
\* signal an executor that the dispatcher closes gives its storage back.
\* Neither the end of a probe nor a signal nor the passing of time is assumed.
ServiceFairness ==
    /\ \A c \in Clients : WF_svars(Opening(c))
    /\ \A c \in Handlers : WF_svars(Closing(c))
    /\ \A c \in Lanes : WF_svars(main = "dispatcher" /\ Closing(c))
    /\ WF_svars(GC) /\ WF_svars(Shutdown)
    /\ \A r \in Callers : WF_svars(caller[r].pc # "idle" /\ readyz(r))

-----------------------------------------------------------------------------
(* Properties.                                                             *)

\* Pool.Close finds no handle out and nobody in Get: the order of main makes
\* sure that no database is closed under its user ("BEVOR der Pool schliesst"),
\* not even under a GC run that was waiting for a handle at the signal.
ClosedLast == closePc # "idle" => Idle(Clients) /\ \A k \in Keys : inUse[k] = 0

\* Every call of Ready returns, also while the volume hangs, and a signal ends
\* the process, whatever the GC was doing or waiting for.
CallsReturn ==
    /\ \A r \in Callers : caller[r].pc # "idle" ~> caller[r].pc = "idle"
    /\ main = "draining" ~> main = "exited"

=============================================================================
