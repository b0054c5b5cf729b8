----------------------------- MODULE Dispatcher -----------------------------
(***************************************************************************)
(* The TopicDispatcher of mqttclient/dispatcher.go and the lifecycle of    *)
(* its executors (mqttclient/executors.go).  Every critical section of     *)
(* d.mu is one step; what a goroutine does without the mutex (a batch, the *)
(* close of an executor, a Broadcast after Unlock) lies between two steps. *)
(* A sync.Cond is the set of lanes waiting on it.                          *)
(***************************************************************************)
EXTENDS Integers, Sequences, FiniteSets, FiniteSetsExt, Functions

CONSTANTS Tenants,   \* tenants that receive messages
          Lanes,     \* the lane goroutines, cfg.parallel of them
          NoTenant,  \* a nil *tenantQueue
          batchMax,  \* cfg.batchMax
          maxOpen,   \* cfg.maxOpen
          MaxMsgs    \* bound: messages submitted per tenant

ASSUME DispatcherConfig ==
    /\ NoTenant \notin Tenants
    /\ Lanes # {} /\ IsFiniteSet(Lanes)
    /\ batchMax \in Nat \ {0}
    /\ maxOpen \in Nat /\ maxOpen >= Cardinality(Lanes)
    /\ MaxMsgs \in Nat

VARIABLES
    queue,       \* tenant -> its queued messages, numbered in submit order
    ready,       \* d.ready; tq.isReady says that the tenant stands in it
    executor,    \* tenants whose tq.executor is not nil
    busy,        \* tenants whose tq.busy is set
    tenants,     \* the keys of d.tenants
    older,       \* tenant -> the tenants with an earlier tq.lastUsed
    open,        \* d.open
    closed,      \* d.closed
    ctxDone,     \* d.ctx has ended
    pc,          \* lane -> where it is
    tq,          \* lane -> the tenant it works for
    victim,      \* lane -> the tenant whose executor it closes at the cap
    batch,       \* lane -> the messages it runs
    waiting,     \* lanes waiting on d.work
    capWaiting,  \* lanes waiting on d.capFree
    closers,     \* tenants whose executor a goroutine of the janitor closes
    janitor,     \* the janitor goroutine
    stopper,     \* the goroutine that waits for ctx.Done
    closePc,     \* the caller of Close
    submitted,   \* tenant -> number of messages submitted
    acked        \* tenant -> messages acked

lists   == <<queue, ready, tenants>>
laneVars == <<pc, tq, victim, batch>>
stopVars == <<closed, ctxDone, janitor, stopper, closePc>>
vars == <<lists, executor, busy, older, open, stopVars, laneVars, waiting,
          capWaiting, closers, submitted, acked>>

parallel == Cardinality(Lanes)

\* The variables have their types; open is never negative.
TypeOK ==
    /\ queue \in [Tenants -> Seq(Nat)]
    /\ ready \in Seq(Tenants) /\ older \in [Tenants -> SUBSET Tenants]
    /\ executor \subseteq Tenants /\ busy \subseteq Tenants
    /\ tenants \subseteq Tenants /\ closers \subseteq Tenants
    /\ open \in Nat
    /\ closed \in BOOLEAN /\ ctxDone \in BOOLEAN
    /\ pc \in [Lanes -> {"look", "reserve", "closing", "running", "notify", "done"}]
    /\ tq \in [Lanes -> Tenants \cup {NoTenant}]
    /\ victim \in [Lanes -> Tenants \cup {NoTenant}]
    /\ batch \in [Lanes -> Seq(Nat)]
    /\ waiting \subseteq Lanes /\ capWaiting \subseteq Lanes
    /\ janitor \in {"running", "done"}
    /\ stopper \in {"waiting", "broadcast", "done"}
    /\ closePc \in {"idle", "waiting", "closing", "returned"}
    /\ submitted \in [Tenants -> Nat] /\ acked \in [Tenants -> SUBSET Nat]

newTopicDispatcher ==
    /\ queue = [t \in Tenants |-> <<>>] /\ ready = <<>>
    /\ older = [t \in Tenants |-> {}]
    /\ executor = {} /\ busy = {} /\ tenants = {} /\ closers = {}
    /\ open = 0 /\ closed = FALSE /\ ctxDone = FALSE
    /\ pc = [l \in Lanes |-> "look"] /\ batch = [l \in Lanes |-> <<>>]
    /\ tq = [l \in Lanes |-> NoTenant] /\ victim = [l \in Lanes |-> NoTenant]
    /\ waiting = {} /\ capWaiting = {}
    /\ janitor = "running" /\ stopper = "waiting" /\ closePc = "idle"
    /\ submitted = [t \in Tenants |-> 0] /\ acked = [t \in Tenants |-> {}]

-----------------------------------------------------------------------------
(* Helpers that run under d.mu.                                            *)

isReady(t) == \E i \in DOMAIN ready : ready[i] = t

\* Mutant: Signal is forgotten.
SignalWork_None == UNCHANGED waiting

\* sync.Cond.Signal wakes one waiter, if there is one.
SignalWork ==
    \/ waiting = {} /\ UNCHANGED waiting
    \/ \E l \in waiting : waiting' = waiting \ {l}

\* sync.Cond.Broadcast on capFree.
BroadcastCapFree == capWaiting' = {}

\* Mutant: the tenant goes to the front of ready.
markReady_Front(t, q, b) ==
    IF t \in b \/ isReady(t) \/ q = <<>> \/ closed
    THEN UNCHANGED <<ready, waiting>>
    ELSE ready' = <<t>> \o ready /\ SignalWork

\* q and b are tq.queue and the set of busy tenants when markReady is called.
markReady(t, q, b) ==
    IF t \in b \/ isReady(t) \/ q = <<>> \/ closed
    THEN UNCHANGED <<ready, waiting>>
    ELSE ready' = Append(ready, t) /\ SignalWork

\* Mutant: a tenant whose executor is being closed is not skipped.
nextReady_TakesBusy == {i \in DOMAIN ready : i = 1}

\* nextReady: the place of the first ready tenant that is not busy, if any.
nextReady ==
    {i \in DOMAIN ready : /\ ready[i] \notin busy
                          /\ \A j \in 1..(i - 1) : ready[j] \in busy}

\* nextReady: d.ready after append(d.ready[:i], d.ready[i+1:]...).
Without(s, i) == SubSeq(s, 1, i - 1) \o SubSeq(s, i + 1, Len(s))

\* Mutant: a tenant that waits in ready counts as idle.
Idle_Waiting == executor \ busy

\* Tenants with an open executor, no batch and no queued work.
Idle == {t \in executor \ busy : ~isReady(t)}

\* Mutant: no victim among the tenants in ready.
capVictim_OnlyIdle == {t \in Idle : older[t] \cap Idle = {}}

\* The set holds the one victim, or is empty when capVictim returns nil.
capVictim ==
    IF Idle # {}
    THEN {t \in Idle : older[t] \cap Idle = {}}
    ELSE {ready[i] : i \in {i \in DOMAIN ready :
              /\ ready[i] \in executor \ busy
              /\ \A j \in (i + 1)..Len(ready) : ready[j] \notin executor \ busy}}

\* Mutant: messages that arrived during the close are not made ready.
markClosed_Forgets(t) ==
    /\ IF isReady(t)
       THEN SignalWork /\ UNCHANGED <<ready, tenants>>
       ELSE /\ UNCHANGED <<ready, waiting>>
            /\ tenants' = IF queue[t] = <<>> THEN tenants \ {t} ELSE tenants
    /\ older' = [u \in Tenants |-> IF u = t THEN {} ELSE older[u] \ {t}]
    /\ BroadcastCapFree

\* Mutant: a tenant that kept its place in ready is not signalled again.
markClosed_NoSignal(t) ==
    /\ IF isReady(t)
       THEN UNCHANGED <<ready, waiting, tenants>>
       ELSE /\ markReady(t, queue[t], busy \ {t})
            /\ tenants' = IF queue[t] = <<>> THEN tenants \ {t} ELSE tenants
    /\ older' = [u \in Tenants |-> IF u = t THEN {} ELSE older[u] \ {t}]
    /\ BroadcastCapFree

\* The effect of markClosed(t), apart from executor, busy and open.
markClosed(t) ==
    /\ IF isReady(t)
       THEN SignalWork /\ UNCHANGED <<ready, tenants>>
       ELSE /\ markReady(t, queue[t], busy \ {t})
            /\ tenants' = IF queue[t] = <<>> THEN tenants \ {t} ELSE tenants
    /\ older' = [u \in Tenants |-> IF u = t THEN {} ELSE older[u] \ {t}]
    /\ BroadcastCapFree

-----------------------------------------------------------------------------
(* The MQTT callback.                                                      *)

\* After closed the message is dropped unacked.
Submit(t) ==
    /\ submitted[t] < MaxMsgs
    /\ submitted' = [submitted EXCEPT ![t] = @ + 1]
    /\ IF closed
       THEN UNCHANGED <<lists, waiting>>
       ELSE /\ tenants' = tenants \cup {t}
            /\ queue' = [queue EXCEPT ![t] = Append(@, submitted[t] + 1)]
            /\ markReady(t, queue'[t], busy)
    /\ UNCHANGED <<executor, busy, older, open, stopVars, laneVars, capWaiting,
                   closers, acked>>

-----------------------------------------------------------------------------
(* A lane.                                                                 *)

\* Mutant: the queue keeps the last message of the batch.
StartBatch_OffByOne(l, t) ==
    LET n == Min({Len(queue[t]), batchMax}) IN
    /\ batch' = [batch EXCEPT ![l] = SubSeq(queue[t], 1, n)]
    /\ queue' = [queue EXCEPT ![t] = SubSeq(@, n, Len(@))]
    /\ tq' = [tq EXCEPT ![l] = t]
    /\ pc' = [pc EXCEPT ![l] = "running"]

\* The lane pops a batch of t and runs it, creating the executor if needed.
StartBatch(l, t) ==
    LET n == Min({Len(queue[t]), batchMax}) IN
    /\ batch' = [batch EXCEPT ![l] = SubSeq(queue[t], 1, n)]
    /\ queue' = [queue EXCEPT ![t] = SubSeq(@, n + 1, Len(@))]
    /\ tq' = [tq EXCEPT ![l] = t]
    /\ pc' = [pc EXCEPT ![l] = "running"]

\* Mutant: the cap is exceeded by one.
Run_OverCap(l, t) ==
    /\ t \in executor \/ open <= maxOpen
    /\ open' = IF t \in executor THEN open ELSE open + 1
    /\ executor' = executor \cup {t}
    /\ busy' = busy \cup {t}
    /\ StartBatch(l, t)
    /\ UNCHANGED <<victim, capWaiting>>

\* reserveOpen with room under the cap (or no need of it), then the batch.
Run(l, t) ==
    /\ t \in executor \/ open < maxOpen
    /\ open' = IF t \in executor THEN open ELSE open + 1
    /\ executor' = executor \cup {t}
    /\ busy' = busy \cup {t}
    /\ StartBatch(l, t)
    /\ UNCHANGED <<victim, capWaiting>>

\* One turn of the loop in reserveOpen at the cap, for the tenant t.
AtCap(l, t) ==
    /\ t \notin executor /\ open >= maxOpen
    /\ \/ /\ closed \/ ctxDone                 \* returns false, the lane ends
          /\ busy' = busy \ {t}
          /\ tq' = [tq EXCEPT ![l] = NoTenant]
          /\ pc' = [pc EXCEPT ![l] = "done"]
          /\ UNCHANGED <<victim, capWaiting>>
       \/ /\ ~closed /\ ~ctxDone /\ capVictim = {}
          /\ busy' = busy \cup {t}
          /\ tq' = [tq EXCEPT ![l] = t]
          /\ pc' = [pc EXCEPT ![l] = "reserve"]
          /\ capWaiting' = capWaiting \cup {l}
          /\ UNCHANGED victim
       \/ /\ ~closed /\ ~ctxDone
          /\ \E v \in capVictim :
                /\ busy' = busy \cup {t, v}
                /\ victim' = [victim EXCEPT ![l] = v]
          /\ tq' = [tq EXCEPT ![l] = t]
          /\ pc' = [pc EXCEPT ![l] = "closing"]
          /\ UNCHANGED capWaiting
    /\ UNCHANGED <<queue, executor, open, batch>>

\* The top of the loop, first time or after work.Wait: nothing to do.
LookWait(l) ==
    /\ pc[l] = "look" /\ l \notin waiting
    /\ nextReady = {} /\ ~closed
    /\ waiting' = waiting \cup {l}
    /\ UNCHANGED <<lists, executor, busy, older, open, stopVars, laneVars,
                   capWaiting, closers, submitted, acked>>

\* A stopped lane still takes a tenant out of ready before it sees closed.
LookExit(l) ==
    /\ pc[l] = "look" /\ l \notin waiting /\ closed
    /\ \/ nextReady = {} /\ UNCHANGED ready
       \/ \E i \in nextReady : ready' = Without(ready, i)
    /\ pc' = [pc EXCEPT ![l] = "done"]
    /\ UNCHANGED <<queue, tenants, executor, busy, older, open, stopVars, tq,
                   victim, batch, waiting, capWaiting, closers, submitted, acked>>

Take(l) ==
    /\ pc[l] = "look" /\ l \notin waiting /\ ~closed
    /\ \E i \in nextReady :
          /\ ready' = Without(ready, i)
          /\ Run(l, ready[i]) \/ AtCap(l, ready[i])
    /\ UNCHANGED <<tenants, older, stopVars, waiting, closers, submitted, acked>>

\* reserveOpen continues after capFree.Wait.
Reserve(l) ==
    /\ pc[l] = "reserve" /\ l \notin capWaiting
    /\ Run(l, tq[l]) \/ AtCap(l, tq[l])
    /\ UNCHANGED <<ready, tenants, older, stopVars, waiting, closers, submitted, acked>>

\* victim.executor.Close() returned: markClosed, then reserveOpen finds room
\* (OpenWithinCap: open was at most maxOpen) and the lane runs its batch.
VictimClosed(l) ==
    /\ pc[l] = "closing"
    /\ open - 1 < maxOpen
    /\ markClosed(victim[l])
    /\ executor' = (executor \ {victim[l]}) \cup {tq[l]}
    /\ busy' = busy \ {victim[l]}
    /\ victim' = [victim EXCEPT ![l] = NoTenant]
    /\ open' = (open - 1) + 1
    /\ StartBatch(l, tq[l])
    /\ UNCHANGED <<stopVars, closers, submitted, acked>>

\* executeBatch returned: every message is finished and acked unless the
\* context ended meanwhile; then the executor may have left some.
FinishBatch(l) ==
    /\ pc[l] = "running"
    /\ \E unfinished \in IF ctxDone THEN SUBSET Range(batch[l]) ELSE {{}} :
          acked' = [acked EXCEPT ![tq[l]] = @ \cup (Range(batch[l]) \ unfinished)]
    /\ busy' = busy \ {tq[l]}
    /\ older' = [u \in Tenants |-> IF u = tq[l] THEN executor \ {u} ELSE older[u] \ {tq[l]}]
    /\ markReady(tq[l], queue[tq[l]], busy')
    /\ batch' = [batch EXCEPT ![l] = <<>>]
    /\ tq' = [tq EXCEPT ![l] = NoTenant]
    /\ pc' = [pc EXCEPT ![l] = "notify"]
    /\ UNCHANGED <<queue, tenants, executor, open, stopVars, victim, capWaiting,
                   closers, submitted>>

\* capFree.Broadcast after Unlock, then the next turn of the loop.
Notify(l) ==
    /\ pc[l] = "notify"
    /\ BroadcastCapFree
    /\ pc' = [pc EXCEPT ![l] = "look"]
    /\ UNCHANGED <<lists, executor, busy, older, open, stopVars, tq, victim, batch,
                   waiting, closers, submitted, acked>>

-----------------------------------------------------------------------------
(* The janitor.  The clock is abstract: of the idle executors the `expired' *)
(* oldest are idle for idleTimeout, the `aged' oldest for minIdleClose.    *)

OldestIdle(k) == {t \in Idle : Cardinality(older[t] \cap Idle) < k}

closeIdle ==
    /\ janitor = "running"
    /\ \E expired, aged \in 0..Cardinality(Idle) :
          LET due == Max({expired, Min({aged, Cardinality(Idle) - parallel})})
              closing == OldestIdle(Min({due, parallel}))
          IN  /\ expired <= aged /\ closing # {}
              /\ busy' = busy \cup closing
              /\ closers' = closers \cup closing
    /\ UNCHANGED <<lists, executor, older, open, stopVars, laneVars, waiting,
                   capWaiting, submitted, acked>>

closeExecutor(t) ==
    /\ t \in closers
    /\ markClosed(t)
    /\ executor' = executor \ {t}
    /\ busy' = busy \ {t}
    /\ open' = open - 1
    /\ closers' = closers \ {t}
    /\ UNCHANGED <<queue, stopVars, laneVars, submitted, acked>>

\* The select of the janitor sees ctx.Done.
JanitorExit ==
    /\ janitor = "running" /\ ctxDone
    /\ janitor' = "done"
    /\ UNCHANGED <<lists, executor, busy, older, open, closed, ctxDone, stopper, closePc,
                   laneVars, waiting, capWaiting, closers, submitted, acked>>

-----------------------------------------------------------------------------
(* Stopping.                                                               *)

\* The context of main ends (signal handling in server.go).
Cancel ==
    /\ ~ctxDone
    /\ ctxDone' = TRUE
    /\ UNCHANGED <<lists, executor, busy, older, open, closed, janitor, stopper, closePc,
                   laneVars, waiting, capWaiting, closers, submitted, acked>>

SetClosed ==
    /\ stopper = "waiting" /\ ctxDone
    /\ closed' = TRUE
    /\ stopper' = "broadcast"
    /\ UNCHANGED <<lists, executor, busy, older, open, ctxDone, janitor, closePc,
                   laneVars, waiting, capWaiting, closers, submitted, acked>>

\* Mutant: the lanes waiting for work are not woken.
StopBroadcast_OnlyCap ==
    /\ stopper = "broadcast"
    /\ BroadcastCapFree
    /\ stopper' = "done"
    /\ UNCHANGED <<lists, executor, busy, older, open, closed, ctxDone, janitor, closePc,
                   laneVars, waiting, closers, submitted, acked>>

\* work.Broadcast and capFree.Broadcast, after Unlock.
StopBroadcast ==
    /\ stopper = "broadcast"
    /\ waiting' = {} /\ BroadcastCapFree
    /\ stopper' = "done"
    /\ UNCHANGED <<lists, executor, busy, older, open, closed, ctxDone, janitor, closePc,
                   laneVars, closers, submitted, acked>>

\* Close: d.stop(), then wg.Wait().
Close ==
    /\ closePc = "idle"
    /\ ctxDone' = TRUE
    /\ closePc' = "waiting"
    /\ UNCHANGED <<lists, executor, busy, older, open, closed, janitor, stopper,
                   laneVars, waiting, capWaiting, closers, submitted, acked>>

\* Mutant: the goroutines of closeIdle are not counted in wg.
AllGoroutinesEnded_NoClosers ==
    (\A l \in Lanes : pc[l] = "done") /\ janitor = "done" /\ stopper = "done"

\* Mutant: Close waits for the lanes' stop only, not for what they run.
AllGoroutinesEnded_Running ==
    (\A l \in Lanes : pc[l] \in {"running", "done"}) /\ janitor = "done" /\ stopper = "done"

\* wg.Wait() returns when the lanes, the janitor, the goroutines it started
\* and the stopper have ended.
AllGoroutinesEnded ==
    /\ \A l \in Lanes : pc[l] = "done"
    /\ janitor = "done" /\ closers = {} /\ stopper = "done"

\* The remaining executors are collected under d.mu.
CloseCollect ==
    /\ closePc = "waiting" /\ AllGoroutinesEnded
    /\ executor' = {} /\ open' = 0
    /\ closePc' = "closing"
    /\ UNCHANGED <<lists, busy, older, closed, ctxDone, janitor, stopper, laneVars, waiting,
                   capWaiting, closers, submitted, acked>>

\* Every collected executor has been closed, in parallel.
CloseReturn ==
    /\ closePc = "closing"
    /\ closePc' = "returned"
    /\ UNCHANGED <<lists, executor, busy, older, open, closed, ctxDone, janitor, stopper,
                   laneVars, waiting, capWaiting, closers, submitted, acked>>

Terminated == closePc = "returned" /\ UNCHANGED vars

-----------------------------------------------------------------------------
lane(l) == LookWait(l) \/ LookExit(l) \/ Take(l) \/ Reserve(l) \/ VictimClosed(l)
           \/ FinishBatch(l) \/ Notify(l)

Next ==
    \/ \E t \in Tenants : Submit(t) \/ closeExecutor(t)
    \/ \E l \in Lanes : lane(l)
    \/ closeIdle \/ JanitorExit
    \/ Cancel \/ SetClosed \/ StopBroadcast
    \/ Close \/ CloseCollect \/ CloseReturn
    \/ Terminated

Spec == newTopicDispatcher /\ [][Next]_vars

\* Goroutines are scheduled, a batch ends and Executor.Close returns.  Nobody
\* has to submit, the ticker is not needed, and main need not stop.
Fairness ==
    /\ \A l \in Lanes : WF_vars(lane(l))
    /\ \A t \in Tenants : WF_vars(closeExecutor(t))
    /\ WF_vars(JanitorExit) /\ WF_vars(SetClosed) /\ WF_vars(StopBroadcast)
    /\ WF_vars(CloseCollect) /\ WF_vars(CloseReturn)

FairSpec == Spec /\ Fairness

-----------------------------------------------------------------------------
(* Properties.                                                             *)

\* The lane runs a batch of t, or holds it in reserveOpen, or closes its
\* executor to make room.
Holds(l, t) == tq[l] = t \/ victim[l] = t

\* A tenant never runs in two lanes at once, and an executor is closed only
\* while no lane runs a batch on it: whoever works on a tenant outside d.mu
\* (a lane with a batch, a lane closing a victim, a goroutine of closeIdle)
\* has it for itself, and tq.busy is set exactly meanwhile.
TenantHeldOnce ==
    \A t \in Tenants :
        /\ t \in busy <=> t \in closers \/ \E l \in Lanes : Holds(l, t)
        /\ \A l, m \in Lanes : Holds(l, t) /\ Holds(m, t) => l = m
        /\ \A l \in Lanes : Holds(l, t) => t \notin closers /\ tq[l] # victim[l]

\* A batch runs on an executor that exists, and executors being closed are
\* still counted: Close of dispatcher.go and markClosed find every one of them.
ExecutorsAccounted ==
    /\ \A l \in Lanes : pc[l] = "running" => tq[l] \in executor
    /\ \A l \in Lanes : pc[l] = "closing" => victim[l] \in executor /\ tq[l] \notin executor
    /\ closers \subseteq executor
    /\ executor \subseteq tenants

\* import.maxOpen is a hard cap: d.open counts exactly the executors that
\* exist (open or still closing) and never exceeds maxOpen.
OpenWithinCap ==
    open = Cardinality(executor) /\ open <= maxOpen

\* Work is never forgotten: while the dispatcher is not stopped, a tenant with
\* queued messages is being worked on or stands in ready, and it stands there
\* once (markReady, markClosed and the early returns of lane).
NoLostWork ==
    /\ \A t \in Tenants :
          queue[t] # <<>> /\ t \notin busy /\ ~ctxDone => isReady(t)
    /\ IsInjective(ready)

\* Tenants a lane could take now, lanes that will look at ready next.
Takeable == {t \in Tenants : isReady(t) /\ t \notin busy}
Looking  == {l \in Lanes : pc[l] = "look" /\ l \notin waiting}

\* No lost wakeup on d.work: when lanes sleep in work.Wait, at least as many
\* lanes are awake and about to look as there are tenants to take, although
\* Signal is called once per tenant and may wake a lane that finds nothing.
NoLostWakeup ==
    waiting # {} /\ ~ctxDone => Cardinality(Looking) >= Cardinality(Takeable)

\* No lost wakeup on d.capFree: a lane sleeps in reserveOpen only while the
\* cap is reached and every executor is in use or closing (some lane or
\* goroutine will then broadcast), or a broadcast is already on its way.
NoLostCapWakeup ==
    capWaiting # {} =>
        \/ open >= maxOpen /\ capVictim = {} /\ executor \subseteq busy /\ executor # {}
        \/ \E l \in Lanes : pc[l] = "notify"
        \/ stopper = "broadcast"

\* The messages of t that a lane runs, then those still queued.
InFlight(t) ==
    LET running == {l \in Lanes : pc[l] = "running" /\ tq[l] = t}
    IN  (IF running = {} THEN <<>> ELSE batch[CHOOSE l \in running : TRUE]) \o queue[t]

\* Until the context ends no message of a tenant is lost, run twice or
\* overtaken: the acked ones are the first a, and what runs or is queued are
\* the others in submit order.
DeliveryOrder ==
    ~ctxDone => \A t \in Tenants :
        LET a == Cardinality(acked[t]) IN
        /\ acked[t] = 1..a
        /\ InFlight(t) = [i \in 1..(submitted[t] - a) |-> a + i]

\* When Close has returned nothing runs and no executor is left.
CloseIsFinal ==
    closePc \in {"closing", "returned"} =>
        executor = {} /\ busy = {} /\ capWaiting = {} /\ \A l \in Lanes : batch[l] = <<>>

\* "A tenant waiting in ready keeps its store open, except at the cap with no
\* idle executor left": a step that starts to close the executor of a tenant
\* in ready is one of reserveOpen at the cap without an idle executor.
ReadyKeepsStore ==
    [][\A t \in Tenants :
          isReady(t) /\ t \in executor \ busy /\ (t \in closers' \/ \E l \in Lanes : victim'[l] = t)
            => open >= maxOpen /\ \A u \in executor \ busy : isReady(u)]_vars

\* Round robin: a lane takes t before u, who stands in front of it in ready,
\* only while the executor of u is being closed; and a tenant that gives up
\* its lane queues up behind all that wait.
RoundRobin ==
    [][\A i, j \in DOMAIN ready :
          /\ i < j /\ ready[i] \notin busy /\ ~closed =>
                ~ \E l \in Lanes : tq[l] # ready[j] /\ tq'[l] = ready[j]
          /\ \A t \in Tenants : ~isReady(t) /\ isReady(t)' => ready'[Len(ready')] = t]_vars

\* Every message submitted is acked, or the dispatcher is stopped: no lane
\* waits for ever on work or at the cap.
EventuallyAcked ==
    <>ctxDone \/ \A t \in Tenants : <>[](acked[t] = 1..submitted[t])

\* Close returns: the lanes leave their waits and batches, the closing
\* goroutines end, and the wait group reaches zero.
CloseReturns == closePc = "waiting" ~> closePc = "returned"

=============================================================================
