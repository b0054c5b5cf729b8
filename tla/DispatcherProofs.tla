-------------------------- MODULE DispatcherProofs --------------------------
(***************************************************************************)
(* Proofs about Dispatcher, for any number of tenants, lanes and messages  *)
(* and any cap that is not below the number of lanes.  The main theorem    *)
(* proves type correctness and four safety invariants of the runs from     *)
(* one inductive invariant, IInv.                                          *)
(***************************************************************************)
EXTENDS Dispatcher, TLAPS, FiniteSetTheorems, SequenceTheorems

\* What the lanes' local variables, the registered tenants and the stop flags
\* have to do with each other; not interesting in itself, but needed to make
\* the invariants of Dispatcher inductive.
Bookkeeping ==
    /\ \A l \in Lanes :
          /\ tq[l] # NoTenant <=> pc[l] \in {"reserve", "closing", "running"}
          /\ victim[l] # NoTenant <=> pc[l] = "closing"
          /\ pc[l] = "reserve" => tq[l] \notin executor
          /\ tq[l] # NoTenant => tq[l] \in tenants
    /\ \A t \in Tenants : isReady(t) => t \in tenants
    /\ closed => ctxDone
    /\ IsFiniteSet(executor)

IInv ==
    /\ TypeOK
    /\ TenantHeldOnce
    /\ ExecutorsAccounted
    /\ OpenWithinCap
    /\ NoLostWork
    /\ Bookkeeping

-----------------------------------------------------------------------------
(* Sequences and minima.                                                   *)

\* Without, the append(d.ready[:i], d.ready[i+1:]...) of nextReady, drops the
\* element at i and keeps the order of the others.
LEMMA WithoutProperties ==
    ASSUME NEW S, NEW s \in Seq(S), NEW i \in DOMAIN s
    PROVE  /\ Without(s, i) \in Seq(S)
           /\ Len(Without(s, i)) = Len(s) - 1
           /\ \A k \in 1..(Len(s) - 1) :
                 Without(s, i)[k] = IF k < i THEN s[k] ELSE s[k + 1]
<1> DEFINE a == SubSeq(s, 1, i - 1)
           b == SubSeq(s, i + 1, Len(s))
<1>1. i \in 1..Len(s) /\ Len(s) \in Nat
  BY LenProperties
<1>2. a \in Seq(S) /\ Len(a) = i - 1 /\ \A k \in 1..(i - 1) : a[k] = s[k]
  BY <1>1, SubSeqProperties
<1>3. b \in Seq(S) /\ Len(b) = Len(s) - i /\ \A k \in 1..(Len(s) - i) : b[k] = s[i + k]
  BY <1>1, SubSeqProperties
<1> DEFINE c == a \o b
<1>4. Without(s, i) = c
  BY DEF Without
<1> HIDE DEF a, b
<1>a. /\ c \in Seq(S) /\ Len(c) = Len(a) + Len(b)
      /\ \A k \in 1..(Len(a) + Len(b)) : c[k] = IF k <= Len(a) THEN a[k] ELSE b[k - Len(a)]
  BY <1>2, <1>3, ConcatProperties, Zenon
<1> HIDE DEF c
<1>5. /\ c \in Seq(S) /\ Len(c) = Len(s) - 1
      /\ \A k \in 1..(Len(s) - 1) : c[k] = IF k <= i - 1 THEN a[k] ELSE b[k - (i - 1)]
  <2>1. Len(a) = i - 1 /\ Len(a) + Len(b) = Len(s) - 1
    BY <1>1, <1>2, <1>3
  <2> QED BY Zenon, <1>a, <2>1
<1>6. ASSUME NEW k \in 1..(Len(s) - 1)
      PROVE  c[k] = IF k < i THEN s[k] ELSE s[k + 1]
  <2>1. CASE k < i
    BY <1>1, <1>2, <1>5, <2>1
  <2>2. CASE ~(k < i)
    <3>1. k - (i - 1) \in 1..(Len(s) - i) /\ i + (k - (i - 1)) = k + 1
      BY <1>1, <2>2
    <3>2. b[k - (i - 1)] = s[k + 1]
      BY <1>3, <3>1
    <3>3. c[k] = b[k - (i - 1)]
      BY <1>1, <1>5, <2>2
    <3> QED BY <2>2, <3>2, <3>3
  <2> QED BY <2>1, <2>2
<1> QED BY <1>4, <1>5, <1>6

\* The elements that remain, and that they stay distinct.
LEMMA WithoutElements ==
    ASSUME NEW S, NEW s \in Seq(S), NEW i \in DOMAIN s,
           IsInjective(s)
    PROVE  /\ Without(s, i) \in Seq(S) /\ IsInjective(Without(s, i))
           /\ Range(Without(s, i)) = Range(s) \ {s[i]}
<1> DEFINE r == Without(s, i)
<1>1. i \in 1..Len(s) /\ Len(s) \in Nat /\ DOMAIN s = 1..Len(s)
  BY LenProperties
<1>2. /\ r \in Seq(S) /\ DOMAIN r = 1..(Len(s) - 1)
      /\ \A k \in 1..(Len(s) - 1) : r[k] = IF k < i THEN s[k] ELSE s[k + 1]
  BY WithoutProperties, LenProperties
<1> HIDE DEF r
<1>3. ASSUME NEW j \in DOMAIN r, NEW k \in DOMAIN r, r[j] = r[k]
      PROVE  j = k
  <2> DEFINE at(m) == IF m < i THEN m ELSE m + 1
  <2>1. at(j) \in DOMAIN s /\ at(k) \in DOMAIN s /\ r[j] = s[at(j)] /\ r[k] = s[at(k)]
    BY <1>1, <1>2
  <2>2. at(j) = at(k)
    BY Zenon, <1>3, <2>1 DEF IsInjective
  <2> QED BY <1>1, <1>2, <2>2
<1>4. ASSUME NEW k \in DOMAIN r
      PROVE  (\E j \in DOMAIN s : s[j] = r[k]) /\ r[k] # s[i]
  <2>1. CASE k < i
    BY <1>1, <1>2, <2>1 DEF IsInjective
  <2>2. CASE ~(k < i)
    <3>1. k + 1 \in DOMAIN s /\ r[k] = s[k + 1] /\ k + 1 # i
      BY <1>1, <1>2, <2>2
    <3> QED BY <3>1 DEF IsInjective
  <2> QED BY <2>1, <2>2
<1>5. ASSUME NEW k \in DOMAIN s, s[k] # s[i]
      PROVE  \E j \in DOMAIN r : r[j] = s[k]
  <2>1. CASE k < i
    BY <1>1, <1>2, <2>1
  <2>2. CASE k > i
    <3>1. k - 1 \in DOMAIN r /\ r[k - 1] = s[k]
      BY <1>1, <1>2, <2>2
    <3> QED BY <3>1
  <2> QED BY <1>1, <1>5, <2>1, <2>2
<1>6. IsInjective(r)
  BY <1>3 DEF IsInjective
<1>7. Range(r) = Range(s) \ {s[i]}
  BY <1>4, <1>5 DEF Range
<1> QED BY <1>2, <1>6, <1>7 DEF r

\* min of two integers.
LEMMA MinOfTwo ==
    ASSUME NEW a \in Int, NEW b \in Int
    PROVE  Min({a, b}) = IF a <= b THEN a ELSE b
BY DEF Min

-----------------------------------------------------------------------------
(* What the helpers that run under d.mu do to ready.                       *)

\* markReady adds t to ready, at most once, if it has work and is not busy.
LEMMA MarkReadyEffect ==
    ASSUME TypeOK, IsInjective(ready), NEW t \in Tenants, NEW q, NEW b, markReady(t, q, b)
    PROVE  /\ ready' \in Seq(Tenants) /\ waiting' \subseteq Lanes
           /\ IsInjective(ready')
           /\ \A u \in Tenants : isReady(u)' <=>
                 isReady(u) \/ (u = t /\ t \notin b /\ q # <<>> /\ ~closed)
<1>1. ready \in Seq(Tenants) /\ waiting \subseteq Lanes /\ DOMAIN ready = 1..Len(ready)
      /\ Len(ready) \in Nat
  BY LenProperties DEF TypeOK
<1>2. CASE t \in b \/ isReady(t) \/ q = <<>> \/ closed
  <2>1. ready' = ready /\ waiting' = waiting
    BY <1>2 DEF markReady
  <2> QED BY <1>1, <1>2, <2>1 DEF isReady, IsInjective
<1>3. CASE ~(t \in b \/ isReady(t) \/ q = <<>> \/ closed)
  <2>1. ready' = Append(ready, t) /\ SignalWork
    BY <1>3 DEF markReady
  <2>2. waiting' \subseteq Lanes
    BY <1>1, <2>1 DEF SignalWork
  <2>3. /\ ready' \in Seq(Tenants) /\ DOMAIN ready' = 1..(Len(ready) + 1)
        /\ \A i \in 1..Len(ready) : ready'[i] = ready[i]
        /\ ready'[Len(ready) + 1] = t
    BY <1>1, <2>1, AppendProperties, LenProperties
  <2>4. IsInjective(ready')
    BY <1>1, <1>3, <2>3 DEF IsInjective, isReady
  <2>5. \A u \in Tenants : isReady(u)' <=> isReady(u) \/ u = t
    BY <1>1, <2>3 DEF isReady
  <2> QED BY <1>3, <2>2, <2>3, <2>4, <2>5
<1> QED BY <1>2, <1>3

\* markClosed keeps a waiting tenant in its place, forgets one without work
\* and makes one with new messages ready.
LEMMA MarkClosedEffect ==
    ASSUME TypeOK, IsInjective(ready), NEW t \in Tenants, markClosed(t)
    PROVE  /\ ready' \in Seq(Tenants) /\ waiting' \subseteq Lanes
           /\ capWaiting' = {} /\ older' \in [Tenants -> SUBSET Tenants]
           /\ IsInjective(ready')
           /\ \A u \in Tenants : isReady(u)' <=>
                 isReady(u) \/ (u = t /\ queue[t] # <<>> /\ ~closed)
           /\ tenants' = IF ~isReady(t) /\ queue[t] = <<>> THEN tenants \ {t} ELSE tenants
<1>1. capWaiting' = {} /\ older' \in [Tenants -> SUBSET Tenants]
  BY DEF markClosed, BroadcastCapFree, TypeOK
<1>2. CASE isReady(t)
  <2>1. SignalWork /\ ready' = ready /\ tenants' = tenants
    BY <1>2 DEF markClosed
  <2>2. waiting' \subseteq Lanes
    BY <2>1 DEF SignalWork, TypeOK
  <2> QED BY <1>1, <1>2, <2>1, <2>2 DEF isReady, IsInjective, TypeOK
<1>3. CASE ~isReady(t)
  <2>1. /\ markReady(t, queue[t], busy \ {t})
        /\ tenants' = IF queue[t] = <<>> THEN tenants \ {t} ELSE tenants
    BY <1>3 DEF markClosed
  <2> QED BY <1>1, <1>3, <2>1, MarkReadyEffect
<1> QED BY <1>2, <1>3

\* The batch a lane pops: types, and only the queue of t changes.
LEMMA StartBatchEffect ==
    ASSUME TypeOK, NEW l \in Lanes, NEW t \in Tenants, StartBatch(l, t)
    PROVE  /\ batch' \in [Lanes -> Seq(Nat)] /\ queue' \in [Tenants -> Seq(Nat)]
           /\ \A u \in Tenants \ {t} : queue'[u] = queue[u]
           /\ tq' = [tq EXCEPT ![l] = t]
           /\ pc' = [pc EXCEPT ![l] = "running"]
<1> DEFINE q == queue[t]
           n == Min({Len(q), batchMax})
<1>1. q \in Seq(Nat) /\ Len(q) \in Nat /\ DOMAIN q = 1..Len(q) /\ \A i \in 1..Len(q) : q[i] \in Nat
  BY LenProperties DEF TypeOK
<1>2. batchMax \in Nat
  BY DispatcherConfig
<1>3. n \in Nat /\ n <= Len(q)
  BY SMTT(30), <1>1, <1>2, MinOfTwo
<1>4. /\ batch' = [batch EXCEPT ![l] = SubSeq(q, 1, n)]
      /\ queue' = [queue EXCEPT ![t] = SubSeq(q, n + 1, Len(q))]
      /\ tq' = [tq EXCEPT ![l] = t]
      /\ pc' = [pc EXCEPT ![l] = "running"]
  BY DEF StartBatch, TypeOK
<1> HIDE DEF n, q
<1>5. SubSeq(q, 1, n) \in Seq(Nat)
  BY <1>1, <1>3, SubSeqProperties
<1>6. SubSeq(q, n + 1, Len(q)) \in Seq(Nat)
  BY <1>1, <1>3, SubSeqProperties
<1> QED BY <1>4, <1>5, <1>6 DEF TypeOK

-----------------------------------------------------------------------------
(* A lane takes a tenant that nobody works on, or goes on with the one it  *)
(* holds in reserveOpen.                                                   *)

\* The lane l may go on with t: nobody else works on t.
Claimable(l, t) ==
    /\ t \in tenants /\ victim[l] = NoTenant
    /\ (tq[l] = NoTenant /\ t \notin busy) \/ tq[l] = t

\* Elsewhere ready loses at most t.
OnlyLoses(t) ==
    /\ ready' \in Seq(Tenants) /\ IsInjective(ready')
    /\ \A u \in Tenants : /\ isReady(u)' => isReady(u)
                          /\ isReady(u) /\ u # t => isReady(u)'

\* A victim is open, and nobody works on it.
LEMMA VictimIsFree == capVictim \subseteq executor \ busy
BY DEF capVictim, Idle

\* A batch started under the cap keeps every invariant.
LEMMA RunKeepsIInv ==
    ASSUME IInv, NEW l \in Lanes, NEW t \in Tenants, Claimable(l, t), OnlyLoses(t),
           Run(l, t),
           UNCHANGED <<tenants, older, stopVars, waiting, closers, submitted, acked>>
    PROVE  IInv'
<1>1. /\ StartBatch(l, t)
      /\ executor' = executor \cup {t} /\ busy' = busy \cup {t}
      /\ open' = IF t \in executor THEN open ELSE open + 1
      /\ t \in executor \/ open < maxOpen
      /\ victim' = victim /\ capWaiting' = capWaiting
  BY DEF Run
<1>2. /\ batch' \in [Lanes -> Seq(Nat)] /\ queue' \in [Tenants -> Seq(Nat)]
      /\ \A u \in Tenants \ {t} : queue'[u] = queue[u]
      /\ tq' = [tq EXCEPT ![l] = t] /\ pc' = [pc EXCEPT ![l] = "running"]
  BY <1>1, StartBatchEffect DEF IInv
<1>3. TypeOK'
  BY <1>1, <1>2 DEF IInv, TypeOK, stopVars, OnlyLoses
<1>4. TenantHeldOnce'
  <2>1. closers' = closers /\ t # NoTenant /\ victim[l] = NoTenant
    BY DispatcherConfig DEF Claimable
  <2>2. \A k \in Lanes : tq'[k] = (IF k = l THEN t ELSE tq[k]) /\ victim'[k] = victim[k]
    BY <1>1, <1>2 DEF IInv, TypeOK
  <2>3. t \notin closers /\ \A k \in Lanes \ {l} : tq[k] # t /\ victim[k] # t
    BY DEF IInv, TenantHeldOnce, Holds, Claimable
  <2>4. \A u \in Tenants \ {t} : tq[l] # u
    BY DispatcherConfig DEF Claimable
  <2> QED BY <1>1, <2>1, <2>2, <2>3, <2>4, DispatcherConfig DEF IInv, TenantHeldOnce, Holds
<1>5. ExecutorsAccounted'
  BY <1>1, <1>2, DispatcherConfig
     DEF IInv, TypeOK, TenantHeldOnce, Holds, ExecutorsAccounted, Bookkeeping, Claimable
<1>6. OpenWithinCap' /\ IsFiniteSet(executor')
  BY <1>1, DispatcherConfig, FS_AddElement DEF IInv, TypeOK, OpenWithinCap, Bookkeeping
<1>7. NoLostWork'
  BY <1>1, <1>2 DEF IInv, TypeOK, NoLostWork, OnlyLoses, IsInjective, stopVars
<1>8. Bookkeeping'
  BY SMTT(30), <1>1, <1>2, <1>6, DispatcherConfig
     DEF IInv, TypeOK, TenantHeldOnce, Holds, Bookkeeping, Claimable, OnlyLoses, stopVars
<1> QED BY <1>3, <1>4, <1>5, <1>6, <1>7, <1>8 DEF IInv

\* At the cap the lane gives up, waits or starts to close a victim.
LEMMA AtCapKeepsIInv ==
    ASSUME IInv, NEW l \in Lanes, NEW t \in Tenants, Claimable(l, t), OnlyLoses(t),
           AtCap(l, t),
           UNCHANGED <<tenants, older, stopVars, waiting, closers, submitted, acked>>
    PROVE  IInv'
<1>1. t \notin executor /\ UNCHANGED <<queue, executor, open, batch>>
  BY DEF AtCap
<1>2. UNCHANGED <<tenants, older, closed, ctxDone, janitor, stopper, closePc, waiting,
                  closers, submitted, acked>>
  BY DEF stopVars
<1>3. OpenWithinCap' /\ IsFiniteSet(executor')
  BY <1>1 DEF IInv, OpenWithinCap, Bookkeeping
<1>4. CASE /\ closed \/ ctxDone
           /\ busy' = busy \ {t}
           /\ tq' = [tq EXCEPT ![l] = NoTenant] /\ pc' = [pc EXCEPT ![l] = "done"]
           /\ UNCHANGED <<victim, capWaiting>>
  <2>1. TypeOK'
    BY <1>1, <1>2, <1>4 DEF IInv, TypeOK, OnlyLoses
  <2>2. TenantHeldOnce'
    BY SMTT(30), <1>1, <1>2, <1>4, DispatcherConfig DEF IInv, TypeOK, TenantHeldOnce, Holds, Claimable
  <2>3. ExecutorsAccounted'
    BY <1>1, <1>2, <1>4 DEF IInv, TypeOK, ExecutorsAccounted
  <2>4. NoLostWork'
    BY <1>1, <1>2, <1>4 DEF IInv, TypeOK, NoLostWork, Bookkeeping, OnlyLoses, IsInjective
  <2>5. Bookkeeping'
    BY <1>1, <1>2, <1>3, <1>4 DEF IInv, TypeOK, Bookkeeping, Claimable, OnlyLoses
  <2> QED BY <1>3, <2>1, <2>2, <2>3, <2>4, <2>5 DEF IInv
<1>5. CASE /\ ~closed /\ ~ctxDone /\ capVictim = {}
           /\ busy' = busy \cup {t}
           /\ tq' = [tq EXCEPT ![l] = t] /\ pc' = [pc EXCEPT ![l] = "reserve"]
           /\ capWaiting' = capWaiting \cup {l} /\ UNCHANGED victim
  <2>1. TypeOK'
    BY <1>1, <1>2, <1>5 DEF IInv, TypeOK, OnlyLoses
  <2>2. TenantHeldOnce'
    BY SMTT(30), <1>1, <1>2, <1>5, DispatcherConfig DEF IInv, TypeOK, TenantHeldOnce, Holds, Claimable
  <2>3. ExecutorsAccounted'
    BY <1>1, <1>2, <1>5 DEF IInv, TypeOK, ExecutorsAccounted
  <2>4. NoLostWork'
    BY <1>1, <1>2, <1>5 DEF IInv, TypeOK, NoLostWork, OnlyLoses, IsInjective
  <2>5. Bookkeeping'
    BY <1>1, <1>2, <1>3, <1>5, DispatcherConfig
       DEF IInv, TypeOK, Bookkeeping, Claimable, OnlyLoses
  <2> QED BY <1>3, <2>1, <2>2, <2>3, <2>4, <2>5 DEF IInv
<1>6. ASSUME NEW v \in capVictim,
             busy' = busy \cup {t, v}, victim' = [victim EXCEPT ![l] = v],
             tq' = [tq EXCEPT ![l] = t], pc' = [pc EXCEPT ![l] = "closing"],
             UNCHANGED capWaiting
      PROVE  IInv'
  <2>1. v \in Tenants /\ v \in executor /\ v \notin busy /\ v # t
    BY <1>1, VictimIsFree DEF IInv, TypeOK
  <2>2. TypeOK'
    BY <1>1, <1>2, <1>6, <2>1 DEF IInv, TypeOK, OnlyLoses
  <2>3. TenantHeldOnce'
    BY SMTT(30), <1>1, <1>2, <1>6, <2>1, DispatcherConfig
       DEF IInv, TypeOK, TenantHeldOnce, Holds, Claimable
  <2>4. ExecutorsAccounted'
    BY <1>1, <1>2, <1>6, <2>1 DEF IInv, TypeOK, ExecutorsAccounted
  <2>5. NoLostWork'
    BY <1>1, <1>2, <1>6, <2>1 DEF IInv, TypeOK, NoLostWork, OnlyLoses, IsInjective
  <2>6. Bookkeeping'
    BY <1>1, <1>2, <1>3, <1>6, <2>1, DispatcherConfig
       DEF IInv, TypeOK, Bookkeeping, Claimable, OnlyLoses
  <2> QED BY <1>3, <2>2, <2>3, <2>4, <2>5, <2>6 DEF IInv
<1> QED BY <1>4, <1>5, <1>6 DEF AtCap

-----------------------------------------------------------------------------
(* One lemma per action, or per group of actions that change the same      *)
(* variables.                                                              *)

\* The place nextReady returns is one of ready, and its tenant is free.
LEMMA NextReadyIsFree ==
    ASSUME IInv, NEW i \in nextReady
    PROVE  /\ i \in DOMAIN ready /\ ready[i] \in Tenants \ busy
           /\ isReady(ready[i]) /\ ready[i] \in tenants
<1>1. i \in DOMAIN ready /\ ready[i] \notin busy
  BY DEF nextReady
<1>2. ready[i] \in Tenants
  BY <1>1, LenProperties DEF IInv, TypeOK
<1> QED BY <1>1, <1>2 DEF isReady, IInv, Bookkeeping

\* Taking the place i out of ready loses that tenant only.
LEMMA RemoveLoses ==
    ASSUME IInv, NEW i \in nextReady, ready' = Without(ready, i)
    PROVE  OnlyLoses(ready[i])
<1>1. i \in DOMAIN ready /\ ready \in Seq(Tenants)
      /\ IsInjective(ready)
  BY NextReadyIsFree DEF IInv, TypeOK, NoLostWork
<1>2. ready' \in Seq(Tenants) /\ IsInjective(ready') /\ Range(ready') = Range(ready) \ {ready[i]}
  BY <1>1, WithoutElements
<1>3. \A u : (isReady(u) <=> u \in Range(ready)) /\ (isReady(u)' <=> u \in Range(ready'))
  BY DEF isReady, Range
<1> QED BY <1>2, <1>3 DEF OnlyLoses

\* Submit queues a message behind the others of its tenant and puts an idle
\* tenant into ready once, so it preserves the inductive invariant.
LEMMA SubmitKeepsIInv ==
    ASSUME IInv, NEW t \in Tenants, Submit(t)
    PROVE  IInv'
<1>1. /\ submitted' = [submitted EXCEPT ![t] = @ + 1]
      /\ UNCHANGED <<executor, busy, older, open, closed, ctxDone, janitor, stopper, closePc,
                     pc, tq, victim, batch, capWaiting, closers, acked>>
  BY DEF Submit, stopVars, laneVars
<1>2. OpenWithinCap'
  BY <1>1 DEF IInv, OpenWithinCap
<1>3. TenantHeldOnce'
  BY <1>1 DEF IInv, TenantHeldOnce, Holds
<1>4. CASE closed
  <2>1. UNCHANGED <<queue, ready, tenants, waiting>>
    BY <1>4 DEF Submit, lists
  <2> QED BY SMTT(30), <1>1, <1>2, <1>3, <2>1
          DEF IInv, TypeOK, ExecutorsAccounted, NoLostWork, Bookkeeping, isReady
<1>5. CASE ~closed
  <2>1. /\ tenants' = tenants \cup {t}
        /\ queue' = [queue EXCEPT ![t] = Append(@, submitted[t] + 1)]
        /\ markReady(t, queue'[t], busy)
    BY <1>5 DEF Submit
  <2>2. /\ ready' \in Seq(Tenants) /\ waiting' \subseteq Lanes /\ IsInjective(ready')
        /\ \A u \in Tenants : isReady(u)' <=>
              isReady(u) \/ (u = t /\ t \notin busy /\ queue'[t] # <<>> /\ ~closed)
    BY Zenon, <2>1, MarkReadyEffect DEF IInv, NoLostWork, IsInjective
  <2>3. Append(queue[t], submitted[t] + 1) \in Seq(Nat)
    BY AppendProperties DEF IInv, TypeOK
  <2>4. TypeOK'
    BY SMTT(30), <1>1, <2>1, <2>2, <2>3 DEF IInv, TypeOK
  <2>5. ExecutorsAccounted'
    BY <1>1, <2>1 DEF IInv, ExecutorsAccounted
  <2>6. NoLostWork'
    BY <1>1, <1>5, <2>1, <2>2 DEF IInv, TypeOK, NoLostWork, IsInjective
  <2>7. Bookkeeping'
    BY <1>1, <2>1, <2>2 DEF IInv, Bookkeeping
  <2> QED BY <1>2, <1>3, <2>4, <2>5, <2>6, <2>7 DEF IInv
<1> QED BY <1>4, <1>5

\* The lane finds nothing, or a stopped lane ends.
LEMMA LookKeepsIInv ==
    ASSUME IInv, NEW l \in Lanes, LookWait(l) \/ LookExit(l)
    PROVE  IInv'
<1>1. CASE LookWait(l)
  BY <1>1 DEF LookWait, lists, stopVars, laneVars, IInv, TypeOK, TenantHeldOnce, Holds,
              ExecutorsAccounted, OpenWithinCap, NoLostWork, Bookkeeping, isReady
<1>2. CASE LookExit(l)
  <2>1. /\ pc[l] = "look" /\ closed /\ pc' = [pc EXCEPT ![l] = "done"]
        /\ UNCHANGED <<queue, tenants, executor, busy, older, open, closed, ctxDone, janitor,
                       stopper, closePc, tq, victim, batch, waiting, capWaiting, closers,
                       submitted, acked>>
    BY <1>2 DEF LookExit, stopVars
  <2>2. /\ ready' \in Seq(Tenants) /\ IsInjective(ready')
        /\ \A u \in Tenants : isReady(u)' => isReady(u)
    <3>1. CASE UNCHANGED ready
      BY <3>1 DEF IInv, TypeOK, NoLostWork, IsInjective, isReady
    <3>2. ASSUME NEW i \in nextReady, ready' = Without(ready, i)
          PROVE  OnlyLoses(ready[i])
      BY <3>2, RemoveLoses
    <3> QED BY <1>2, <3>1, <3>2 DEF LookExit, OnlyLoses
  <2>3. TypeOK'
    BY <2>1, <2>2 DEF IInv, TypeOK
  <2>4. TenantHeldOnce' /\ OpenWithinCap'
    BY <2>1 DEF IInv, TenantHeldOnce, Holds, OpenWithinCap
  <2>5. ExecutorsAccounted'
    BY <2>1 DEF IInv, TypeOK, ExecutorsAccounted
  <2>6. NoLostWork'
    BY <2>1, <2>2 DEF IInv, NoLostWork, IsInjective, Bookkeeping
  <2>7. Bookkeeping'
    BY <2>1, <2>2 DEF IInv, TypeOK, Bookkeeping
  <2> QED BY <2>3, <2>4, <2>5, <2>6, <2>7 DEF IInv
<1> QED BY <1>1, <1>2

\* The lane takes the first free tenant, or continues in reserveOpen.
LEMMA ClaimKeepsIInv ==
    ASSUME IInv, NEW l \in Lanes, Take(l) \/ Reserve(l)
    PROVE  IInv'
<1>1. CASE Take(l)
  <2>1. PICK i \in nextReady : ready' = Without(ready, i) /\ (Run(l, ready[i]) \/ AtCap(l, ready[i]))
    BY <1>1 DEF Take
  <2>2. ready[i] \in Tenants /\ Claimable(l, ready[i])
    BY <1>1, NextReadyIsFree DEF Take, Claimable, IInv, Bookkeeping
  <2>3. OnlyLoses(ready[i])
    BY <2>1, RemoveLoses
  <2>4. UNCHANGED <<tenants, older, stopVars, waiting, closers, submitted, acked>>
    BY <1>1 DEF Take
  <2> QED BY <2>1, <2>2, <2>3, <2>4, RunKeepsIInv, AtCapKeepsIInv
<1>2. CASE Reserve(l)
  <2>1. pc[l] = "reserve" /\ (Run(l, tq[l]) \/ AtCap(l, tq[l])) /\ ready' = ready
    BY <1>2 DEF Reserve
  <2>2. tq[l] \in Tenants /\ Claimable(l, tq[l])
    BY <2>1 DEF Claimable, IInv, TypeOK, Bookkeeping
  <2>3. OnlyLoses(tq[l])
    BY <2>1 DEF OnlyLoses, IInv, TypeOK, NoLostWork, IsInjective, isReady
  <2>4. UNCHANGED <<tenants, older, stopVars, waiting, closers, submitted, acked>>
    BY <1>2 DEF Reserve
  <2> QED BY <2>1, <2>2, <2>3, <2>4, RunKeepsIInv, AtCapKeepsIInv
<1> QED BY <1>1, <1>2

\* The victim's executor is closed and the lane runs its batch in its place.
LEMMA VictimClosedKeepsIInv ==
    ASSUME IInv, NEW l \in Lanes, VictimClosed(l)
    PROVE  IInv'
<1> DEFINE v == victim[l]
           t == tq[l]
<1>1. /\ pc[l] = "closing" /\ markClosed(v) /\ StartBatch(l, t)
      /\ executor' = (executor \ {v}) \cup {t} /\ busy' = busy \ {v}
      /\ victim' = [victim EXCEPT ![l] = NoTenant] /\ open' = (open - 1) + 1
      /\ UNCHANGED <<closed, ctxDone, janitor, stopper, closePc, closers, submitted, acked>>
  BY DEF VictimClosed, stopVars
<1>2. /\ v \in Tenants /\ t \in Tenants /\ v # t /\ v \in executor /\ t \notin executor
      /\ v \in busy /\ t \in busy /\ t \in tenants /\ v \notin closers
      /\ \A m \in Lanes \ {l} : tq[m] # v /\ victim[m] # v /\ tq[m] # t /\ victim[m] # t
  BY <1>1 DEF IInv, TypeOK, TenantHeldOnce, Holds, ExecutorsAccounted, Bookkeeping
<1> HIDE DEF v
<1>3. /\ batch' \in [Lanes -> Seq(Nat)] /\ queue' \in [Tenants -> Seq(Nat)]
      /\ \A u \in Tenants \ {t} : queue'[u] = queue[u]
      /\ tq' = [tq EXCEPT ![l] = t] /\ pc' = [pc EXCEPT ![l] = "running"]
  BY <1>1, <1>2, StartBatchEffect DEF IInv
<1>4. IsInjective(ready)
  BY Zenon DEF IInv, NoLostWork
<1>5. /\ ready' \in Seq(Tenants) /\ waiting' \subseteq Lanes
      /\ capWaiting' = {} /\ older' \in [Tenants -> SUBSET Tenants] /\ IsInjective(ready')
      /\ \A u \in Tenants : isReady(u)' <=> isReady(u) \/ (u = v /\ queue[v] # <<>> /\ ~closed)
      /\ tenants' = IF ~isReady(v) /\ queue[v] = <<>> THEN tenants \ {v} ELSE tenants
  BY <1>1, <1>2, <1>4, MarkClosedEffect DEF IInv
<1>6. OpenWithinCap' /\ IsFiniteSet(executor')
  <2>1. IsFiniteSet(executor \ {v}) /\ Cardinality(executor \ {v}) = Cardinality(executor) - 1
    BY Zenon, <1>2, FS_RemoveElement DEF IInv, Bookkeeping
  <2>2. /\ IsFiniteSet((executor \ {v}) \cup {t})
        /\ Cardinality((executor \ {v}) \cup {t}) = Cardinality(executor \ {v}) + 1
    BY Zenon, <1>2, <2>1, FS_AddElement
  <2> QED BY <1>1, <2>1, <2>2 DEF IInv, TypeOK, OpenWithinCap
<1>7. TypeOK'
  <2>1. open' \in Nat
    BY <1>1 DEF IInv, TypeOK
  <2> QED BY Zenon, <1>1, <1>2, <1>3, <1>5, <2>1 DEF IInv, TypeOK
<1>8. tq' = tq /\ \A m \in Lanes : victim'[m] = IF m = l THEN NoTenant ELSE victim[m]
  BY <1>1, <1>3 DEF IInv, TypeOK
<1>9. TenantHeldOnce'
  BY <1>1, <1>2, <1>8, DispatcherConfig DEF IInv, TypeOK, TenantHeldOnce, Holds, v
<1>10. ExecutorsAccounted'
  BY SMTT(30), <1>1, <1>2, <1>3, <1>5, <1>8 DEF IInv, TypeOK, ExecutorsAccounted
<1>11. NoLostWork'
  BY Zenon, <1>1, <1>2, <1>3, <1>5 DEF IInv, TypeOK, NoLostWork, Bookkeeping
<1>12. Bookkeeping'
  <2>1. \A u \in Tenants : isReady(u)' => u \in tenants'
    BY <1>2, <1>5 DEF IInv, Bookkeeping, ExecutorsAccounted
  <2>2. ASSUME NEW m \in Lanes
        PROVE  /\ tq'[m] # NoTenant <=> pc'[m] \in {"reserve", "closing", "running"}
               /\ victim'[m] # NoTenant <=> pc'[m] = "closing"
               /\ pc'[m] = "reserve" => tq'[m] \notin executor'
               /\ tq'[m] # NoTenant => tq'[m] \in tenants'
    <3>1. CASE m = l
      BY SMTT(30), <1>1, <1>2, <1>3, <1>5, <1>8, <3>1, DispatcherConfig DEF IInv, TypeOK
    <3>2. CASE m # l
      BY SMTT(30), <1>1, <1>2, <1>3, <1>5, <1>8, <3>2 DEF IInv, TypeOK, Bookkeeping
    <3> QED BY <3>1, <3>2
  <2> QED BY Zenon, <1>1, <1>6, <2>1, <2>2 DEF IInv, Bookkeeping
<1> QED BY <1>6, <1>7, <1>9, <1>10, <1>11, <1>12 DEF IInv

\* The batch is done and the tenant free again.
LEMMA FinishBatchKeepsIInv ==
    ASSUME IInv, NEW l \in Lanes, FinishBatch(l)
    PROVE  IInv'
<1> DEFINE t == tq[l]
<1>1. /\ pc[l] = "running" /\ busy' = busy \ {t} /\ markReady(t, queue[t], busy')
      /\ batch' = [batch EXCEPT ![l] = <<>>] /\ tq' = [tq EXCEPT ![l] = NoTenant]
      /\ pc' = [pc EXCEPT ![l] = "notify"]
      /\ older' = [u \in Tenants |-> IF u = t THEN executor \ {u} ELSE older[u] \ {t}]
      /\ UNCHANGED <<queue, tenants, executor, open, closed, ctxDone, janitor, stopper,
                     closePc, victim, capWaiting, closers, submitted>>
  BY Zenon DEF FinishBatch, stopVars
<1>2. t \in Tenants /\ t \in busy /\ IsInjective(ready)
  <2>1. t \in Tenants
    BY <1>1 DEF IInv, TypeOK, Bookkeeping
  <2>2. t \in busy
    BY <2>1 DEF IInv, TenantHeldOnce, Holds
  <2> QED BY <2>1, <2>2 DEF IInv, NoLostWork
<1>3. /\ ready' \in Seq(Tenants) /\ waiting' \subseteq Lanes /\ IsInjective(ready')
      /\ \A u \in Tenants : isReady(u)' <=> isReady(u) \/ (u = t /\ queue[t] # <<>> /\ ~closed)
  <2> HIDE DEF t
  <2>1. TypeOK /\ t \notin busy' /\ markReady(t, queue[t], busy')
    BY <1>1 DEF IInv
  <2> QED BY <1>2, <2>1, MarkReadyEffect
<1>4. acked' \in [Tenants -> SUBSET Nat]
  <2>1. Range(batch[l]) \subseteq Nat
    BY LenProperties DEF IInv, TypeOK, Range
  <2>2. PICK unfinished : acked' = [acked EXCEPT ![t] = @ \cup (Range(batch[l]) \ unfinished)]
    BY Zenon DEF FinishBatch
  <2> QED BY <1>2, <2>1, <2>2 DEF IInv, TypeOK
<1>5. TypeOK'
  <2>1. older' \in [Tenants -> SUBSET Tenants]
    BY <1>1 DEF IInv, TypeOK
  <2>2. batch' \in [Lanes -> Seq(Nat)]
    BY Zenon, <1>1, EmptySeq DEF IInv, TypeOK
  <2> QED BY <1>1, <1>2, <1>3, <1>4, <2>1, <2>2 DEF IInv, TypeOK
<1>6. TenantHeldOnce'
  BY SMTT(30), <1>1, <1>2, DispatcherConfig DEF IInv, TypeOK, TenantHeldOnce, Holds, Bookkeeping
<1>7. ExecutorsAccounted' /\ OpenWithinCap'
  BY <1>1 DEF IInv, TypeOK, ExecutorsAccounted, OpenWithinCap
<1>8. NoLostWork'
  BY <1>1, <1>2, <1>3 DEF IInv, TypeOK, NoLostWork, Bookkeeping
<1>9. Bookkeeping'
  <2>1. \A u \in Tenants : isReady(u)' => u \in tenants'
    BY <1>1, <1>2, <1>3 DEF IInv, Bookkeeping
  <2> QED BY Zenon, <1>1, <1>2, <2>1 DEF IInv, TypeOK, Bookkeeping
<1> QED BY <1>5, <1>6, <1>7, <1>8, <1>9 DEF IInv

\* The janitor starts to close idle executors.
LEMMA CloseIdleKeepsIInv ==
    ASSUME IInv, closeIdle
    PROVE  IInv'
<1>1. PICK closing : closing \subseteq Idle /\ busy' = busy \cup closing /\ closers' = closers \cup closing
  BY Zenon DEF closeIdle, OldestIdle
<1>2. UNCHANGED <<queue, ready, tenants, executor, older, open, closed, ctxDone, janitor, stopper,
                  closePc, pc, tq, victim, batch, waiting, capWaiting, submitted, acked>>
  BY DEF closeIdle, lists, stopVars, laneVars
<1>3. closing \subseteq executor \ busy /\ closing \subseteq Tenants
  BY <1>1 DEF Idle, IInv, TypeOK
<1>4. TypeOK'
  BY <1>1, <1>2, <1>3 DEF IInv, TypeOK
<1>5. TenantHeldOnce'
  BY <1>1, <1>2, <1>3 DEF IInv, TenantHeldOnce, Holds
<1>6. ExecutorsAccounted' /\ OpenWithinCap'
  BY <1>1, <1>2, <1>3 DEF IInv, ExecutorsAccounted, OpenWithinCap
<1>7. NoLostWork' /\ Bookkeeping'
  BY <1>1, <1>2 DEF IInv, NoLostWork, Bookkeeping, isReady
<1> QED BY <1>4, <1>5, <1>6, <1>7 DEF IInv

\* An idle executor is closed.
LEMMA CloseExecutorKeepsIInv ==
    ASSUME IInv, NEW t \in Tenants, closeExecutor(t)
    PROVE  IInv'
<1>1. /\ t \in closers /\ markClosed(t)
      /\ executor' = executor \ {t} /\ busy' = busy \ {t} /\ open' = open - 1
      /\ closers' = closers \ {t}
      /\ UNCHANGED <<queue, closed, ctxDone, janitor, stopper, closePc, pc, tq, victim, batch,
                     submitted, acked>>
  BY DEF closeExecutor, stopVars, laneVars
<1>2. t \in executor /\ t \in busy /\ IsInjective(ready) /\ \A l \in Lanes : tq[l] # t /\ victim[l] # t
  BY <1>1 DEF IInv, ExecutorsAccounted, TenantHeldOnce, Holds, NoLostWork
<1>3. /\ ready' \in Seq(Tenants) /\ waiting' \subseteq Lanes
      /\ capWaiting' = {} /\ older' \in [Tenants -> SUBSET Tenants] /\ IsInjective(ready')
      /\ \A u \in Tenants : isReady(u)' <=> isReady(u) \/ (u = t /\ queue[t] # <<>> /\ ~closed)
      /\ tenants' = IF ~isReady(t) /\ queue[t] = <<>> THEN tenants \ {t} ELSE tenants
  BY <1>1, <1>2, MarkClosedEffect DEF IInv
<1>4. OpenWithinCap' /\ IsFiniteSet(executor') /\ open' \in Nat
  <2>1. /\ IsFiniteSet(executor \ {t}) /\ Cardinality(executor \ {t}) = Cardinality(executor) - 1
        /\ Cardinality(executor \ {t}) \in Nat
    BY <1>2, FS_RemoveElement, FS_CardinalityType DEF IInv, Bookkeeping
  <2> QED BY <1>1, <2>1, DispatcherConfig DEF IInv, TypeOK, OpenWithinCap
<1>5. TypeOK'
  BY Zenon, <1>1, <1>3, <1>4 DEF IInv, TypeOK
<1>6. TenantHeldOnce'
  <2>1. \A l \in Lanes, u \in Tenants : Holds(l, u)' <=> Holds(l, u)
    BY <1>1 DEF Holds
  <2>2. \A l \in Lanes : ~Holds(l, t)
    BY <1>2 DEF Holds
  <2> QED BY <1>1, <2>1, <2>2 DEF IInv, TenantHeldOnce
<1>7. ExecutorsAccounted'
  BY Zenon, <1>1, <1>2, <1>3 DEF IInv, TypeOK, ExecutorsAccounted, Bookkeeping
<1>8. NoLostWork'
  BY SMTT(30), <1>1, <1>3 DEF IInv, NoLostWork, Bookkeeping
<1>9. Bookkeeping'
  BY <1>1, <1>2, <1>3, <1>4 DEF IInv, ExecutorsAccounted, Bookkeeping
<1> QED BY <1>4, <1>5, <1>6, <1>7, <1>8, <1>9 DEF IInv

\* A step that leaves the tenants alone (and may end the context) keeps what is
\* said about them.
LEMMA TenantsUnchanged ==
    ASSUME IInv, ctxDone => ctxDone',
           UNCHANGED <<queue, ready, tenants, executor, busy, open, tq, victim, closers>>
    PROVE  TenantHeldOnce' /\ OpenWithinCap' /\ NoLostWork'
<1>1. TenantHeldOnce'
  BY DEF IInv, TenantHeldOnce, Holds
<1>2. OpenWithinCap'
  BY DEF IInv, OpenWithinCap
<1>3. NoLostWork'
  BY DEF IInv, NoLostWork, isReady
<1> QED BY <1>1, <1>2, <1>3

\* The same for the lanes, if none of them moves.
LEMMA LanesUnchanged ==
    ASSUME IInv, closed' => ctxDone',
           UNCHANGED <<ready, tenants, executor, pc, tq, victim, closers>>
    PROVE  ExecutorsAccounted' /\ Bookkeeping'
<1>1. ExecutorsAccounted'
  BY DEF IInv, ExecutorsAccounted
<1>2. Bookkeeping'
  BY DEF IInv, Bookkeeping, isReady
<1> QED BY <1>1, <1>2

\* The steps of Close, of the stopper and of main, and a lane's Broadcast.
LEMMA StopKeepsIInv ==
    ASSUME IInv,
           \/ \E l \in Lanes : Notify(l)
           \/ JanitorExit \/ Cancel \/ SetClosed \/ StopBroadcast \/ Close \/ CloseReturn
    PROVE  IInv'
<1> USE DEF lists, stopVars, laneVars, BroadcastCapFree
<1>1. ASSUME NEW l \in Lanes, Notify(l)
      PROVE  IInv'
  <2>1. /\ UNCHANGED <<queue, ready, tenants, executor, busy, older, open, closed, ctxDone,
                        janitor, stopper, closePc, tq, victim, batch, waiting, closers,
                        submitted, acked>>
        /\ capWaiting' = {}
    BY <1>1 DEF Notify
  <2>2. pc' = [pc EXCEPT ![l] = "look"] /\ pc[l] = "notify"
    BY <1>1 DEF Notify
  <2>3. TypeOK'
    BY <2>1, <2>2 DEF IInv, TypeOK
  <2>4. TenantHeldOnce' /\ OpenWithinCap' /\ NoLostWork'
    BY <2>1, TenantsUnchanged
  <2>5. \A k \in Lanes : pc'[k] = pc[k] \/ (pc'[k] = "look" /\ pc[k] = "notify")
    BY Zenon, <2>2 DEF IInv, TypeOK
  <2>6. ExecutorsAccounted'
    BY <2>1, <2>5 DEF IInv, ExecutorsAccounted
  <2>7. ASSUME NEW k \in Lanes
        PROVE  /\ tq'[k] # NoTenant <=> pc'[k] \in {"reserve", "closing", "running"}
               /\ victim'[k] # NoTenant <=> pc'[k] = "closing"
               /\ pc'[k] = "reserve" => tq'[k] \notin executor'
               /\ tq'[k] # NoTenant => tq'[k] \in tenants'
    BY <2>1, <2>5 DEF IInv, Bookkeeping
  <2>8. Bookkeeping'
    BY <2>1, <2>7 DEF IInv, Bookkeeping, isReady
  <2> QED BY <2>3, <2>4, <2>6, <2>8 DEF IInv
<1>2. CASE JanitorExit \/ Cancel \/ SetClosed \/ StopBroadcast \/ Close \/ CloseReturn
  <2>1. UNCHANGED <<queue, ready, tenants, executor, busy, older, open, pc, tq, victim, batch,
                    closers, submitted, acked>>
    BY <1>2 DEF JanitorExit, Cancel, SetClosed, StopBroadcast, Close, CloseReturn
  <2>2. TypeOK' /\ (closed' => ctxDone') /\ (ctxDone => ctxDone')
    <3>1. CASE JanitorExit
      BY Zenon, <2>1, <3>1 DEF JanitorExit, IInv, TypeOK, Bookkeeping
    <3>2. CASE Cancel
      BY Zenon, <2>1, <3>2 DEF Cancel, IInv, TypeOK, Bookkeeping
    <3>3. CASE SetClosed
      BY Zenon, <2>1, <3>3 DEF SetClosed, IInv, TypeOK, Bookkeeping
    <3>4. CASE StopBroadcast
      BY Zenon, <2>1, <3>4 DEF StopBroadcast, IInv, TypeOK, Bookkeeping
    <3>5. CASE Close
      BY Zenon, <2>1, <3>5 DEF Close, IInv, TypeOK, Bookkeeping
    <3>6. CASE CloseReturn
      BY <2>1, <3>6 DEF CloseReturn, IInv, TypeOK, Bookkeeping
    <3> QED BY Zenon, <1>2, <3>1, <3>2, <3>3, <3>4, <3>5, <3>6
  <2>3. TenantHeldOnce' /\ OpenWithinCap' /\ NoLostWork'
    BY <2>1, <2>2, TenantsUnchanged
  <2>4. ExecutorsAccounted' /\ Bookkeeping'
    BY <2>1, <2>2, LanesUnchanged
  <2> QED BY Zenon, <2>2, <2>3, <2>4 DEF IInv
<1> QED BY <1>1, <1>2

\* Close forgets the executors: by then no lane and no goroutine has one.
LEMMA CloseCollectKeepsIInv ==
    ASSUME IInv, CloseCollect
    PROVE  IInv'
<1>1. /\ \A l \in Lanes : pc[l] = "done"
      /\ closers = {} /\ executor' = {} /\ open' = 0 /\ closePc' = "closing"
      /\ UNCHANGED <<queue, ready, tenants, busy, older, closed, ctxDone, janitor, stopper, pc, tq,
                     victim, batch, waiting, capWaiting, closers, submitted, acked>>
  BY DEF CloseCollect, AllGoroutinesEnded, lists, laneVars
<1>2. OpenWithinCap' /\ IsFiniteSet(executor')
  BY SMTT(30), <1>1, FS_EmptySet, DispatcherConfig DEF OpenWithinCap
<1>3. TypeOK' /\ TenantHeldOnce' /\ ExecutorsAccounted'
  BY <1>1 DEF IInv, TypeOK, TenantHeldOnce, Holds, ExecutorsAccounted
<1>4. NoLostWork' /\ Bookkeeping'
  BY <1>1, <1>2 DEF IInv, NoLostWork, Bookkeeping, isReady
<1> QED BY <1>2, <1>3, <1>4 DEF IInv

-----------------------------------------------------------------------------
(* The theorems.                                                           *)

\* IInv holds when newTopicDispatcher returns.
LEMMA InitIInv == newTopicDispatcher => IInv
<1> SUFFICES ASSUME newTopicDispatcher PROVE IInv
  OBVIOUS
<1>1. TypeOK
  BY Zenon, EmptySeq DEF newTopicDispatcher, TypeOK
<1>2. DOMAIN ready = {}
  BY EmptySeq DEF newTopicDispatcher
<1>3. TenantHeldOnce /\ ExecutorsAccounted
  BY DispatcherConfig DEF newTopicDispatcher, TenantHeldOnce, Holds, ExecutorsAccounted
<1>4. OpenWithinCap /\ IsFiniteSet(executor)
  BY FS_EmptySet, DispatcherConfig DEF newTopicDispatcher, OpenWithinCap
<1>5. NoLostWork
  BY <1>2 DEF newTopicDispatcher, NoLostWork, IsInjective
<1>6. Bookkeeping
  BY <1>2, <1>4 DEF newTopicDispatcher, Bookkeeping, isReady
<1> QED BY <1>1, <1>3, <1>4, <1>5, <1>6 DEF IInv

\* Every step of the dispatcher keeps IInv.
LEMMA NextIInv == IInv /\ [Next]_vars => IInv'
<1> SUFFICES ASSUME IInv, [Next]_vars PROVE IInv'
  OBVIOUS
<1>1. ASSUME NEW t \in Tenants, Submit(t) \/ closeExecutor(t)
      PROVE  IInv'
  BY <1>1, SubmitKeepsIInv, CloseExecutorKeepsIInv
<1>2. ASSUME NEW l \in Lanes, lane(l)
      PROVE  IInv'
  BY <1>2, LookKeepsIInv, ClaimKeepsIInv, VictimClosedKeepsIInv, FinishBatchKeepsIInv,
     StopKeepsIInv DEF lane
<1>3. CASE closeIdle \/ JanitorExit \/ Cancel \/ SetClosed \/ StopBroadcast \/ Close
           \/ CloseCollect \/ CloseReturn
  BY <1>3, CloseIdleKeepsIInv, CloseCollectKeepsIInv, StopKeepsIInv
<1>4. CASE UNCHANGED vars
  <2>1. UNCHANGED <<queue, ready, tenants, executor, busy, older, open, closed, ctxDone, janitor,
                    stopper, closePc, pc, tq, victim, batch, waiting, capWaiting, closers,
                    submitted, acked>>
    BY <1>4 DEF vars, lists, stopVars, laneVars
  <2>2. TypeOK' /\ (closed' => ctxDone')
    BY <2>1 DEF IInv, TypeOK, Bookkeeping
  <2>3. TenantHeldOnce' /\ OpenWithinCap' /\ NoLostWork'
    BY <2>1, TenantsUnchanged
  <2>4. ExecutorsAccounted' /\ Bookkeeping'
    BY <2>1, <2>2, LanesUnchanged
  <2> QED BY <2>2, <2>3, <2>4 DEF IInv
<1> QED BY <1>1, <1>2, <1>3, <1>4 DEF Next, Terminated

\* The variables keep their types, for any number of tenants, lanes and
\* messages and every cap maxOpen >= parallel.
THEOREM DispatcherTypes == Spec => []TypeOK
<1>1. IInv => TypeOK
  BY DEF IInv
<1> QED BY InitIInv, NextIInv, <1>1, PTL DEF Spec

\* A tenant is worked on by one goroutine at a time: never in two lanes at
\* once, and never closed by the janitor or a lane at the cap during a batch.
THEOREM DispatcherMutualExclusion == Spec => []TenantHeldOnce
<1>1. IInv => TenantHeldOnce
  BY DEF IInv
<1> QED BY InitIInv, NextIInv, <1>1, PTL DEF Spec

\* A batch runs on an executor that exists, and an executor being closed is still
\* there, by whoever it is closed (Close and markClosed find every one of them).
THEOREM DispatcherExecutorsAccounted == Spec => []ExecutorsAccounted
<1>1. IInv => ExecutorsAccounted
  BY DEF IInv
<1> QED BY InitIInv, NextIInv, <1>1, PTL DEF Spec

\* At most maxOpen executors exist, closing ones included, and d.open counts
\* them.
THEOREM DispatcherCap == Spec => []OpenWithinCap
<1>1. IInv => OpenWithinCap
  BY DEF IInv
<1> QED BY InitIInv, NextIInv, <1>1, PTL DEF Spec

\* Until the stop every tenant with queued messages is being worked on or
\* stands in ready, once.
THEOREM DispatcherNoLostWork == Spec => []NoLostWork
<1>1. IInv => NoLostWork
  BY DEF IInv
<1> QED BY InitIInv, NextIInv, <1>1, PTL DEF Spec

=============================================================================
