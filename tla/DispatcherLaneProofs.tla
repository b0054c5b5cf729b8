------------------------ MODULE DispatcherLaneProofs ------------------------
(***************************************************************************)
(* Further proofs about Dispatcher: the order of the messages and of the   *)
(* tenants, the wakeups of the two condition variables, which executor is  *)
(* closed, and what Close leaves.  They rest on the inductive invariant    *)
(* IInv of DispatcherProofs and strengthen it to JInv.                     *)
(***************************************************************************)
EXTENDS DispatcherProofs, WellFoundedInduction

\* Where the lanes sleep, and that only a running lane has a batch.  A tenant
\* a lane works for is not in ready.
Places ==
    /\ \A l \in waiting : pc[l] = "look"
    /\ \A l \in capWaiting : pc[l] = "reserve"
    /\ \A l \in Lanes : pc[l] # "running" => batch[l] = <<>>
    /\ \A l \in Lanes, t \in Tenants : tq[l] = t => ~isReady(t)

\* After the collection of Close nothing is left that could start anything.
Collected == closePc \in {"closing", "returned"} => AllGoroutinesEnded /\ executor = {}

\* lastUsed orders the executors.
Ages ==
    \A t \in Tenants :
        /\ t \notin older[t]
        /\ \A u \in older[t] : older[u] \subseteq older[t]
        /\ closePc \notin {"closing", "returned"} => older[t] \subseteq executor

Runs(l, t) == pc[l] = "running" /\ tq[l] = t

\* The messages of t: 1 .. a are acked, then come those of the batch, then those
\* in the queue.
InOrder(t) ==
    \E a \in Nat :
        /\ acked[t] = 1 .. a
        /\ \A i \in 1 .. Len(queue[t]) : queue[t][i] = submitted[t] - Len(queue[t]) + i
        /\ \A l \in Lanes : Runs(l, t) =>
              /\ \A i \in 1 .. Len(batch[l]) : batch[l][i] = a + i
              /\ a + Len(batch[l]) + Len(queue[t]) = submitted[t]
        /\ (\A l \in Lanes : ~Runs(l, t)) => a + Len(queue[t]) = submitted[t]

Ordered == ~ctxDone => \A t \in Tenants : InOrder(t)

JInv == Places /\ Collected /\ Ages /\ NoLostWakeup /\ NoLostCapWakeup /\ Ordered

-----------------------------------------------------------------------------
(* Minima.                                                                 *)

\* In a finite set that is strictly ordered some element has no predecessor;
\* before[x] holds the predecessors of x.
LEMMA Minimal ==
    ASSUME NEW S, IsFiniteSet(S), S # {}, NEW before,
           \A x \in S : x \notin before[x],
           \A x, y \in S : y \in before[x] => before[y] \cap S \subseteq before[x]
    PROVE  \E x \in S : before[x] \cap S = {}
<1> DEFINE Bad == {X \in FiniteSubsetsOf(S) : X # {} /\ \A x \in X : before[x] \cap X # {}}
<1>1. ASSUME Bad # {} PROVE FALSE
  <2>1. Bad \subseteq FiniteSubsetsOf(S) /\ IsWellFoundedOn(StrictSubsetOrdering(S), FiniteSubsetsOf(S))
    BY FS_StrictSubsetOrderingWellFounded
  <2> HIDE DEF Bad
  <2>2. PICK X \in Bad : \A Y \in Bad : ~(<<Y, X>> \in StrictSubsetOrdering(S))
    BY <1>1, <2>1, WFMin
  <2> USE DEF Bad
  <2>3. X \subseteq S /\ IsFiniteSet(X) /\ \A x \in X : before[x] \cap X # {}
    BY <2>2 DEF FiniteSubsetsOf
  <2>4. PICK x \in X : TRUE
    BY <2>2
  <2> DEFINE Y == before[x] \cap X
  <2>5. Y # {} /\ Y \subseteq X /\ x \notin Y /\ Y # X
    BY Zenon, <2>3, <2>4
  <2>6. Y \in FiniteSubsetsOf(S) /\ <<Y, X>> \in StrictSubsetOrdering(S)
    <3>1. IsFiniteSet(Y)
      BY <2>3, <2>5, FS_Subset
    <3> QED BY Zenon, <2>3, <2>5, <3>1 DEF FiniteSubsetsOf, StrictSubsetOrdering
  <2>7. PICK y \in Y : before[y] \cap Y = {}
    BY Zenon, <2>2, <2>5, <2>6
  <2>8. before[y] \cap X \subseteq before[y] \cap Y
    BY Zenon, <2>3, <2>4, <2>7
  <2> QED BY <2>3, <2>7, <2>8
<1>2. S \notin Bad
  BY <1>1
<1> QED BY <1>2 DEF FiniteSubsetsOf

\* A sequence has a first and a last place with a given property.
LEMMA FirstAndLast ==
    ASSUME NEW n \in Nat, NEW S, S \subseteq 1 .. n, S # {}
    PROVE  /\ \E i \in S : \A j \in 1 .. (i - 1) : j \notin S
           /\ \E i \in S : \A j \in (i + 1) .. n : j \notin S
<1>1. IsFiniteSet(S)
  <2>1. IsFiniteSet(1 .. n)
    BY FS_Interval, 1 \in Int, n \in Int
  <2> QED BY Zenon, <2>1, FS_Subset
<1>2. \E i \in S : \A j \in 1 .. (i - 1) : j \notin S
  <2>1. PICK before : before = [i \in S |-> 1 .. (i - 1)]
    BY Zenon
  <2>2. /\ \A x \in S : x \notin before[x]
        /\ \A x, y \in S : y \in before[x] => before[y] \cap S \subseteq before[x]
    BY <2>1
  <2>3. PICK i \in S : before[i] \cap S = {}
    BY Zenon, <1>1, <2>2, Minimal
  <2> QED BY <2>1, <2>3
<1>3. \E i \in S : \A j \in (i + 1) .. n : j \notin S
  <2>1. PICK before : before = [i \in S |-> (i + 1) .. n]
    BY Zenon
  <2>2. /\ \A x \in S : x \notin before[x]
        /\ \A x, y \in S : y \in before[x] => before[y] \cap S \subseteq before[x]
    BY <2>1
  <2>3. PICK i \in S : before[i] \cap S = {}
    BY Zenon, <1>1, <2>2, Minimal
  <2> QED BY <2>1, <2>3
<1> QED BY Zenon, <1>2, <1>3

-----------------------------------------------------------------------------
(* What nextReady and capVictim find.                                      *)

\* nextReady returns nil only if every tenant in ready is busy.
LEMMA NextReadyFinds ==
    ASSUME IInv, nextReady = {}
    PROVE  Takeable = {}
<1>1. Len(ready) \in Nat /\ DOMAIN ready = 1 .. Len(ready)
  BY LenProperties DEF IInv, TypeOK
<1> DEFINE S == {i \in DOMAIN ready : ready[i] \notin busy}
<1>2. ASSUME S # {} PROVE FALSE
  <2> HIDE DEF S
  <2>1. S \subseteq 1 .. Len(ready)
    BY <1>1 DEF S
  <2>2. PICK i \in S : \A j \in 1 .. (i - 1) : j \notin S
    BY Zenon, <1>1, <1>2, <2>1, FirstAndLast
  <2>3. \A j \in 1 .. (i - 1) : j \in DOMAIN ready
    BY <1>1, <2>1, <2>2
  <2>4. i \in nextReady
    BY <2>2, <2>3 DEF S, nextReady
  <2> QED BY <2>4
<1> QED BY <1>2 DEF Takeable, isReady

\* capVictim returns nil exactly when every executor is in use or closing.
LEMMA CapVictimFinds ==
    ASSUME IInv, Ages, closePc \notin {"closing", "returned"}
    PROVE  capVictim = {} <=> executor \subseteq busy
<1>1. executor \subseteq busy => capVictim = {}
  BY VictimIsFree
<1>2. ASSUME Idle # {} PROVE capVictim # {}
  <2>1. Idle \subseteq executor /\ Idle \subseteq Tenants
    BY DEF Idle, IInv, TypeOK
  <2>2. IsFiniteSet(Idle)
    BY <2>1, FS_Subset DEF IInv, Bookkeeping
  <2>3. /\ \A x \in Idle : x \notin older[x]
        /\ \A x, y \in Idle : y \in older[x] => older[y] \cap Idle \subseteq older[x]
    BY <2>1 DEF Ages
  <2>4. PICK x \in Idle : older[x] \cap Idle = {}
    BY <1>2, <2>2, <2>3, Minimal
  <2> QED BY <1>2, <2>4 DEF capVictim
<1>3. ASSUME Idle = {}, NEW t \in executor \ busy PROVE capVictim # {}
  <2>1. Len(ready) \in Nat /\ DOMAIN ready = 1 .. Len(ready)
    BY LenProperties DEF IInv, TypeOK
  <2> DEFINE S == {i \in DOMAIN ready : ready[i] \in executor \ busy}
  <2>2. S # {} /\ S \subseteq 1 .. Len(ready)
    BY <1>3, <2>1 DEF Idle, isReady
  <2> HIDE DEF S
  <2>3. PICK i \in S : \A j \in (i + 1) .. Len(ready) : j \notin S
    BY Zenon, <2>1, <2>2, FirstAndLast
  <2>4. \A j \in (i + 1) .. Len(ready) : j \in DOMAIN ready
    BY <2>1, <2>2, <2>3
  <2>5. ready[i] \in capVictim
    BY <1>3, <2>3, <2>4 DEF S, capVictim
  <2> QED BY <2>5
<1> QED BY <1>1, <1>2, <1>3

-----------------------------------------------------------------------------
(* What the steps do, in the form the proofs below need.                   *)

\* t may enter ready: then it is the last, and a sleeping lane wakes up.
MayEnter(t) ==
    /\ waiting' \subseteq waiting
    /\ \A u \in Tenants \ {t} : isReady(u)' <=> isReady(u)
    /\ isReady(t) => isReady(t)'
    /\ ~isReady(t) /\ isReady(t)' =>
          /\ ready'[Len(ready')] = t
          /\ waiting = {} \/ \E w \in waiting : waiting' = waiting \ {w}

LEMMA MarkReadyEnters ==
    ASSUME IInv, NEW t \in Tenants, NEW q, NEW b, markReady(t, q, b)
    PROVE  MayEnter(t) /\ (isReady(t)' /\ ~isReady(t) => t \notin b)
<1>1. ready \in Seq(Tenants) /\ DOMAIN ready = 1 .. Len(ready) /\ Len(ready) \in Nat
  BY LenProperties DEF IInv, TypeOK
<1>2. CASE t \in b \/ isReady(t) \/ q = <<>> \/ closed
  <2>1. ready' = ready /\ waiting' = waiting
    BY <1>2 DEF markReady
  <2> QED BY <2>1 DEF isReady, MayEnter
<1>3. CASE ~(t \in b \/ isReady(t) \/ q = <<>> \/ closed)
  <2>1. ready' = Append(ready, t) /\ SignalWork
    BY <1>3 DEF markReady
  <2>2. /\ DOMAIN ready' = 1 .. (Len(ready) + 1) /\ Len(ready') = Len(ready) + 1
        /\ \A i \in 1 .. Len(ready) : ready'[i] = ready[i]
        /\ ready'[Len(ready) + 1] = t
    BY <1>1, <2>1, AppendProperties, LenProperties
  <2>3. \A u \in Tenants : isReady(u)' <=> isReady(u) \/ u = t
    BY <1>1, <2>2 DEF isReady
  <2>4. waiting' \subseteq waiting /\ (waiting = {} \/ \E w \in waiting : waiting' = waiting \ {w})
    BY <2>1 DEF SignalWork
  <2>5. ready'[Len(ready')] = t
    BY <2>2
  <2> QED BY <1>3, <2>3, <2>4, <2>5 DEF MayEnter
<1> QED BY <1>2, <1>3

\* markClosed also wakes a lane for a tenant that kept its place.
LEMMA MarkClosedEnters ==
    ASSUME IInv, NEW t \in Tenants, markClosed(t)
    PROVE  /\ MayEnter(t) /\ capWaiting' = {}
           /\ isReady(t)' => waiting = {} \/ \E w \in waiting : waiting' = waiting \ {w}
           /\ older' = [u \in Tenants |-> IF u = t THEN {} ELSE older[u] \ {t}]
<1>1. capWaiting' = {} /\ older' = [u \in Tenants |-> IF u = t THEN {} ELSE older[u] \ {t}]
  BY DEF markClosed, BroadcastCapFree
<1>2. CASE isReady(t)
  <2>1. SignalWork /\ ready' = ready
    BY <1>2 DEF markClosed
  <2>2. waiting' \subseteq waiting /\ (waiting = {} \/ \E w \in waiting : waiting' = waiting \ {w})
    BY <2>1 DEF SignalWork
  <2> QED BY <1>1, <1>2, <2>1, <2>2 DEF isReady, MayEnter
<1>3. CASE ~isReady(t)
  <2>1. markReady(t, queue[t], busy \ {t})
    BY <1>3 DEF markClosed
  <2>2. MayEnter(t)
    BY <2>1, MarkReadyEnters
  <2> QED BY <1>1, <1>3, <2>2 DEF MayEnter
<1> QED BY <1>2, <1>3

\* The lane l goes on with the tenant t, which is not in ready afterwards.
Claims(l, t) ==
    /\ Claimable(l, t) /\ OnlyLoses(t) /\ ~isReady(t)'
    /\ \/ pc[l] = "look" /\ l \notin waiting /\ t \in Takeable /\ tq[l] = NoTenant
       \/ pc[l] = "reserve" /\ l \notin capWaiting /\ tq[l] = t /\ ready' = ready
    /\ Run(l, t) \/ AtCap(l, t)
    /\ UNCHANGED <<tenants, older, closed, ctxDone, janitor, stopper, closePc, waiting,
                   closers, submitted, acked>>

LEMMA ClaimEffect ==
    ASSUME IInv, Places, NEW l \in Lanes, Take(l) \/ Reserve(l)
    PROVE  \E t \in Tenants : Claims(l, t)
<1>1. CASE Take(l)
  <2>1. PICK i \in nextReady : ready' = Without(ready, i) /\ (Run(l, ready[i]) \/ AtCap(l, ready[i]))
    BY <1>1 DEF Take
  <2>2. PICK t : t = ready[i]
    OBVIOUS
  <2>3. /\ i \in DOMAIN ready /\ t \in Tenants \ busy /\ isReady(t) /\ t \in tenants
        /\ ready \in Seq(Tenants) /\ IsInjective(ready)
    BY <2>2, NextReadyIsFree DEF IInv, TypeOK, NoLostWork
  <2>4. pc[l] = "look" /\ l \notin waiting /\ tq[l] = NoTenant /\ victim[l] = NoTenant
    BY <1>1 DEF Take, IInv, Bookkeeping
  <2>5. OnlyLoses(t)
    BY <2>1, <2>2, RemoveLoses
  <2>6. ~isReady(t)'
    <3>1. Range(ready') = Range(ready) \ {t}
      BY <2>1, <2>2, <2>3, WithoutElements
    <3>2. isReady(t)' => t \in Range(ready')
      BY DEF isReady, Range
    <3> QED BY <3>1, <3>2
  <2>7. UNCHANGED <<tenants, older, closed, ctxDone, janitor, stopper, closePc, waiting,
                    closers, submitted, acked>>
    BY <1>1 DEF Take, stopVars
  <2>8. Run(l, t) \/ AtCap(l, t)
    BY <2>1, <2>2
  <2>9. Claimable(l, t) /\ t \in Takeable
    BY <2>3, <2>4 DEF Claimable, Takeable
  <2> QED BY <2>3, <2>4, <2>5, <2>6, <2>7, <2>8, <2>9 DEF Claims
<1>2. CASE Reserve(l)
  <2>1. PICK t : t = tq[l]
    OBVIOUS
  <2>2. /\ pc[l] = "reserve" /\ (Run(l, t) \/ AtCap(l, t)) /\ ready' = ready
        /\ l \notin capWaiting
    BY <1>2, <2>1 DEF Reserve
  <2>3. t \in Tenants /\ Claimable(l, t)
    BY <2>1, <2>2 DEF Claimable, IInv, TypeOK, Bookkeeping
  <2>4. OnlyLoses(t)
    BY <2>2 DEF OnlyLoses, IInv, TypeOK, NoLostWork, IsInjective, isReady
  <2>5. ~isReady(t)'
    BY <2>1, <2>2, <2>3 DEF Places, isReady
  <2>6. UNCHANGED <<tenants, older, closed, ctxDone, janitor, stopper, closePc, waiting,
                    closers, submitted, acked>>
    BY <1>2 DEF Reserve, stopVars
  <2> QED BY <2>1, <2>2, <2>3, <2>4, <2>5, <2>6 DEF Claims
<1> QED BY <1>1, <1>2

-----------------------------------------------------------------------------
(* How a step keeps the wakeups and the order.                             *)

LEMMA ElementsFinite ==
    ASSUME NEW S, NEW s \in Seq(S)
    PROVE  IsFiniteSet({x \in S : \E i \in DOMAIN s : s[i] = x})
<1>1. Len(s) \in Nat /\ DOMAIN s = 1 .. Len(s) /\ \A i \in 1 .. Len(s) : s[i] \in S
  BY LenProperties
<1> DEFINE T == {x \in S : \E i \in DOMAIN s : s[i] = x}
<1>2. IsFiniteSet(DOMAIN s)
  BY <1>1, FS_Interval, 1 \in Int, Len(s) \in Int
<1>3. PICK f : f = [i \in DOMAIN s |-> s[i]]
  OBVIOUS
<1>4. f \in Surjection(DOMAIN s, T)
  BY <1>1, <1>3 DEF Surjection
<1> HIDE DEF T
<1>5. IsFiniteSet(T)
  BY <1>2, <1>4, FS_Surjection
<1> QED BY <1>5 DEF T

\* The two sets NoLostWakeup counts are finite.
LEMMA CountsFinite ==
    ASSUME IInv, IInv'
    PROVE  /\ IsFiniteSet(Looking) /\ IsFiniteSet(Looking')
           /\ IsFiniteSet(Takeable) /\ IsFiniteSet(Takeable')
<1>1. IsFiniteSet(Looking) /\ IsFiniteSet(Looking')
  <2>1. Looking \subseteq Lanes /\ Looking' \subseteq Lanes
    BY DEF Looking
  <2> QED BY <2>1, FS_Subset, DispatcherConfig
<1>2. ready \in Seq(Tenants) /\ ready' \in Seq(Tenants)
  BY DEF IInv, TypeOK
<1>3. IsFiniteSet(Takeable)
  <2> DEFINE T == {x \in Tenants : \E i \in DOMAIN ready : ready[i] = x}
  <2>1. IsFiniteSet(T)
    BY <1>2, ElementsFinite
  <2>2. Takeable \subseteq T
    BY DEF Takeable, isReady
  <2> QED BY <2>1, <2>2, FS_Subset
<1>4. IsFiniteSet(Takeable')
  <2> DEFINE T == {x \in Tenants : \E i \in DOMAIN ready' : ready'[i] = x}
  <2>1. IsFiniteSet(T)
    BY <1>2, ElementsFinite
  <2>2. Takeable' \subseteq T
    BY DEF Takeable, isReady
  <2> QED BY <2>1, <2>2, FS_Subset
<1> QED BY <1>1, <1>3, <1>4

\* No more tenants to take, no fewer lanes that look.
LEMMA WakeupSame ==
    ASSUME IInv, IInv', NoLostWakeup, ctxDone => ctxDone',
           waiting' \subseteq waiting, Looking \subseteq Looking', Takeable' \subseteq Takeable
    PROVE  NoLostWakeup'
<1>1. Cardinality(Looking) <= Cardinality(Looking') /\ Cardinality(Takeable') <= Cardinality(Takeable)
  BY CountsFinite, FS_Subset
<1>2. /\ Cardinality(Looking) \in Nat /\ Cardinality(Looking') \in Nat
      /\ Cardinality(Takeable) \in Nat /\ Cardinality(Takeable') \in Nat
  BY CountsFinite, FS_CardinalityType
<1>3. waiting' # {} => waiting # {}
  OBVIOUS
<1> QED BY <1>1, <1>2, <1>3 DEF NoLostWakeup

\* One more tenant to take, and one more lane that looks if any slept.
LEMMA WakeupMore ==
    ASSUME IInv, IInv', Places, NoLostWakeup, ctxDone => ctxDone', NEW t,
           waiting' \subseteq waiting,
           t \in Takeable' \ Takeable => waiting = {} \/ \E w \in waiting : waiting' = waiting \ {w},
           \A l \in Lanes : pc[l] = "look" => pc'[l] = "look",
           Takeable' \subseteq Takeable \cup {t}
    PROVE  NoLostWakeup'
<1>1. Looking \subseteq Looking'
  BY DEF Looking
<1>2. CASE t \in Takeable \/ t \notin Takeable'
  <2>1. Takeable' \subseteq Takeable
    BY <1>2
  <2> QED BY <1>1, <2>1, WakeupSame
<1>3. CASE waiting = {}
  BY <1>3 DEF NoLostWakeup
<1>4. ASSUME t \in Takeable' \ Takeable, NEW w \in waiting, waiting' = waiting \ {w}
      PROVE  NoLostWakeup'
  <2>1. w \in Lanes /\ w \notin Looking /\ Looking \cup {w} \subseteq Looking'
    BY <1>1, <1>4 DEF Looking, Places, IInv, TypeOK
  <2>2. /\ IsFiniteSet(Looking) /\ IsFiniteSet(Looking')
        /\ IsFiniteSet(Takeable) /\ IsFiniteSet(Takeable')
    BY CountsFinite
  <2>3. Cardinality(Looking) + 1 <= Cardinality(Looking')
    <3>1. Cardinality(Looking \cup {w}) = Cardinality(Looking) + 1
      BY Zenon, <2>1, <2>2, FS_AddElement
    <3>2. Cardinality(Looking \cup {w}) <= Cardinality(Looking')
      BY <2>1, <2>2, FS_Subset
    <3> QED BY <3>1, <3>2
  <2>4. Cardinality(Takeable') <= Cardinality(Takeable) + 1
    <3>1. /\ IsFiniteSet(Takeable \cup {t})
          /\ Cardinality(Takeable \cup {t}) = Cardinality(Takeable) + 1
      BY <1>4, <2>2, FS_AddElement
    <3>2. Cardinality(Takeable') <= Cardinality(Takeable \cup {t})
      BY <3>1, FS_Subset
    <3> QED BY Zenon, <3>1, <3>2
  <2>5. /\ Cardinality(Looking) \in Nat /\ Cardinality(Looking') \in Nat
        /\ Cardinality(Takeable) \in Nat /\ Cardinality(Takeable') \in Nat
    BY <2>2, FS_CardinalityType
  <2> QED BY <1>4, <2>3, <2>4, <2>5 DEF NoLostWakeup
<1> QED BY <1>2, <1>3, <1>4

\* A lane that looked takes a tenant.
LEMMA WakeupTaken ==
    ASSUME IInv, IInv', NoLostWakeup, ctxDone => ctxDone', waiting' = waiting,
           NEW l \in Looking, NEW t \in Takeable,
           Looking \ {l} \subseteq Looking', Takeable' \subseteq Takeable \ {t}
    PROVE  NoLostWakeup'
<1>1. /\ IsFiniteSet(Looking) /\ IsFiniteSet(Looking')
      /\ IsFiniteSet(Takeable) /\ IsFiniteSet(Takeable')
  BY CountsFinite
<1>2. Cardinality(Looking) - 1 <= Cardinality(Looking')
  <2>1. Cardinality(Looking \ {l}) = Cardinality(Looking) - 1
    BY Zenon, <1>1, FS_RemoveElement
  <2> QED BY <1>1, <2>1, FS_Subset
<1>3. Cardinality(Takeable') <= Cardinality(Takeable) - 1
  <2>1. IsFiniteSet(Takeable \ {t}) /\ Cardinality(Takeable \ {t}) = Cardinality(Takeable) - 1
    BY Zenon, <1>1, FS_RemoveElement
  <2> QED BY <2>1, FS_Subset
<1>4. /\ Cardinality(Looking) \in Nat /\ Cardinality(Looking') \in Nat
      /\ Cardinality(Takeable) \in Nat /\ Cardinality(Takeable') \in Nat
  BY <1>1, FS_CardinalityType
<1> QED BY <1>2, <1>3, <1>4 DEF NoLostWakeup

\* What keeps the lanes at the cap asleep, or is about to wake them.
LEMMA CapWakeupKept ==
    ASSUME capWaiting' # {} =>
               \/ open' >= maxOpen /\ executor' \subseteq busy' /\ executor' # {}
               \/ \E l \in Lanes : pc'[l] = "notify"
               \/ stopper' = "broadcast"
    PROVE  NoLostCapWakeup'
<1>1. capVictim' \subseteq executor' \ busy'
  BY DEF capVictim, Idle
<1>2. executor' \subseteq busy' => capVictim' = {}
  BY <1>1
<1> QED BY <1>2 DEF NoLostCapWakeup

\* A step that frees no executor and drops no announced broadcast.
LEMMA CapWakeupSame ==
    ASSUME NoLostCapWakeup, capWaiting' \subseteq capWaiting,
           executor' = executor, open' = open, executor \cap busy \subseteq busy',
           \A l \in Lanes : pc[l] = "notify" => pc'[l] = "notify",
           stopper = "broadcast" => stopper' = "broadcast"
    PROVE  NoLostCapWakeup'
<1>1. capWaiting' # {} => capWaiting # {}
  OBVIOUS
<1>2. executor \subseteq busy => executor' \subseteq busy'
  OBVIOUS
<1> QED BY <1>1, <1>2, CapWakeupKept DEF NoLostCapWakeup

\* A step that leaves the messages of t alone.
LEMMA OrderSame ==
    ASSUME NEW t, InOrder(t),
           acked'[t] = acked[t], queue'[t] = queue[t], submitted'[t] = submitted[t],
           \A l \in Lanes : Runs(l, t)' <=> Runs(l, t),
           \A l \in Lanes : Runs(l, t) => batch'[l] = batch[l]
    PROVE  InOrder(t)'
<1>1. PICK a \in Nat :
        /\ acked[t] = 1 .. a
        /\ \A i \in 1 .. Len(queue[t]) : queue[t][i] = submitted[t] - Len(queue[t]) + i
        /\ \A l \in Lanes : Runs(l, t) =>
              /\ \A i \in 1 .. Len(batch[l]) : batch[l][i] = a + i
              /\ a + Len(batch[l]) + Len(queue[t]) = submitted[t]
        /\ (\A l \in Lanes : ~Runs(l, t)) => a + Len(queue[t]) = submitted[t]
  BY Zenon DEF InOrder
<1>2. \A l \in Lanes : Runs(l, t)' =>
              /\ \A i \in 1 .. Len(batch'[l]) : batch'[l][i] = a + i
              /\ a + Len(batch'[l]) + Len(queue'[t]) = submitted'[t]
  BY Zenon, <1>1
<1>3. (\A l \in Lanes : ~Runs(l, t)') => a + Len(queue'[t]) = submitted'[t]
  BY <1>1
<1>4. \A i \in 1 .. Len(queue'[t]) : queue'[t][i] = submitted'[t] - Len(queue'[t]) + i
  BY <1>1
<1> QED BY Zenon, <1>1, <1>2, <1>3, <1>4 DEF InOrder

\* A lane pops the oldest queued messages of t, which nobody runs.
LEMMA StartBatchKeepsOrder ==
    ASSUME IInv, NEW l \in Lanes, NEW t \in Tenants, StartBatch(l, t), pc[l] # "running",
           \A k \in Lanes : ~Runs(k, t), acked' = acked, submitted' = submitted,
           \A u \in Tenants : InOrder(u)
    PROVE  \A u \in Tenants : InOrder(u)'
<1>1. PICK q : q = queue[t]
  OBVIOUS
<1>2. PICK n : n = Min({Len(q), batchMax})
  OBVIOUS
<1>3. PICK L : L = Len(q)
  BY Zenon
<1>4. q \in Seq(Nat) /\ L \in Nat
  BY <1>1, <1>3, LenProperties DEF IInv, TypeOK
<1>5. n \in Nat /\ n <= L
  BY <1>2, <1>3, <1>4, MinOfTwo, DispatcherConfig
<1>6. /\ batch' = [batch EXCEPT ![l] = SubSeq(q, 1, n)]
      /\ queue' = [queue EXCEPT ![t] = SubSeq(q, n + 1, L)]
      /\ tq' = [tq EXCEPT ![l] = t] /\ pc' = [pc EXCEPT ![l] = "running"]
  BY <1>1, <1>2, <1>3 DEF StartBatch, IInv, TypeOK
<1>7. /\ batch'[l] = SubSeq(q, 1, n) /\ queue'[t] = SubSeq(q, n + 1, L)
      /\ \A k \in Lanes \ {l} : batch'[k] = batch[k] /\ tq'[k] = tq[k] /\ pc'[k] = pc[k]
      /\ \A u \in Tenants \ {t} : queue'[u] = queue[u]
      /\ tq'[l] = t /\ pc'[l] = "running"
  BY Zenon, <1>6 DEF IInv, TypeOK
<1>8. ASSUME NEW u \in Tenants \ {t} PROVE InOrder(u)'
  <2>1. \A k \in Lanes : Runs(k, u)' <=> Runs(k, u)
    BY <1>7 DEF Runs
  <2>2. \A k \in Lanes : Runs(k, u) => batch'[k] = batch[k]
    BY <1>7 DEF Runs
  <2> QED BY <1>7, <2>1, <2>2, OrderSame
<1>9. Len(SubSeq(q, 1, n)) = n /\ \A i \in 1 .. n : SubSeq(q, 1, n)[i] = q[i]
  BY <1>3, <1>4, <1>5, SubSeqProperties
<1>10. Len(SubSeq(q, n + 1, L)) = L - n /\ \A i \in 1 .. (L - n) : SubSeq(q, n + 1, L)[i] = q[n + i]
  <2>1. PICK m \in Int : m = n + 1
    BY <1>5
  <2>2. m \in 1 .. (L + 1) /\ L \in (m - 1) .. Len(q) /\ L - m + 1 = L - n
    BY <1>3, <1>4, <1>5, <2>1
  <2>3. Len(SubSeq(q, m, L)) = L - m + 1 /\ \A i \in 1 .. (L - m + 1) : SubSeq(q, m, L)[i] = q[m + i - 1]
    BY <1>3, <1>4, <2>2, SubSeqProperties
  <2>4. \A i \in 1 .. (L - n) : m + i - 1 = n + i
    BY <1>4, <1>5, <2>1
  <2> QED BY Zenon, <2>1, <2>2, <2>3, <2>4
<1>11. PICK a \in Nat :
        /\ acked[t] = 1 .. a
        /\ \A i \in 1 .. L : q[i] = submitted[t] - L + i
        /\ a + L = submitted[t]
  BY Zenon, <1>1, <1>3 DEF InOrder
<1>12. \A k \in Lanes : Runs(k, t)' <=> k = l
  BY <1>7 DEF Runs
<1>13. InOrder(t)'
  <2>1. Len(batch'[l]) = n /\ Len(queue'[t]) = L - n /\ acked'[t] = 1 .. a /\ submitted'[t] = a + L
    BY Zenon, <1>7, <1>9, <1>10, <1>11
  <2>2. ASSUME NEW i \in 1 .. n PROVE batch'[l][i] = a + i
    <3>1. i \in 1 .. L
      BY <1>4, <1>5
    <3>2. batch'[l][i] = submitted[t] - L + i
      BY Zenon, <1>7, <1>9, <1>11, <3>1
    <3> QED BY <1>4, <1>11, <3>2
  <2>3. a + n + (L - n) = a + L
    BY <1>4, <1>5
  <2>4. ASSUME NEW i \in 1 .. (L - n)
        PROVE  queue'[t][i] = (a + L) - (L - n) + i
    <3>1. n + i \in 1 .. L
      BY <1>4, <1>5
    <3>2. queue'[t][i] = submitted[t] - L + (n + i)
      BY Zenon, <1>7, <1>10, <1>11, <3>1
    <3> QED BY <1>4, <1>5, <1>11, <3>2
  <2>5. \A k \in Lanes : Runs(k, t)' =>
              /\ \A i \in 1 .. Len(batch'[k]) : batch'[k][i] = a + i
              /\ a + Len(batch'[k]) + Len(queue'[t]) = submitted'[t]
    BY Zenon, <1>12, <2>1, <2>2, <2>3
  <2>6. ~ \A k \in Lanes : ~Runs(k, t)'
    BY <1>12
  <2>7. \A i \in 1 .. Len(queue'[t]) : queue'[t][i] = submitted'[t] - Len(queue'[t]) + i
    BY <2>1, <2>4
  <2> QED BY Zenon, <2>1, <2>5, <2>6, <2>7 DEF InOrder
<1> QED BY <1>8, <1>13

\* The batch of t is acked as a whole.
LEMMA FinishKeepsOrder ==
    ASSUME IInv, NEW l \in Lanes, FinishBatch(l), ~ctxDone,
           \A u \in Tenants : InOrder(u)
    PROVE  \A u \in Tenants : InOrder(u)'
<1>1. PICK t : t = tq[l]
  OBVIOUS
<1>2. PICK b : b = batch[l]
  OBVIOUS
<1>3. /\ pc[l] = "running" /\ queue' = queue /\ submitted' = submitted
      /\ batch' = [batch EXCEPT ![l] = <<>>] /\ tq' = [tq EXCEPT ![l] = NoTenant]
      /\ pc' = [pc EXCEPT ![l] = "notify"]
      /\ acked' = [acked EXCEPT ![t] = @ \cup Range(b)]
  <2>1. PICK unfinished \in {{}} : acked' = [acked EXCEPT ![t] = @ \cup (Range(b) \ unfinished)]
    BY Zenon, <1>1, <1>2 DEF FinishBatch
  <2>2. Range(b) \ unfinished = Range(b)
    BY <2>1
  <2> QED BY Zenon, <2>1, <2>2 DEF FinishBatch
<1>4. t \in Tenants /\ b \in Seq(Nat) /\ Len(b) \in Nat /\ DOMAIN b = 1 .. Len(b)
  <2>1. t \in Tenants
    BY <1>1, <1>3 DEF IInv, TypeOK, Bookkeeping
  <2> QED BY <1>2, <2>1, LenProperties DEF IInv, TypeOK
<1>5. /\ \A k \in Lanes \ {l} : batch'[k] = batch[k] /\ tq'[k] = tq[k] /\ pc'[k] = pc[k]
      /\ pc'[l] = "notify" /\ acked'[t] = acked[t] \cup Range(b)
      /\ \A u \in Tenants \ {t} : acked'[u] = acked[u]
  BY <1>3, <1>4 DEF IInv, TypeOK
<1>6. \A k \in Lanes \ {l} : ~Runs(k, t)
  BY Zenon, <1>1, <1>4 DEF Runs, IInv, TenantHeldOnce, Holds
<1>7. ASSUME NEW u \in Tenants \ {t} PROVE InOrder(u)'
  <2>1. \A k \in Lanes : Runs(k, u)' <=> Runs(k, u)
    BY <1>1, <1>5 DEF Runs
  <2>2. \A k \in Lanes : Runs(k, u) => batch'[k] = batch[k]
    BY <1>1, <1>5 DEF Runs
  <2> QED BY Zenon, <1>3, <1>5, <2>1, <2>2, OrderSame
<1>8. InOrder(t)'
  <2>1. Runs(l, t)
    BY <1>1, <1>3 DEF Runs
  <2>2. PICK a \in Nat :
          /\ acked[t] = 1 .. a
          /\ \A i \in 1 .. Len(queue[t]) : queue[t][i] = submitted[t] - Len(queue[t]) + i
          /\ \A i \in 1 .. Len(b) : b[i] = a + i
          /\ a + Len(b) + Len(queue[t]) = submitted[t]
    BY Zenon, <1>2, <1>4, <2>1 DEF InOrder
  <2>3. PICK c \in Nat : c = a + Len(b)
    BY <1>4
  <2>4. Range(b) = {a + i : i \in 1 .. Len(b)}
    BY Zenon, <1>4, <2>2 DEF Range
  <2>5. (1 .. a) \cup {a + i : i \in 1 .. Len(b)} = 1 .. c
    <3>1. ASSUME NEW x \in 1 .. c, x \notin 1 .. a PROVE \E i \in 1 .. Len(b) : x = a + i
      <4>1. x - a \in 1 .. Len(b) /\ x = a + (x - a)
        BY <1>4, <2>3, <3>1
      <4> QED BY <4>1
    <3>2. \A i \in 1 .. Len(b) : a + i \in 1 .. c
      BY <1>4, <2>3
    <3>3. 1 .. a \subseteq 1 .. c
      BY <1>4, <2>3
    <3> QED BY Zenon, <3>1, <3>2, <3>3
  <2>6. acked'[t] = 1 .. c
    BY <1>5, <2>2, <2>4, <2>5
  <2>7. \A k \in Lanes : ~Runs(k, t)'
    BY <1>5, <1>6 DEF Runs
  <2>8. c + Len(queue'[t]) = submitted'[t]
    BY Zenon, <1>3, <2>2, <2>3
  <2> QED BY Zenon, <1>3, <2>2, <2>6, <2>7, <2>8 DEF InOrder
<1> QED BY <1>7, <1>8

-----------------------------------------------------------------------------
(* One lemma per action, or per group of actions.                          *)

\* A step that leaves the executors alone.
LEMMA ExecutorsSame ==
    ASSUME Collected, Ages, UNCHANGED <<executor, older, closePc, pc, janitor, closers, stopper>>
    PROVE  Collected' /\ Ages'
BY DEF Collected, Ages, AllGoroutinesEnded

LEMMA SubmitKeepsJInv ==
    ASSUME IInv, IInv', JInv, NEW t \in Tenants, Submit(t)
    PROVE  JInv'
<1>1. /\ submitted' = [submitted EXCEPT ![t] = @ + 1]
      /\ UNCHANGED <<executor, busy, older, open, closed, ctxDone, janitor, stopper, closePc,
                     pc, tq, victim, batch, capWaiting, closers, acked>>
  BY DEF Submit, stopVars, laneVars
<1>2. MayEnter(t) /\ (isReady(t)' /\ ~isReady(t) => t \notin busy)
  <2>1. CASE closed
    <3>1. ready' = ready /\ waiting' = waiting
      BY <2>1 DEF Submit, lists
    <3> QED BY <3>1 DEF MayEnter, isReady
  <2>2. CASE ~closed
    BY Zenon, <2>2, MarkReadyEnters DEF Submit
  <2> QED BY <2>1, <2>2
<1>3. Places'
  <2>1. \A l \in Lanes : tq[l] = t => t \in busy
    BY DEF IInv, TenantHeldOnce, Holds
  <2> QED BY Zenon, <1>1, <1>2, <2>1 DEF JInv, Places, MayEnter
<1>4. Collected' /\ Ages'
  BY <1>1, ExecutorsSame DEF JInv
<1>5. NoLostWakeup'
  <2>1. Takeable' \subseteq Takeable \cup {t}
    BY <1>1, <1>2 DEF Takeable, MayEnter
  <2>2. t \in Takeable' \ Takeable => waiting = {} \/ \E w \in waiting : waiting' = waiting \ {w}
    BY <1>1, <1>2 DEF Takeable, MayEnter
  <2>3. waiting' \subseteq waiting /\ \A l \in Lanes : pc[l] = "look" => pc'[l] = "look"
    BY <1>1, <1>2 DEF MayEnter
  <2> QED BY <1>1, <2>1, <2>2, <2>3, WakeupMore DEF JInv
<1>6. NoLostCapWakeup'
  BY <1>1, CapWakeupSame DEF JInv
<1>7. ASSUME ~ctxDone, NEW u \in Tenants PROVE InOrder(u)'
  <2>1. ~closed /\ InOrder(u)
    BY <1>7 DEF IInv, Bookkeeping, JInv, Ordered
  <2>2. queue' = [queue EXCEPT ![t] = Append(@, submitted[t] + 1)]
    BY <2>1 DEF Submit
  <2>3. \A l \in Lanes : Runs(l, u)' <=> Runs(l, u)
    BY <1>1 DEF Runs
  <2>4. CASE u # t
    <3>1. queue'[u] = queue[u] /\ submitted'[u] = submitted[u]
      BY <1>1, <2>2, <2>4 DEF IInv, TypeOK
    <3> QED BY Zenon, <1>1, <2>1, <2>3, <3>1, OrderSame
  <2>5. CASE u = t
    <3>1. PICK q : q = queue[t]
      OBVIOUS
    <3>2. PICK m : m = submitted[t]
      OBVIOUS
    <3>3. q \in Seq(Nat) /\ m \in Nat /\ Len(q) \in Nat
      BY Zenon, <3>1, <3>2, LenProperties DEF IInv, TypeOK
    <3>4. queue'[t] = Append(q, m + 1) /\ submitted'[t] = m + 1
      BY <1>1, <2>2, <3>1, <3>2 DEF IInv, TypeOK
    <3>5. PICK r : r = Append(q, m + 1)
      BY Zenon
    <3>6. Len(r) = Len(q) + 1 /\ r[Len(q) + 1] = m + 1 /\ \A i \in 1 .. Len(q) : r[i] = q[i]
      BY <3>3, <3>5, AppendProperties
    <3>7. PICK a \in Nat :
            /\ acked[t] = 1 .. a
            /\ \A i \in 1 .. Len(q) : q[i] = m - Len(q) + i
            /\ \A l \in Lanes : Runs(l, t) =>
                  /\ \A i \in 1 .. Len(batch[l]) : batch[l][i] = a + i
                  /\ a + Len(batch[l]) + Len(q) = m
            /\ (\A l \in Lanes : ~Runs(l, t)) => a + Len(q) = m
      BY Zenon, <2>1, <2>5, <3>1, <3>2 DEF InOrder
    <3>8. ASSUME NEW i \in 1 .. Len(r) PROVE r[i] = (m + 1) - Len(r) + i
      <4>1. CASE i \in 1 .. Len(q)
        BY <3>3, <3>6, <3>7, <4>1
      <4>2. CASE i = Len(q) + 1
        BY <3>3, <3>6, <4>2
      <4> QED BY <3>3, <3>6, <4>1, <4>2
    <3>9. ASSUME NEW l \in Lanes, Runs(l, t)
          PROVE  /\ \A i \in 1 .. Len(batch[l]) : batch[l][i] = a + i
                 /\ a + Len(batch[l]) + Len(r) = m + 1
      <4>1. Len(batch[l]) \in Nat
        BY LenProperties DEF IInv, TypeOK
      <4>2. /\ \A i \in 1 .. Len(batch[l]) : batch[l][i] = a + i
            /\ a + Len(batch[l]) + Len(q) = m /\ a \in Nat
        BY <3>7, <3>9
      <4>3. a + Len(batch[l]) + Len(r) = m + 1
        <5>1. PICK n \in Nat : n = Len(batch[l])
          BY Zenon, <4>1
        <5>2. PICK k \in Nat : k = Len(q)
          BY Zenon, <3>3
        <5>3. a + n + k = m /\ a \in Nat /\ m \in Nat
          BY Zenon, <3>3, <4>2, <5>1, <5>2
        <5>4. a + n + (k + 1) = m + 1
          BY <5>3
        <5> QED BY Zenon, <3>6, <5>1, <5>2, <5>4
      <4> QED BY <4>2, <4>3
    <3>10. (\A l \in Lanes : ~Runs(l, t)) => a + Len(r) = m + 1
      <4>1. (\A l \in Lanes : ~Runs(l, t)) => a + Len(q) = m
        BY Zenon, <3>7
      <4>2. a + Len(q) = m => a + Len(r) = m + 1
        BY <3>3, <3>6
      <4> QED BY Zenon, <4>1, <4>2
    <3>11. queue'[t] = r /\ batch' = batch /\ acked' = acked
      BY <1>1, <3>4, <3>5
    <3>12. \A i \in 1 .. Len(queue'[t]) : queue'[t][i] = submitted'[t] - Len(queue'[t]) + i
      BY <3>4, <3>8, <3>11
    <3>13. \A l \in Lanes : Runs(l, t)' =>
                  /\ \A i \in 1 .. Len(batch'[l]) : batch'[l][i] = a + i
                  /\ a + Len(batch'[l]) + Len(queue'[t]) = submitted'[t]
      BY Zenon, <2>3, <2>5, <3>4, <3>9, <3>11
    <3>14. (\A l \in Lanes : ~Runs(l, t)') => a + Len(queue'[t]) = submitted'[t]
      BY <2>3, <2>5, <3>4, <3>10, <3>11
    <3> QED BY Zenon, <2>5, <3>7, <3>11, <3>12, <3>13, <3>14 DEF InOrder
  <2> QED BY Zenon, <2>4, <2>5
<1>8. Ordered'
  BY <1>1, <1>7 DEF Ordered
<1> QED BY <1>3, <1>4, <1>5, <1>6, <1>8 DEF JInv

LEMMA LookKeepsJInv ==
    ASSUME IInv, IInv', JInv, NEW l \in Lanes, LookWait(l) \/ LookExit(l)
    PROVE  JInv'
<1>1. CASE LookWait(l)
  <2>1. /\ pc[l] = "look" /\ nextReady = {} /\ waiting' = waiting \cup {l}
        /\ UNCHANGED <<queue, ready, tenants, executor, busy, older, open, closed, ctxDone, janitor,
                       stopper, closePc, pc, tq, victim, batch, capWaiting, closers, submitted, acked>>
    BY Zenon, <1>1 DEF LookWait, lists, stopVars, laneVars
  <2>2. Places'
    BY <2>1 DEF JInv, Places, isReady
  <2>3. Collected' /\ Ages'
    BY <2>1, ExecutorsSame DEF JInv
  <2>4. NoLostWakeup'
    <3>1. Takeable = {}
      BY <2>1, NextReadyFinds
    <3>2. Takeable' = {}
      BY <2>1, <3>1 DEF Takeable, isReady
    <3>3. Cardinality(Takeable') = 0 /\ Cardinality(Looking') \in Nat
      BY <3>2, CountsFinite, FS_EmptySet, FS_CardinalityType
    <3> QED BY <3>3 DEF NoLostWakeup
  <2>5. NoLostCapWakeup'
    BY <2>1, CapWakeupSame DEF JInv
  <2>6. Ordered'
    BY <2>1, OrderSame DEF JInv, Ordered, Runs
  <2> QED BY <2>2, <2>3, <2>4, <2>5, <2>6 DEF JInv
<1>2. CASE LookExit(l)
  <2>1. /\ pc[l] = "look" /\ closed /\ l \notin waiting /\ pc' = [pc EXCEPT ![l] = "done"]
        /\ UNCHANGED <<queue, tenants, executor, busy, older, open, closed, ctxDone, janitor,
                       stopper, closePc, tq, victim, batch, waiting, capWaiting, closers,
                       submitted, acked>>
    BY <1>2 DEF LookExit, stopVars
  <2>2. \A u \in Tenants : isReady(u)' => isReady(u)
    <3>1. CASE UNCHANGED ready
      BY <3>1 DEF isReady
    <3>2. ASSUME NEW i \in nextReady, ready' = Without(ready, i)
          PROVE  OnlyLoses(ready[i])
      BY Zenon, <3>2, RemoveLoses
    <3> QED BY <1>2, <3>1, <3>2 DEF LookExit, OnlyLoses
  <2>3. ctxDone'
    BY <2>1 DEF IInv, Bookkeeping
  <2>4. \A k \in Lanes : pc'[k] = IF k = l THEN "done" ELSE pc[k]
    BY Zenon, <2>1 DEF IInv, TypeOK
  <2>5. Places'
    <3>1. waiting \subseteq Lanes /\ capWaiting \subseteq Lanes
      BY Zenon DEF IInv, TypeOK
    <3> QED BY Zenon, <2>1, <2>2, <2>4, <3>1 DEF JInv, Places
  <2>6. Collected' /\ Ages'
    BY <2>1, <2>4 DEF JInv, Collected, Ages, AllGoroutinesEnded
  <2>7. NoLostWakeup' /\ Ordered'
    BY <2>3 DEF NoLostWakeup, Ordered
  <2>8. NoLostCapWakeup'
    BY <2>1, <2>4, CapWakeupSame DEF JInv
  <2> QED BY <2>5, <2>6, <2>7, <2>8 DEF JInv
<1> QED BY <1>1, <1>2

\* A lane runs a batch: it looked, or went on in reserveOpen.
LEMMA RunKeepsJInv ==
    ASSUME IInv, IInv', JInv, NEW l \in Lanes, NEW t \in Tenants, Claims(l, t), Run(l, t)
    PROVE  JInv'
<1>1. /\ executor' = executor \cup {t} /\ busy' = busy \cup {t} /\ StartBatch(l, t)
      /\ victim' = victim /\ capWaiting' = capWaiting
      /\ t \in executor \/ open < maxOpen
      /\ open' = IF t \in executor THEN open ELSE open + 1
  BY Zenon DEF Run
<1>2. UNCHANGED <<tenants, older, closed, ctxDone, janitor, stopper, closePc, waiting,
                  closers, submitted, acked>>
  BY Zenon DEF Claims
<1>3. /\ \A k \in Lanes : tq'[k] = IF k = l THEN t ELSE tq[k]
      /\ \A k \in Lanes : pc'[k] = IF k = l THEN "running" ELSE pc[k]
      /\ \A k \in Lanes \ {l} : batch'[k] = batch[k]
  BY Zenon, <1>1 DEF StartBatch, IInv, TypeOK
<1>4. pc[l] \in {"look", "reserve"} /\ l \notin waiting /\ l \notin capWaiting
  BY DEF Claims, JInv, Places
<1>5. \A k \in Lanes \ {l} : tq[k] # t
  <2>1. Claimable(l, t) /\ TenantHeldOnce
    BY Zenon DEF Claims, IInv
  <2>2. t \notin busy \/ tq[l] = t
    BY Zenon, <2>1 DEF Claimable
  <2> QED BY Zenon, <2>1, <2>2 DEF TenantHeldOnce, Holds
<1>6. waiting \subseteq Lanes /\ capWaiting \subseteq Lanes
  BY Zenon DEF IInv, TypeOK
<1>7. Places'
  <2>1. \A k \in Lanes, u \in Tenants : tq'[k] = u => ~isReady(u)'
    BY Zenon, <1>3 DEF JInv, Places, Claims, OnlyLoses
  <2>2. \A k \in Lanes : pc'[k] # "running" => batch'[k] = <<>>
    BY Zenon, <1>3 DEF JInv, Places
  <2>3. (\A k \in waiting' : pc'[k] = "look") /\ \A k \in capWaiting' : pc'[k] = "reserve"
    BY Zenon, <1>1, <1>2, <1>3, <1>4, <1>6 DEF JInv, Places
  <2> QED BY Zenon, <2>1, <2>2, <2>3 DEF Places
<1>8. closePc \notin {"closing", "returned"}
  BY Zenon, <1>4 DEF JInv, Collected, AllGoroutinesEnded
<1>9. Collected' /\ Ages'
  BY Zenon, <1>1, <1>2, <1>8 DEF JInv, Collected, Ages
<1>10. NoLostWakeup'
  <2>1. Takeable' \subseteq Takeable \ {t}
    BY Zenon, <1>1 DEF Takeable, Claims, OnlyLoses
  <2>2. Looking \ {l} \subseteq Looking'
    BY <1>2, <1>3 DEF Looking
  <2>3. CASE pc[l] = "look"
    <3>1. l \in Looking /\ t \in Takeable
      BY <2>3, <1>4 DEF Looking, Claims
    <3> QED BY Zenon, <1>2, <2>1, <2>2, <3>1, WakeupTaken DEF JInv
  <2>4. CASE pc[l] = "reserve"
    <3>1. Looking \subseteq Looking'
      BY Zenon, <2>2, <2>4 DEF Looking
    <3> QED BY Zenon, <1>2, <2>1, <3>1, WakeupSame DEF JInv
  <2> QED BY Zenon, <1>4, <2>3, <2>4
<1>11. NoLostCapWakeup'
  <2>1. open \in Nat /\ maxOpen \in Nat
    BY DispatcherConfig DEF IInv, TypeOK
  <2>2. \A k \in Lanes : pc[k] = "notify" => pc'[k] = "notify"
    BY <1>3, <1>4
  <2>3. open >= maxOpen /\ executor \subseteq busy =>
            open' >= maxOpen /\ executor' \subseteq busy' /\ executor' # {}
    BY <1>1, <2>1
  <2> QED BY Zenon, <1>1, <1>2, <2>2, <2>3, CapWakeupKept DEF JInv, NoLostCapWakeup
<1>12. Ordered'
  <2>1. pc[l] # "running" /\ \A k \in Lanes : ~Runs(k, t)
    BY <1>4, <1>5 DEF Runs
  <2> QED BY Zenon, <1>1, <1>2, <2>1, StartBatchKeepsOrder DEF JInv, Ordered
<1> QED BY <1>7, <1>9, <1>10, <1>11, <1>12 DEF JInv

\* At the cap the lane gives up, waits or starts to close a victim.
LEMMA AtCapKeepsJInv ==
    ASSUME IInv, IInv', JInv, NEW l \in Lanes, NEW t \in Tenants, Claims(l, t), AtCap(l, t)
    PROVE  JInv'
<1>1. /\ UNCHANGED <<tenants, older, closed, ctxDone, janitor, stopper, closePc, waiting,
                     closers, submitted, acked, queue, executor, open, batch>>
      /\ t \notin executor /\ open >= maxOpen
  BY Zenon DEF Claims, AtCap
<1>2. pc[l] \in {"look", "reserve"} /\ l \notin waiting /\ l \notin capWaiting
  BY Zenon DEF Claims, JInv, Places
<1>3. closePc \notin {"closing", "returned"}
  BY <1>2 DEF JInv, Collected, AllGoroutinesEnded
<1>4. Collected' /\ Ages'
  BY <1>1, <1>3 DEF JInv, Collected, Ages
<1>5. waiting \subseteq Lanes /\ capWaiting \subseteq Lanes
  BY DEF IInv, TypeOK
<1>6. ASSUME NEW p \in {"done", "reserve", "closing"}, NEW x \in {t, NoTenant},
             \A k \in Lanes : pc'[k] = IF k = l THEN p ELSE pc[k],
             \A k \in Lanes : tq'[k] = IF k = l THEN x ELSE tq[k],
             capWaiting' = capWaiting \/ (p = "reserve" /\ capWaiting' = capWaiting \cup {l}),
             ctxDone \/ busy \cup {t} \subseteq busy'
      PROVE  Places' /\ NoLostWakeup' /\ Ordered'
  <2>1. Places'
    <3>1. \A k \in Lanes, u \in Tenants : tq'[k] = u => ~isReady(u)'
      BY SMTT(30), <1>6, DispatcherConfig DEF JInv, Places, Claims, OnlyLoses
    <3>2. \A k \in Lanes : pc'[k] # "running" => batch'[k] = <<>>
      BY Zenon, <1>1, <1>2, <1>6 DEF JInv, Places
    <3>3. (\A k \in waiting' : pc'[k] = "look") /\ \A k \in capWaiting' : pc'[k] = "reserve"
      BY Zenon, <1>1, <1>2, <1>5, <1>6 DEF JInv, Places
    <3> QED BY Zenon, <3>1, <3>2, <3>3 DEF Places
  <2>2. NoLostWakeup'
    <3>1. CASE ctxDone
      BY <1>1, <3>1 DEF NoLostWakeup
    <3>2. CASE busy \cup {t} \subseteq busy'
      <4>1. Takeable' \subseteq Takeable \ {t}
        BY Zenon, <3>2 DEF Takeable, Claims, OnlyLoses
      <4>2. Looking \ {l} \subseteq Looking'
        BY <1>1, <1>6 DEF Looking
      <4>3. CASE pc[l] = "look"
        <5>1. l \in Looking /\ t \in Takeable
          BY <1>2, <4>3 DEF Looking, Claims
        <5> QED BY Zenon, <1>1, <4>1, <4>2, <5>1, WakeupTaken DEF JInv
      <4>4. CASE pc[l] = "reserve"
        <5>1. Looking \subseteq Looking'
          BY Zenon, <4>2, <4>4 DEF Looking
        <5> QED BY <1>1, <4>1, <5>1, WakeupSame DEF JInv
      <4> QED BY Zenon, <1>2, <4>3, <4>4
    <3> QED BY <1>6, <3>1, <3>2
  <2>3. ASSUME NEW u \in Tenants, InOrder(u) PROVE InOrder(u)'
    <3>1. \A k \in Lanes : Runs(k, u)' <=> Runs(k, u)
      BY <1>2, <1>6 DEF Runs
    <3> QED BY Zenon, <1>1, <2>3, <3>1, OrderSame
  <2>4. Ordered'
    BY <1>1, <2>3 DEF JInv, Ordered
  <2> QED BY <2>1, <2>2, <2>4
<1>7. CASE /\ closed \/ ctxDone
           /\ busy' = busy \ {t}
           /\ tq' = [tq EXCEPT ![l] = NoTenant] /\ pc' = [pc EXCEPT ![l] = "done"]
           /\ UNCHANGED <<victim, capWaiting>>
  <2>1. /\ \A k \in Lanes : pc'[k] = IF k = l THEN "done" ELSE pc[k]
        /\ \A k \in Lanes : tq'[k] = IF k = l THEN NoTenant ELSE tq[k]
        /\ ctxDone
    BY <1>7 DEF IInv, TypeOK, Bookkeeping
  <2>2. Places' /\ NoLostWakeup' /\ Ordered'
    BY <1>6, <1>7, <2>1
  <2>3. NoLostCapWakeup'
    <3>1. executor \cap busy \subseteq busy' /\ \A k \in Lanes : pc[k] = "notify" => pc'[k] = "notify"
      BY Zenon, <1>1, <1>2, <1>7, <2>1
    <3> QED BY <1>1, <1>7, <3>1, CapWakeupSame DEF JInv
  <2> QED BY Zenon, <1>4, <2>2, <2>3 DEF JInv
<1>8. CASE /\ ~closed /\ ~ctxDone /\ capVictim = {}
           /\ busy' = busy \cup {t}
           /\ tq' = [tq EXCEPT ![l] = t] /\ pc' = [pc EXCEPT ![l] = "reserve"]
           /\ capWaiting' = capWaiting \cup {l} /\ UNCHANGED victim
  <2>1. /\ \A k \in Lanes : pc'[k] = IF k = l THEN "reserve" ELSE pc[k]
        /\ \A k \in Lanes : tq'[k] = IF k = l THEN t ELSE tq[k]
    BY <1>8 DEF IInv, TypeOK
  <2>2. Places' /\ NoLostWakeup' /\ Ordered'
    BY <1>6, <1>8, <2>1
  <2>3. executor \subseteq busy
    BY <1>3, <1>8, CapVictimFinds DEF JInv
  <2>4. executor # {}
    <3>1. Cardinality(Lanes) \in Nat /\ Cardinality(Lanes) # 0
      BY Zenon, DispatcherConfig, FS_CardinalityType, FS_EmptySet
    <3>2. open = Cardinality(executor) /\ open > 0
      BY <1>1, <3>1, DispatcherConfig DEF IInv, TypeOK, OpenWithinCap
    <3> QED BY <3>2, FS_EmptySet
  <2>5. NoLostCapWakeup'
    BY <1>1, <1>8, <2>3, <2>4, CapWakeupKept
  <2> QED BY Zenon, <1>4, <2>2, <2>5 DEF JInv
<1>9. ASSUME NEW v \in capVictim,
             busy' = busy \cup {t, v},
             tq' = [tq EXCEPT ![l] = t], pc' = [pc EXCEPT ![l] = "closing"],
             UNCHANGED capWaiting
      PROVE  JInv'
  <2>1. /\ \A k \in Lanes : pc'[k] = IF k = l THEN "closing" ELSE pc[k]
        /\ \A k \in Lanes : tq'[k] = IF k = l THEN t ELSE tq[k]
    BY <1>9 DEF IInv, TypeOK
  <2>2. busy \cup {t} \subseteq busy' /\ executor \cap busy \subseteq busy'
    BY <1>9
  <2>3. Places' /\ NoLostWakeup' /\ Ordered'
    BY Zenon, <1>6, <1>9, <2>1, <2>2
  <2>4. \A k \in Lanes : pc[k] = "notify" => pc'[k] = "notify"
    BY Zenon, <1>2, <2>1
  <2>5. NoLostCapWakeup'
    BY Zenon, <1>1, <1>9, <2>2, <2>4, CapWakeupSame DEF JInv
  <2> QED BY Zenon, <1>4, <2>3, <2>5 DEF JInv
<1> QED BY Zenon, <1>7, <1>8, <1>9 DEF AtCap

\* markClosed of t and the wakeups it makes; busy loses t.
LEMMA ClosedWakes ==
    ASSUME IInv, IInv', JInv, NEW t \in Tenants, markClosed(t), busy' = busy \ {t},
           ctxDone' = ctxDone, \A l \in Lanes : pc[l] = "look" => pc'[l] = "look"
    PROVE  NoLostWakeup' /\ NoLostCapWakeup'
<1>1. /\ MayEnter(t) /\ capWaiting' = {}
      /\ isReady(t)' => waiting = {} \/ \E w \in waiting : waiting' = waiting \ {w}
  BY MarkClosedEnters
<1>2. Takeable' \subseteq Takeable \cup {t} /\ waiting' \subseteq waiting
  BY Zenon, <1>1 DEF Takeable, MayEnter
<1>3. t \in Takeable' \ Takeable => waiting = {} \/ \E w \in waiting : waiting' = waiting \ {w}
  BY <1>1 DEF Takeable
<1>4. NoLostWakeup'
  BY Zenon, <1>2, <1>3, WakeupMore DEF JInv
<1> QED BY <1>1, <1>4, CapWakeupKept

\* markClosed drops t from lastUsed's order; the new executors are not older.
LEMMA ClosedKeepsAges ==
    ASSUME IInv, Ages, NEW t \in Tenants, markClosed(t), closePc' = closePc,
           executor \ {t} \subseteq executor'
    PROVE  Ages'
<1>1. older' = [u \in Tenants |-> IF u = t THEN {} ELSE older[u] \ {t}]
  BY MarkClosedEnters
<1>2. ASSUME NEW u \in Tenants
      PROVE  /\ u \notin older'[u]
             /\ \A w \in older'[u] : older'[w] \subseteq older'[u]
             /\ closePc' \notin {"closing", "returned"} => older'[u] \subseteq executor'
  <2>1. CASE u = t
    BY Zenon, <1>1, <2>1
  <2>2. CASE u # t
    <3>1. older'[u] = older[u] \ {t} /\ older[u] \subseteq Tenants
      BY <1>1, <2>2 DEF IInv, TypeOK
    <3>2. ASSUME NEW w \in older'[u] PROVE older'[w] \subseteq older'[u]
      <4>1. w \in Tenants /\ w # t /\ w \in older[u]
        BY <3>1
      <4>2. older'[w] = older[w] \ {t}
        BY <1>1, <4>1
      <4> QED BY <3>1, <4>1, <4>2 DEF Ages
    <3> QED BY <3>1, <3>2 DEF Ages
  <2> QED BY <2>1, <2>2
<1> QED BY <1>2 DEF Ages

LEMMA CloseExecutorKeepsJInv ==
    ASSUME IInv, IInv', JInv, NEW t \in Tenants, closeExecutor(t)
    PROVE  JInv'
<1>1. /\ t \in closers /\ markClosed(t)
      /\ executor' = executor \ {t} /\ busy' = busy \ {t} /\ closers' = closers \ {t}
      /\ UNCHANGED <<queue, closed, ctxDone, janitor, stopper, closePc, pc, tq, victim, batch,
                     submitted, acked>>
  BY Zenon DEF closeExecutor, stopVars, laneVars
<1>2. MayEnter(t) /\ capWaiting' = {} /\ \A l \in Lanes : tq[l] # t
  BY Zenon, <1>1, MarkClosedEnters DEF IInv, TenantHeldOnce, Holds
<1>3. Places'
  BY <1>1, <1>2 DEF JInv, Places, MayEnter
<1>4. closePc \notin {"closing", "returned"}
  BY <1>1 DEF JInv, Collected, AllGoroutinesEnded
<1>5. Collected'
  BY <1>1, <1>4 DEF Collected
<1>6. Ages'
  BY <1>1, ClosedKeepsAges DEF JInv
<1>7. NoLostWakeup' /\ NoLostCapWakeup'
  BY Zenon, <1>1, ClosedWakes
<1>8. Ordered'
  BY <1>1, OrderSame DEF JInv, Ordered, Runs
<1> QED BY <1>3, <1>5, <1>6, <1>7, <1>8 DEF JInv

LEMMA VictimClosedKeepsJInv ==
    ASSUME IInv, IInv', JInv, NEW l \in Lanes, VictimClosed(l)
    PROVE  JInv'
<1>1. PICK v : v = victim[l]
  OBVIOUS
<1>2. PICK t : t = tq[l]
  BY Zenon
<1>3. /\ pc[l] = "closing" /\ markClosed(v) /\ StartBatch(l, t)
      /\ executor' = (executor \ {v}) \cup {t} /\ busy' = busy \ {v}
      /\ UNCHANGED <<closed, ctxDone, janitor, stopper, closePc, closers, submitted, acked>>
  BY Zenon, <1>1, <1>2 DEF VictimClosed, stopVars
<1>4. /\ v \in Tenants /\ t \in Tenants /\ v # t
      /\ \A m \in Lanes \ {l} : tq[m] # v /\ tq[m] # t
  BY SMTT(30), <1>1, <1>2, <1>3 DEF IInv, TypeOK, TenantHeldOnce, Holds, Bookkeeping
<1>5. /\ \A k \in Lanes : tq'[k] = tq[k]
      /\ \A k \in Lanes : pc'[k] = IF k = l THEN "running" ELSE pc[k]
      /\ \A k \in Lanes \ {l} : batch'[k] = batch[k]
  BY Zenon, <1>2, <1>3 DEF StartBatch, IInv, TypeOK
<1>6. MayEnter(v) /\ capWaiting' = {} /\ waiting \subseteq Lanes
  BY Zenon, <1>3, <1>4, MarkClosedEnters DEF IInv, TypeOK
<1>7. Places'
  <2>1. \A k \in Lanes, u \in Tenants : tq'[k] = u => ~isReady(u)'
    BY Zenon, <1>2, <1>4, <1>5, <1>6 DEF JInv, Places, MayEnter
  <2>2. \A k \in Lanes : pc'[k] # "running" => batch'[k] = <<>>
    BY Zenon, <1>5 DEF JInv, Places
  <2>3. \A k \in waiting' : pc'[k] = "look"
    BY <1>3, <1>5, <1>6 DEF JInv, Places, MayEnter
  <2> QED BY <1>6, <2>1, <2>2, <2>3 DEF Places
<1>8. closePc \notin {"closing", "returned"}
  BY <1>3 DEF JInv, Collected, AllGoroutinesEnded
<1>9. Collected'
  BY <1>3, <1>8 DEF Collected
<1>10. Ages'
  BY Zenon, <1>3, <1>4, ClosedKeepsAges DEF JInv
<1>11. NoLostWakeup' /\ NoLostCapWakeup'
  <2>1. \A k \in Lanes : pc[k] = "look" => pc'[k] = "look"
    BY Zenon, <1>3, <1>5
  <2> QED BY Zenon, <1>3, <1>4, <2>1, ClosedWakes
<1>12. Ordered'
  <2>1. pc[l] # "running" /\ \A k \in Lanes : ~Runs(k, t)
    BY <1>3, <1>4 DEF Runs
  <2> QED BY Zenon, <1>3, <1>4, <2>1, StartBatchKeepsOrder DEF JInv, Ordered
<1> QED BY <1>7, <1>9, <1>10, <1>11, <1>12 DEF JInv

LEMMA FinishBatchKeepsJInv ==
    ASSUME IInv, IInv', JInv, NEW l \in Lanes, FinishBatch(l)
    PROVE  JInv'
<1>1. PICK t : t = tq[l]
  OBVIOUS
<1>2. /\ pc[l] = "running" /\ busy' = busy \ {t} /\ markReady(t, queue[t], busy')
      /\ batch' = [batch EXCEPT ![l] = <<>>] /\ tq' = [tq EXCEPT ![l] = NoTenant]
      /\ pc' = [pc EXCEPT ![l] = "notify"]
      /\ older' = [u \in Tenants |-> IF u = t THEN executor \ {u} ELSE older[u] \ {t}]
      /\ UNCHANGED <<queue, tenants, executor, open, closed, ctxDone, janitor, stopper,
                     closePc, victim, capWaiting, closers, submitted>>
  BY Zenon, <1>1 DEF FinishBatch, stopVars
<1>3. t \in Tenants /\ t \in executor /\ \A k \in Lanes \ {l} : tq[k] # t
  <2>1. t \in Tenants
    BY Zenon, <1>1, <1>2 DEF IInv, TypeOK, Bookkeeping
  <2> QED BY Zenon, <1>1, <1>2, <2>1 DEF IInv, TenantHeldOnce, Holds, ExecutorsAccounted
<1>4. MayEnter(t) /\ ~isReady(t)
  <2>1. MayEnter(t)
    BY Zenon, <1>2, <1>3, MarkReadyEnters
  <2> QED BY Zenon, <1>1, <1>3, <2>1 DEF JInv, Places
<1>5. /\ \A k \in Lanes : tq'[k] = IF k = l THEN NoTenant ELSE tq[k]
      /\ \A k \in Lanes : pc'[k] = IF k = l THEN "notify" ELSE pc[k]
      /\ \A k \in Lanes : batch'[k] = IF k = l THEN <<>> ELSE batch[k]
  BY Zenon, <1>2 DEF IInv, TypeOK
<1>6. Places'
  <2>1. \A k \in Lanes, u \in Tenants : tq'[k] = u => ~isReady(u)'
    BY SMTT(30), <1>3, <1>4, <1>5, DispatcherConfig DEF JInv, Places, MayEnter
  <2>2. \A k \in Lanes : pc'[k] # "running" => batch'[k] = <<>>
    BY <1>5 DEF JInv, Places
  <2>3. waiting \subseteq Lanes /\ capWaiting \subseteq Lanes
    BY Zenon DEF IInv, TypeOK
  <2>4. (\A k \in waiting' : pc'[k] = "look") /\ \A k \in capWaiting' : pc'[k] = "reserve"
    BY Zenon, <1>2, <1>4, <1>5, <2>3 DEF JInv, Places, MayEnter
  <2> QED BY Zenon, <2>1, <2>2, <2>4 DEF Places
<1>7. closePc \notin {"closing", "returned"}
  BY Zenon, <1>2 DEF JInv, Collected, AllGoroutinesEnded
<1>8. Collected'
  BY <1>2, <1>7 DEF Collected
<1>9. Ages'
  <2>1. ASSUME NEW u \in Tenants
        PROVE  /\ u \notin older'[u]
               /\ \A w \in older'[u] : older'[w] \subseteq older'[u]
               /\ closePc' \notin {"closing", "returned"} => older'[u] \subseteq executor'
    <3>1. \A w \in Tenants : older[w] \subseteq executor
      BY Zenon, <1>7 DEF JInv, Ages
    <3>2. executor \subseteq Tenants
      BY Zenon DEF IInv, TypeOK
    <3>3. CASE u = t
      <4>1. older'[u] = executor \ {t}
        BY <1>2, <3>3
      <4>2. ASSUME NEW w \in older'[u] PROVE older'[w] \subseteq older'[u]
        <5>1. w \in Tenants /\ w # t
          BY Zenon, <3>2, <4>1
        <5>2. older'[w] = older[w] \ {t}
          BY Zenon, <1>2, <5>1
        <5> QED BY <3>1, <4>1, <5>1, <5>2
      <4> QED BY Zenon, <1>2, <3>3, <4>1, <4>2
    <3>4. CASE u # t
      <4>1. older'[u] = older[u] \ {t}
        BY Zenon, <1>2, <3>4
      <4>2. ASSUME NEW w \in older'[u] PROVE older'[w] \subseteq older'[u]
        <5>1. w \in Tenants /\ w # t /\ w \in older[u]
          BY Zenon, <3>1, <3>2, <4>1
        <5>2. older'[w] = older[w] \ {t}
          BY Zenon, <1>2, <5>1
        <5> QED BY Zenon, <4>1, <5>1, <5>2 DEF JInv, Ages
      <4> QED BY Zenon, <1>2, <3>1, <4>1, <4>2 DEF JInv, Ages
    <3> QED BY <3>3, <3>4
  <2> QED BY <2>1 DEF Ages
<1>10. NoLostWakeup'
  <2>1. Takeable' \subseteq Takeable \cup {t} /\ waiting' \subseteq waiting
    BY Zenon, <1>2, <1>4 DEF Takeable, MayEnter
  <2>2. t \in Takeable' \ Takeable => waiting = {} \/ \E w \in waiting : waiting' = waiting \ {w}
    BY Zenon, <1>4 DEF Takeable, MayEnter
  <2>3. \A k \in Lanes : pc[k] = "look" => pc'[k] = "look"
    BY Zenon, <1>2, <1>5
  <2> QED BY Zenon, <1>2, <2>1, <2>2, <2>3, WakeupMore DEF JInv
<1>11. NoLostCapWakeup'
  BY Zenon, <1>5, CapWakeupKept
<1>12. Ordered'
  BY Zenon, <1>2, FinishKeepsOrder DEF JInv, Ordered
<1> QED BY Zenon, <1>6, <1>8, <1>9, <1>10, <1>11, <1>12 DEF JInv

\* A step that moves no lane and no message, and takes no executor out of use.
LEMMA LanesSame ==
    ASSUME IInv, IInv', JInv, ctxDone => ctxDone',
           waiting' \subseteq waiting, capWaiting' \subseteq capWaiting, busy \subseteq busy',
           UNCHANGED <<queue, ready, executor, older, open, pc, tq, batch, submitted, acked>>,
           stopper = "broadcast" => stopper' = "broadcast" \/ capWaiting' = {}
    PROVE  Places' /\ NoLostWakeup' /\ NoLostCapWakeup' /\ Ordered'
<1>1. Places'
  BY Zenon DEF JInv, Places, isReady
<1>2. NoLostWakeup'
  <2>1. Looking \subseteq Looking' /\ Takeable' \subseteq Takeable
    BY DEF Looking, Takeable, isReady
  <2> QED BY <2>1, WakeupSame DEF JInv
<1>3. NoLostCapWakeup'
  <2>1. CASE capWaiting' = {}
    BY <2>1, CapWakeupKept
  <2>2. CASE capWaiting' # {}
    <3>1. executor \cap busy \subseteq busy' /\ \A l \in Lanes : pc[l] = "notify" => pc'[l] = "notify"
      OBVIOUS
    <3> QED BY <2>2, <3>1, CapWakeupSame DEF JInv
  <2> QED BY <2>1, <2>2
<1>4. Ordered'
  BY Zenon, OrderSame DEF JInv, Ordered, Runs
<1> QED BY Zenon, <1>1, <1>2, <1>3, <1>4

LEMMA NotifyKeepsJInv ==
    ASSUME IInv, IInv', JInv, NEW l \in Lanes, Notify(l)
    PROVE  JInv'
<1>1. /\ UNCHANGED <<queue, ready, tenants, executor, busy, older, open, closed, ctxDone,
                     janitor, stopper, closePc, tq, victim, batch, waiting, closers,
                     submitted, acked>>
      /\ capWaiting' = {} /\ pc[l] = "notify"
  BY Zenon DEF Notify, BroadcastCapFree, lists, stopVars
<1>2. \A k \in Lanes : pc'[k] = IF k = l THEN "look" ELSE pc[k]
  BY DEF Notify, IInv, TypeOK
<1>3. Places'
  <2>1. waiting \subseteq Lanes
    BY DEF IInv, TypeOK
  <2> QED BY <1>1, <1>2, <2>1 DEF JInv, Places, isReady
<1>4. Collected' /\ Ages'
  BY <1>1 DEF JInv, Collected, Ages, AllGoroutinesEnded
<1>5. NoLostWakeup'
  <2>1. Looking \subseteq Looking' /\ Takeable' \subseteq Takeable
    BY <1>1, <1>2 DEF Looking, Takeable, isReady
  <2> QED BY Zenon, <1>1, <2>1, WakeupSame DEF JInv
<1>6. NoLostCapWakeup'
  BY <1>1, CapWakeupKept
<1>7. ASSUME NEW u \in Tenants, InOrder(u) PROVE InOrder(u)'
  <2>1. \A k \in Lanes : Runs(k, u)' <=> Runs(k, u)
    BY <1>1, <1>2 DEF Runs
  <2> QED BY Zenon, <1>1, <1>7, <2>1, OrderSame
<1>8. Ordered'
  BY <1>1, <1>7 DEF JInv, Ordered
<1> QED BY <1>3, <1>4, <1>5, <1>6, <1>8 DEF JInv

LEMMA CloseIdleKeepsJInv ==
    ASSUME IInv, IInv', JInv, closeIdle
    PROVE  JInv'
<1>1. /\ janitor = "running" /\ busy \subseteq busy'
      /\ UNCHANGED <<queue, ready, tenants, executor, older, open, closed, ctxDone, janitor, stopper,
                     closePc, pc, tq, victim, batch, waiting, capWaiting, submitted, acked>>
  BY DEF closeIdle, lists, stopVars, laneVars
<1>2. Places' /\ NoLostWakeup' /\ NoLostCapWakeup' /\ Ordered'
  BY <1>1, LanesSame
<1>3. Collected' /\ Ages'
  BY <1>1 DEF JInv, Collected, Ages, AllGoroutinesEnded
<1> QED BY Zenon, <1>2, <1>3 DEF JInv

\* The steps of the stopper, of Close and of main.
LEMMA StopKeepsJInv ==
    ASSUME IInv, IInv', JInv,
           JanitorExit \/ Cancel \/ SetClosed \/ StopBroadcast \/ Close \/ CloseReturn
    PROVE  JInv'
<1> USE DEF lists, stopVars, laneVars, BroadcastCapFree
<1>1. /\ UNCHANGED <<queue, ready, tenants, executor, busy, older, open, pc, tq, victim, batch,
                     closers, submitted, acked>>
      /\ waiting' \subseteq waiting /\ capWaiting' \subseteq capWaiting
  BY Zenon DEF JanitorExit, Cancel, SetClosed, StopBroadcast, Close, CloseReturn
<1>2. /\ ctxDone => ctxDone'
      /\ stopper = "broadcast" => stopper' = "broadcast" \/ capWaiting' = {}
  BY DEF JanitorExit, Cancel, SetClosed, StopBroadcast, Close, CloseReturn
<1>3. Places' /\ NoLostWakeup' /\ NoLostCapWakeup' /\ Ordered'
  BY Zenon, <1>1, <1>2, LanesSame
<1>4. closePc' \in {"closing", "returned"} <=> closePc \in {"closing", "returned"}
  BY Zenon DEF JanitorExit, Cancel, SetClosed, StopBroadcast, Close, CloseReturn
<1>5. /\ janitor = "done" => janitor' = "done"
      /\ stopper = "done" => stopper' = "done"
  BY Zenon DEF JanitorExit, Cancel, SetClosed, StopBroadcast, Close, CloseReturn
<1>6. Collected' /\ Ages'
  BY Zenon, <1>1, <1>4, <1>5 DEF JInv, Collected, Ages, AllGoroutinesEnded
<1> QED BY Zenon, <1>3, <1>6 DEF JInv

LEMMA CloseCollectKeepsJInv ==
    ASSUME IInv, IInv', JInv, CloseCollect
    PROVE  JInv'
<1>1. /\ AllGoroutinesEnded /\ executor' = {} /\ closePc' = "closing"
      /\ UNCHANGED <<queue, ready, tenants, busy, older, closed, ctxDone, janitor, stopper, pc, tq,
                     victim, batch, waiting, capWaiting, closers, submitted, acked>>
  BY DEF CloseCollect, lists, laneVars
<1>2. Places'
  BY <1>1 DEF JInv, Places, isReady
<1>3. Collected' /\ Ages'
  BY Zenon, <1>1 DEF JInv, Collected, Ages, AllGoroutinesEnded
<1>4. capWaiting = {}
  BY <1>1 DEF JInv, Places, AllGoroutinesEnded, IInv, TypeOK
<1>5. NoLostCapWakeup'
  BY <1>1, <1>4, CapWakeupKept
<1>6. NoLostWakeup'
  <2>1. Looking \subseteq Looking' /\ Takeable' \subseteq Takeable
    BY Zenon, <1>1 DEF Looking, Takeable, isReady
  <2> QED BY <1>1, <2>1, WakeupSame DEF JInv
<1>7. Ordered'
  BY <1>1, OrderSame DEF JInv, Ordered, Runs
<1> QED BY <1>2, <1>3, <1>5, <1>6, <1>7 DEF JInv

-----------------------------------------------------------------------------
(* The invariant.                                                          *)

LEMMA InitJInv == newTopicDispatcher => JInv
<1> SUFFICES ASSUME newTopicDispatcher PROVE JInv
  OBVIOUS
<1>1. IInv /\ DOMAIN ready = {} /\ Len(<<>>) = 0
  BY InitIInv, EmptySeq DEF newTopicDispatcher
<1>2. Places /\ Collected /\ NoLostWakeup /\ NoLostCapWakeup
  BY <1>1, DispatcherConfig
     DEF newTopicDispatcher, Places, Collected, NoLostWakeup, NoLostCapWakeup, isReady
<1>3. Ages
  BY DEF newTopicDispatcher, Ages
<1>4. ASSUME NEW t \in Tenants PROVE InOrder(t)
  <2>1. acked[t] = 1 .. 0 /\ queue[t] = <<>> /\ submitted[t] = 0 /\ \A l \in Lanes : ~Runs(l, t)
    BY DEF newTopicDispatcher, Runs
  <2>2. 0 \in Nat /\ 0 + 0 = 0 /\ 1 .. 0 = {}
    OBVIOUS
  <2> QED BY <1>1, <2>1, <2>2 DEF InOrder
<1> QED BY <1>2, <1>3, <1>4 DEF JInv, Ordered

\* Every step of the dispatcher keeps JInv.
LEMMA NextJInv == IInv /\ JInv /\ [Next]_vars => JInv'
<1> SUFFICES ASSUME IInv, JInv, [Next]_vars PROVE JInv'
  OBVIOUS
<1>1. IInv'
  BY NextIInv
<1>2. ASSUME NEW t \in Tenants, Submit(t) \/ closeExecutor(t)
      PROVE  JInv'
  BY <1>1, <1>2, SubmitKeepsJInv, CloseExecutorKeepsJInv
<1>3. ASSUME NEW l \in Lanes, lane(l)
      PROVE  JInv'
  <2>1. CASE Take(l) \/ Reserve(l)
    <3>1. PICK t \in Tenants : Claims(l, t)
      BY Zenon, <2>1, ClaimEffect DEF JInv
    <3>2. Run(l, t) \/ AtCap(l, t)
      BY <3>1 DEF Claims
    <3> QED BY <1>1, <3>1, <3>2, RunKeepsJInv, AtCapKeepsJInv
  <2> QED BY Zenon, <1>1, <1>3, <2>1, LookKeepsJInv, VictimClosedKeepsJInv, FinishBatchKeepsJInv,
             NotifyKeepsJInv DEF lane
<1>4. CASE closeIdle \/ JanitorExit \/ Cancel \/ SetClosed \/ StopBroadcast \/ Close
           \/ CloseCollect \/ CloseReturn
  BY <1>1, <1>4, CloseIdleKeepsJInv, CloseCollectKeepsJInv, StopKeepsJInv
<1>5. CASE UNCHANGED vars
  <2>1. UNCHANGED <<queue, ready, tenants, executor, busy, older, open, closed, ctxDone, janitor,
                    stopper, closePc, pc, tq, victim, batch, waiting, capWaiting, closers,
                    submitted, acked>>
    BY <1>5 DEF vars, lists, stopVars, laneVars
  <2>2. Places' /\ NoLostWakeup' /\ NoLostCapWakeup' /\ Ordered'
    BY <1>1, <2>1, LanesSame
  <2>3. Collected' /\ Ages'
    BY <2>1, ExecutorsSame DEF JInv
  <2> QED BY <2>2, <2>3 DEF JInv
<1> QED BY <1>2, <1>3, <1>4, <1>5 DEF Next, Terminated

-----------------------------------------------------------------------------
(* The theorems.                                                           *)

LEMMA AlwaysBoth == Spec => [](IInv /\ JInv)
<1>1. newTopicDispatcher => IInv /\ JInv
  BY InitIInv, InitJInv
<1>2. IInv /\ JInv /\ [Next]_vars => IInv' /\ JInv'
  BY NextIInv, NextJInv
<1> QED BY <1>1, <1>2, PTL DEF Spec

\* While lanes sleep in work.Wait, at least as many lanes are about to look as
\* there are tenants to take: the one Signal of markReady and of markClosed per
\* tenant is enough, for any number of lanes and tenants.
THEOREM DispatcherNoLostWakeup == Spec => []NoLostWakeup
<1>1. IInv /\ JInv => NoLostWakeup
  BY DEF JInv
<1> QED BY <1>1, AlwaysBoth, PTL

\* A lane sleeps in reserveOpen only while the cap is reached and every
\* executor is in use or closing, or a Broadcast of capFree is due.
THEOREM DispatcherNoLostCapWakeup == Spec => []NoLostCapWakeup
<1>1. IInv /\ JInv => NoLostCapWakeup
  BY DEF JInv
<1> QED BY <1>1, AlwaysBoth, PTL

\* Once Close has collected the executors no lane, no batch, no wait at the cap
\* and no busy tenant is left.
THEOREM DispatcherCloseIsFinal == Spec => []CloseIsFinal
<1>1. ASSUME IInv, JInv PROVE CloseIsFinal
  <2> SUFFICES ASSUME closePc \in {"closing", "returned"}
               PROVE  executor = {} /\ busy = {} /\ capWaiting = {} /\ \A l \in Lanes : batch[l] = <<>>
    BY DEF CloseIsFinal
  <2>1. executor = {} /\ closers = {} /\ \A l \in Lanes : pc[l] = "done"
    BY <1>1 DEF JInv, Collected, AllGoroutinesEnded
  <2>2. capWaiting = {} /\ \A l \in Lanes : batch[l] = <<>>
    BY <1>1, <2>1 DEF JInv, Places, IInv, TypeOK
  <2>3. \A l \in Lanes : tq[l] = NoTenant /\ victim[l] = NoTenant
    BY Zenon, <1>1, <2>1 DEF IInv, Bookkeeping
  <2>4. busy = {}
    BY SMTT(30), <1>1, <2>1, <2>3, DispatcherConfig DEF IInv, TypeOK, TenantHeldOnce, Holds
  <2> QED BY <2>1, <2>2, <2>4
<1> QED BY <1>1, AlwaysBoth, PTL

\* Until the context ends the acked messages of a tenant are the first ones it
\* submitted, and those that run or are queued are the others, in order: none
\* is lost, run twice or overtaken, for every batchMax.
THEOREM DispatcherDeliveryOrder == Spec => []DeliveryOrder
<1>1. ASSUME IInv, JInv, ~ctxDone, NEW t \in Tenants
      PROVE  /\ acked[t] = 1 .. Cardinality(acked[t])
             /\ InFlight(t) = [i \in 1 .. (submitted[t] - Cardinality(acked[t])) |->
                                  Cardinality(acked[t]) + i]
  <2>1. PICK q : q = queue[t]
    OBVIOUS
  <2>2. PICK m : m = submitted[t]
    OBVIOUS
  <2>3. q \in Seq(Nat) /\ m \in Nat /\ Len(q) \in Nat
    BY <1>1, <2>1, <2>2, LenProperties DEF IInv, TypeOK
  <2>4. PICK a \in Nat :
          /\ acked[t] = 1 .. a
          /\ \A i \in 1 .. Len(q) : q[i] = m - Len(q) + i
          /\ \A l \in Lanes : Runs(l, t) =>
                /\ \A i \in 1 .. Len(batch[l]) : batch[l][i] = a + i
                /\ a + Len(batch[l]) + Len(q) = m
          /\ (\A l \in Lanes : ~Runs(l, t)) => a + Len(q) = m
    <3>1. InOrder(t)
      BY Zenon, <1>1 DEF JInv, Ordered
    <3> QED BY Zenon, <2>1, <2>2, <3>1 DEF InOrder
  <2>5. Cardinality(acked[t]) = a
    <3>1. 1 \in Int /\ a \in Int
      OBVIOUS
    <3>2. Cardinality(1 .. a) = IF 1 > a THEN 0 ELSE a - 1 + 1
      BY Zenon, <3>1, FS_Interval
    <3> QED BY <2>4, <3>2
  <2> DEFINE running == {l \in Lanes : pc[l] = "running" /\ tq[l] = t}
  <2>6. CASE running = {}
    <3>1. InFlight(t) = q
      <4>1. InFlight(t) = <<>> \o q
        BY Zenon, <2>1, <2>6 DEF InFlight
      <4>2. <<>> \o q = q
        BY <2>3, ConcatEmptySeq
      <4> QED BY <4>1, <4>2
    <3>2. a + Len(q) = m
      BY <2>4, <2>6 DEF Runs
    <3>3. Len(q) = m - a /\ \A i \in 1 .. Len(q) : q[i] = a + i
      BY <2>3, <2>4, <3>2
    <3>4. q = [i \in 1 .. Len(q) |-> q[i]]
      BY <2>3
    <3>5. q = [i \in 1 .. (m - a) |-> a + i]
      BY <3>3, <3>4
    <3> QED BY <2>2, <2>4, <2>5, <3>1, <3>5
  <2>7. ASSUME NEW l \in running
        PROVE  InFlight(t) = [i \in 1 .. (m - a) |-> a + i]
    <3>1. running = {l}
      BY Zenon, <1>1 DEF IInv, TenantHeldOnce, Holds
    <3>2. PICK b : b = batch[l]
      OBVIOUS
    <3>3. PICK c : c = b \o q
      BY Zenon
    <3>4. InFlight(t) = c
      <4>1. running # {} /\ (CHOOSE k \in running : TRUE) = l
        BY <3>1
      <4> QED BY Zenon, <2>1, <3>2, <3>3, <4>1 DEF InFlight
    <3>5. b \in Seq(Nat) /\ Len(b) \in Nat
      BY Zenon, <1>1, <3>2, LenProperties DEF IInv, TypeOK
    <3>6. /\ c \in Seq(Nat) /\ Len(c) = Len(b) + Len(q)
          /\ \A i \in 1 .. (Len(b) + Len(q)) : c[i] = IF i <= Len(b) THEN b[i] ELSE q[i - Len(b)]
      BY Zenon, <2>3, <3>3, <3>5, ConcatProperties
    <3>7. (\A i \in 1 .. Len(b) : b[i] = a + i) /\ a + Len(b) + Len(q) = m
      BY <2>4, <3>2 DEF Runs
    <3>8. Len(b) + Len(q) = m - a /\ m - Len(q) = a + Len(b)
      BY <2>3, <2>4, <3>5, <3>7
    <3>9. ASSUME NEW i \in 1 .. (Len(b) + Len(q)) PROVE c[i] = a + i
      <4>1. CASE i <= Len(b)
        <5>1. i \in 1 .. Len(b)
          BY <2>3, <3>5, <4>1
        <5>2. c[i] = b[i]
          BY Zenon, <3>6, <4>1
        <5> QED BY Zenon, <3>7, <5>1, <5>2
      <4>2. CASE ~(i <= Len(b))
        <5>1. i - Len(b) \in 1 .. Len(q) /\ (a + Len(b)) + (i - Len(b)) = a + i
          BY <2>3, <3>5, <4>2, a \in Nat
        <5>2. q[i - Len(b)] = (a + Len(b)) + (i - Len(b))
          BY Zenon, <2>4, <3>8, <5>1
        <5> QED BY Zenon, <3>6, <4>2, <5>1, <5>2
      <4> QED BY <4>1, <4>2
    <3>10. c = [i \in 1 .. Len(c) |-> c[i]]
      BY <3>6
    <3>11. c = [i \in 1 .. (m - a) |-> a + i]
      BY <3>6, <3>8, <3>9, <3>10
    <3> QED BY Zenon, <3>4, <3>11
  <2> QED BY Zenon, <2>2, <2>4, <2>5, <2>6, <2>7
<1>2. IInv /\ JInv => DeliveryOrder
  BY Zenon, <1>1 DEF DeliveryOrder
<1> QED BY <1>2, AlwaysBoth, PTL

\* What a step may change in tq, victim, closers and ready.
LEMMA StepEffects ==
    ASSUME IInv, JInv, Next
    PROVE  /\ \A l \in Lanes : \/ tq'[l] = tq[l] \/ tq'[l] = NoTenant
                               \/ \E i \in nextReady : tq'[l] = ready[i]
           /\ \A l \in Lanes : \/ victim'[l] = victim[l] \/ victim'[l] = NoTenant
                               \/ victim'[l] \in capVictim /\ open >= maxOpen
           /\ closers' \subseteq closers \cup Idle
           /\ \A u \in Tenants : ~isReady(u) /\ isReady(u)' => ready'[Len(ready')] = u
<1> DEFINE P == /\ \A l \in Lanes : \/ tq'[l] = tq[l] \/ tq'[l] = NoTenant
                                    \/ \E i \in nextReady : tq'[l] = ready[i]
                /\ \A l \in Lanes : \/ victim'[l] = victim[l] \/ victim'[l] = NoTenant
                                    \/ victim'[l] \in capVictim /\ open >= maxOpen
                /\ closers' \subseteq closers \cup Idle
                /\ \A u \in Tenants : ~isReady(u) /\ isReady(u)' => ready'[Len(ready')] = u
<1> USE DEF lists, stopVars, laneVars
<1>1. ASSUME NEW t \in Tenants, Submit(t) PROVE P
  <2>1. UNCHANGED <<tq, victim, closers>>
    BY Zenon, <1>1 DEF Submit
  <2>2. CASE closed
    BY Zenon, <1>1, <2>1, <2>2 DEF Submit, isReady
  <2>3. CASE ~closed
    <3>1. MayEnter(t)
      BY Zenon, <1>1, <2>3, MarkReadyEnters DEF Submit
    <3> QED BY <2>1, <3>1 DEF MayEnter
  <2> QED BY <2>2, <2>3
<1>2. ASSUME NEW t \in Tenants, closeExecutor(t) PROVE P
  <2>1. UNCHANGED <<tq, victim>> /\ closers' \subseteq closers
    BY Zenon, <1>2 DEF closeExecutor
  <2>2. MayEnter(t)
    BY Zenon, <1>2, MarkClosedEnters DEF closeExecutor
  <2> QED BY <2>1, <2>2 DEF MayEnter
<1>3. ASSUME NEW l \in Lanes, LookWait(l) \/ Notify(l) PROVE P
  <2>1. UNCHANGED <<tq, victim, closers, ready>>
    BY Zenon, <1>3 DEF LookWait, Notify
  <2> QED BY <2>1 DEF isReady
<1>4. ASSUME NEW l \in Lanes, LookExit(l) PROVE P
  <2>1. UNCHANGED <<tq, victim, closers>>
    BY Zenon, <1>4 DEF LookExit
  <2>2. CASE UNCHANGED ready
    BY Zenon, <2>1, <2>2 DEF isReady
  <2>3. ASSUME NEW i \in nextReady, ready' = Without(ready, i) PROVE P
    <3>1. OnlyLoses(ready[i])
      BY Zenon, <2>3, RemoveLoses
    <3> QED BY Zenon, <2>1, <3>1 DEF OnlyLoses
  <2> QED BY Zenon, <1>4, <2>2, <2>3 DEF LookExit
<1>5. ASSUME NEW l \in Lanes, NEW t, Run(l, t) \/ AtCap(l, t)
      PROVE  /\ \A k \in Lanes : tq'[k] = tq[k] \/ tq'[k] = NoTenant \/ tq'[k] = t
             /\ \A k \in Lanes : \/ victim'[k] = victim[k]
                                 \/ victim'[k] \in capVictim /\ open >= maxOpen
  <2>1. CASE Run(l, t)
    BY Zenon, <2>1 DEF Run, StartBatch, IInv, TypeOK
  <2>2. CASE AtCap(l, t)
    BY Zenon, <2>2 DEF AtCap, IInv, TypeOK
  <2> QED BY Zenon, <1>5, <2>1, <2>2
<1>6. ASSUME NEW l \in Lanes, Take(l) PROVE P
  <2>1. PICK i \in nextReady : ready' = Without(ready, i) /\ (Run(l, ready[i]) \/ AtCap(l, ready[i]))
    BY <1>6 DEF Take
  <2>2. OnlyLoses(ready[i]) /\ closers' = closers
    BY Zenon, <1>6, <2>1, RemoveLoses DEF Take
  <2>3. /\ \A k \in Lanes : tq'[k] = tq[k] \/ tq'[k] = NoTenant \/ tq'[k] = ready[i]
        /\ \A k \in Lanes : \/ victim'[k] = victim[k]
                            \/ victim'[k] \in capVictim /\ open >= maxOpen
    BY Zenon, <1>5, <2>1
  <2> QED BY <2>1, <2>2, <2>3 DEF OnlyLoses
<1>7. ASSUME NEW l \in Lanes, Reserve(l) PROVE P
  <2>1. /\ UNCHANGED <<ready, closers>> /\ (Run(l, tq[l]) \/ AtCap(l, tq[l]))
        /\ victim' = victim \/ \E v \in capVictim : victim' = [victim EXCEPT ![l] = v] /\ open >= maxOpen
    BY Zenon, <1>7 DEF Reserve, Run, AtCap
  <2>2. \A k \in Lanes : tq'[k] = tq[k] \/ tq'[k] = NoTenant
    BY Zenon, <2>1 DEF Run, StartBatch, AtCap, IInv, TypeOK
  <2>3. \A k \in Lanes : \/ victim'[k] = victim[k]
                         \/ victim'[k] \in capVictim /\ open >= maxOpen
    BY Zenon, <1>5, <2>1
  <2> QED BY Zenon, <2>1, <2>2, <2>3 DEF isReady
<1>8. ASSUME NEW l \in Lanes, VictimClosed(l) PROVE P
  <2>1. victim[l] \in Tenants /\ tq[l] \in Tenants
    BY Zenon, <1>8 DEF VictimClosed, IInv, TypeOK, Bookkeeping
  <2>2. PICK v \in Tenants : MayEnter(v)
    BY Zenon, <1>8, <2>1, MarkClosedEnters DEF VictimClosed
  <2>3. closers' = closers /\ \A k \in Lanes : tq'[k] = tq[k] /\ (victim'[k] = victim[k] \/ victim'[k] = NoTenant)
    BY <1>8 DEF VictimClosed, StartBatch, IInv, TypeOK
  <2>4. \A u \in Tenants : ~isReady(u) /\ isReady(u)' => ready'[Len(ready')] = u
    BY <2>2 DEF MayEnter
  <2> QED BY Zenon, <2>3, <2>4
<1>9. ASSUME NEW l \in Lanes, FinishBatch(l) PROVE P
  <2>1. tq[l] \in Tenants
    BY Zenon, <1>9 DEF FinishBatch, IInv, TypeOK, Bookkeeping
  <2>2. PICK t \in Tenants : MayEnter(t)
    BY Zenon, <1>9, <2>1, MarkReadyEnters DEF FinishBatch
  <2>3. closers' = closers /\ victim' = victim /\ \A k \in Lanes : tq'[k] = tq[k] \/ tq'[k] = NoTenant
    BY Zenon, <1>9 DEF FinishBatch, IInv, TypeOK
  <2>4. \A u \in Tenants : ~isReady(u) /\ isReady(u)' => ready'[Len(ready')] = u
    BY <2>2 DEF MayEnter
  <2> QED BY Zenon, <2>3, <2>4
<1>10. ASSUME closeIdle PROVE P
  <2>1. UNCHANGED <<tq, victim, ready>> /\ closers' \subseteq closers \cup Idle
    BY <1>10 DEF closeIdle, OldestIdle
  <2> QED BY Zenon, <2>1 DEF isReady
<1>11. ASSUME \/ JanitorExit \/ Cancel \/ SetClosed \/ StopBroadcast \/ Close
              \/ CloseCollect \/ CloseReturn \/ Terminated
       PROVE  P
  <2>1. UNCHANGED <<tq, victim, ready, closers>>
    BY <1>11 DEF JanitorExit, Cancel, SetClosed, StopBroadcast, Close, CloseCollect, CloseReturn,
                 Terminated, vars
  <2> QED BY Zenon, <2>1 DEF isReady
<1> HIDE DEF P
<1>12. ASSUME NEW t \in Tenants, Submit(t) \/ closeExecutor(t) PROVE P
  BY <1>1, <1>2, <1>12
<1>13. ASSUME NEW l \in Lanes, lane(l) PROVE P
  BY <1>3, <1>4, <1>6, <1>7, <1>8, <1>9, <1>13 DEF lane
<1>14. P
  BY <1>10, <1>11, <1>12, <1>13 DEF Next
<1> QED BY Zenon, <1>14 DEF P

\* A lane takes the first tenant of ready that is not busy, and whoever gives
\* up its lane, is closed or gets its first message goes to the end of ready.
THEOREM DispatcherRoundRobin == Spec => RoundRobin
<1> DEFINE Fair == \A i, j \in DOMAIN ready :
              /\ i < j /\ ready[i] \notin busy /\ ~closed =>
                    ~ \E l \in Lanes : tq[l] # ready[j] /\ tq'[l] = ready[j]
              /\ \A t \in Tenants : ~isReady(t) /\ isReady(t)' => ready'[Len(ready')] = t
<1>1. IInv /\ JInv /\ [Next]_vars => [Fair]_vars
  <2> SUFFICES ASSUME IInv, JInv, Next PROVE Fair
    OBVIOUS
  <2>1. ASSUME NEW i \in DOMAIN ready, NEW j \in DOMAIN ready, i < j, ready[i] \notin busy,
               NEW l \in Lanes, tq[l] # ready[j], tq'[l] = ready[j]
        PROVE  FALSE
    <3>1. ready[j] \in Tenants /\ DOMAIN ready = 1 .. Len(ready) /\ Len(ready) \in Nat
      BY SMTT(30), LenProperties DEF IInv, TypeOK
    <3>2. PICK k \in nextReady : ready[j] = ready[k]
      BY <2>1, <3>1, StepEffects, DispatcherConfig
    <3>3. k \in DOMAIN ready /\ \A n \in 1 .. (k - 1) : ready[n] \in busy
      BY <3>2 DEF nextReady
    <3>4. j = k
      BY <3>2, <3>3 DEF IInv, NoLostWork, IsInjective
    <3>5. i \in 1 .. (k - 1)
      BY <2>1, <3>1, <3>4
    <3> QED BY <2>1, <3>3, <3>5
  <2>2. \A t \in Tenants : ~isReady(t) /\ isReady(t)' => ready'[Len(ready')] = t
    BY StepEffects
  <2> QED BY <2>1, <2>2
<1>2. [][Fair]_vars <=> RoundRobin
  BY PTL DEF RoundRobin
<1> QED BY <1>1, <1>2, AlwaysBoth, PTL DEF Spec

\* The executor of a tenant that waits in ready is closed only by a lane at the
\* cap, and only when no idle executor is left (Idle, capVictim).
THEOREM DispatcherReadyKeepsStore == Spec => ReadyKeepsStore
<1> DEFINE Kept == \A t \in Tenants :
              isReady(t) /\ t \in executor \ busy /\ (t \in closers' \/ \E l \in Lanes : victim'[l] = t)
                => open >= maxOpen /\ \A u \in executor \ busy : isReady(u)
<1>1. IInv /\ JInv /\ [Next]_vars => [Kept]_vars
  <2> SUFFICES ASSUME IInv, JInv, Next, NEW t \in Tenants, isReady(t), t \in executor \ busy,
                      t \in closers' \/ \E l \in Lanes : victim'[l] = t
               PROVE  open >= maxOpen /\ \A u \in executor \ busy : isReady(u)
    BY Zenon
  <2>1. t \notin closers /\ \A l \in Lanes : victim[l] # t
    BY DEF IInv, TenantHeldOnce, Holds
  <2>2. t \notin Idle
    BY DEF Idle
  <2>3. t \notin closers'
    BY Zenon, <2>1, <2>2, StepEffects
  <2>4. t \in capVictim /\ open >= maxOpen
    BY Zenon, <2>1, <2>3, StepEffects, DispatcherConfig
  <2>5. Idle = {}
    BY <2>2, <2>4 DEF capVictim
  <2> QED BY <2>4, <2>5 DEF Idle
<1>2. [][Kept]_vars <=> ReadyKeepsStore
  BY PTL DEF ReadyKeepsStore
<1> QED BY <1>1, <1>2, AlwaysBoth, PTL DEF Spec

=============================================================================
