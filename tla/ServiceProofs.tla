----------------------------- MODULE ServiceProofs -----------------------------
(***************************************************************************)
(* Proofs about Pool and Service, for any databases, any finite number of  *)
(* clients, any pool size, configuration and disk.  The pool: its safety   *)
(* invariants, from one inductive invariant PInv, and that it implements   *)
(* Handles.  The service: the pool keeps its promises inside the process,  *)
(* Pool.Close finds nobody at work, and at most one probe writes to the    *)
(* volume.                                                                 *)
(***************************************************************************)
EXTENDS Service, TLAPS, FiniteSetTheorems

Woken(k) == {c \in Clients : pc[c] = "woken" /\ key[c] = k}

\* What a handle, the flag of a database and the caller of Pool.Close have to
\* do with each other.
Handling ==
    /\ \A c \in Clients :
          /\ pc[c] = "holding" <=> handle[c] # "none"
          /\ handle[c] = "open" => db[key[c]]
          /\ handle[c] = "stale" => closed[key[c]]
    /\ \A k \in Keys :
          /\ closed[k] => ~db[k] /\ Waiting(pc, k) = {} /\ closePc # "idle" /\ k \notin toShut
          /\ db[k] => inUse[k] > 0

PInv ==
    /\ TypeOK
    /\ Handling
    /\ InUseCounts
    /\ NoIdleHandle

-----------------------------------------------------------------------------
(* Counting clients.                                                       *)

\* The sets of clients that the invariants count are finite.
LEMMA Countable ==
    ASSUME NEW S, S \subseteq Clients
    PROVE  IsFiniteSet(S) /\ Cardinality(S) \in Nat
BY FS_Subset, FS_CardinalityType, PoolConfig

\* Removing or adding one client changes the number by one.
LEMMA CountOne ==
    ASSUME NEW S, S \subseteq Clients, NEW c \in Clients
    PROVE  /\ c \in S => Cardinality(S \ {c}) = Cardinality(S) - 1
           /\ c \notin S => Cardinality(S \cup {c}) = Cardinality(S) + 1
BY Zenon, Countable, FS_AddElement, FS_RemoveElement

\* The holder of the only handle is the only holder.
LEMMA OnlyOne ==
    ASSUME NEW S, S \subseteq Clients, NEW c \in S, Cardinality(S) = 1
    PROVE  S = {c}
BY Countable, FS_Singleton

\* inUse is positive for a database with a handle out.
LEMMA HeldIsInUse ==
    ASSUME PInv, NEW c \in Clients, pc[c] = "holding"
    PROVE  inUse[key[c]] > 0 /\ c \in holders[key[c]]
<1>1. key[c] \in Keys /\ c \in holders[key[c]]
  BY DEF holders, PInv, TypeOK
<1>2. holders[key[c]] \subseteq Clients
  BY <1>1 DEF holders
<1>3. Cardinality(holders[key[c]]) # 0
  BY <1>1, <1>2, Countable, FS_EmptySet
<1> QED BY <1>1, <1>2, <1>3, Countable DEF PInv, InUseCounts

-----------------------------------------------------------------------------
(* sync.Cond.Signal.                                                       *)

\* Signal moves at most one client, from waiting to woken; one, if any waits.
LEMMA SignalEffect ==
    ASSUME TypeOK, NEW p \in [Clients -> {"idle", "entering", "waiting", "woken", "holding", "released"}],
           NEW k \in Keys, pc' \in Signal(p, k)
    PROVE  /\ pc' \in [Clients -> {"idle", "entering", "waiting", "woken", "holding", "released"}]
           /\ \/ pc' = p /\ Waiting(p, k) = {}
              \/ \E w \in Waiting(p, k) : pc' = [p EXCEPT ![w] = "woken"]
BY DEF Signal, Waiting

-----------------------------------------------------------------------------
(* One lemma per action.                                                   *)

\* A step that leaves the counted sets and inUse alone keeps the two invariants
\* about them.
LEMMA CountsUnchanged ==
    ASSUME PInv, inUse' = inUse, holders' = holders,
           \A k \in Keys : Woken(k)' = Woken(k) /\ Waiting(pc, k)' = Waiting(pc, k)
    PROVE  InUseCounts' /\ NoIdleHandle'
<1>1. InUseCounts'
  BY DEF PInv, InUseCounts
<1>2. NoIdleHandle'
  BY DEF PInv, NoIdleHandle, Woken
<1> QED BY <1>1, <1>2

\* A call of Pool.Get, refused or not, takes and frees no handle.
LEMMA GetKeepsPInv ==
    ASSUME PInv, NEW c \in Clients, NEW k \in Keys, Get(c, k)
    PROVE  PInv' /\ UNCHANGED <<holders, db, closed>>
<1>1. /\ pc[c] \in {"idle", "released"} /\ pc' \in {[pc EXCEPT ![c] = "idle"], [pc EXCEPT ![c] = "entering"]}
      /\ key' \in {key, [key EXCEPT ![c] = k]} /\ pool' \in {pool, pool \cup {k}}
      /\ handle' = [handle EXCEPT ![c] = "none"] /\ gets' = [gets EXCEPT ![c] = @ + 1]
      /\ UNCHANGED <<poolClosed, closePc, toShut, db, inUse, closed>>
  BY DEF Get
<1>2. TypeOK'
  BY <1>1 DEF PInv, TypeOK
<1>3. /\ pc'[c] \notin {"holding", "waiting", "woken"} /\ handle'[c] = "none"
      /\ \A d \in Clients \ {c} : pc'[d] = pc[d] /\ key'[d] = key[d] /\ handle'[d] = handle[d]
  BY <1>1 DEF PInv, TypeOK
<1>4. holders' = holders /\ \A j \in Keys : Woken(j)' = Woken(j) /\ Waiting(pc, j)' = Waiting(pc, j)
  BY <1>1, <1>3 DEF holders, Woken, Waiting
<1>5. Handling'
  BY <1>1, <1>3, <1>4 DEF PInv, Handling
<1> QED BY <1>1, <1>2, <1>4, <1>5, CountsUnchanged DEF PInv

\* A Get that goes to sleep found every handle taken.
LEMMA WaitKeepsPInv ==
    ASSUME PInv, NEW c \in Clients, pc[c] \in {"entering", "woken"},
           ~closed[key[c]], inUse[key[c]] >= size,
           pc' = [pc EXCEPT ![c] = "waiting"],
           UNCHANGED <<pool, poolClosed, closePc, toShut, db, inUse, closed, key, handle, gets>>
    PROVE  PInv' /\ holders' = holders
<1>1. TypeOK'
  BY DEF PInv, TypeOK
<1>2. pc'[c] = "waiting" /\ \A d \in Clients \ {c} : pc'[d] = pc[d]
  BY DEF PInv, TypeOK
<1>3. holders' = holders
  BY <1>2 DEF holders
<1>4. Handling'
  BY <1>2 DEF PInv, Handling, Waiting
<1>5. InUseCounts'
  BY <1>3 DEF PInv, InUseCounts
<1>6. ASSUME NEW k \in Keys, Waiting(pc, k)' # {}
      PROVE  inUse'[k] + Cardinality(Woken(k)') >= size
  <2>1. inUse[k] \in Nat /\ Cardinality(Woken(k)') \in Nat /\ size \in Nat
    BY Countable, PoolConfig DEF PInv, TypeOK, Woken
  <2>2. CASE k = key[c]
    BY <2>1, <2>2
  <2>3. CASE k # key[c]
    <3>1. Waiting(pc, k)' = Waiting(pc, k) /\ Woken(k)' = Woken(k)
      BY <1>2, <2>3 DEF Waiting, Woken
    <3> QED BY <1>6, <3>1 DEF PInv, NoIdleHandle, Woken
  <2> QED BY <2>2, <2>3
<1>7. NoIdleHandle'
  BY Zenon, <1>6 DEF NoIdleHandle, Woken
<1> QED BY <1>1, <1>3, <1>4, <1>5, <1>7 DEF PInv

\* A Get of a database that was shut down returns; nobody waits there any more.
LEMMA RefusedKeepsPInv ==
    ASSUME PInv, NEW c \in Clients, pc[c] \in {"entering", "woken"}, closed[key[c]],
           pc' = [pc EXCEPT ![c] = "idle"],
           UNCHANGED <<pool, poolClosed, closePc, toShut, db, inUse, closed, key, handle, gets>>
    PROVE  PInv' /\ holders' = holders
<1>1. TypeOK'
  BY DEF PInv, TypeOK
<1>2. pc'[c] = "idle" /\ \A d \in Clients \ {c} : pc'[d] = pc[d]
  BY DEF PInv, TypeOK
<1>3. holders' = holders
  BY <1>2 DEF holders
<1>4. \A k \in Keys : Waiting(pc, k)' = Waiting(pc, k)
  BY <1>2 DEF Waiting
<1>5. Handling'
  BY Zenon, <1>2, <1>4 DEF PInv, Handling
<1>6. InUseCounts'
  BY <1>3 DEF PInv, InUseCounts
<1>7. ASSUME NEW k \in Keys, Waiting(pc, k)' # {}
      PROVE  inUse'[k] + Cardinality(Woken(k)') >= size
  <2>1. k # key[c]
    BY Zenon, <1>4, <1>7 DEF PInv, Handling
  <2>2. Woken(k)' = Woken(k)
    BY <1>2, <2>1 DEF Woken
  <2> QED BY Zenon, <1>4, <1>7, <2>2 DEF PInv, NoIdleHandle, Woken
<1>8. NoIdleHandle'
  BY Zenon, <1>7 DEF NoIdleHandle, Woken
<1> QED BY <1>1, <1>3, <1>5, <1>6, <1>8 DEF PInv

\* A Get that takes a handle is one more holder, and counted.
LEMMA TakeKeepsPInv ==
    ASSUME PInv, NEW c \in Clients, pc[c] \in {"entering", "woken"}, ~closed[key[c]],
           TakeHandle(c, key[c]),
           UNCHANGED <<pool, poolClosed, closePc, toShut, closed, key, gets>>
    PROVE  PInv' /\ holders' = [holders EXCEPT ![key[c]] = @ \cup {c}]
<1> DEFINE h == key[c]
<1>1. /\ h \in Keys
      /\ db' = [db EXCEPT ![h] = TRUE] /\ inUse' = [inUse EXCEPT ![h] = @ + 1]
      /\ handle' = [handle EXCEPT ![c] = "open"] /\ pc' = [pc EXCEPT ![c] = "holding"]
  BY DEF TakeHandle, PInv, TypeOK
<1>2. TypeOK'
  BY <1>1 DEF PInv, TypeOK
<1>3. /\ pc'[c] = "holding" /\ handle'[c] = "open"
      /\ \A d \in Clients \ {c} : pc'[d] = pc[d] /\ handle'[d] = handle[d]
      /\ \A k \in Keys : /\ db'[k] = (db[k] \/ k = h)
                         /\ inUse'[k] = IF k = h THEN inUse[k] + 1 ELSE inUse[k]
  BY Zenon, <1>1 DEF PInv, TypeOK
<1>4. /\ c \notin holders[h] /\ holders'[h] = holders[h] \cup {c}
      /\ \A k \in Keys \ {h} : holders'[k] = holders[k]
  BY <1>1, <1>3 DEF holders
<1>5. holders' = [holders EXCEPT ![h] = @ \cup {c}]
  BY Zenon, <1>4 DEF holders
<1>6. \A k \in Keys : Waiting(pc, k)' = Waiting(pc, k)
  BY <1>3 DEF Waiting
<1>7. Handling'
  <2>1. ASSUME NEW d \in Clients
        PROVE  /\ pc'[d] = "holding" <=> handle'[d] # "none"
               /\ handle'[d] = "open" => db'[key'[d]]
               /\ handle'[d] = "stale" => closed'[key'[d]]
    BY <1>1, <1>3 DEF PInv, Handling, TypeOK
  <2>2. ASSUME NEW k \in Keys
        PROVE  /\ closed'[k] => ~db'[k] /\ Waiting(pc, k)' = {} /\ closePc' # "idle" /\ k \notin toShut'
               /\ db'[k] => inUse'[k] > 0
    BY <1>3, <1>6 DEF PInv, Handling, TypeOK
  <2> QED BY <2>1, <2>2 DEF Handling
<1>8. InUseCounts'
  <2>1. holders[h] \subseteq Clients
    BY <1>1 DEF holders
  <2>2. Cardinality(holders'[h]) = Cardinality(holders[h]) + 1
    BY <1>4, <2>1, CountOne
  <2>3. ASSUME NEW k \in Keys
        PROVE  inUse'[k] = Cardinality(holders'[k])
    <3>1. inUse[k] = Cardinality(holders[k])
      BY DEF PInv, InUseCounts
    <3>2. CASE k = h
      BY <1>3, <2>2, <3>1, <3>2
    <3>3. CASE k # h
      BY <1>3, <1>4, <3>1, <3>3
    <3> QED BY <3>2, <3>3
  <2> QED BY <2>3 DEF InUseCounts
<1>9. ASSUME NEW k \in Keys, Waiting(pc, k)' # {}
      PROVE  inUse'[k] + Cardinality(Woken(k)') >= size
  <2>1. CASE k # h
    <3>1. Woken(k)' = Woken(k)
      BY <1>3, <2>1 DEF Woken
    <3> QED BY Zenon, <1>3, <1>6, <1>9, <2>1, <3>1 DEF PInv, NoIdleHandle, Woken
  <2>2. CASE k = h
    <3>1. /\ Woken(k) \subseteq Clients /\ Woken(k)' = Woken(k) \ {c}
          /\ inUse[k] + Cardinality(Woken(k)) >= size
      BY <1>3, <1>6, <1>9 DEF PInv, NoIdleHandle, Woken
    <3>2. Cardinality(Woken(k)') >= Cardinality(Woken(k)) - 1
      <4>1. CASE c \in Woken(k)
        BY <3>1, <4>1, CountOne, Countable
      <4>2. CASE c \notin Woken(k)
        <5>1. Woken(k)' = Woken(k)
          BY <3>1, <4>2
        <5>2. Cardinality(Woken(k)) \in Nat
          BY <3>1, Countable
        <5> QED BY <5>1, <5>2
      <4> QED BY <4>1, <4>2
    <3>3. Cardinality(Woken(k)) \in Nat /\ Cardinality(Woken(k)') \in Nat
      BY <3>1, Countable
    <3> QED BY SMTT(30), <1>3, <2>2, <3>1, <3>2, <3>3, PoolConfig DEF PInv, TypeOK
  <2> QED BY Zenon, <2>1, <2>2
<1>10. NoIdleHandle'
  BY <1>9 DEF NoIdleHandle, Woken
<1> QED BY <1>2, <1>5, <1>7, <1>8, <1>10 DEF PInv

\* The client c leaves (to x) and passes a wake-up on: if somebody still waits
\* afterwards, one more client is awake, in place of c if c was.
LEMMA SignalCounts ==
    ASSUME PInv, NEW c \in Clients, pc[c] \in {"entering", "woken", "holding"},
           NEW x \in {"idle", "released"}, pc' \in Signal([pc EXCEPT ![c] = x], key[c]), key' = key
    PROVE  /\ pc' \in [Clients -> {"idle", "entering", "waiting", "woken", "holding", "released"}]
           /\ pc'[c] = x
           /\ \A d \in Clients \ {c} : pc'[d] = "holding" <=> pc[d] = "holding"
           /\ \A k \in Keys : Waiting(pc, k)' \subseteq Waiting(pc, k)
           /\ \A k \in Keys \ {key[c]} : Woken(k)' = Woken(k)
           /\ Waiting(pc, key[c])' # {} =>
                 Cardinality(Woken(key[c])') =
                     Cardinality(Woken(key[c])) + IF pc[c] = "woken" THEN 0 ELSE 1
<1>h. PICK h \in Keys : h = key[c]
  BY DEF PInv, TypeOK
<1> DEFINE p == [pc EXCEPT ![c] = x]
           States == {"idle", "entering", "waiting", "woken", "holding", "released"}
<1>1. p \in [Clients -> States]
  BY DEF PInv, TypeOK
<1>2. p[c] = x /\ \A d \in Clients \ {c} : p[d] = pc[d]
  BY DEF PInv, TypeOK
<1>3. Waiting(p, h) = Waiting(pc, h)
  BY <1>2 DEF Waiting
<1> HIDE DEF p
<1>4. /\ pc' \in [Clients -> States]
      /\ (pc' = p /\ Waiting(p, h) = {}) \/ \E w \in Waiting(p, h) : pc' = [p EXCEPT ![w] = "woken"]
  BY Zenon, <1>h, <1>1, SignalEffect DEF PInv, p
<1>5. CASE pc' = p /\ Waiting(p, h) = {}
  <2>1. \A k \in Keys : Waiting(pc, k)' = Waiting(pc, k)
    BY <1>2, <1>5 DEF Waiting
  <2>2. \A k \in Keys \ {h} : Woken(k)' = Woken(k)
    BY <1>h, <1>2, <1>5 DEF Woken
  <2>3. Waiting(pc, h)' = {}
    BY Zenon, <1>3, <1>5, <2>1
  <2> QED BY <1>2, <1>4, <1>5, <2>1, <2>2, <2>3, <1>h
<1>6. ASSUME NEW w \in Waiting(p, h), pc' = [p EXCEPT ![w] = "woken"]
      PROVE  /\ pc'[c] = x
             /\ \A d \in Clients \ {c} : pc'[d] = "holding" <=> pc[d] = "holding"
             /\ \A k \in Keys : Waiting(pc, k)' \subseteq Waiting(pc, k)
             /\ \A k \in Keys \ {h} : Woken(k)' = Woken(k)
             /\ Cardinality(Woken(h)') = Cardinality(Woken(h)) + IF pc[c] = "woken" THEN 0 ELSE 1
  <2>1. w \in Clients /\ w # c /\ pc[w] = "waiting" /\ key[w] = h
    BY <1>2, <1>3 DEF Waiting
  <2>2. pc'[c] = x /\ pc'[w] = "woken" /\ \A d \in Clients \ {c, w} : pc'[d] = pc[d]
    BY <1>1, <1>2, <1>6, <2>1
  <2>3. \A k \in Keys : Waiting(pc, k)' \subseteq Waiting(pc, k)
    BY <2>2 DEF Waiting
  <2>4. \A k \in Keys \ {h} : Woken(k)' = Woken(k)
    BY <1>h, <2>1, <2>2 DEF Woken
  <2> DEFINE W == Woken(h)
             V == Woken(h)'
  <2>5. W \subseteq Clients /\ w \notin W /\ V = (W \ {c}) \cup {w} /\ (c \in W <=> pc[c] = "woken")
    BY Zenon, <1>h, <2>1, <2>2 DEF Woken
  <2> HIDE DEF W, V
  <2>6. Cardinality(W) \in Nat /\ Cardinality(V) = Cardinality(W \ {c}) + 1
    BY <2>1, <2>5, Countable, CountOne
  <2>7. Cardinality(W \ {c}) = Cardinality(W) - IF pc[c] = "woken" THEN 1 ELSE 0
    <3>1. CASE c \in W
      BY <2>5, <2>6, <3>1, CountOne
    <3>2. CASE c \notin W
      <4>1. W \ {c} = W /\ pc[c] # "woken"
        BY <2>5, <3>2
      <4>2. Cardinality(W \ {c}) = Cardinality(W)
        BY <4>1
      <4> QED BY <2>6, <4>1, <4>2
    <3> QED BY <3>1, <3>2
  <2>8. Cardinality(V) = Cardinality(W) + IF pc[c] = "woken" THEN 0 ELSE 1
    BY <2>6, <2>7
  <2> QED BY <2>1, <2>2, <2>3, <2>4, <2>8 DEF W, V
<1> QED BY <1>h, <1>4, <1>5, <1>6

\* A Get that cannot open the database hands its wake-up to the next.
LEMMA OpenFailsKeepsPInv ==
    ASSUME PInv, NEW c \in Clients, pc[c] \in {"entering", "woken"}, OpenFails(c, key[c]),
           UNCHANGED <<pool, poolClosed, closePc, toShut, closed, key, gets>>
    PROVE  PInv' /\ holders' = holders /\ db' = db
<1>1. pc' \in Signal([pc EXCEPT ![c] = "idle"], key[c]) /\ UNCHANGED <<db, inUse, handle>>
  BY DEF OpenFails
<1>2. /\ pc' \in [Clients -> {"idle", "entering", "waiting", "woken", "holding", "released"}]
      /\ pc'[c] = "idle"
      /\ \A d \in Clients \ {c} : pc'[d] = "holding" <=> pc[d] = "holding"
      /\ \A k \in Keys : Waiting(pc, k)' \subseteq Waiting(pc, k)
      /\ \A k \in Keys \ {key[c]} : Woken(k)' = Woken(k)
      /\ Waiting(pc, key[c])' # {} =>
            Cardinality(Woken(key[c])') = Cardinality(Woken(key[c])) + IF pc[c] = "woken" THEN 0 ELSE 1
  BY Zenon, <1>1, SignalCounts
<1>3. TypeOK'
  BY <1>1, <1>2 DEF PInv, TypeOK
<1>4. holders' = holders
  BY <1>2 DEF holders
<1>5. Handling'
  BY <1>1, <1>2 DEF PInv, Handling
<1>6. InUseCounts'
  BY <1>1, <1>4 DEF PInv, InUseCounts
<1>7. ASSUME NEW k \in Keys, Waiting(pc, k)' # {}
      PROVE  inUse'[k] + Cardinality(Woken(k)') >= size
  <2>1. inUse[k] + Cardinality(Woken(k)) >= size
    BY <1>2, <1>7 DEF PInv, NoIdleHandle, Woken
  <2>2. inUse[k] \in Nat /\ Cardinality(Woken(k)) \in Nat /\ size \in Nat
    BY Zenon, Countable, PoolConfig DEF PInv, TypeOK, Woken
  <2>3. CASE k = key[c]
    BY SMTT(30), <1>1, <1>2, <1>7, <2>1, <2>2, <2>3
  <2>4. CASE k # key[c]
    BY Zenon, <1>1, <1>2, <2>1, <2>4
  <2> QED BY <2>3, <2>4
<1>8. NoIdleHandle'
  BY Zenon, <1>7 DEF NoIdleHandle, Woken
<1> QED BY Zenon, <1>1, <1>3, <1>4, <1>5, <1>6, <1>8 DEF PInv

\* A step of DbPoolObject.Get keeps the invariant; seen from outside, the client
\* takes a handle or nothing happens.
LEMMA DpoGetKeepsPInv ==
    ASSUME PInv, NEW c \in Clients, DpoGet(c)
    PROVE  /\ PInv'
           /\ \/ UNCHANGED <<holders, db, closed>>
              \/ /\ ~closed[key[c]] /\ inUse[key[c]] < size /\ pc[c] # "holding"
                 /\ holders' = [holders EXCEPT ![key[c]] = @ \cup {c}]
                 /\ db' = [db EXCEPT ![key[c]] = TRUE] /\ closed' = closed
<1>1. /\ pc[c] \in {"entering", "woken"}
      /\ UNCHANGED <<pool, poolClosed, closePc, toShut, closed, key, gets>>
  BY DEF DpoGet
<1>2. CASE /\ ~closed[key[c]] /\ inUse[key[c]] >= size
           /\ pc' = [pc EXCEPT ![c] = "waiting"] /\ UNCHANGED <<db, inUse, handle>>
  BY Zenon, <1>1, <1>2, WaitKeepsPInv
<1>3. CASE /\ closed[key[c]]
           /\ pc' = [pc EXCEPT ![c] = "idle"] /\ UNCHANGED <<db, inUse, handle>>
  BY Zenon, <1>1, <1>3, RefusedKeepsPInv
<1>4. CASE ~closed[key[c]] /\ inUse[key[c]] < size /\ TakeHandle(c, key[c])
  <2>1. PInv' /\ holders' = [holders EXCEPT ![key[c]] = @ \cup {c}]
    BY <1>1, <1>4, TakeKeepsPInv
  <2>2. db' = [db EXCEPT ![key[c]] = TRUE]
    BY <1>4 DEF TakeHandle
  <2> QED BY <1>1, <1>4, <2>1, <2>2
<1>5. CASE OpenFails(c, key[c])
  BY <1>1, <1>5, OpenFailsKeepsPInv
<1> QED BY <1>2, <1>3, <1>4, <1>5 DEF DpoGet

\* A handle is given back: the client is no holder any more, and the last one
\* closes the database, under nobody.
LEMMA PutBackKeepsPInv ==
    ASSUME PInv, NEW c \in Clients, pc[c] = "holding", PutBack(c, key[c]),
           UNCHANGED <<pool, poolClosed, closePc, toShut, closed, key, gets>>
    PROVE  /\ PInv'
           /\ holders' = [holders EXCEPT ![key[c]] = @ \ {c}]
           /\ db' = [db EXCEPT ![key[c]] = @ /\ holders[key[c]] # {c}]
<1>1. PICK h \in Keys : h = key[c]
  BY DEF PInv, TypeOK
<1>2. holders[h] \subseteq Clients /\ c \in holders[h] /\ inUse[h] = Cardinality(holders[h]) /\ inUse[h] > 0
  BY <1>1, HeldIsInUse DEF holders, PInv, InUseCounts
<1>3. inUse[h] = 1 <=> holders[h] = {c}
  BY Zenon, <1>2, OnlyOne, FS_Singleton
<1>4. /\ inUse' = [inUse EXCEPT ![h] = @ - 1]
      /\ db' = [db EXCEPT ![h] = @ /\ inUse[h] # 1]
      /\ pc' \in Signal([pc EXCEPT ![c] = "released"], h)
  BY <1>1 DEF PutBack
<1>5. handle' = [handle EXCEPT ![c] = "none"]
  <2> DEFINE f == [handle EXCEPT ![c] = "none"]
  <2>1. f \in [Clients -> {"none", "open", "stale"}]
    BY Zenon DEF PInv, TypeOK
  <2>2. CASE inUse[h] # 1
    BY <1>1, <2>2 DEF PutBack
  <2>3. CASE inUse[h] = 1
    <3>1. handle' = HandlesAfterClose(f, h)
      BY Zenon, <1>1, <2>3 DEF PutBack
    <3>2. \A d \in Clients \ {c} : key[d] = h => handle[d] = "none"
      BY <1>3, <2>3 DEF holders, PInv, Handling
    <3>3. \A d \in Clients : ~(key[d] = h /\ f[d] = "open")
      BY <3>2 DEF PInv, TypeOK
    <3> HIDE DEF f
    <3>4. HandlesAfterClose(f, h) = [d \in Clients |-> f[d]]
      BY <3>3 DEF HandlesAfterClose
    <3> QED BY Zenon, <2>1, <3>1, <3>4 DEF f
  <2> QED BY <2>2, <2>3
<1>6. /\ pc' \in [Clients -> {"idle", "entering", "waiting", "woken", "holding", "released"}]
      /\ pc'[c] = "released"
      /\ \A d \in Clients \ {c} : pc'[d] = "holding" <=> pc[d] = "holding"
      /\ \A k \in Keys : Waiting(pc, k)' \subseteq Waiting(pc, k)
      /\ \A k \in Keys \ {h} : Woken(k)' = Woken(k)
      /\ Waiting(pc, h)' # {} => Cardinality(Woken(h)') = Cardinality(Woken(h)) + 1
  BY Zenon, <1>1, <1>4, SignalCounts
<1>7. TypeOK'
  <2>1. inUse' \in [Keys -> Nat]
    <3>1. inUse[h] - 1 \in Nat
      BY <1>2 DEF PInv, TypeOK
    <3> QED BY Zenon, <1>4, <3>1 DEF PInv, TypeOK
  <2>2. db' \in [Keys -> BOOLEAN] /\ handle' \in [Clients -> {"none", "open", "stale"}]
    BY <1>4, <1>5 DEF PInv, TypeOK
  <2> QED BY <1>6, <2>1, <2>2 DEF PInv, TypeOK
<1>8. /\ \A k \in Keys : inUse'[k] = (IF k = h THEN inUse[k] - 1 ELSE inUse[k])
      /\ \A k \in Keys : db'[k] = (db[k] /\ (k = h => inUse[h] # 1))
      /\ handle'[c] = "none" /\ \A d \in Clients \ {c} : handle'[d] = handle[d]
  BY <1>4, <1>5 DEF PInv, TypeOK
<1>9. holders' = [holders EXCEPT ![h] = @ \ {c}]
  <2>1. holders'[h] = holders[h] \ {c} /\ \A k \in Keys \ {h} : holders'[k] = holders[k]
    BY Zenon, <1>1, <1>6 DEF holders
  <2> QED BY Zenon, <2>1 DEF holders
<1>10. Handling'
  <2>1. ASSUME NEW d \in Clients
        PROVE  /\ pc'[d] = "holding" <=> handle'[d] # "none"
               /\ handle'[d] = "open" => db'[key'[d]]
               /\ handle'[d] = "stale" => closed'[key'[d]]
    <3>1. CASE d = c
      BY Zenon, <1>6, <1>8, <3>1
    <3>2. CASE d # c
      <4>1. handle'[d] = handle[d] /\ (pc'[d] = "holding" <=> pc[d] = "holding") /\ key[d] \in Keys
        BY Zenon, <1>6, <1>8, <3>2 DEF PInv, TypeOK
      <4>2. handle[d] = "open" => db'[key[d]]
        <5>1. SUFFICES ASSUME handle[d] = "open" PROVE key[d] = h => inUse[h] # 1
          BY Zenon, <1>8, <4>1 DEF PInv, Handling
        <5>2. d \in holders[key[d]]
          BY <5>1, <4>1 DEF holders, PInv, Handling
        <5> QED BY <1>3, <3>2, <5>2
      <4> QED BY Zenon, <4>1, <4>2 DEF PInv, Handling
    <3> QED BY Zenon, <3>1, <3>2
  <2>2. ASSUME NEW k \in Keys
        PROVE  /\ closed'[k] => ~db'[k] /\ Waiting(pc, k)' = {} /\ closePc' # "idle" /\ k \notin toShut'
               /\ db'[k] => inUse'[k] > 0
    <3>1. closed'[k] => ~db'[k] /\ Waiting(pc, k)' = {} /\ closePc' # "idle" /\ k \notin toShut'
      BY Zenon, <1>6, <1>8 DEF PInv, Handling
    <3>2. db'[k] => inUse'[k] > 0
      BY SMTT(30), <1>8 DEF PInv, Handling, TypeOK
    <3> QED BY <3>1, <3>2
  <2> QED BY <2>1, <2>2 DEF Handling
<1>11. InUseCounts'
  <2>1. ASSUME NEW k \in Keys
        PROVE  inUse'[k] = Cardinality(holders'[k])
    <3>1. inUse[k] = Cardinality(holders[k])
      BY DEF PInv, InUseCounts
    <3>2. CASE k = h
      <4>1. holders'[h] = holders[h] \ {c}
        BY <1>9 DEF holders
      <4>2. Cardinality(holders[h] \ {c}) = Cardinality(holders[h]) - 1
        BY Zenon, <1>2, CountOne
      <4> QED BY Zenon, <1>8, <3>1, <3>2, <4>1, <4>2
    <3>3. CASE k # h
      <4>1. holders'[k] = holders[k]
        BY Zenon, <1>9, <3>3 DEF holders
      <4> QED BY <1>8, <3>1, <3>3, <4>1
    <3> QED BY <3>2, <3>3
  <2> QED BY <2>1 DEF InUseCounts
<1>12. ASSUME NEW k \in Keys, Waiting(pc, k)' # {}
       PROVE  inUse'[k] + Cardinality(Woken(k)') >= size
  <2>1. inUse[k] + Cardinality(Woken(k)) >= size
    BY <1>6, <1>12 DEF PInv, NoIdleHandle, Woken
  <2>2. inUse[k] \in Nat /\ Cardinality(Woken(k)) \in Nat /\ size \in Nat
    BY Zenon, Countable, PoolConfig DEF PInv, TypeOK, Woken
  <2>3. CASE k = h
    BY SMTT(30), <1>6, <1>8, <1>12, <2>1, <2>2, <2>3
  <2>4. CASE k # h
    BY Zenon, <1>6, <1>8, <2>1, <2>4
  <2> QED BY Zenon, <2>3, <2>4
<1>13. NoIdleHandle'
  BY <1>12 DEF NoIdleHandle, Woken
<1>14. db' = [db EXCEPT ![h] = @ /\ holders[h] # {c}]
  BY Zenon, <1>3, <1>4
<1> QED BY <1>1, <1>7, <1>9, <1>10, <1>11, <1>13, <1>14 DEF PInv

\* Close of a storage, also a second time, keeps the invariant.
LEMMA PutKeepsPInv ==
    ASSUME PInv, NEW c \in Clients, Put(c)
    PROVE  /\ PInv'
           /\ closed' = closed
           /\ \/ UNCHANGED <<holders, db>>
              \/ /\ pc[c] = "holding"
                 /\ holders' = [holders EXCEPT ![key[c]] = @ \ {c}]
                 /\ db' = [db EXCEPT ![key[c]] = @ /\ holders[key[c]] # {c}]
<1>1. /\ pc[c] \in {"holding", "released"}
      /\ UNCHANGED <<pool, poolClosed, closePc, toShut, closed, key, gets>>
  BY DEF Put
<1>2. CASE pc[c] = "holding"
  <2>1. PutBack(c, key[c])
    BY <1>2, HeldIsInUse DEF Put, PInv, Handling
  <2> QED BY Zenon, <1>1, <1>2, <2>1, PutBackKeepsPInv
<1>3. CASE pc[c] = "released"
  <2>1. pc' = [pc EXCEPT ![c] = "idle"] /\ UNCHANGED <<db, inUse, handle>>
    BY <1>3 DEF Put, PInv, Handling
  <2>2. TypeOK'
    BY <1>1, <2>1 DEF PInv, TypeOK
  <2>3. pc'[c] = "idle" /\ \A d \in Clients \ {c} : pc'[d] = pc[d]
    BY <2>1 DEF PInv, TypeOK
  <2>4. holders' = holders /\ \A k \in Keys : Woken(k)' = Woken(k) /\ Waiting(pc, k)' = Waiting(pc, k)
    BY <1>1, <1>3, <2>3 DEF holders, Woken, Waiting
  <2>5. Handling'
    BY Zenon, <1>1, <1>3, <2>1, <2>3, <2>4 DEF PInv, Handling
  <2> QED BY Zenon, <1>1, <2>1, <2>2, <2>4, <2>5, CountsUnchanged DEF PInv
<1> QED BY Zenon, <1>1, <1>2, <1>3

\* Pool.Close begins and ends without touching a database.
LEMMA CloseKeepsPInv ==
    ASSUME PInv, Close \/ CloseReturn
    PROVE  PInv' /\ UNCHANGED <<holders, db, closed>>
<1>1. /\ UNCHANGED <<pool, db, inUse, closed, pc, key, handle, gets>>
      /\ closePc' \in {"closing", "returned"} /\ poolClosed' \in BOOLEAN
      /\ toShut' \in {pool, toShut} /\ (toShut' # toShut => closePc = "idle")
  BY Zenon DEF Close, CloseReturn, PInv, TypeOK
<1>2. TypeOK'
  BY <1>1 DEF PInv, TypeOK
<1>3. holders' = holders /\ \A k \in Keys : Woken(k)' = Woken(k) /\ Waiting(pc, k)' = Waiting(pc, k)
  BY <1>1 DEF holders, Woken, Waiting
<1>4. Handling'
  BY <1>1, <1>3 DEF PInv, Handling
<1> QED BY <1>1, <1>2, <1>3, <1>4, CountsUnchanged DEF PInv

\* The shutdown of a database wakes every waiting Get and leaves the handles
\* that are out stale but counted.
LEMMA ShutdownKeepsPInv ==
    ASSUME PInv, NEW k \in Keys, shutdown(k)
    PROVE  /\ PInv' /\ holders' = holders /\ ~closed[k]
           /\ db' = [db EXCEPT ![k] = FALSE] /\ closed' = [closed EXCEPT ![k] = TRUE]
<1>1. /\ closePc = "closing" /\ k \in toShut /\ toShut' = toShut \ {k}
      /\ closed' = [closed EXCEPT ![k] = TRUE] /\ db' = [db EXCEPT ![k] = FALSE]
      /\ handle' = HandlesAfterClose(handle, k)
      /\ pc' = [c \in Clients |-> IF c \in Waiting(pc, k) THEN "woken" ELSE pc[c]]
      /\ UNCHANGED <<pool, poolClosed, closePc, inUse, key, gets>>
  BY DEF shutdown
<1>2. TypeOK'
  <2>1. handle' \in [Clients -> {"none", "open", "stale"}]
    BY <1>1 DEF HandlesAfterClose, PInv, TypeOK
  <2> QED BY <1>1, <2>1 DEF PInv, TypeOK
<1>3. /\ \A c \in Clients : pc'[c] = IF pc[c] = "waiting" /\ key[c] = k THEN "woken" ELSE pc[c]
      /\ \A c \in Clients : handle'[c] = IF key[c] = k /\ handle[c] = "open" THEN "stale" ELSE handle[c]
      /\ \A j \in Keys : closed'[j] = (closed[j] \/ j = k) /\ db'[j] = (db[j] /\ j # k)
  BY Zenon, <1>1 DEF HandlesAfterClose, Waiting, PInv, TypeOK
<1>4. holders' = holders /\ InUseCounts'
  <2>1. holders' = holders
    BY Zenon, <1>1, <1>3 DEF holders
  <2> QED BY Zenon, <1>1, <2>1 DEF PInv, InUseCounts
<1>5. /\ Waiting(pc, k)' = {}
      /\ \A j \in Keys \ {k} : Waiting(pc, j)' = Waiting(pc, j) /\ Woken(j)' = Woken(j)
  BY Zenon, <1>1, <1>3 DEF Waiting, Woken
<1>6. NoIdleHandle'
  BY Zenon, <1>1, <1>5 DEF PInv, NoIdleHandle, Woken
<1>7. Handling'
  <2>1. ASSUME NEW d \in Clients
        PROVE  /\ pc'[d] = "holding" <=> handle'[d] # "none"
               /\ handle'[d] = "open" => db'[key'[d]]
               /\ handle'[d] = "stale" => closed'[key'[d]]
    BY Zenon, <1>1, <1>3 DEF PInv, Handling, TypeOK
  <2>2. ASSUME NEW j \in Keys
        PROVE  /\ closed'[j] => ~db'[j] /\ Waiting(pc, j)' = {} /\ closePc' # "idle" /\ j \notin toShut'
               /\ db'[j] => inUse'[j] > 0
    <3>1. CASE j = k
      BY Zenon, <1>1, <1>3, <1>5, <3>1
    <3>2. CASE j # k
      <4>1. closed'[j] = closed[j] /\ db'[j] = db[j] /\ Waiting(pc, j)' = Waiting(pc, j)
        BY SMTT(30), <1>3, <1>5, <3>2 DEF PInv, TypeOK
      <4> QED BY Zenon, <1>1, <4>1 DEF PInv, Handling
    <3> QED BY <3>1, <3>2
  <2> QED BY Zenon, <2>1, <2>2 DEF Handling
<1>8. ~closed[k]
  BY <1>1 DEF PInv, Handling
<1> QED BY Zenon, <1>1, <1>2, <1>4, <1>6, <1>7, <1>8 DEF PInv

-----------------------------------------------------------------------------
(* The theorems.                                                           *)

\* PInv holds when NewPool returns.
LEMMA InitPInv == NewPool => PInv
<1> SUFFICES ASSUME NewPool PROVE PInv
  OBVIOUS
<1>1. TypeOK
  BY Zenon, PoolConfig DEF NewPool, TypeOK
<1>2. \A k \in Keys : holders[k] = {} /\ Waiting(pc, k) = {}
  BY DEF NewPool, holders, Waiting
<1>3. Handling
  BY <1>2 DEF NewPool, Handling
<1>4. InUseCounts
  BY <1>2, FS_EmptySet DEF NewPool, InUseCounts
<1>5. NoIdleHandle
  BY <1>2 DEF NoIdleHandle
<1> QED BY <1>1, <1>3, <1>4, <1>5 DEF PInv

\* Every step of the pool keeps PInv, and is a step of Handles or leaves the
\* handles alone.
LEMMA NextPInv == PInv /\ [Next]_vars => PInv' /\ [H!Next]_(H!vars)
<1> SUFFICES ASSUME PInv, [Next]_vars PROVE PInv' /\ [H!Next]_(H!vars)
  OBVIOUS
<1>1. ASSUME NEW c \in Clients, NEW k \in Keys, Get(c, k)
      PROVE  PInv' /\ [H!Next]_(H!vars)
  BY Zenon, <1>1, GetKeepsPInv DEF H!vars
<1>2. ASSUME NEW c \in Clients, DpoGet(c)
      PROVE  PInv' /\ [H!Next]_(H!vars)
  <2>1. PInv' /\ key[c] \in Keys
    BY <1>2, DpoGetKeepsPInv DEF PInv, TypeOK
  <2>2. CASE UNCHANGED <<holders, db, closed>>
    BY <2>1, <2>2 DEF H!vars
  <2>3. CASE /\ ~closed[key[c]] /\ inUse[key[c]] < size /\ pc[c] # "holding"
             /\ holders' = [holders EXCEPT ![key[c]] = @ \cup {c}]
             /\ db' = [db EXCEPT ![key[c]] = TRUE] /\ closed' = closed
    <3>1. c \notin holders[key[c]] /\ Cardinality(holders[key[c]]) < size
      BY Zenon, <2>1, <2>3 DEF PInv, InUseCounts, holders
    <3>2. H!Acquire(key[c], c)
      BY Zenon, <2>3, <3>1 DEF H!Acquire, H!Cardinality, Cardinality
    <3> QED BY Zenon, <2>1, <3>2 DEF H!Next
  <2> QED BY Zenon, <1>2, <2>2, <2>3, DpoGetKeepsPInv
<1>3. ASSUME NEW c \in Clients, Put(c)
      PROVE  PInv' /\ [H!Next]_(H!vars)
  <2>1. PInv' /\ closed' = closed /\ key[c] \in Keys
    BY <1>3, PutKeepsPInv DEF PInv, TypeOK
  <2>2. CASE UNCHANGED <<holders, db>>
    BY <2>1, <2>2 DEF H!vars
  <2>3. CASE /\ pc[c] = "holding"
             /\ holders' = [holders EXCEPT ![key[c]] = @ \ {c}]
             /\ db' = [db EXCEPT ![key[c]] = @ /\ holders[key[c]] # {c}]
    <3>1. H!Release(key[c], c)
      BY <2>1, <2>3, HeldIsInUse DEF H!Release
    <3> QED BY SMTT(30), <2>1, <3>1 DEF H!Next
  <2> QED BY Zenon, <1>3, <2>2, <2>3, PutKeepsPInv
<1>4. CASE Close \/ CloseReturn
  BY <1>4, CloseKeepsPInv DEF H!vars
<1>5. ASSUME NEW k \in Keys, shutdown(k)
      PROVE  PInv' /\ [H!Next]_(H!vars)
  BY <1>5, ShutdownKeepsPInv DEF H!Next, H!Shutdown
<1>6. CASE UNCHANGED vars
  <2>1. UNCHANGED <<pool, poolClosed, closePc, toShut, db, inUse, closed, pc, key, handle, gets>>
    BY <1>6 DEF vars
  <2>2. holders' = holders /\ \A k \in Keys : Woken(k)' = Woken(k) /\ Waiting(pc, k)' = Waiting(pc, k)
    BY <2>1 DEF holders, Woken, Waiting
  <2>3. TypeOK' /\ Handling'
    BY <2>1, <2>2 DEF PInv, TypeOK, Handling
  <2> QED BY <2>1, <2>2, <2>3, CountsUnchanged DEF PInv, H!vars
<1> QED BY <1>1, <1>2, <1>3, <1>4, <1>5, <1>6 DEF Next, Terminated

\* The variables of the pool keep their types.
THEOREM PoolTypes == Spec => []TypeOK
<1>1. PInv => TypeOK
  BY DEF PInv
<1> QED BY InitPInv, NextPInv, <1>1, PTL DEF Spec

\* dpo.inUse counts exactly the handles that are out, across double Close, failed
\* opens and the shutdown.
THEOREM PoolCounts == Spec => []InUseCounts
<1>1. PInv => InUseCounts
  BY DEF PInv
<1> QED BY InitPInv, NextPInv, <1>1, PTL DEF Spec

\* No database is closed while a handle of it is out, until the pool shuts down.
THEOREM PoolNoUseAfterClose == Spec => []NoUseAfterClose
<1>1. PInv => NoUseAfterClose
  BY DEF PInv, TypeOK, Handling, NoUseAfterClose
<1> QED BY InitPInv, NextPInv, <1>1, PTL DEF Spec

\* No Get sleeps while a handle is free for it: Signal, which wakes one Get per
\* returned handle, is enough.
THEOREM PoolNoIdleHandle == Spec => []NoIdleHandle
<1>1. PInv => NoIdleHandle
  BY DEF PInv
<1> QED BY InitPInv, NextPInv, <1>1, PTL DEF Spec

\* The pool implements Handles, under the mapping of Pool.H: at most size
\* handles per database, open exactly while one is out, closed for good after
\* the shutdown.
THEOREM PoolImplementsHandles == Spec => ImplementsHandles
<1>1. NewPool => H!Init
  BY DEF NewPool, H!Init, holders
<1> QED BY InitPInv, NextPInv, <1>1, PTL DEF Spec, ImplementsHandles, H!Spec

-----------------------------------------------------------------------------
(* The service: what the GC goroutine and main have to do with the pool.   *)

AtRest == {"idle", "released"}

\* The databases of a run; the bytes come from a sum over the files.
RefsOK == \E B : run.refs \in Seq([key : Keys, bytes : B, shared : BOOLEAN])

\* The goroutine is inside collectDatabase, with the handle of a database.
Collecting == {"collect", "rewrite", "probe", "close"}

\* Where the GC goroutine is, and what it has of the pool.
GCHolds ==
    /\ gcPc \in {"start", "select", "enumerate", "next", "open", "exited"} \cup Collecting
    /\ gcPc \in {"start", "select", "enumerate", "next", "exited"} => pc[gc] \in AtRest
    /\ gcPc \in Collecting => pc[gc] = "holding"
    /\ known \subseteq Keys
    /\ run = [refs |-> run.refs, deadline |-> run.deadline, budget |-> run.budget]
    /\ RefsOK
    /\ gcPc \in {"open"} \cup Collecting => run.refs # <<>>
    /\ (gcPc = "open" /\ pc[gc] # "idle") \/ gcPc \in Collecting => Head(run.refs).key = key[gc]

\* What main has waited for.
Stages ==
    /\ main \in {"running", "draining", "waitGC", "dispatcher", "pool", "exited"}
    /\ main \in {"waitGC", "dispatcher", "pool", "exited"} => Idle(Handlers)
    /\ main \in {"dispatcher", "pool", "exited"} => gcPc = "exited"
    /\ main \in {"pool", "exited"} => Idle(Lanes)
    /\ closePc # "idle" => main \in {"pool", "exited"}

SInv == PInv /\ GCHolds /\ Stages

-----------------------------------------------------------------------------
(* The steps of the service are steps of the pool.                         *)

\* What a step of the pool by client c does to the others: at most it wakes
\* them.
Others(c) ==
    \A d \in Clients \ {c} :
        /\ pc'[d] = pc[d] \/ (pc[d] = "waiting" /\ pc'[d] = "woken")
        /\ key'[d] = key[d]

\* The effect of Get, DbPoolObject.Get and Put on the states of the clients.
LEMMA PoolEffect ==
    ASSUME PInv, NEW c \in Clients
    PROVE  /\ \A k \in Keys : Get(c, k) =>
                /\ Others(c) /\ pc[c] \in AtRest /\ pc'[c] \in {"idle", "entering"}
                /\ (pc'[c] = "entering" => key'[c] = k) /\ closePc' = closePc
           /\ DpoGet(c) => /\ Others(c) /\ pc[c] \in {"entering", "woken"}
                           /\ pc'[c] \in {"idle", "waiting", "holding"} /\ key' = key /\ closePc' = closePc
           /\ Put(c) => /\ Others(c) /\ pc[c] \in {"holding", "released"}
                        /\ pc'[c] \in AtRest /\ key' = key /\ closePc' = closePc
<1> DEFINE PCs == {"idle", "entering", "waiting", "woken", "holding", "released"}
<1>1. pc \in [Clients -> PCs] /\ key[c] \in Keys /\ key \in [Clients -> Keys] /\ TypeOK
  BY DEF PInv, TypeOK
<1>2. ASSUME NEW x \in {"idle", "released"}, pc' \in Signal([pc EXCEPT ![c] = x], key[c]), key' = key
      PROVE  Others(c) /\ pc'[c] = x
  <2>1. \/ pc' = [pc EXCEPT ![c] = x]
        \/ \E w \in Waiting([pc EXCEPT ![c] = x], key[c]) : pc' = [[pc EXCEPT ![c] = x] EXCEPT ![w] = "woken"]
    BY Zenon, <1>1, <1>2, SignalEffect
  <2> QED BY <1>1, <1>2, <2>1 DEF Others, Waiting
<1>3. ASSUME NEW k \in Keys, Get(c, k)
      PROVE  /\ Others(c) /\ pc[c] \in AtRest /\ pc'[c] \in {"idle", "entering"}
             /\ (pc'[c] = "entering" => key'[c] = k) /\ closePc' = closePc
  BY <1>1, <1>3 DEF Get, Others, AtRest
<1>4. ASSUME DpoGet(c)
      PROVE  /\ Others(c) /\ pc[c] \in {"entering", "woken"}
             /\ pc'[c] \in {"idle", "waiting", "holding"} /\ key' = key /\ closePc' = closePc
  <2>1. /\ pc[c] \in {"entering", "woken"} /\ key' = key /\ closePc' = closePc
        /\ \/ \E x \in {"waiting", "idle", "holding"} : pc' = [pc EXCEPT ![c] = x]
           \/ pc' \in Signal([pc EXCEPT ![c] = "idle"], key[c])
    BY <1>4 DEF DpoGet, TakeHandle, OpenFails
  <2> QED BY Zenon, <1>1, <1>2, <2>1 DEF Others
<1>5. ASSUME Put(c)
      PROVE  /\ Others(c) /\ pc[c] \in {"holding", "released"}
             /\ pc'[c] \in AtRest /\ key' = key /\ closePc' = closePc
  <2>1. /\ pc[c] \in {"holding", "released"} /\ key' = key /\ closePc' = closePc
        /\ \/ pc' = [pc EXCEPT ![c] = "idle"]
           \/ pc' \in Signal([pc EXCEPT ![c] = "released"], key[c])
    BY Zenon, <1>5 DEF Put, PutBack
  <2> QED BY Zenon, <1>1, <1>2, <2>1 DEF Others, AtRest
<1> QED BY <1>3, <1>4, <1>5

-----------------------------------------------------------------------------
(* One lemma per group of actions.                                         *)

\* A step of a client other than a GC at rest keeps the invariant: the stage of
\* main allows whoever is not at rest afterwards.
LEMMA ByClient ==
    ASSUME SInv, PInv', NEW c \in Clients, Others(c),
           c = gc => gcPc = "open" /\ pc[gc] # "idle" /\ key'[gc] = key[gc],
           UNCHANGED <<closePc, main, gcPc, run>>, known' \subseteq Keys,
           \/ pc'[c] \in AtRest
           \/ pc[c] \notin AtRest
           \/ c \in Handlers /\ main = "running"
           \/ c \in Lanes /\ main \notin {"pool", "exited"}
    PROVE  SInv'
<1>1. GCHolds'
  <2>1. gc \in Clients /\ key'[gc] = key[gc]
    BY VlogGCConfig DEF Others
  <2>2. gc # c => pc'[gc] = pc[gc] \/ (pc[gc] = "waiting" /\ pc'[gc] = "woken")
    BY <2>1 DEF Others
  <2> QED BY Zenon, <2>1, <2>2 DEF SInv, GCHolds, RefsOK, AtRest, Collecting
<1>2. ASSUME NEW S \in {Handlers, Lanes}, Idle(S), c \in S => pc'[c] \in AtRest
      PROVE  Idle(S)'
  <2> SUFFICES ASSUME NEW d \in S PROVE pc'[d] \in AtRest
    BY DEF Idle, AtRest
  <2>1. d \in Clients /\ pc[d] \in AtRest
    BY <1>2, ServiceConfig DEF Idle, AtRest
  <2> QED BY <1>2, <2>1 DEF Others, AtRest
<1>3. Stages'
  <2>1. ASSUME main \in {"waitGC", "dispatcher", "pool", "exited"} PROVE Idle(Handlers)'
    <3>1. Idle(Handlers)
      BY <2>1 DEF SInv, Stages
    <3>2. c \in Handlers => pc'[c] \in AtRest
      BY Zenon, <2>1, <3>1, ServiceConfig DEF Idle, AtRest
    <3> QED BY <1>2, <3>1, <3>2
  <2>2. ASSUME main \in {"pool", "exited"} PROVE Idle(Lanes)'
    <3>1. Idle(Lanes)
      BY <2>2 DEF SInv, Stages
    <3>2. c \in Lanes => pc'[c] \in AtRest
      BY <2>2, <3>1, ServiceConfig DEF Idle, AtRest
    <3> QED BY <1>2, <3>1, <3>2
  <2> QED BY <2>1, <2>2 DEF SInv, Stages
<1> QED BY <1>1, <1>3 DEF SInv

\* A step of the pool keeps its invariant.
LEMMA PoolKeeps ==
    ASSUME PInv
    PROVE  /\ \A c \in Clients : (\E k \in Keys : Get(c, k)) \/ DpoGet(c) \/ Put(c) => PInv'
           /\ Close \/ (\E k \in Keys : shutdown(k)) \/ CloseReturn => PInv'
           /\ UNCHANGED vars => PInv'
BY NextPInv DEF Next

\* The clients that are handlers or executors, and the GC inside Get.
LEMMA ClientsKeep ==
    ASSUME SInv,
           \/ \E c \in Handlers : HandlerOpens(c)
           \/ \E c \in Lanes : LaneOpens(c)
           \/ \E c \in Clients : Opening(c) \/ Closing(c)
    PROVE  SInv' /\ [Next]_vars
<1>1. PInv /\ known \subseteq Keys
  BY DEF SInv, GCHolds
<1>2. ASSUME DiskFollows PROVE known' \subseteq Keys
  BY Zenon, <1>1, <1>2 DEF DiskFollows
<1>3. CASE \E c \in Handlers : HandlerOpens(c)
  <2>1. PICK c \in Handlers : HandlerOpens(c)
    BY Zenon, <1>3
  <2>2. PICK k \in Keys : Get(c, k) /\ DiskFollows /\ main = "running" /\ UNCHANGED <<main, gcPc, run>>
    BY <2>1, ServiceConfig DEF HandlerOpens, PoolStep
  <2>3. c \in Clients /\ c # gc
    BY Zenon, ServiceConfig
  <2>4. Others(c) /\ closePc' = closePc /\ PInv'
    BY Zenon, <1>1, <2>2, <2>3, PoolEffect, PoolKeeps
  <2> QED BY <1>2, <2>2, <2>3, <2>4, ByClient DEF Next
<1>4. CASE \E c \in Lanes : LaneOpens(c)
  <2>1. PICK c \in Lanes : LaneOpens(c)
    BY Zenon, <1>4
  <2>2. PICK k \in Keys : /\ Get(c, k) /\ DiskFollows /\ main \notin {"pool", "exited"}
                          /\ UNCHANGED <<main, gcPc, run>>
    BY <2>1, ServiceConfig DEF LaneOpens, PoolStep
  <2>3. c \in Clients /\ c # gc
    BY Zenon, ServiceConfig
  <2>4. Others(c) /\ closePc' = closePc /\ PInv'
    BY Zenon, <1>1, <2>2, <2>3, PoolEffect, PoolKeeps
  <2> QED BY <1>2, <2>2, <2>3, <2>4, ByClient DEF Next
<1>5. ASSUME NEW c \in Clients, Opening(c) PROVE SInv' /\ [Next]_vars
  <2>1. DpoGet(c) /\ DiskFollows /\ UNCHANGED <<main, gcPc, run>>
    BY Zenon, <1>5 DEF Opening, PoolStep
  <2>2. Others(c) /\ pc[c] \in {"entering", "woken"} /\ key' = key /\ closePc' = closePc /\ PInv'
    BY <1>1, <2>1, PoolEffect, PoolKeeps
  <2>3. c = gc => gcPc = "open" /\ pc[gc] # "idle" /\ key'[gc] = key[gc]
    BY <2>2 DEF SInv, GCHolds, AtRest
  <2>4. pc[c] \notin AtRest
    BY Zenon, <2>2 DEF AtRest
  <2> QED BY <1>2, <2>1, <2>2, <2>3, <2>4, ByClient DEF Next
<1>6. ASSUME NEW c \in Clients, Closing(c) PROVE SInv' /\ [Next]_vars
  <2>1. c # gc /\ Put(c) /\ DiskFollows /\ UNCHANGED <<main, gcPc, run>>
    BY Zenon, <1>6 DEF Closing, PoolStep
  <2>2. Others(c) /\ pc'[c] \in AtRest /\ closePc' = closePc /\ PInv'
    BY <1>1, <2>1, PoolEffect, PoolKeeps
  <2> QED BY <1>2, <2>1, <2>2, ByClient DEF Next
<1> QED BY <1>3, <1>4, <1>5, <1>6

\* A step of the goroutine that leaves the pool alone.
LEMMA GCAlone ==
    ASSUME SInv, UNCHANGED vars, UNCHANGED <<main, known>>, gcPc # "exited",
           gcPc' \in {"start", "select", "enumerate", "next", "open", "exited"} \cup Collecting,
           gcPc' \in {"start", "select", "enumerate", "next", "exited"} => pc[gc] \in AtRest,
           gcPc' \in Collecting =>
                pc[gc] = "holding" /\ run.refs # <<>> /\ Head(run.refs).key = key[gc] /\ run'.refs = run.refs,
           gcPc' # "open", RefsOK',
           run' = [refs |-> run'.refs, deadline |-> run'.deadline, budget |-> run'.budget]
    PROVE  SInv'
<1>1. PInv' /\ pc' = pc /\ key' = key /\ closePc' = closePc
  BY PoolKeeps DEF SInv, vars
<1>2. GCHolds'
  BY <1>1 DEF SInv, GCHolds
<1>3. Stages'
  BY <1>1 DEF SInv, Stages, Idle
<1> QED BY Zenon, <1>1, <1>2, <1>3 DEF SInv

\* The rest of the list of databases is such a list.
LEMMA NextRefOK ==
    ASSUME SInv, run.refs # <<>>, NEW r, r = NextRef
    PROVE  /\ \E B : r.refs \in Seq([key : Keys, bytes : B, shared : BOOLEAN])
           /\ r = [refs |-> r.refs, deadline |-> r.deadline, budget |-> r.budget]
           /\ r.deadline = run.deadline /\ r.budget = run.budget
           /\ Head(run.refs).key \in Keys
<1>1. PICK B : run.refs \in Seq([key : Keys, bytes : B, shared : BOOLEAN])
  BY Zenon DEF SInv, GCHolds, RefsOK
<1>2. PICK refs, deadline, budget : run = [refs |-> refs, deadline |-> deadline, budget |-> budget]
  BY DEF SInv, GCHolds
<1>3. r = [refs |-> Tail(refs), deadline |-> deadline, budget |-> budget]
  BY Zenon, <1>2 DEF NextRef
<1> DEFINE R == [key : Keys, bytes : B, shared : BOOLEAN]
<1>4. refs \in Seq(R) /\ refs # <<>>
  BY <1>1, <1>2
<1>5. Tail(refs) \in Seq(R) /\ Head(refs) \in R
  <2> HIDE DEF R
  <2> QED BY <1>4
<1>6. Head(refs).key \in Keys
  BY <1>5
<1>7. run.refs = refs /\ run.deadline = deadline /\ run.budget = budget
  BY <1>2
<1>8. r.refs = Tail(refs) /\ r.deadline = deadline /\ r.budget = budget
  BY <1>3
<1> QED BY Zenon, <1>3, <1>5, <1>6, <1>7, <1>8

\* NoRun has no databases.
LEMMA NoRunOK ==
    /\ \E B : NoRun.refs \in Seq([key : Keys, bytes : B, shared : BOOLEAN])
    /\ NoRun = [refs |-> NoRun.refs, deadline |-> NoRun.deadline, budget |-> NoRun.budget]
<1>1. NoRun.refs \in Seq([key : Keys, bytes : {}, shared : BOOLEAN])
  BY DEF NoRun
<1> QED BY <1>1 DEF NoRun

\* The listing of the databases on disk.
LEMMA EnumerateKeeps ==
    ASSUME SInv, enumerateVlogDBs, UNCHANGED main
    PROVE  SInv'
<1>1. /\ gcPc = "enumerate" /\ gcPc' \in {"next", "select"}
      /\ UNCHANGED vars /\ UNCHANGED known
      /\ \/ run' = NoRun
         \/ \E s \in Injection(1 .. Cardinality(known), known) :
                run' = [run EXCEPT !.refs =
                    [i \in DOMAIN s |-> [key |-> s[i], bytes |-> vlogBytes(s[i]), shared |-> sharedEcId(s[i])]]]
  BY DEF enumerateVlogDBs
<1>2. RefsOK' /\ run' = [refs |-> run'.refs, deadline |-> run'.deadline, budget |-> run'.budget]
  <2>1. CASE run' = NoRun
    BY Zenon, <2>1, NoRunOK DEF RefsOK
  <2>2. ASSUME NEW s \in Injection(1 .. Cardinality(known), known),
               run' = [run EXCEPT !.refs =
                    [i \in DOMAIN s |-> [key |-> s[i], bytes |-> vlogBytes(s[i]), shared |-> sharedEcId(s[i])]]]
        PROVE  RefsOK' /\ run' = [refs |-> run'.refs, deadline |-> run'.deadline, budget |-> run'.budget]
    <3> DEFINE n == Cardinality(known)
               B == {vlogBytes(s[i]) : i \in DOMAIN s}
               Q == [i \in DOMAIN s |-> [key |-> s[i], bytes |-> vlogBytes(s[i]), shared |-> sharedEcId(s[i])]]
               R == [key : Keys, bytes : B, shared : BOOLEAN]
    <3>1. known \subseteq Keys /\ n \in Nat
      BY ServiceConfig, FS_Subset, FS_CardinalityType DEF SInv, GCHolds
    <3>2. s \in [1 .. n -> known]
      BY DEF Injection
    <3>3. Q \in [1 .. n -> R]
      <4> SUFFICES ASSUME NEW i \in 1 .. n
                   PROVE  [key |-> s[i], bytes |-> vlogBytes(s[i]), shared |-> sharedEcId(s[i])] \in R
        BY <3>2
      <4>1. sharedEcId(s[i]) \in BOOLEAN
        BY DEF sharedEcId
      <4>2. s[i] \in Keys /\ vlogBytes(s[i]) \in B
        BY <3>1, <3>2
      <4> HIDE DEF B
      <4> QED BY Zenon, <4>1, <4>2
    <3>4. Q \in Seq(R)
      <4> HIDE DEF Q, R, n
      <4> QED BY <3>1, <3>3
    <3>5. PICK refs, deadline, budget : run = [refs |-> refs, deadline |-> deadline, budget |-> budget]
      BY DEF SInv, GCHolds
    <3>6. run' = [refs |-> Q, deadline |-> deadline, budget |-> budget]
      <4> HIDE DEF Q
      <4>1. run' = [run EXCEPT !.refs = Q]
        BY <2>2 DEF Q
      <4> QED BY <3>5, <4>1
    <3>7. run'.refs = Q /\ run'.deadline = deadline /\ run'.budget = budget
      <4> HIDE DEF Q
      <4> QED BY <3>6
    <3> HIDE DEF Q, B, n
    <3> QED BY Zenon, <3>4, <3>6, <3>7 DEF RefsOK
  <2> QED BY <1>1, <2>1, <2>2
<1>3. pc[gc] \in AtRest
  BY <1>1 DEF SInv, GCHolds
<1> QED BY <1>1, <1>2, <1>3, GCAlone DEF Collecting

\* The checks of the window, and the end of the goroutine.
LEMMA CheckKeeps ==
    ASSUME SInv, FirstCheck \/ TickCheck \/ GCExit, UNCHANGED main
    PROVE  SInv'
<1>1. /\ gcPc \in {"start", "select"} /\ gcPc' \in {"select", "enumerate", "exited"}
      /\ UNCHANGED vars /\ UNCHANGED known
      /\ \/ run' = run
         \/ \E d, b : run' = [NoRun EXCEPT !.deadline = d, !.budget = b]
  BY Zenon DEF FirstCheck, TickCheck, GCExit, check, RunBegins
<1>2. RefsOK' /\ run' = [refs |-> run'.refs, deadline |-> run'.deadline, budget |-> run'.budget]
  <2>1. CASE run' = run
    BY Zenon, <2>1 DEF SInv, GCHolds, RefsOK
  <2>2. ASSUME NEW d, NEW b, run' = [NoRun EXCEPT !.deadline = d, !.budget = b]
        PROVE  RefsOK' /\ run' = [refs |-> run'.refs, deadline |-> run'.deadline, budget |-> run'.budget]
    <3>1. run' = [refs |-> NoRun.refs, deadline |-> d, budget |-> b]
      BY Zenon, <2>2 DEF NoRun
    <3> QED BY Zenon, <3>1, NoRunOK DEF RefsOK
  <2> QED BY Zenon, <1>1, <2>1, <2>2
<1>3. pc[gc] \in AtRest
  BY Zenon, <1>1 DEF SInv, GCHolds
<1> QED BY Zenon, <1>1, <1>2, <1>3, GCAlone DEF Collecting

\* A step from one database to the next: over, skipped, looked at, or opened.
LEMMA RunKeeps ==
    ASSUME SInv, runVlogGC, UNCHANGED main
    PROVE  SInv' /\ [Next]_vars
<1>1. gcPc = "next" /\ pc[gc] \in AtRest /\ gc \in Clients /\ PInv
  BY Zenon, VlogGCConfig DEF SInv, GCHolds, runVlogGC
<1>2. \/ gcPc' = "select" /\ run' = NoRun /\ UNCHANGED vars /\ UNCHANGED known
      \/ /\ run.refs # <<>> /\ UNCHANGED vars /\ UNCHANGED <<gcPc, known>>
         /\ \/ run' = NextRef
            \/ \E b : run' = [NextRef EXCEPT !.budget = b]
      \/ /\ run.refs # <<>> /\ Get(gc, Head(run.refs).key) /\ gcPc' = "open" /\ UNCHANGED <<run, known>>
  BY DEF runVlogGC
<1>3. CASE gcPc' = "select" /\ run' = NoRun /\ UNCHANGED vars /\ UNCHANGED known
  BY Zenon, <1>1, <1>3, NoRunOK, GCAlone DEF RefsOK, Collecting
<1>4. CASE /\ run.refs # <<>> /\ UNCHANGED vars /\ UNCHANGED <<gcPc, known>>
           /\ \/ run' = NextRef
              \/ \E b : run' = [NextRef EXCEPT !.budget = b]
  <2>1. PICK r : r = NextRef
    OBVIOUS
  <2>2. /\ \E B : r.refs \in Seq([key : Keys, bytes : B, shared : BOOLEAN])
        /\ r = [refs |-> r.refs, deadline |-> r.deadline, budget |-> r.budget]
    BY <1>4, <2>1, NextRefOK
  <2>3. \/ run' = r
        \/ \E b : run' = [r EXCEPT !.budget = b]
    BY <1>4, <2>1
  <2>4. PICK b : run' = [refs |-> r.refs, deadline |-> r.deadline, budget |-> b]
    BY <2>2, <2>3
  <2>5. run'.refs = r.refs /\ run'.deadline = r.deadline /\ run'.budget = b
    BY <2>4
  <2>6. RefsOK' /\ run' = [refs |-> run'.refs, deadline |-> run'.deadline, budget |-> run'.budget]
    BY Zenon, <2>2, <2>4, <2>5 DEF RefsOK
  <2> QED BY <1>1, <1>4, <2>6, GCAlone DEF Collecting
<1>5. CASE run.refs # <<>> /\ Get(gc, Head(run.refs).key) /\ gcPc' = "open" /\ UNCHANGED <<run, known>>
  <2>1. PICK k \in Keys : k = Head(run.refs).key
    BY <1>5, NextRefOK
  <2>2. Get(gc, k)
    BY Zenon, <1>5, <2>1
  <2>3. /\ Others(gc) /\ pc'[gc] \in {"idle", "entering"} /\ (pc'[gc] = "entering" => key'[gc] = k)
        /\ closePc' = closePc /\ PInv' /\ [Next]_vars
    BY <1>1, <2>2, PoolEffect, PoolKeeps DEF Next
  <2>4. GCHolds'
    BY Zenon, <1>5, <2>1, <2>3 DEF SInv, GCHolds, RefsOK, Collecting
  <2>5. \A c \in Handlers \cup Lanes : pc[c] \in AtRest => pc'[c] \in AtRest
    BY <2>3, ServiceConfig DEF Others, AtRest
  <2>6. Stages'
    BY <1>1, <2>3, <2>5 DEF SInv, Stages, Idle, AtRest
  <2> QED BY <2>3, <2>4, <2>6 DEF SInv
<1> QED BY Zenon, <1>2, <1>3, <1>4, <1>5

\* OpenStorage has returned to collectDatabase.
LEMMA OpenedKeeps ==
    ASSUME SInv, opened, UNCHANGED main
    PROVE  SInv'
<1>1. gcPc = "open" /\ UNCHANGED vars /\ UNCHANGED known /\ run.refs # <<>>
  BY DEF opened, SInv, GCHolds
<1>2. CASE pc[gc] = "holding"
  <2>1. gcPc' = "collect" /\ run' = run /\ Head(run.refs).key = key[gc]
    BY <1>1, <1>2 DEF opened, SInv, GCHolds
  <2>2. RefsOK' /\ run' = [refs |-> run'.refs, deadline |-> run'.deadline, budget |-> run'.budget]
    BY Zenon, <2>1 DEF SInv, GCHolds, RefsOK
  <2> QED BY <1>1, <1>2, <2>1, <2>2, GCAlone DEF Collecting
<1>3. CASE pc[gc] = "idle"
  <2>1. gcPc' = "next" /\ run' = NextRef
    BY <1>3 DEF opened
  <2>2. RefsOK' /\ run' = [refs |-> run'.refs, deadline |-> run'.deadline, budget |-> run'.budget]
    BY Zenon, <1>1, <2>1, NextRefOK DEF RefsOK
  <2>3. pc[gc] \in AtRest
    BY <1>3 DEF AtRest
  <2> QED BY <1>1, <2>1, <2>2, <2>3, GCAlone DEF Collecting
<1> QED BY <1>2, <1>3 DEF opened

\* A step inside collectDatabase; only the budget of the run changes.
LEMMA CollectKeeps ==
    ASSUME SInv, collectDatabase \/ RunValueLogGC \/ probeOnce, UNCHANGED main
    PROVE  SInv'
<1>1. /\ gcPc \in Collecting /\ gcPc' \in Collecting /\ UNCHANGED vars /\ UNCHANGED known
      /\ \/ run' = run
         \/ \E b : run' = [run EXCEPT !.budget = b]
  BY Zenon DEF collectDatabase, CandidateSeen, RunValueLogGC, probeOnce, rewrite, NoRewrite, Ends, Collecting
<1>2. PICK b : run' = [refs |-> run.refs, deadline |-> run.deadline, budget |-> b]
  BY <1>1 DEF SInv, GCHolds
<1>3. /\ run' = [refs |-> run'.refs, deadline |-> run'.deadline, budget |-> run'.budget]
      /\ run'.refs = run.refs /\ RefsOK'
  <2>1. run'.refs = run.refs /\ run'.deadline = run.deadline /\ run'.budget = b
    BY <1>2
  <2> QED BY Zenon, <1>2, <2>1 DEF SInv, GCHolds, RefsOK
<1>4. pc[gc] = "holding" /\ run.refs # <<>> /\ Head(run.refs).key = key[gc]
  BY <1>1 DEF SInv, GCHolds
<1> QED BY <1>1, <1>3, <1>4, GCAlone DEF Collecting

\* The deferred Close of collectDatabase.
LEMMA GCCloseKeeps ==
    ASSUME SInv, GCClose, UNCHANGED main
    PROVE  SInv' /\ [Next]_vars
<1>1. /\ gcPc = "close" /\ Put(gc) /\ DiskFollows
      /\ \/ gcPc' = "select" /\ run' = NoRun
         \/ gcPc' = "next" /\ run' = NextRef
  BY DEF GCClose
<1>2. PInv /\ gc \in Clients /\ run.refs # <<>> /\ known' \subseteq Keys
  BY Zenon, <1>1, VlogGCConfig DEF SInv, GCHolds, DiskFollows
<1>3. /\ Others(gc) /\ pc'[gc] \in AtRest
      /\ closePc' = closePc /\ PInv' /\ [Next]_vars
  BY <1>1, <1>2, PoolEffect, PoolKeeps DEF Next
<1>4. RefsOK' /\ run' = [refs |-> run'.refs, deadline |-> run'.deadline, budget |-> run'.budget]
  BY Zenon, <1>1, <1>2, NextRefOK, NoRunOK DEF RefsOK
<1>5. GCHolds'
  BY <1>1, <1>2, <1>3, <1>4 DEF GCHolds, Collecting
<1>6. \A c \in Handlers \cup Lanes : pc[c] \in AtRest => pc'[c] \in AtRest
  BY <1>3, ServiceConfig DEF Others, AtRest
<1>7. Stages'
  BY <1>1, <1>3, <1>6 DEF SInv, Stages, Idle, AtRest
<1> QED BY <1>3, <1>5, <1>7 DEF SInv

\* The goroutine of the GC keeps the invariant.
LEMMA GCKeeps ==
    ASSUME SInv, GC
    PROVE  SInv' /\ [Next]_vars
<1>1. GCStep /\ UNCHANGED main
  BY DEF GC
<1>2. CASE FirstCheck \/ TickCheck \/ GCExit
  BY <1>1, <1>2, CheckKeeps DEF FirstCheck, TickCheck, GCExit, check
<1>3. CASE enumerateVlogDBs
  BY <1>1, <1>3, EnumerateKeeps DEF enumerateVlogDBs
<1>4. CASE opened
  BY <1>1, <1>4, OpenedKeeps DEF opened
<1>5. CASE collectDatabase \/ RunValueLogGC \/ probeOnce
  BY <1>1, <1>5, CollectKeeps DEF collectDatabase, RunValueLogGC, probeOnce
<1> QED BY <1>1, <1>2, <1>3, <1>4, <1>5, RunKeeps, GCCloseKeeps DEF GCStep

\* The steps of main; Pool.Close only moves clients that wait, and there are none.
LEMMA MainKeeps ==
    ASSUME SInv, quit \/ Shutdown
    PROVE  SInv' /\ [Next]_vars
<1>1. CASE quit \/ shutdownDone \/ waitVlogGC \/ dispatcherClose \/ exit
  <2>1. UNCHANGED vars /\ UNCHANGED <<known, gcPc, run>>
    BY <1>1 DEF quit, shutdownDone, waitVlogGC, dispatcherClose, exit, gvars
  <2>2. PInv' /\ pc' = pc /\ key' = key /\ closePc' = closePc
    BY <2>1, PoolKeeps DEF SInv, vars
  <2>3. GCHolds'
    BY Zenon, <2>1, <2>2 DEF SInv, GCHolds, RefsOK
  <2>4. Stages'
    BY <1>1, <2>1, <2>2 DEF SInv, Stages, Idle, quit, shutdownDone, waitVlogGC, dispatcherClose, exit, To
  <2> QED BY Zenon, <2>1, <2>2, <2>3, <2>4 DEF SInv
<1>2. CASE ClosePool
  <2>1. /\ main = "pool" /\ main' = main /\ DiskFollows /\ UNCHANGED <<gcPc, run>>
        /\ Close \/ (\E k \in Keys : shutdown(k)) \/ CloseReturn
    BY <1>2 DEF ClosePool, PoolStep
  <2>2. PInv' /\ PInv /\ TypeOK
    BY <2>1, PoolKeeps DEF SInv, PInv
  <2>3. \A c \in Clients : pc[c] \in AtRest
    BY <2>1, ServiceConfig DEF SInv, Stages, GCHolds, Idle, AtRest
  <2>4. pc' = pc /\ key' = key
    <3>1. CASE Close \/ CloseReturn
      BY <3>1 DEF Close, CloseReturn
    <3>2. ASSUME NEW k \in Keys, shutdown(k) PROVE pc' = pc /\ key' = key
      <4>1. pc' = [c \in Clients |-> IF c \in Waiting(pc, k) THEN "woken" ELSE pc[c]] /\ key' = key
        BY <3>2 DEF shutdown
      <4>2. Waiting(pc, k) = {}
        BY <2>3 DEF Waiting, AtRest
      <4> QED BY <2>2, <4>1, <4>2 DEF TypeOK
    <3> QED BY <2>1, <3>1, <3>2
  <2>5. known' \subseteq Keys
    BY <2>1 DEF SInv, GCHolds, DiskFollows
  <2>6. GCHolds'
    BY Zenon, <2>1, <2>4, <2>5 DEF SInv, GCHolds, RefsOK
  <2>7. Stages'
    BY <2>1, <2>4 DEF SInv, Stages, Idle
  <2> QED BY <2>1, <2>2, <2>6, <2>7 DEF SInv, Next
<1> QED BY <1>1, <1>2 DEF Shutdown

\* The service starts in the invariant.
LEMMA InitSInv ==
    ASSUME NEW configs, NEW disks, main_Init(configs, disks)
    PROVE  SInv
<1>1. PInv
  BY InitPInv DEF main_Init
<1>2. /\ main = "running" /\ closePc = "idle" /\ gcPc \in {"start", "exited"} /\ run = NoRun
      /\ known \subseteq Keys /\ pc = [c \in Clients |-> "idle"]
  BY DEF main_Init, NewPool, StartVlogGC
<1>3. GCHolds
  BY Zenon, <1>2, NoRunOK, VlogGCConfig DEF GCHolds, RefsOK, AtRest, Collecting
<1>4. Stages
  BY <1>2 DEF Stages
<1> QED BY <1>1, <1>3, <1>4 DEF SInv

\* Every step of the service keeps the invariant, and is a step of the pool or
\* leaves it alone.
LEMMA NextSInv ==
    ASSUME SInv, [ServiceNext]_svars
    PROVE  SInv' /\ [Next]_vars
<1>1. ASSUME UNCHANGED vars, UNCHANGED <<main, known, gcPc, run>> PROVE SInv' /\ [Next]_vars
  <2>1. PInv' /\ pc' = pc /\ key' = key /\ closePc' = closePc
    BY <1>1, PoolKeeps DEF SInv, vars
  <2>2. GCHolds'
    BY Zenon, <1>1, <2>1 DEF SInv, GCHolds, RefsOK
  <2>3. Stages'
    BY <1>1, <2>1 DEF SInv, Stages, Idle
  <2> QED BY <1>1, <2>1, <2>2, <2>3 DEF SInv
<1>2. CASE (\E c \in Lanes : Writes(c)) \/ Clock \/ Probe \/ (\E r \in Callers : readyz(r)) \/ Ended
           \/ UNCHANGED svars
  BY Zenon, <1>1, <1>2 DEF Writes, Overwrites, Clock, Tick, Probe, readyz, Ended, svars, gvars
<1> QED BY <1>2, ClientsKeep, GCKeeps, MainKeeps DEF ServiceNext

-----------------------------------------------------------------------------
(* Theorems.                                                               *)

\* The invariant holds in every state of the service, and the pool behaves as
\* the pool alone (all of NextSInv as one temporal formula).
LEMMA AlwaysSInv ==
    ASSUME NEW CONSTANT configs, NEW CONSTANT disks
    PROVE  ServiceSpec(configs, disks) => [](SInv /\ PInv) /\ [][Next]_vars
<1>1. main_Init(configs, disks) => SInv
  BY InitSInv
<1>2. SInv /\ [ServiceNext]_svars => SInv' /\ [Next]_vars
  BY NextSInv
<1>3. SInv => PInv
  BY DEF SInv
<1> QED BY <1>1, <1>2, <1>3, PTL DEF ServiceSpec

\* Pool.Close finds no handle out and nobody in Get, whatever the handlers, the
\* executors and the GC were doing at the signal (the order of main).
THEOREM ServiceClosedLast ==
    ASSUME NEW CONSTANT configs, NEW CONSTANT disks
    PROVE  ServiceSpec(configs, disks) => []ClosedLast
<1>1. SInv => ClosedLast
  <2> SUFFICES ASSUME SInv, closePc # "idle" PROVE Idle(Clients) /\ \A k \in Keys : inUse[k] = 0
    BY DEF ClosedLast
  <2>1. Idle(Clients)
    BY ServiceConfig DEF SInv, Stages, GCHolds, Idle, AtRest
  <2>2. \A k \in Keys : holders[k] = {}
    BY <2>1 DEF holders, Idle
  <2>3. \A k \in Keys : inUse[k] = 0
    BY <2>2, FS_EmptySet DEF SInv, PInv, InUseCounts
  <2> QED BY <2>1, <2>3
<1> QED BY <1>1, AlwaysSInv, PTL

\* The pool implements Handles inside the process as well: the GC, the handlers
\* and the executors together never have more than size handles of a database,
\* and no database is closed before its last handle is back.
THEOREM ServiceImplementsHandles ==
    ASSUME NEW CONSTANT configs, NEW CONSTANT disks
    PROVE  ServiceSpec(configs, disks) => ImplementsHandles
<1>1. main_Init(configs, disks) => NewPool
  BY DEF main_Init
<1>2. ServiceSpec(configs, disks) => Spec
  BY <1>1, AlwaysSInv, PTL DEF Spec, ServiceSpec
<1> QED BY <1>2, PoolImplementsHandles

-----------------------------------------------------------------------------
(* The readiness probe.                                                    *)

AtWork == {"check", "select"}

\* The check that runs is that of the one caller at work, and a goroutine that
\* still writes to the volume belongs to it or to the check that timed out.
RInv ==
    /\ checks \in 0 .. MaxReady /\ readyRunning \in 0 .. checks /\ probeHanging \in 0 .. MaxReady
    /\ probe \in [Checks -> {"none", "running", "ok", "failed"}]
    /\ answer \in [Checks -> {"none", "ok", "error"}]
    /\ caller \in [Callers -> [pc : {"idle", "wait", "check", "select"}, check : 0 .. MaxReady]]
    /\ \A r \in Callers :
          /\ caller[r].pc \in AtWork => caller[r].check = readyRunning /\ readyRunning # 0
          /\ caller[r].pc = "select" => probeHanging = 0
    /\ \A r, q \in Callers : caller[r].pc \in AtWork /\ caller[q].pc \in AtWork => r = q
    /\ \A n \in Checks :
          /\ probe[n] = "running" =>
                n = probeHanging \/ (n = readyRunning /\ \E r \in Callers : caller[r].pc = "select")
          /\ answer[n] = "ok" => probe[n] = "ok"
          /\ n > checks => answer[n] = "none"
    /\ readyRunning # 0 => answer[readyRunning] = "none"

\* Ready keeps it: a caller only begins a check when nobody is at work.
LEMMA ReadyCallKeeps ==
    ASSUME RInv, NEW r \in Callers, ReadyCall(r)
    PROVE  RInv'
<1>1. /\ caller[r].pc = "idle" /\ checks < MaxReady /\ UNCHANGED <<probeHanging, probe, answer>>
      /\ MaxReady \in Nat /\ checks \in 0 .. MaxReady /\ readyRunning \in 0 .. checks
  BY Zenon, ReadyConfig DEF ReadyCall, RInv
<1>2. CASE readyRunning # 0
  <2>1. /\ caller' = [caller EXCEPT ![r] = [pc |-> "wait", check |-> readyRunning]]
        /\ UNCHANGED <<readyRunning, checks>>
    BY <1>2 DEF ReadyCall
  <2>2. caller' \in [Callers -> [pc : {"idle", "wait", "check", "select"}, check : 0 .. MaxReady]]
    BY SMTT(30), <1>1, <2>1 DEF RInv
  <2>3. caller'[r].pc = "wait" /\ \A q \in Callers \ {r} : caller'[q] = caller[q]
    BY Zenon, <2>1 DEF RInv
  <2>4. \A n \in Checks : probe[n] = "running" =>
            n = probeHanging \/ (n = readyRunning /\ \E q \in Callers : caller'[q].pc = "select")
    BY SMTT(30), <1>1, <2>3 DEF RInv
  <2> QED BY Zenon, <1>1, <2>1, <2>2, <2>3, <2>4 DEF RInv, AtWork
<1>3. CASE readyRunning = 0
  <2>1. /\ checks' = checks + 1 /\ readyRunning' = checks + 1
        /\ caller' = [caller EXCEPT ![r] = [pc |-> "check", check |-> checks + 1]]
    BY <1>3 DEF ReadyCall
  <2>2. \A q \in Callers : caller[q].pc \notin AtWork
    BY <1>3 DEF RInv
  <2>3. /\ caller'[r].pc = "check" /\ caller'[r].check = checks + 1
        /\ \A q \in Callers \ {r} : caller'[q] = caller[q]
    BY <2>1 DEF RInv
  <2>4. caller' \in [Callers -> [pc : {"idle", "wait", "check", "select"}, check : 0 .. MaxReady]]
    BY <1>1, <2>1 DEF RInv
  <2>5. \A n \in Checks : probe[n] = "running" => n = probeHanging
    BY <2>2 DEF RInv, AtWork
  <2>6. checks + 1 \in Checks /\ answer[checks + 1] = "none"
    BY <1>1 DEF RInv, Checks
  <2>7. checks' \in 0 .. MaxReady /\ readyRunning' \in 0 .. checks' /\ readyRunning' # 0
    BY <1>1, <2>1
  <2>8. \A n \in Checks : n > checks + 1 => answer[n] = "none"
    BY SMTT(30), <1>1 DEF RInv, Checks
  <2> QED BY SMTT(30), <1>1, <2>1, <2>2, <2>3, <2>4, <2>5, <2>6, <2>7, <2>8 DEF RInv, AtWork
<1> QED BY Zenon, <1>2, <1>3

\* A caller that returns the result e of its check, which timed out if p is its
\* number, keeps it.
LEMMA FinishKeeps ==
    ASSUME RInv, NEW r \in Callers, caller[r].pc \in AtWork, NEW e \in {"ok", "error"}, Finish(r, e),
           e = "ok" => probe[caller[r].check] = "ok",
           probe[caller[r].check] = "running" /\ caller[r].pc = "select" => probeHanging' = caller[r].check,
           probeHanging' \in {probeHanging, caller[r].check}, probeHanging' # probeHanging => caller[r].pc = "select",
           UNCHANGED <<probe, checks>>
    PROVE  RInv'
<1>1. PICK n \in Checks : n = caller[r].check /\ n = readyRunning
  BY ReadyConfig DEF RInv, Checks, AtWork
<1>2. /\ answer' = [answer EXCEPT ![n] = e] /\ readyRunning' = 0
      /\ caller' = [caller EXCEPT ![r] = [pc |-> "idle", check |-> 0]]
  BY Zenon, <1>1 DEF Finish
<1>3. \A q \in Callers : caller'[q].pc \notin AtWork
  BY Zenon, <1>2 DEF RInv, AtWork
<1>4. caller' \in [Callers -> [pc : {"idle", "wait", "check", "select"}, check : 0 .. MaxReady]]
  BY <1>2, ReadyConfig DEF RInv
<1>5. ASSUME NEW m \in Checks, probe[m] = "running" PROVE m = probeHanging'
  <2>1. CASE m = probeHanging
    <3>1. caller[r].pc = "select" => probeHanging = 0
      BY DEF RInv
    <3> QED BY <2>1, <3>1, ReadyConfig DEF Checks
  <2>2. CASE m = readyRunning /\ \E q \in Callers : caller[q].pc = "select"
    <3>1. caller[r].pc = "select"
      BY <2>2 DEF RInv, AtWork
    <3> QED BY Zenon, <1>1, <1>5, <2>2, <3>1
  <2> QED BY Zenon, <1>5, <2>1, <2>2 DEF RInv
<1>6. answer' \in [Checks -> {"none", "ok", "error"}] /\ probeHanging' \in 0 .. MaxReady
  BY SMTT(30), <1>1, <1>2, ReadyConfig DEF RInv, Checks
<1>7. \A m \in Checks : (answer'[m] = "ok" => probe[m] = "ok") /\ (m > checks => answer'[m] = "none")
  BY SMTT(30), <1>1, <1>2, ReadyConfig DEF RInv, Checks
<1>8. readyRunning' \in 0 .. checks /\ \A q \in Callers : caller'[q].pc # "select"
  BY <1>2, <1>3, ReadyConfig DEF RInv, AtWork
<1> QED BY Zenon, <1>2, <1>3, <1>4, <1>5, <1>6, <1>7, <1>8 DEF RInv

\* The start of a check keeps it: a second probe is not begun.
LEMMA CheckReadyKeeps ==
    ASSUME RInv, NEW r \in Callers, NEW closing, checkReady(r, closing)
    PROVE  RInv'
<1>1. CASE Finish(r, "error") /\ UNCHANGED <<probeHanging, probe, checks>>
  BY <1>1, FinishKeeps DEF checkReady, AtWork
<1>2. CASE /\ ~(probeHanging # 0 /\ probe[probeHanging] = "running")
           /\ probe' = [probe EXCEPT ![caller[r].check] = "running"] /\ probeHanging' = 0
           /\ caller' = [caller EXCEPT ![r].pc = "select"] /\ UNCHANGED <<readyRunning, answer, checks>>
  BY SMTT(30), <1>2, ReadyConfig DEF checkReady, RInv, AtWork, Checks
<1> QED BY <1>1, <1>2 DEF checkReady

\* The end of a check keeps it.
LEMMA CheckResultKeeps ==
    ASSUME RInv, NEW r \in Callers, checkResult(r)
    PROVE  RInv'
<1>1. PICK n : n = caller[r].check /\ caller[r].pc = "select" /\ UNCHANGED <<probe, checks>>
  BY DEF checkResult
<1>2. CASE /\ probe[n] \in {"ok", "failed"} /\ UNCHANGED probeHanging
           /\ Finish(r, IF probe[n] = "ok" THEN "ok" ELSE "error")
  BY Zenon, <1>1, <1>2, FinishKeeps DEF AtWork
<1>3. CASE Finish(r, "error") /\ probeHanging' = n
  BY <1>1, <1>3, FinishKeeps DEF AtWork
<1> QED BY Zenon, <1>1, <1>2, <1>3 DEF checkResult

\* The end of a probe, and of a caller that waited, keep it.
LEMMA ProbeKeeps ==
    ASSUME RInv, (\E n \in Checks : probeDir(n)) \/ (\E r \in Callers : ReadyShared(r))
    PROVE  RInv'
<1>1. ASSUME NEW n \in Checks, probeDir(n) PROVE RInv'
  BY SMTT(30), <1>1 DEF probeDir, RInv
<1>2. ASSUME NEW r \in Callers, ReadyShared(r) PROVE RInv'
  <2>1. /\ caller' = [caller EXCEPT ![r] = [pc |-> "idle", check |-> 0]] /\ caller[r].pc = "wait"
        /\ UNCHANGED <<readyRunning, probeHanging, probe, answer, checks>>
    BY <1>2 DEF ReadyShared
  <2>2. caller' \in [Callers -> [pc : {"idle", "wait", "check", "select"}, check : 0 .. MaxReady]]
    BY SMTT(30), <2>1, ReadyConfig DEF RInv
  <2>3. caller'[r].pc = "idle" /\ \A q \in Callers \ {r} : caller'[q] = caller[q]
    BY Zenon, <2>1 DEF RInv
  <2>4. \A n \in Checks : probe[n] = "running" =>
            n = probeHanging \/ (n = readyRunning /\ \E q \in Callers : caller'[q].pc = "select")
    BY <2>1, <2>3 DEF RInv
  <2> QED BY Zenon, <2>1, <2>2, <2>3, <2>4 DEF RInv, AtWork
<1> QED BY Zenon, <1>1, <1>2

\* A set without two different elements has at most one.
LEMMA AtMostOne ==
    ASSUME NEW S, \A x, y \in S : x = y
    PROVE  Cardinality(S) <= 1
<1>1. CASE S = {}
  BY <1>1, FS_EmptySet
<1>2. CASE S # {}
  <2>1. PICK x \in S : TRUE
    BY <1>2
  <2>2. S = {x}
    BY <2>1
  <2> QED BY <2>2, FS_Singleton
<1> QED BY <1>1, <1>2

\* At most one goroutine writes to the volume and at most one caller checks,
\* however many ask and however long the volume hangs, and "ready" is what the
\* check's own probe found (Ready, checkReady).
THEOREM ServiceOneProbe ==
    ASSUME NEW CONSTANT configs, NEW CONSTANT disks
    PROVE  ServiceSpec(configs, disks) => []OneProbe
<1>1. main_Init(configs, disks) => RInv
  BY ReadyConfig DEF main_Init, ReadyInit, RInv, AtWork, Checks
<1>2. RInv /\ [ServiceNext]_svars => RInv'
  <2> SUFFICES ASSUME RInv, [ServiceNext]_svars PROVE RInv'
    BY Zenon
  <2>1. CASE UNCHANGED rvars
    BY <2>1 DEF RInv, rvars
  <2>2. ASSUME NEW r \in Callers, readyz(r) PROVE RInv'
    BY <2>2, ReadyCallKeeps, CheckReadyKeeps, CheckResultKeeps, ProbeKeeps DEF readyz, ReadyStep
  <2>3. CASE Probe
    BY <2>3, ProbeKeeps DEF Probe
  <2>4. CASE \/ \E c \in Handlers : HandlerOpens(c)
             \/ \E c \in Lanes : LaneOpens(c)
             \/ \E c \in Clients : Opening(c) \/ Closing(c)
             \/ ClosePool
    BY Zenon, <2>1, <2>4 DEF HandlerOpens, LaneOpens, Opening, Closing, ClosePool, PoolStep
  <2>5. CASE GC \/ Clock \/ (\E c \in Lanes : Writes(c)) \/ Ended \/ UNCHANGED svars
    BY <2>1, <2>5 DEF GC, Clock, Writes, Ended, svars
  <2>6. CASE quit \/ shutdownDone \/ waitVlogGC \/ dispatcherClose \/ exit
    BY Zenon, <2>1, <2>6 DEF quit, shutdownDone, waitVlogGC, dispatcherClose, exit, To
  <2> QED BY <2>2, <2>3, <2>4, <2>5, <2>6 DEF ServiceNext, Shutdown
<1>3. RInv => OneProbe
  <2> SUFFICES ASSUME RInv PROVE OneProbe
    OBVIOUS
  <2>1. ASSUME NEW n \in Checks, NEW m \in Checks, probe[n] = "running", probe[m] = "running" PROVE n = m
    BY <2>1, ReadyConfig DEF RInv, Checks
  <2>2. Cardinality({n \in Checks : probe[n] = "running"}) <= 1
    BY <2>1, AtMostOne
  <2>3. Cardinality({r \in Callers : caller[r].pc \in AtWork}) <= 1
    BY AtMostOne DEF RInv
  <2> QED BY <2>2, <2>3 DEF OneProbe, RInv, AtWork
<1> QED BY <1>1, <1>2, <1>3, PTL DEF ServiceSpec

=============================================================================
