---------------------------- MODULE StoreProofs ----------------------------
(* Proofs about the writers of one community's store.                      *)
EXTENDS Store, FiniteSetTheorems, WellFoundedInduction, TLAPS

-----------------------------------------------------------------------------
(* The inductive invariant.                                                *)

Entries == [idx : Nat, period : {None} \cup (Int \X Int)]

\* A record: the indices are distinct, and none is left out.
IsMeta(t) ==
    /\ t \in [Meters -> {None} \cup Entries]
    /\ \A m, n \in Meters : t[m] # None /\ t[n] # None /\ t[m].idx = t[n].idx => m = n
    /\ \A m \in Meters : t[m] # None => \A i \in 0 .. t[m].idx : \E n \in Meters : t[n] # None /\ t[n].idx = i

\* t has the metering points of mt with their indices,
Extends(mt, t) == \A m \in Meters : mt[m] # None => t[m] # None /\ t[m].idx = mt[m].idx

\* and no others.
SamePoints(mt, t) == \A m \in Meters : (mt[m] = None <=> t[m] = None) /\ (mt[m] # None => t[m].idx = mt[m].idx)

\* The period of m covers the slot s.
Covered(mt, m, s) == mt[m].period # None /\ mt[m].period[1] <= s /\ s <= mt[m].period[2]

\* The periods of t cover those of mt and the slots of the job.
Widened(mt, t, j) ==
    \A m \in Meters : t[m] # None =>
        /\ \A s \in Slots : mt[m] # None /\ Covered(mt, m, s) => Covered(t, m, s)
        /\ \A s \in SlotsOf(j, m) : Covered(t, m, s)

Active == {"getMeta", "register", "getRows", "setLines", "widen", "setMeta"}

\* Only the holder of the lock is under way.
Turns ==
    /\ lock \in Jobs \cup {None}
    /\ pc \in [Jobs -> Active \cup {"idle", "done"}]
    /\ \A j \in Jobs : pc[j] \in Active <=> lock = j

\* The holder's copy of the record has what the record has.
Copy(j) ==
    /\ IsMeta(snap[j]) /\ Extends(meta, snap[j])
    /\ \A m \in Meters \ JobMeters(j) : snap[j][m] = meta[m]
    /\ pc[j] = "register" =>
          /\ j.kind \in {"energy", "register"}
          /\ \A m \in Meters : snap[j][m] # meta[m] => meta[m] = None /\ snap[j][m].period = None
    /\ pc[j] \in {"getRows", "setLines"} => j.kind \in {"energy", "excel", "delete"}
    /\ pc[j] = "widen" => j.kind = "energy"
    /\ pc[j] = "setMeta" => j.kind \in {"energy", "excel"}
    /\ pc[j] # "register" /\ j.kind # "excel" => SamePoints(meta, snap[j])
    /\ pc[j] = "setMeta" \/ j.kind = "excel" => Widened(meta, snap[j], j)

\* A row to write is the row as it is, but for the slots of the job; an
\* unreadable one is taken for empty.
Fresh(j) ==
    \A s \in Slots : buf[j][s] # None =>
        \A i \in Idx :
            IF Owners(s, i, j, snap[j]) = {}
            THEN buf[j][s][i] = rows[s][i] \/ (s \in unread /\ buf[j][s][i] = None)
            ELSE buf[j][s][i] = IF j.kind = "delete" THEN None ELSE <<CHOOSE m \in Owners(s, i, j, snap[j]) : TRUE, j>>

\* By the record mt the rows R hold what was written last, the values T; an
\* index or a metering point that is not in mt has no values, unless it is torn
\* (in to).  The slots un are left out.
BaseOf(mt, R, T, to, un) ==
    /\ \A m \in Meters : mt[m] # None /\ (\A p \in to : p[1] # m /\ p[2] # mt[m].idx) =>
           \A s \in Slots \ un : R[s][mt[m].idx] = T[m][s]
    /\ \A i \in Idx : (\A m \in Meters : mt[m] # None => mt[m].idx # i) /\ (\A p \in to : p[2] # i) =>
           \A s \in Slots : R[s][i] = None
    /\ \A m \in Meters : mt[m] = None /\ (\A p \in to : p[1] # m) => \A s \in Slots : T[m][s] = None

\* The periods cover the values T, but for the metering points us.
CoverOf(mt, T, us) ==
    \A m \in Meters \ us, s \in Slots : T[m][s] # None /\ mt[m] # None => Covered(mt, m, s)

\* The holder has written rows and not yet its record.
HasPut == lock # None /\ pc[lock] \in {"widen", "setMeta"} /\ Pending(lock) # {}

\* What the holder has put counts by its copy of the record, and before it has
\* widened that copy, its slots are not yet covered.
Values ==
    IF ~HasPut THEN BaseOf(meta, rows, truth, torn, unread) /\ CoverOf(meta, truth, unsettled)
    ELSE /\ BaseOf(snap[lock], rows, truth, torn, unread)
         /\ pc[lock] = "setMeta" => CoverOf(snap[lock], truth, unsettled)
         /\ \A m \in Meters \ unsettled, s \in Slots : truth[m][s] # None /\ meta[m] # None =>
                Covered(meta, m, s) \/ s \in SlotsOf(lock, m)

StInv ==
    /\ IsMeta(meta) /\ Turns
    /\ DOMAIN rows = Slots /\ DOMAIN truth = Meters /\ DOMAIN snap = Jobs /\ DOMAIN buf = Jobs
    /\ \A j \in Jobs : pc[j] \in Active \ {"getMeta"} => Copy(j)
    /\ \A j \in Jobs : pc[j] = "setLines" => Fresh(j)
    /\ Values
    /\ \A p \in torn : p[1] \in unsettled

-----------------------------------------------------------------------------
(* Least and largest elements, and with them induction.                    *)

\* A finite set of integers that is not empty has a smallest and a largest
\* element (by induction on the set: a smallest subset without them cannot exist).
LEMMA Extremes ==
    ASSUME NEW S, IsFiniteSet(S), S \subseteq Int, S # {}
    PROVE  (\E x \in S : \A y \in S : x <= y) /\ (\E x \in S : \A y \in S : x >= y)
<1>. DEFINE Low(X) == \E x \in X : \A y \in X : x <= y
            Top(X) == \E x \in X : \A y \in X : x >= y
            Bad == {X \in FiniteSubsetsOf(S) : X # {} /\ ~(Low(X) /\ Top(X))}
<1>1. ASSUME Bad # {} PROVE FALSE
  <2>1. Bad \subseteq FiniteSubsetsOf(S) /\ IsWellFoundedOn(StrictSubsetOrdering(S), FiniteSubsetsOf(S))
    BY FS_StrictSubsetOrderingWellFounded
  <2>. HIDE DEF Bad
  <2>2. PICK X \in Bad : \A Y \in Bad : ~(<<Y, X>> \in StrictSubsetOrdering(S))
    BY <1>1, <2>1, WFMin
  <2>. USE DEF Bad
  <2>3. X \subseteq S /\ IsFiniteSet(X) /\ X # {} /\ ~(Low(X) /\ Top(X))
    BY <2>2 DEF FiniteSubsetsOf
  <2>4. PICK x \in X : TRUE
    BY Zenon, <2>3
  <2>5. X \ {x} \in FiniteSubsetsOf(S) /\ <<X \ {x}, X>> \in StrictSubsetOrdering(S)
    BY Zenon, <2>3, <2>4, FS_RemoveElement DEF FiniteSubsetsOf, StrictSubsetOrdering
  <2>6. X \ {x} = {} \/ (Low(X \ {x}) /\ Top(X \ {x}))
    BY Zenon, <2>2, <2>5
  <2>7. CASE X \ {x} = {}
    BY <2>3, <2>4, <2>7
  <2>8. CASE Low(X \ {x}) /\ Top(X \ {x})
    <3>1. PICK a \in X \ {x} : \A y \in X \ {x} : a <= y
      BY <2>8
    <3>2. PICK b \in X \ {x} : \A y \in X \ {x} : b >= y
      BY <2>8
    <3>3. x \in Int /\ a \in Int /\ b \in Int /\ X \subseteq Int
      BY <2>3, <2>4, <3>1, <3>2
    <3>4. Low(X)
      <4>1. CASE x <= a
        BY <2>4, <3>1, <3>3, <4>1
      <4>2. CASE a <= x
        BY <2>4, <3>1, <3>3, <4>2
      <4>. QED BY <3>3, <4>1, <4>2
    <3>5. Top(X)
      <4>1. CASE x >= b
        BY <2>4, <3>2, <3>3, <4>1
      <4>2. CASE b >= x
        BY <2>4, <3>2, <3>3, <4>2
      <4>. QED BY <3>3, <4>1, <4>2
    <3>. QED BY Zenon, <2>3, <3>4, <3>5
  <2>. QED BY <2>6, <2>7, <2>8
<1>. QED BY <1>1 DEF FiniteSubsetsOf

LEMMA MaxExists ==
    ASSUME NEW S, IsFiniteSet(S), S \subseteq Int, S # {}
    PROVE  Max(S) \in S /\ \A y \in S : Max(S) >= y
  BY Zenon, Extremes DEF Max

\* Induction up to n: a set of numbers with 0 that goes on from i to i + 1 has
\* all of 0 .. n.
LEMMA Induction ==
    ASSUME NEW n \in Nat, NEW S, 0 \in S, \A i \in 1 .. n : i - 1 \in S => i \in S
    PROVE  0 .. n \subseteq S
<1>. DEFINE Bad == (0 .. n) \ S
<1>1. ASSUME Bad # {} PROVE FALSE
  <2>1. IsFiniteSet(0 .. n)
    BY FS_Interval, 0 \in Int, n \in Int
  <2>2. IsFiniteSet(Bad) /\ Bad \subseteq Int
    BY <2>1, FS_Subset
  <2>. HIDE DEF Bad
  <2>3. PICK x \in Bad : \A y \in Bad : x <= y
    BY Zenon, <1>1, <2>2, Extremes
  <2>. USE DEF Bad
  <2>4. x \in 1 .. n /\ x - 1 \in 0 .. n /\ ~(x <= x - 1)
    BY <2>3
  <2>5. x - 1 \in S
    BY <2>3, <2>4
  <2>. QED BY <2>3, <2>4, <2>5
<1>. QED BY <1>1

-----------------------------------------------------------------------------
(* The recursions over the blocks are defined.                             *)

LEMMA RegisterSteps ==
    ASSUME NEW mt, NEW blocks \in Seq(Blocks)
    PROVE  \E f : /\ f[0] = mt
                  /\ \A n \in 1 .. Len(blocks) : f[n] = registerMeteringPoint(f[n - 1], blocks[n].meter)
                  /\ registerBlocks(mt, blocks) = f[Len(blocks)]
<1>. DEFINE L == Len(blocks)
            Def(f, n) == IF n = 0 THEN mt ELSE registerMeteringPoint(f[n - 1], blocks[n].meter)
            Has(k) == \E f : f = [n \in 0 .. k |-> Def(f, n)]
            S == {k \in 0 .. L : Has(k)}
<1>1. L \in Nat
  OBVIOUS
<1>2. 0 \in S
  <2>1. PICK f : f = [n \in 0 .. 0 |-> mt]
    BY Zenon
  <2>2. f = [n \in 0 .. 0 |-> Def(f, n)]
    BY <2>1
  <2>. QED BY <1>1, <2>2
<1>3. ASSUME NEW i \in 1 .. L, i - 1 \in S PROVE i \in S
  <2>1. PICK f : f = [n \in 0 .. i - 1 |-> Def(f, n)]
    BY <1>3
  <2>2. PICK g : g = [n \in 0 .. i |-> IF n = i THEN registerMeteringPoint(f[i - 1], blocks[i].meter) ELSE f[n]]
    BY Zenon
  <2>3. ASSUME NEW n \in 0 .. i PROVE g[n] = Def(g, n)
    <3>1. CASE n = i
      <4>1. g[i - 1] = f[i - 1] /\ i # 0
        BY <1>1, <2>2
      <4>. QED BY <2>2, <3>1, <4>1
    <3>2. CASE n = 0
      BY <1>1, <2>1, <2>2, <3>2
    <3>3. CASE n # i /\ n # 0
      <4>1. n \in 0 .. i - 1 /\ n - 1 \in 0 .. i - 1 /\ n - 1 # i /\ n - 1 \in 0 .. i
        BY <1>1, <3>3
      <4>2. f[n] = Def(f, n)
        BY <2>1, <4>1
      <4>3. g[n] = f[n] /\ g[n - 1] = f[n - 1]
        BY <2>2, <3>3, <4>1
      <4>. QED BY <3>3, <4>2, <4>3
    <3>. QED BY <3>1, <3>2, <3>3
  <2>4. g = [n \in 0 .. i |-> g[n]]
    BY <2>2
  <2>5. g = [n \in 0 .. i |-> Def(g, n)]
    <3>. HIDE DEF Def
    <3>. QED BY <2>3, <2>4
  <2>6. i \in 0 .. L
    BY <1>1
  <2>. QED BY Zenon, <2>5, <2>6
<1>4. L \in S
  <2>. HIDE DEF S
  <2>1. 0 .. L \subseteq S
    BY Zenon, <1>1, <1>2, <1>3, Induction
  <2>. QED BY <1>1, <2>1
<1>5. PICK f : f = (CHOOSE h : h = [n \in 0 .. L |-> Def(h, n)]) /\ f = [n \in 0 .. L |-> Def(f, n)]
  BY <1>4
<1>6. registerBlocks(mt, blocks) = f[L]
  BY <1>5 DEF registerBlocks
<1>7. \A n \in 0 .. L : f[n] = Def(f, n)
  <2>. HIDE DEF Def
  <2>. QED BY <1>5
<1>8. f[0] = mt /\ \A n \in 1 .. L : f[n] = registerMeteringPoint(f[n - 1], blocks[n].meter)
  <2>1. 0 \in 0 .. L /\ \A n \in 1 .. L : n \in 0 .. L /\ n # 0
    BY <1>1
  <2>. QED BY <1>7, <2>1
<1>. QED BY <1>6, <1>8

LEMMA WidenSteps ==
    ASSUME NEW mt, NEW blocks \in Seq(Blocks)
    PROVE  \E f : /\ f[0] = mt
                  /\ \A n \in 1 .. Len(blocks) : f[n] = updateMetaCP(f[n - 1], blocks[n])
                  /\ widenMetaPeriods(mt, blocks) = f[Len(blocks)]
<1>. DEFINE L == Len(blocks)
            Def(f, n) == IF n = 0 THEN mt ELSE updateMetaCP(f[n - 1], blocks[n])
            Has(k) == \E f : f = [n \in 0 .. k |-> Def(f, n)]
            S == {k \in 0 .. L : Has(k)}
<1>1. L \in Nat
  OBVIOUS
<1>2. 0 \in S
  <2>1. PICK f : f = [n \in 0 .. 0 |-> mt]
    BY Zenon
  <2>2. f = [n \in 0 .. 0 |-> Def(f, n)]
    BY <2>1
  <2>. QED BY <1>1, <2>2
<1>3. ASSUME NEW i \in 1 .. L, i - 1 \in S PROVE i \in S
  <2>1. PICK f : f = [n \in 0 .. i - 1 |-> Def(f, n)]
    BY <1>3
  <2>2. PICK g : g = [n \in 0 .. i |-> IF n = i THEN updateMetaCP(f[i - 1], blocks[i]) ELSE f[n]]
    BY Zenon
  <2>3. ASSUME NEW n \in 0 .. i PROVE g[n] = Def(g, n)
    <3>1. CASE n = i
      <4>1. g[i - 1] = f[i - 1] /\ i # 0
        BY <1>1, <2>2
      <4>. QED BY <2>2, <3>1, <4>1
    <3>2. CASE n = 0
      BY <1>1, <2>1, <2>2, <3>2
    <3>3. CASE n # i /\ n # 0
      <4>1. n \in 0 .. i - 1 /\ n - 1 \in 0 .. i - 1 /\ n - 1 # i /\ n - 1 \in 0 .. i
        BY <1>1, <3>3
      <4>2. f[n] = Def(f, n)
        BY <2>1, <4>1
      <4>3. g[n] = f[n] /\ g[n - 1] = f[n - 1]
        BY <2>2, <3>3, <4>1
      <4>. QED BY <3>3, <4>2, <4>3
    <3>. QED BY <3>1, <3>2, <3>3
  <2>4. g = [n \in 0 .. i |-> g[n]]
    BY <2>2
  <2>5. g = [n \in 0 .. i |-> Def(g, n)]
    <3>. HIDE DEF Def
    <3>. QED BY <2>3, <2>4
  <2>6. i \in 0 .. L
    BY <1>1
  <2>. QED BY <2>5, <2>6
<1>4. L \in S
  <2>. HIDE DEF S
  <2>1. 0 .. L \subseteq S
    BY Zenon, <1>1, <1>2, <1>3, Induction
  <2>. QED BY <1>1, <2>1
<1>5. PICK f : f = (CHOOSE h : h = [n \in 0 .. L |-> Def(h, n)]) /\ f = [n \in 0 .. L |-> Def(f, n)]
  BY <1>4
<1>6. widenMetaPeriods(mt, blocks) = f[L]
  BY <1>5 DEF widenMetaPeriods
<1>7. \A n \in 0 .. L : f[n] = Def(f, n)
  <2>. HIDE DEF Def
  <2>. QED BY <1>5
<1>8. f[0] = mt /\ \A n \in 1 .. L : f[n] = updateMetaCP(f[n - 1], blocks[n])
  <2>1. 0 \in 0 .. L /\ \A n \in 1 .. L : n \in 0 .. L /\ n # 0
    BY <1>1
  <2>. QED BY <1>7, <2>1
<1>. QED BY <1>6, <1>8

-----------------------------------------------------------------------------
(* Registration and periods.                                               *)

LEMMA EntryFacts ==
    ASSUME NEW e \in Entries
    PROVE  /\ e # None /\ e.idx \in Nat /\ e.period \in {None} \cup (Int \X Int)
           /\ e = [idx |-> e.idx, period |-> e.period]
<1>1. e = [idx |-> e.idx, period |-> e.period] /\ e.idx \in Nat /\ e.period \in {None} \cup (Int \X Int)
  BY DEF Entries
<1>2. "idx" \in DOMAIN e
  BY <1>1
<1>3. DOMAIN None = {}
  BY DEF None
<1>. QED BY <1>1, <1>2, <1>3

LEMMA PairFacts ==
    ASSUME NEW a, NEW b
    PROVE  <<a, b>> # None
  BY DEF None

LEMMA MaxIdxFacts ==
    ASSUME NEW t, IsMeta(t)
    PROVE  /\ MaxIdx(t) \in Int /\ MaxIdx(t) >= -1
           /\ \A m \in Meters : t[m] # None => t[m].idx <= MaxIdx(t)
           /\ MaxIdx(t) = -1 \/ \E m \in Meters : t[m] # None /\ t[m].idx = MaxIdx(t)
<1>. DEFINE Known == {n \in Meters : t[n] # None}
            I == {t[m].idx : m \in Known}
            S == {-1} \cup I
<1>1. IsFiniteSet(S)
  <2>1. IsFiniteSet(Known)
    BY StoreConfig, FS_Subset
  <2>2. IsFiniteSet(I)
    <3>. DEFINE f == [m \in Known |-> t[m].idx]
    <3>1. f \in Surjection(Known, I)
      BY DEF Surjection
    <3>. HIDE DEF Known, I, f
    <3>. QED BY <2>1, <3>1, FS_Surjection
  <2>. QED BY Zenon, <2>2, FS_Singleton, FS_Union
<1>2. \A m \in Known : t[m].idx \in Nat
  BY EntryFacts DEF IsMeta
<1>3. S \subseteq Int /\ S # {} /\ -1 \in S
  BY <1>2
<1>4. Max(S) \in S /\ \A y \in S : Max(S) >= y
  <2>. HIDE DEF S
  <2>. QED BY Zenon, <1>1, <1>3, MaxExists
<1>5. MaxIdx(t) = Max(S)
  BY DEF MaxIdx
<1>6. PICK x : x = MaxIdx(t)
  OBVIOUS
<1>7. x \in S /\ \A y \in S : x >= y
  BY Zenon, <1>4, <1>5, <1>6
<1>. QED BY <1>2, <1>3, <1>6, <1>7

\* registerMeteringPoint: the next index, one above the highest.
LEMMA RegisterOne ==
    ASSUME NEW t, IsMeta(t), NEW m \in Meters
    PROVE  /\ IsMeta(registerMeteringPoint(t, m))
           /\ registerMeteringPoint(t, m)[m] # None
           /\ \A n \in Meters : registerMeteringPoint(t, m)[n] # t[n] =>
                 n = m /\ t[n] = None /\ registerMeteringPoint(t, m)[n].period = None
<1>1. PICK r : r = registerMeteringPoint(t, m)
  OBVIOUS
<1>2. CASE t[m] # None
  BY <1>2 DEF registerMeteringPoint
<1>3. CASE t[m] = None
  <2>1. PICK i : i = MaxIdx(t) + 1
    OBVIOUS
  <2>2. i \in Nat /\ \A n \in Meters : t[n] # None => t[n].idx < i /\ t[n].idx \in Nat
    BY <2>1, MaxIdxFacts, EntryFacts DEF IsMeta
  <2>3. PICK e : e = [idx |-> i, period |-> None]
    BY Zenon
  <2>4. e \in Entries /\ e # None /\ e.idx = i /\ e.period = None
    BY <2>2, <2>3, EntryFacts DEF Entries
  <2>5. r = [t EXCEPT ![m] = e]
    BY <1>1, <1>3, <2>1, <2>3 DEF registerMeteringPoint
  <2>6. r \in [Meters -> {None} \cup Entries] /\ r[m] = e /\ \A n \in Meters \ {m} : r[n] = t[n]
    BY <2>4, <2>5 DEF IsMeta
  <2>7. \A k, n \in Meters : r[k] # None /\ r[n] # None /\ r[k].idx = r[n].idx => k = n
    <3>1. \A k, n \in Meters : t[k] # None /\ t[n] # None /\ t[k].idx = t[n].idx => k = n
      BY DEF IsMeta
    <3>. QED BY <2>2, <2>4, <2>6, <3>1
  <2>8. ASSUME NEW n \in Meters, r[n] # None, NEW k \in 0 .. r[n].idx
        PROVE  \E q \in Meters : r[q] # None /\ r[q].idx = k
    <3>1. CASE k = i
      BY <2>4, <2>6, <3>1
    <3>2. CASE k # i
      <4>1. \E q \in Meters : t[q] # None /\ k \in 0 .. t[q].idx
        <5>1. CASE n # m
          BY <2>6, <2>8, <5>1
        <5>2. CASE n = m
          <6>1. k \in 0 .. i - 1 /\ MaxIdx(t) = i - 1
            BY <2>1, <2>2, <2>4, <2>6, <2>8, <3>2, <5>2, MaxIdxFacts
          <6>2. PICK q \in Meters : t[q] # None /\ t[q].idx = i - 1
            BY <2>2, <6>1, MaxIdxFacts
          <6>. QED BY <6>1, <6>2
        <5>. QED BY <5>1, <5>2
      <4>2. PICK q \in Meters : t[q] # None /\ t[q].idx = k
        BY <4>1 DEF IsMeta
      <4>3. q # m
        BY <1>3, <4>2
      <4>. QED BY <2>6, <4>2, <4>3
    <3>. QED BY <3>1, <3>2
  <2>9. IsMeta(r)
    BY <2>6, <2>7, <2>8 DEF IsMeta
  <2>. QED BY <1>1, <1>3, <2>4, <2>6, <2>9
<1>. QED BY <1>2, <1>3

LEMMA JobFacts ==
    ASSUME NEW j \in Jobs
    PROVE  /\ j.kind \in Kinds /\ j.blocks \in Seq(Blocks)
           /\ \A n \in 1 .. Len(j.blocks) : j.blocks[n].meter \in JobMeters(j) /\ j.blocks[n] \in Range(j.blocks)
           /\ \A b \in Range(j.blocks) : b.meter \in Meters /\ b.from \in Int /\ b.to \in Int
           /\ \A b \in Range(j.blocks) : \E n \in 1 .. Len(j.blocks) : b = j.blocks[n]
           /\ JobMeters(j) \subseteq Meters
<1>1. j.kind \in Kinds /\ j.blocks \in Seq(Blocks)
  BY StoreConfig
<1>2. Range(j.blocks) \subseteq Blocks /\ \A n \in 1 .. Len(j.blocks) : j.blocks[n] \in Range(j.blocks)
  BY <1>1 DEF Range
<1>3. \A b \in Blocks : b.meter \in Meters /\ b.from \in Int /\ b.to \in Int
  BY DEF Blocks
<1>4. \A b \in Range(j.blocks) : \E n \in 1 .. Len(j.blocks) : b = j.blocks[n]
  BY <1>1 DEF Range
<1>. QED BY <1>1, <1>2, <1>3, <1>4 DEF JobMeters

\* registerBlocks: the metering points of the job are registered, and the others
\* keep what they have.
LEMMA RegisterFacts ==
    ASSUME NEW mt, IsMeta(mt), NEW j \in Jobs
    PROVE  LET r == registerBlocks(mt, j.blocks)
           IN  /\ IsMeta(r)
               /\ \A m \in Meters : r[m] # mt[m] => m \in JobMeters(j) /\ mt[m] = None /\ r[m].period = None
<1>1. PICK f : /\ f[0] = mt
               /\ \A n \in 1 .. Len(j.blocks) : f[n] = registerMeteringPoint(f[n - 1], j.blocks[n].meter)
               /\ registerBlocks(mt, j.blocks) = f[Len(j.blocks)]
  BY Zenon, JobFacts, RegisterSteps
<1>. DEFINE Good(r) == /\ IsMeta(r)
                       /\ \A m \in Meters : r[m] # mt[m] => m \in JobMeters(j) /\ mt[m] = None /\ r[m].period = None
            S == {n \in 0 .. Len(j.blocks) : Good(f[n])}
<1>2. Len(j.blocks) \in Nat
  BY JobFacts
<1>3. 0 \in S
  BY <1>1, <1>2
<1>4. ASSUME NEW n \in 1 .. Len(j.blocks), n - 1 \in S PROVE n \in S
  <2>1. Good(f[n - 1])
    BY <1>4
  <2>2. PICK t : t = f[n - 1]
    OBVIOUS
  <2>3. PICK k \in JobMeters(j) : k = j.blocks[n].meter /\ k \in Meters
    BY JobFacts
  <2>4. PICK r : r = registerMeteringPoint(t, k)
    OBVIOUS
  <2>5. /\ IsMeta(r)
        /\ \A m \in Meters : r[m] # t[m] => m = k /\ t[m] = None /\ r[m].period = None
    BY <2>1, <2>2, <2>3, <2>4, RegisterOne
  <2>6. Good(r)
    BY <2>1, <2>2, <2>3, <2>5
  <2>7. f[n] = r
    BY <1>1, <2>2, <2>3, <2>4
  <2>. QED BY <2>6, <2>7
<1>5. Len(j.blocks) \in S
  <2>. HIDE DEF S
  <2>1. 0 .. Len(j.blocks) \subseteq S
    BY Zenon, <1>2, <1>3, <1>4, Induction
  <2>. QED BY <1>2, <2>1
<1>. QED BY <1>1, <1>5

\* An index in use is a position of the rows: there are no more indices than
\* metering points.
LEMMA IdxRange ==
    ASSUME NEW t, IsMeta(t), NEW m \in Meters, t[m] # None
    PROVE  t[m].idx \in Idx
<1>1. PICK k \in Nat : k = t[m].idx
  BY EntryFacts DEF IsMeta
<1>. DEFINE S == {n \in Meters : t[n] # None /\ t[n].idx \in 0 .. k}
            f == [n \in S |-> t[n].idx]
<1>2. IsFiniteSet(Meters) /\ S \in SUBSET Meters
  BY StoreConfig
<1>3. IsFiniteSet(S) /\ Cardinality(S) <= Cardinality(Meters)
  <2>. HIDE DEF S
  <2>. QED BY <1>2, FS_Subset
<1>4. f \in Surjection(S, 0 .. k)
  <2>1. ASSUME NEW i \in 0 .. k PROVE \E n \in S : f[n] = i
    <3>1. PICK n \in Meters : t[n] # None /\ t[n].idx = i
      BY <1>1 DEF IsMeta
    <3>. QED BY <3>1
  <2>2. f \in [S -> 0 .. k]
    OBVIOUS
  <2>. HIDE DEF f, S
  <2>. QED BY <2>1, <2>2 DEF Surjection
<1>5. Cardinality(0 .. k) <= Cardinality(S)
  <2>. HIDE DEF f, S
  <2>. QED BY <1>3, <1>4, FS_Surjection
<1>6. Cardinality(0 .. k) = k + 1
  BY FS_Interval, 0 \in Int, k \in Int
<1>7. Cardinality(S) \in Nat /\ Cardinality(Meters) \in Nat
  <2>. HIDE DEF S
  <2>. QED BY <1>2, <1>3, FS_CardinalityType
<1>. HIDE DEF S
<1>. QED BY <1>1, <1>3, <1>5, <1>6, <1>7 DEF Idx

LEMMA MinMax ==
    ASSUME NEW a \in Int, NEW b \in Int
    PROVE  /\ Min({a, b}) \in Int /\ Min({a, b}) <= a /\ Min({a, b}) <= b
           /\ Max({a, b}) \in Int /\ a <= Max({a, b}) /\ b <= Max({a, b})
<1>1. \E x \in {a, b} : \A y \in {a, b} : x <= y
  <2>1. a <= b \/ b <= a
    OBVIOUS
  <2>. QED BY <2>1
<1>2. \E x \in {a, b} : \A y \in {a, b} : x >= y
  <2>1. a >= b \/ b >= a
    OBVIOUS
  <2>. QED BY <2>1
<1>3. Min({a, b}) \in {a, b} /\ \A y \in {a, b} : Min({a, b}) <= y
  BY <1>1 DEF Min
<1>4. Max({a, b}) \in {a, b} /\ \A y \in {a, b} : Max({a, b}) >= y
  BY <1>2 DEF Max
<1>5. Min({a, b}) \in Int /\ Max({a, b}) \in Int
  BY <1>3, <1>4
<1>. QED BY <1>3, <1>4, <1>5

\* updateMetaCP: the period grows to cover the block.
LEMMA WidenOne ==
    ASSUME NEW t, IsMeta(t), NEW b, b.meter \in Meters, b.from \in Int, b.to \in Int
    PROVE  LET r == updateMetaCP(t, b)
           IN  /\ IsMeta(r) /\ SamePoints(t, r)
               /\ \A m \in Meters \ {b.meter} : r[m] = t[m]
               /\ \A m \in Meters, s \in Slots : t[m] # None /\ Covered(t, m, s) => Covered(r, m, s)
               /\ \A s \in Slots : t[b.meter] # None /\ b.from <= s /\ s <= b.to => Covered(r, b.meter, s)
<1>1. CASE t[b.meter] = None
  BY <1>1 DEF updateMetaCP, SamePoints
<1>2. CASE t[b.meter] # None
  <2>1. PICK m \in Meters : m = b.meter
    OBVIOUS
  <2>2. t[m] \in Entries /\ t[m].idx \in Nat
    BY <1>2, <2>1, EntryFacts DEF IsMeta
  <2>3. PICK p : p = t[m].period
    OBVIOUS
  <2>4. p = None \/ (p \in Int \X Int /\ p # None)
    BY <2>2, <2>3, EntryFacts, PairFacts
  <2>5. PICK q : q = IF p = None THEN <<b.from, b.to>> ELSE <<Min({p[1], b.from}), Max({p[2], b.to})>>
    BY Zenon
  <2>6. /\ q \in Int \X Int /\ q # None /\ q[1] <= b.from /\ b.to <= q[2]
        /\ p # None => q[1] <= p[1] /\ p[2] <= q[2]
    <3>1. CASE p = None
      <4>1. q = <<b.from, b.to>>
        BY <2>5, <3>1
      <4>. QED BY <3>1, <4>1, PairFacts
    <3>2. CASE p \in Int \X Int /\ p # None
      <4>1. PICK x, y : x = Min({p[1], b.from}) /\ y = Max({p[2], b.to})
        OBVIOUS
      <4>2. q = <<x, y>>
        BY <2>5, <3>2, <4>1
      <4>3. x \in Int /\ y \in Int /\ x <= p[1] /\ x <= b.from /\ p[2] <= y /\ b.to <= y
        BY Zenon, <3>2, <4>1, MinMax
      <4>. QED BY <4>2, <4>3, PairFacts
    <3>. QED BY <2>4, <3>1, <3>2
  <2>7. PICK r : r = updateMetaCP(t, b)
    OBVIOUS
  <2>8. r = [t EXCEPT ![m].period = q]
    BY <1>2, <2>1, <2>3, <2>5, <2>7 DEF updateMetaCP
  <2>9. PICK e : e = [t[m] EXCEPT !.period = q]
    BY Zenon
  <2>10. t[m] = [idx |-> t[m].idx, period |-> t[m].period]
    BY <2>2, EntryFacts
  <2>11. e = [idx |-> t[m].idx, period |-> q]
    BY <2>9, <2>10
  <2>12. e \in Entries /\ e # None /\ e.idx = t[m].idx /\ e.period = q
    <3>1. e \in Entries
      BY <2>2, <2>6, <2>11 DEF Entries
    <3>. QED BY <2>11, <3>1, EntryFacts
  <2>13. /\ r \in [Meters -> {None} \cup Entries] /\ r[m] = e
         /\ \A n \in Meters \ {m} : r[n] = t[n]
    BY <2>8, <2>9, <2>12 DEF IsMeta
  <2>14. SamePoints(t, r)
    BY <1>2, <2>1, <2>12, <2>13 DEF SamePoints
  <2>15. IsMeta(r)
    BY <2>13, <2>14 DEF IsMeta, SamePoints
  <2>16. \A s \in Slots : Covered(t, m, s) => Covered(r, m, s)
    <3>1. \A s \in Slots : s \in Int
      BY StoreConfig
    <3>. QED BY <2>3, <2>4, <2>6, <2>12, <2>13, <3>1 DEF Covered
  <2>17. \A s \in Slots : b.from <= s /\ s <= b.to => Covered(r, m, s)
    <3>1. \A s \in Slots : s \in Int
      BY StoreConfig
    <3>. QED BY <2>6, <2>12, <2>13, <3>1 DEF Covered
  <2>18. \A n \in Meters \ {m}, s \in Slots : Covered(t, n, s) => Covered(r, n, s)
    BY <2>13 DEF Covered
  <2>. QED BY <2>1, <2>7, <2>13, <2>14, <2>15, <2>16, <2>17, <2>18
<1>. QED BY <1>1, <1>2

\* widenMetaPeriods: the periods grow to cover the slots of the job.
LEMMA WidenFacts ==
    ASSUME NEW mt, IsMeta(mt), NEW j \in Jobs
    PROVE  LET r == widenMetaPeriods(mt, j.blocks)
           IN  /\ IsMeta(r) /\ SamePoints(mt, r) /\ Widened(mt, r, j)
               /\ \A m \in Meters \ JobMeters(j) : r[m] = mt[m]
<1>1. PICK f : /\ f[0] = mt
               /\ \A n \in 1 .. Len(j.blocks) : f[n] = updateMetaCP(f[n - 1], j.blocks[n])
               /\ widenMetaPeriods(mt, j.blocks) = f[Len(j.blocks)]
  BY Zenon, JobFacts, WidenSteps
<1>. DEFINE In(k, s) == j.blocks[k].from <= s /\ s <= j.blocks[k].to
            Good(r, n) ==
                /\ IsMeta(r) /\ SamePoints(mt, r)
                /\ \A m \in Meters \ JobMeters(j) : r[m] = mt[m]
                /\ \A m \in Meters, s \in Slots : mt[m] # None /\ Covered(mt, m, s) => Covered(r, m, s)
                /\ \A k \in 1 .. n, s \in Slots : mt[j.blocks[k].meter] # None /\ In(k, s) => Covered(r, j.blocks[k].meter, s)
            S == {n \in 0 .. Len(j.blocks) : Good(f[n], n)}
<1>2. Len(j.blocks) \in Nat
  BY JobFacts
<1>3. 0 \in S
  <2>1. Good(mt, 0)
    BY DEF SamePoints
  <2>. QED BY <1>1, <1>2, <2>1
<1>4. ASSUME NEW n \in 1 .. Len(j.blocks), n - 1 \in S PROVE n \in S
  <2>1. PICK t : t = f[n - 1]
    OBVIOUS
  <2>2. Good(t, n - 1)
    BY <1>4, <2>1
  <2>3. PICK b : b = j.blocks[n]
    OBVIOUS
  <2>4. b.meter \in JobMeters(j) /\ b.meter \in Meters /\ b.from \in Int /\ b.to \in Int
    BY <2>3, JobFacts
  <2>5. PICK r : r = updateMetaCP(t, b)
    OBVIOUS
  <2>6. /\ IsMeta(r) /\ SamePoints(t, r)
        /\ \A m \in Meters \ {b.meter} : r[m] = t[m]
        /\ \A m \in Meters, s \in Slots : t[m] # None /\ Covered(t, m, s) => Covered(r, m, s)
        /\ \A s \in Slots : t[b.meter] # None /\ b.from <= s /\ s <= b.to => Covered(r, b.meter, s)
    BY <2>2, <2>4, <2>5, WidenOne
  <2>7. SamePoints(mt, r)
    BY <2>2, <2>6 DEF SamePoints
  <2>8. \A m \in Meters \ JobMeters(j) : r[m] = mt[m]
    BY <2>2, <2>4, <2>6
  <2>9. \A m \in Meters, s \in Slots : mt[m] # None /\ Covered(mt, m, s) => Covered(r, m, s)
    BY <2>2, <2>6 DEF SamePoints
  <2>10. ASSUME NEW k \in 1 .. n, NEW s \in Slots, mt[j.blocks[k].meter] # None, In(k, s)
         PROVE  Covered(r, j.blocks[k].meter, s)
    <3>1. j.blocks[k].meter \in Meters
      <4>1. k \in 1 .. Len(j.blocks)
        BY <1>2
      <4>. QED BY <4>1, JobFacts
    <3>2. t[j.blocks[k].meter] # None
      BY <2>2, <2>10, <3>1 DEF SamePoints
    <3>3. CASE k = n
      BY <2>3, <2>6, <2>10, <3>2, <3>3
    <3>4. CASE k # n
      <4>1. k \in 1 .. n - 1
        BY <1>2, <3>4
      <4>2. Covered(t, j.blocks[k].meter, s)
        BY <2>2, <2>10, <4>1
      <4>. QED BY <2>6, <3>1, <3>2, <4>2
    <3>. QED BY <3>3, <3>4
  <2>11. Good(r, n)
    <3>. HIDE DEF In
    <3>. QED BY <2>6, <2>7, <2>8, <2>9, <2>10
  <2>12. f[n] = r /\ n \in 0 .. Len(j.blocks)
    BY <1>1, <1>2, <2>1, <2>3, <2>5
  <2>. HIDE DEF Good
  <2>. QED BY <2>11, <2>12
<1>5. Len(j.blocks) \in S
  <2>. HIDE DEF S
  <2>1. 0 .. Len(j.blocks) \subseteq S
    BY Zenon, <1>2, <1>3, <1>4, Induction
  <2>. QED BY <1>2, <2>1
<1>6. PICK r : r = widenMetaPeriods(mt, j.blocks)
  OBVIOUS
<1>7. Good(r, Len(j.blocks))
  BY <1>1, <1>5, <1>6
<1>8. Widened(mt, r, j)
  <2>1. SUFFICES ASSUME NEW m \in Meters, r[m] # None
                 PROVE  /\ \A s \in Slots : mt[m] # None /\ Covered(mt, m, s) => Covered(r, m, s)
                        /\ \A s \in SlotsOf(j, m) : Covered(r, m, s)
    BY DEF Widened
  <2>2. ASSUME NEW s \in SlotsOf(j, m) PROVE Covered(r, m, s)
    <3>1. s \in Slots
      BY DEF SlotsOf
    <3>2. PICK b \in Range(j.blocks) : b.meter = m /\ b.from <= s /\ s <= b.to
      BY DEF SlotsOf
    <3>3. PICK k \in 1 .. Len(j.blocks) : b = j.blocks[k]
      BY Zenon, <3>2, JobFacts
    <3>4. mt[m] # None
      BY <1>7, <2>1 DEF SamePoints
    <3>. QED BY <1>7, <3>1, <3>2, <3>3, <3>4
  <2>. QED BY <1>7, <2>2
<1>. QED BY <1>6, <1>7, <1>8

-----------------------------------------------------------------------------
(* The values by a record.                                                 *)

\* More metering points: they and their indices had no values.
LEMMA BaseGrows ==
    ASSUME NEW mt, NEW t, NEW R, NEW T, NEW to, NEW un,
           IsMeta(t), Extends(mt, t), BaseOf(mt, R, T, to, un)
    PROVE  BaseOf(t, R, T, to, un)
<1>1. ASSUME NEW m \in Meters, t[m] # None, \A p \in to : p[1] # m /\ p[2] # t[m].idx, NEW s \in Slots \ un
      PROVE  R[s][t[m].idx] = T[m][s]
  <2>1. CASE mt[m] # None
    BY <1>1, <2>1 DEF BaseOf, Extends
  <2>2. CASE mt[m] = None
    <3>1. t[m].idx \in Idx
      BY <1>1, IdxRange
    <3>2. \A n \in Meters : mt[n] # None => mt[n].idx # t[m].idx
      BY <1>1, <2>2 DEF IsMeta, Extends
    <3>. QED BY <1>1, <2>2, <3>1, <3>2 DEF BaseOf
  <2>. QED BY <2>1, <2>2
<1>2. ASSUME NEW i \in Idx, \A m \in Meters : t[m] # None => t[m].idx # i, \A p \in to : p[2] # i
      PROVE  \A s \in Slots : R[s][i] = None
  BY <1>2 DEF BaseOf, Extends
<1>3. ASSUME NEW m \in Meters, t[m] = None, \A p \in to : p[1] # m
      PROVE  \A s \in Slots : T[m][s] = None
  BY <1>3 DEF BaseOf, Extends
<1>. QED BY <1>1, <1>2, <1>3 DEF BaseOf

LEMMA BaseSame ==
    ASSUME NEW mt, NEW t, NEW R, NEW T, NEW to, NEW un,
           SamePoints(mt, t), BaseOf(t, R, T, to, un)
    PROVE  BaseOf(mt, R, T, to, un)
  BY DEF BaseOf, SamePoints

\* The record stays behind the rows: what it lacks is torn.
LEMMA BaseTorn ==
    ASSUME NEW mt, NEW t, NEW R, NEW T, NEW to, NEW un, NEW to2,
           Extends(mt, t), BaseOf(t, R, T, to, un), to \subseteq to2,
           \A m \in Meters : t[m] # None /\ mt[m] = None => <<m, t[m].idx>> \in to2
    PROVE  BaseOf(mt, R, T, to2, un)
<1>1. ASSUME NEW m \in Meters, mt[m] # None, \A p \in to2 : p[1] # m /\ p[2] # mt[m].idx, NEW s \in Slots \ un
      PROVE  R[s][mt[m].idx] = T[m][s]
  BY <1>1 DEF BaseOf, Extends
<1>2. ASSUME NEW i \in Idx, \A m \in Meters : mt[m] # None => mt[m].idx # i, \A p \in to2 : p[2] # i
      PROVE  \A s \in Slots : R[s][i] = None
  <2>1. \A m \in Meters : t[m] # None => t[m].idx # i
    <3>1. SUFFICES ASSUME NEW m \in Meters, t[m] # None, t[m].idx = i PROVE FALSE
      OBVIOUS
    <3>2. mt[m] = None
      BY <1>2, <3>1 DEF Extends
    <3>3. <<m, i>> \in to2
      BY <3>1, <3>2
    <3>. QED BY <1>2, <3>3
  <2>. QED BY <1>2, <2>1 DEF BaseOf
<1>3. ASSUME NEW m \in Meters, mt[m] = None, \A p \in to2 : p[1] # m
      PROVE  \A s \in Slots : T[m][s] = None
  <2>1. t[m] = None
    <3>1. SUFFICES ASSUME t[m] # None PROVE FALSE
      OBVIOUS
    <3>2. <<m, t[m].idx>> \in to2
      BY <1>3, <3>1
    <3>. QED BY <1>3, <3>2
  <2>. QED BY <1>3, <2>1 DEF BaseOf
<1>. QED BY <1>1, <1>2, <1>3 DEF BaseOf

\* Only the values at the slots count.
LEMMA BaseAt ==
    ASSUME NEW mt, NEW R, NEW T, NEW to, NEW un, NEW R2, NEW T2, NEW un2,
           BaseOf(mt, R, T, to, un), un \subseteq un2,
           \A s \in Slots : R2[s] = R[s], \A m \in Meters, s \in Slots : T2[m][s] = T[m][s]
    PROVE  BaseOf(mt, R2, T2, to, un2)
  BY DEF BaseOf

\* The rows read stay fresh while they, and the rows of the store they come
\* from, stay as they are.
LEMMA SameFresh ==
    ASSUME NEW j, Fresh(j), UNCHANGED unread, snap'[j] = snap[j],
           \A s \in Slots : buf'[j][s] # None => buf'[j][s] = buf[j][s] /\ rows'[s] = rows[s]
    PROVE  Fresh(j)'
  BY DEF Fresh, Owners

LEMMA FreshAt ==
    ASSUME NEW j, snap'[j] = snap[j],
           \A s \in Slots : buf'[j][s] # None => \A i \in Idx :
               IF Owners(s, i, j, snap[j]) = {}
               THEN buf'[j][s][i] = rows'[s][i] \/ (s \in unread' /\ buf'[j][s][i] = None)
               ELSE buf'[j][s][i] = IF j.kind = "delete" THEN None ELSE <<CHOOSE m \in Owners(s, i, j, snap[j]) : TRUE, j>>
    PROVE  Fresh(j)'
  BY DEF Fresh, Owners

\* The owner of an index is the metering point that has it.
LEMMA OwnersAre ==
    ASSUME NEW t, IsMeta(t), NEW j \in Jobs, NEW s \in Slots, NEW m \in Meters, t[m] # None
    PROVE  Owners(s, t[m].idx, j, t) = IF s \in SlotsOf(j, m) THEN {m} ELSE {}
<1>1. \A n \in Owners(s, t[m].idx, j, t) : n = m /\ s \in SlotsOf(j, m)
  <2>1. \A n \in Owners(s, t[m].idx, j, t) : n \in Meters /\ t[n] # None /\ t[n].idx = t[m].idx /\ s \in SlotsOf(j, n)
    BY JobFacts DEF Owners
  <2>. QED BY <2>1 DEF IsMeta
<1>2. s \in SlotsOf(j, m) => m \in JobMeters(j)
  BY DEF SlotsOf, JobMeters
<1>3. s \in SlotsOf(j, m) => m \in Owners(s, t[m].idx, j, t)
  BY <1>2 DEF Owners
<1>. QED BY <1>1, <1>3

\* Put: the rows of the buffer hold what they held, and the job's values.
LEMMA PutBase ==
    ASSUME NEW j \in Jobs, IsMeta(snap[j]), Fresh(j), NEW w \in SUBSET Pending(j), Put(j, w),
           BaseOf(snap[j], rows, truth, torn, unread)
    PROVE  BaseOf(snap[j], rows', truth', torn, unread)
<1>1. PICK t : t = snap[j]
  OBVIOUS
<1>2. \A s \in Slots : rows'[s] = IF s \in w THEN buf[j][s] ELSE rows[s]
  BY DEF Put
<1>3. \A m \in Meters, s \in Slots :
          truth'[m][s] = IF s \in w /\ s \in SlotsOf(j, m) /\ t[m] # None
                         THEN IF j.kind = "delete" THEN None ELSE <<m, j>>
                         ELSE truth[m][s]
  BY <1>1 DEF Put
<1>4. \A s \in w : s \in Slots /\ buf[j][s] # None
  BY DEF Pending
<1>5. ASSUME NEW m \in Meters, t[m] # None, \A p \in torn : p[1] # m /\ p[2] # t[m].idx, NEW s \in Slots \ unread
      PROVE  rows'[s][t[m].idx] = truth'[m][s]
  <2>1. rows[s][t[m].idx] = truth[m][s]
    BY <1>1, <1>5 DEF BaseOf
  <2>2. CASE s \notin w
    BY Zenon, <1>2, <1>3, <2>1, <2>2
  <2>3. CASE s \in w /\ s \notin SlotsOf(j, m)
    <3>1. Owners(s, t[m].idx, j, t) = {} /\ t[m].idx \in Idx
      BY Zenon, <1>1, <1>5, <2>3, OwnersAre, IdxRange
    <3>2. buf[j][s][t[m].idx] = rows[s][t[m].idx]
      BY Zenon, <1>1, <1>4, <1>5, <2>3, <3>1 DEF Fresh
    <3>. QED BY Zenon, <1>2, <1>3, <2>1, <2>3, <3>2
  <2>4. CASE s \in w /\ s \in SlotsOf(j, m)
    <3>1. Owners(s, t[m].idx, j, t) = {m} /\ t[m].idx \in Idx
      BY Zenon, <1>1, <1>5, <2>4, OwnersAre, IdxRange
    <3>2. (CHOOSE n \in {m} : TRUE) = m
      OBVIOUS
    <3>3. buf[j][s][t[m].idx] = IF j.kind = "delete" THEN None ELSE <<m, j>>
      BY <1>1, <1>4, <2>4, <3>1, <3>2 DEF Fresh
    <3>. QED BY <1>2, <1>3, <1>5, <2>4, <3>3
  <2>. QED BY <2>2, <2>3, <2>4
<1>6. ASSUME NEW i \in Idx, \A m \in Meters : t[m] # None => t[m].idx # i, \A p \in torn : p[2] # i, NEW s \in Slots
      PROVE  rows'[s][i] = None
  <2>1. rows[s][i] = None
    BY <1>1, <1>6 DEF BaseOf
  <2>2. Owners(s, i, j, t) = {}
    BY <1>6, JobFacts DEF Owners
  <2>3. CASE s \in w
    <3>1. buf[j][s][i] = rows[s][i] \/ buf[j][s][i] = None
      BY Zenon, <1>1, <1>4, <2>2, <2>3 DEF Fresh
    <3>. QED BY <1>2, <2>1, <2>3, <3>1
  <2>. QED BY <1>2, <2>1, <2>3
<1>7. ASSUME NEW m \in Meters, t[m] = None, \A p \in torn : p[1] # m
      PROVE  \A s \in Slots : truth'[m][s] = None
  BY Zenon, <1>1, <1>3, <1>7 DEF BaseOf
<1>. QED BY <1>1, <1>5, <1>6, <1>7 DEF BaseOf

-----------------------------------------------------------------------------
(* What the steps have in common.                                          *)

LEMMA NoneIsNoJob ==
    ASSUME NEW j \in Jobs
    PROVE  j # None
<1>1. j \in [kind : Kinds, blocks : Seq(Blocks)]
  BY StoreConfig
<1>2. "kind" \in DOMAIN j
  BY <1>1
<1>3. DOMAIN None = {}
  BY DEF None
<1>. QED BY <1>2, <1>3

\* Before the holder has put rows, the record tells the values.
LEMMA NotPut ==
    ASSUME StInv, NEW j \in Jobs, lock = j, pc[j] \notin {"widen", "setMeta"} \/ Pending(j) = {}
    PROVE  BaseOf(meta, rows, truth, torn, unread) /\ CoverOf(meta, truth, unsettled)
  BY DEF StInv, Values, HasPut

\* The holder returns.
LEMMA ReturnKeeps ==
    ASSUME StInv, NEW j \in Jobs, lock = j, pc' = [pc EXCEPT ![j] = "done"], lock' = None, UNCHANGED <<snap, buf>>,
           IsMeta(meta'), DOMAIN rows' = Slots, DOMAIN truth' = Meters,
           BaseOf(meta', rows', truth', torn', unread'), CoverOf(meta', truth', unsettled'),
           \A p \in torn' : p[1] \in unsettled'
    PROVE  StInv'
<1>1. /\ pc' \in [Jobs -> Active \cup {"idle", "done"}]
      /\ \A k \in Jobs : pc'[k] \notin Active
  BY DEF StInv, Turns, Active
<1>2. Turns'
  BY <1>1, NoneIsNoJob DEF Turns
<1>3. ~HasPut'
  BY DEF HasPut
<1>4. Values'
  BY <1>3 DEF Values
<1>5. (\A k \in Jobs : pc[k] \in Active \ {"getMeta"} => Copy(k))' /\ (\A k \in Jobs : pc[k] = "setLines" => Fresh(k))'
  BY <1>1 DEF Active
<1>. QED BY <1>2, <1>4, <1>5 DEF StInv

\* The holder goes on.
LEMMA GotoKeeps ==
    ASSUME StInv, NEW j \in Jobs, lock = j, NEW l \in Active \ {"getMeta"}, pc' = [pc EXCEPT ![j] = l], lock' = lock,
           IsMeta(meta'), DOMAIN rows' = Slots, DOMAIN truth' = Meters, DOMAIN snap' = Jobs, DOMAIN buf' = Jobs,
           Copy(j)', l = "setLines" => Fresh(j)', Values', \A p \in torn' : p[1] \in unsettled'
    PROVE  StInv'
<1>1. /\ pc' \in [Jobs -> Active \cup {"idle", "done"}]
      /\ \A k \in Jobs : pc'[k] = IF k = j THEN l ELSE pc[k]
      /\ \A k \in Jobs \ {j} : pc[k] \notin Active
  BY DEF StInv, Turns, Active
<1>2. Turns'
  BY <1>1 DEF StInv, Turns
<1>3. (\A k \in Jobs : pc[k] \in Active \ {"getMeta"} => Copy(k))'
  BY <1>1
<1>4. (\A k \in Jobs : pc[k] = "setLines" => Fresh(k))'
  BY <1>1 DEF Active
<1>. QED BY <1>2, <1>3, <1>4 DEF StInv

\* More metering points or wider periods cover the values as well.
LEMMA CoverGrows ==
    ASSUME NEW mt, NEW t, NEW R, NEW T, NEW to, NEW un, NEW us,
           \A m \in Meters, s \in Slots : mt[m] # None /\ Covered(mt, m, s) /\ t[m] # None => Covered(t, m, s),
           BaseOf(mt, R, T, to, un), CoverOf(mt, T, us), \A p \in to : p[1] \in us
    PROVE  CoverOf(t, T, us)
<1>1. SUFFICES ASSUME NEW m \in Meters \ us, NEW s \in Slots, T[m][s] # None, t[m] # None PROVE Covered(t, m, s)
  BY DEF CoverOf
<1>2. mt[m] # None
  BY <1>1 DEF BaseOf
<1>. QED BY <1>1, <1>2 DEF CoverOf

\* Interrupted: the metering points of the job may be torn, and are unsettled.
LEMMA InterruptedKeeps ==
    ASSUME StInv, NEW j \in Jobs, lock = j, pc[j] \in {"setLines", "widen", "setMeta"}, NEW w, Interrupted(j, w),
           UNCHANGED <<meta, unread>>,
           w = {} => BaseOf(meta, rows', truth', torn, unread) /\ CoverOf(meta, truth', unsettled),
           w # {} => BaseOf(snap[j], rows', truth', torn, unread),
           j.kind = "delete" => CoverOf(meta, truth', unsettled),
           \A m \in Meters \ (JobMeters(j) \cup unsettled), s \in Slots : truth'[m][s] # None /\ meta[m] # None => Covered(meta, m, s)
    PROVE  /\ BaseOf(meta', rows', truth', torn', unread') /\ CoverOf(meta', truth', unsettled')
           /\ \A p \in torn' : p[1] \in unsettled'
<1>1. Copy(j)
  BY DEF StInv, Active
<1>2. CASE w = {} \/ j.kind = "delete"
  <2>1. torn' = torn /\ unsettled' = unsettled
    BY <1>2 DEF Interrupted
  <2>2. BaseOf(meta, rows', truth', torn, unread)
    <3>1. CASE w = {}
      BY <3>1
    <3>2. CASE w # {}
      <4>1. SamePoints(meta, snap[j])
        BY <1>1, <1>2, <3>2 DEF Copy
      <4>. QED BY <3>2, <4>1, BaseSame
    <3>. QED BY <3>1, <3>2
  <2>3. CoverOf(meta, truth', unsettled)
    BY <1>2
  <2>. QED BY <2>1, <2>2, <2>3 DEF StInv
<1>3. CASE w # {} /\ j.kind # "delete"
  <2>1. /\ torn' = torn \cup {<<m, snap[j][m].idx>> : m \in {n \in JobMeters(j) : meta[n] = None}}
        /\ unsettled' = unsettled \cup JobMeters(j)
    BY Zenon, <1>3 DEF Interrupted
  <2>2. \A m \in Meters : snap[j][m] # None /\ meta[m] = None => <<m, snap[j][m].idx>> \in torn'
    BY Zenon, <1>1, <2>1 DEF Copy
  <2>3. BaseOf(meta, rows', truth', torn', unread)
    BY Zenon, <1>1, <1>3, <2>1, <2>2, BaseTorn DEF Copy
  <2>4. CoverOf(meta, truth', unsettled')
    BY Zenon, <2>1 DEF CoverOf
  <2>5. \A p \in torn' : p[1] \in unsettled'
    BY <2>1 DEF StInv
  <2>. QED BY <2>3, <2>4, <2>5
<1>. QED BY <1>2, <1>3

\* A write fails or the process ends while the holder writes its rows: those of w
\* are written.
LEMMA PutInterrupted ==
    ASSUME StInv, NEW j \in Jobs, lock = j, pc[j] = "setLines", NEW w \in SUBSET Pending(j), Put(j, w), Interrupted(j, w),
           UNCHANGED <<meta, unread>>
    PROVE  /\ BaseOf(meta', rows', truth', torn', unread') /\ CoverOf(meta', truth', unsettled')
           /\ \A p \in torn' : p[1] \in unsettled'
<1>1. Copy(j) /\ Fresh(j)
  BY DEF StInv, Active
<1>2. BaseOf(meta, rows, truth, torn, unread) /\ CoverOf(meta, truth, unsettled)
  BY NotPut
<1>3. BaseOf(snap[j], rows', truth', torn, unread)
  <2>1. BaseOf(snap[j], rows, truth, torn, unread)
    BY Zenon, <1>1, <1>2, BaseGrows DEF Copy
  <2>. QED BY Zenon, <1>1, <2>1, PutBase DEF Copy
<1>4. \A m \in Meters, s \in Slots :
          truth'[m][s] = IF s \in w /\ s \in SlotsOf(j, m) /\ snap[j][m] # None
                         THEN IF j.kind = "delete" THEN None ELSE <<m, j>>
                         ELSE truth[m][s]
  BY DEF Put
<1>5. \A m \in Meters \ JobMeters(j) : SlotsOf(j, m) = {}
  BY DEF SlotsOf, JobMeters
<1>6. ASSUME w = {} PROVE BaseOf(meta, rows', truth', torn, unread) /\ CoverOf(meta, truth', unsettled)
  <2>1. \A s \in Slots : rows'[s] = rows[s]
    BY <1>6 DEF Put
  <2>2. \A m \in Meters, s \in Slots : truth'[m][s] = truth[m][s]
    BY <1>4, <1>6
  <2>3. BaseOf(meta, rows', truth', torn, unread)
    BY <1>2, <2>1, <2>2, BaseAt
  <2>. QED BY <1>2, <2>2, <2>3 DEF CoverOf
<1>7. j.kind = "delete" => CoverOf(meta, truth', unsettled)
  BY <1>2, <1>4 DEF CoverOf
<1>8. \A m \in Meters \ (JobMeters(j) \cup unsettled), s \in Slots : truth'[m][s] # None /\ meta[m] # None => Covered(meta, m, s)
  BY Zenon, <1>2, <1>4, <1>5 DEF CoverOf
<1>. QED BY <1>3, <1>6, <1>7, <1>8, InterruptedKeeps

\* The same while it widens or writes the record.
LEMMA RecordInterrupted ==
    ASSUME StInv, NEW j \in Jobs, lock = j, pc[j] \in {"widen", "setMeta"}, Interrupted(j, Pending(j)),
           UNCHANGED <<meta, rows, truth, unread>>
    PROVE  /\ BaseOf(meta', rows', truth', torn', unread') /\ CoverOf(meta', truth', unsettled')
           /\ \A p \in torn' : p[1] \in unsettled'
<1>1. Copy(j)
  BY DEF StInv, Active
<1>2. j.kind # "delete"
  BY <1>1 DEF Copy
<1>3. CASE Pending(j) = {}
  <2>1. BaseOf(meta, rows, truth, torn, unread) /\ CoverOf(meta, truth, unsettled)
    BY <1>3, NotPut
  <2>. QED BY <1>2, <1>3, <2>1, InterruptedKeeps DEF CoverOf
<1>4. CASE Pending(j) # {}
  <2>1. HasPut
    BY <1>4, NoneIsNoJob DEF HasPut
  <2>2. BaseOf(snap[j], rows, truth, torn, unread)
    BY <2>1 DEF StInv, Values
  <2>3. \A m \in Meters \ (JobMeters(j) \cup unsettled), s \in Slots : truth[m][s] # None /\ meta[m] # None => Covered(meta, m, s)
    <3>1. \A m \in Meters \ JobMeters(j) : SlotsOf(j, m) = {}
      BY DEF SlotsOf, JobMeters
    <3>. QED BY <2>1, <3>1 DEF StInv, Values
  <2>. QED BY <1>2, <1>4, <2>2, <2>3, InterruptedKeeps
<1>. QED BY <1>3, <1>4

-----------------------------------------------------------------------------
(* The steps of a job.                                                     *)

LEMMA LockWritesKeeps ==
    ASSUME StInv, NEW j \in Jobs, LockWrites(j)
    PROVE  StInv'
<1>1. /\ pc' \in [Jobs -> Active \cup {"idle", "done"}]
      /\ \A k \in Jobs : pc'[k] = IF k = j THEN "getMeta" ELSE pc[k]
      /\ \A k \in Jobs : pc[k] \notin Active
  BY NoneIsNoJob DEF LockWrites, StInv, Turns, Active
<1>2. Turns'
  BY <1>1 DEF LockWrites, Turns, Active
<1>3. ~HasPut /\ ~HasPut'
  BY Zenon, <1>1, NoneIsNoJob DEF LockWrites, HasPut
<1>4. Values'
  BY <1>3 DEF LockWrites, StInv, Values
<1>5. (\A k \in Jobs : pc[k] \in Active \ {"getMeta"} => Copy(k))' /\ (\A k \in Jobs : pc[k] = "setLines" => Fresh(k))'
  BY <1>1 DEF Active
<1>. QED BY <1>2, <1>4, <1>5 DEF LockWrites, StInv

\* A step that changes nothing of the store returns.
LEMMA QuietReturn ==
    ASSUME StInv, NEW j \in Jobs, lock = j, pc[j] \notin {"widen", "setMeta"}, Return(j),
           UNCHANGED <<meta, rows, truth, torn, unread, unsettled>>
    PROVE  StInv'
<1>1. BaseOf(meta, rows, truth, torn, unread) /\ CoverOf(meta, truth, unsettled)
  BY NotPut
<1>2. pc' = [pc EXCEPT ![j] = "done"] /\ lock' = None /\ UNCHANGED <<snap, buf>>
  BY DEF Return
<1>. QED BY Zenon, <1>1, <1>2, ReturnKeeps DEF StInv

LEMMA Holder ==
    ASSUME StInv, NEW j \in Jobs, pc[j] \in Active
    PROVE  lock = j
  BY DEF StInv, Turns

\* GetMeta with the record t as the job's copy.
LEMMA CopyTaken ==
    ASSUME StInv, NEW j \in Jobs, pc[j] = "getMeta", NEW t, NEW l \in {"register", "getRows"},
           snap' = [snap EXCEPT ![j] = t], Goto(j, l), UNCHANGED <<meta, rows, truth, torn, unread, unsettled, buf>>,
           IsMeta(t), Extends(meta, t), \A m \in Meters \ JobMeters(j) : t[m] = meta[m],
           l = "register" => /\ j.kind \in {"energy", "register"}
                             /\ \A m \in Meters : t[m] # meta[m] => meta[m] = None /\ t[m].period = None,
           l = "getRows" => j.kind \in {"energy", "excel", "delete"} /\ (j.kind # "excel" => SamePoints(meta, t)),
           j.kind = "excel" => Widened(meta, t, j)
    PROVE  StInv'
<1>1. lock = j
  BY Holder DEF Active
<1>2. pc' = [pc EXCEPT ![j] = l] /\ lock' = lock
  BY Zenon DEF Goto
<1>3. pc'[j] = l /\ snap'[j] = t
  BY Zenon, <1>2 DEF StInv, Turns
<1>4. Copy(j)'
  BY Zenon, <1>3 DEF Copy
<1>5. BaseOf(meta, rows, truth, torn, unread) /\ CoverOf(meta, truth, unsettled)
  BY Zenon, <1>1, NotPut
<1>6. Values'
  <2>1. ~HasPut'
    BY <1>1, <1>2, <1>3 DEF HasPut
  <2>. QED BY Zenon, <1>5, <2>1 DEF Values
<1>7. l \in Active \ {"getMeta"} /\ l # "setLines"
  BY DEF Active
<1>. QED BY Zenon, <1>1, <1>2, <1>4, <1>6, <1>7, GotoKeeps DEF StInv

LEMMA GetMetaKeeps ==
    ASSUME StInv, NEW j \in Jobs, GetMeta(j)
    PROVE  StInv'
<1>1. pc[j] = "getMeta" /\ UNCHANGED <<meta, rows, truth, torn, unread, unsettled>> /\ lock = j
  BY Holder DEF GetMeta, Active
<1>2. PICK reg : reg = registerBlocks(meta, j.blocks)
  OBVIOUS
<1>3. IsMeta(reg) /\ \A m \in Meters : reg[m] # meta[m] => m \in JobMeters(j) /\ meta[m] = None /\ reg[m].period = None
  BY <1>2, RegisterFacts DEF StInv
<1>4. Extends(meta, reg)
  BY <1>3 DEF Extends
<1>5. CASE Return(j)
  BY <1>1, <1>5, QuietReturn
<1>6. CASE /\ j.kind = "energy" /\ snap' = [snap EXCEPT ![j] = reg] /\ UNCHANGED buf
           /\ Goto(j, IF reg # meta THEN "register" ELSE "getRows")
  <2>1. CASE reg # meta
    BY Zenon, <1>1, <1>3, <1>4, <1>6, <2>1, CopyTaken
  <2>2. CASE reg = meta
    <3>1. SamePoints(meta, reg)
      BY <2>2 DEF SamePoints
    <3>. QED BY Zenon, <1>1, <1>3, <1>4, <1>6, <2>2, <3>1, CopyTaken
  <2>. QED BY <2>1, <2>2
<1>7. CASE j.kind = "register" /\ snap' = [snap EXCEPT ![j] = reg] /\ UNCHANGED buf /\ Goto(j, "register")
  BY Zenon, <1>1, <1>3, <1>4, <1>7, CopyTaken
<1>8. CASE j.kind = "excel" /\ snap' = [snap EXCEPT ![j] = widenMetaPeriods(reg, j.blocks)] /\ UNCHANGED buf /\ Goto(j, "getRows")
  <2>1. PICK t : t = widenMetaPeriods(reg, j.blocks)
    OBVIOUS
  <2>2. /\ IsMeta(t) /\ SamePoints(reg, t) /\ Widened(reg, t, j)
        /\ \A m \in Meters \ JobMeters(j) : t[m] = reg[m]
    BY <1>3, <2>1, WidenFacts
  <2>3. Extends(meta, t)
    BY <1>4, <2>2 DEF Extends, SamePoints
  <2>4. \A m \in Meters \ JobMeters(j) : t[m] = meta[m]
    BY <1>3, <2>2
  <2>5. Widened(meta, t, j)
    <3>1. \A m \in Meters, s \in Slots : meta[m] # None => reg[m] = meta[m]
      BY <1>3
    <3>. QED BY <2>2, <3>1 DEF Widened, Covered
  <2>. QED BY Zenon, <1>1, <1>8, <2>1, <2>2, <2>3, <2>4, <2>5, CopyTaken
<1>9. CASE j.kind = "delete" /\ snap' = [snap EXCEPT ![j] = meta] /\ UNCHANGED buf /\ Goto(j, "getRows")
  <2>1. Extends(meta, meta) /\ SamePoints(meta, meta) /\ IsMeta(meta)
    BY DEF Extends, SamePoints, StInv
  <2>. QED BY Zenon, <1>1, <1>9, <2>1, CopyTaken
<1>10. j.kind \in Kinds
  BY JobFacts
<1>. QED BY Zenon, <1>2, <1>5, <1>6, <1>7, <1>8, <1>9, <1>10 DEF GetMeta, Kinds

LEMMA RegisterKeeps ==
    ASSUME StInv, NEW j \in Jobs, Register(j)
    PROVE  StInv'
<1>1. pc[j] = "register" /\ UNCHANGED <<rows, truth, torn, unread, unsettled>> /\ lock = j
  BY Holder DEF Register, Active
<1>2. CASE Return(j) /\ UNCHANGED meta
  BY <1>1, <1>2, QuietReturn
<1>3. CASE meta' = snap[j] /\ IF j.kind = "register" THEN Return(j) ELSE Goto(j, "getRows") /\ UNCHANGED <<snap, buf>>
  <2>1. PICK t : t = snap[j] /\ t = meta'
    BY <1>3
  <2>2. Copy(j)
    BY <1>1 DEF StInv, Active
  <2>3. /\ IsMeta(t) /\ Extends(meta, t) /\ j.kind \in {"energy", "register"}
        /\ \A m \in Meters : t[m] # meta[m] => meta[m] = None
    BY Zenon, <1>1, <2>1, <2>2 DEF Copy
  <2>4. BaseOf(meta, rows, truth, torn, unread) /\ CoverOf(meta, truth, unsettled) /\ \A p \in torn : p[1] \in unsettled
    BY <1>1, NotPut DEF StInv
  <2>5. BaseOf(t, rows, truth, torn, unread)
    BY <2>3, <2>4, BaseGrows
  <2>6. CoverOf(t, truth, unsettled)
    <3>1. \A m \in Meters, s \in Slots : meta[m] # None /\ Covered(meta, m, s) /\ t[m] # None => Covered(t, m, s)
      BY Zenon, <2>3 DEF Covered
    <3>. QED BY <2>4, <3>1, CoverGrows
  <2>7. CASE j.kind = "register"
    BY Zenon, <1>1, <1>3, <2>1, <2>3, <2>4, <2>5, <2>6, <2>7, ReturnKeeps DEF Return, StInv
  <2>8. CASE j.kind = "energy"
    <3>1. pc' = [pc EXCEPT ![j] = "getRows"] /\ lock' = lock /\ UNCHANGED <<snap, buf>>
      BY <1>3, <2>8 DEF Goto
    <3>2. pc'[j] = "getRows" /\ snap'[j] = t
      BY Zenon, <2>1, <3>1 DEF StInv, Turns
    <3>3. Copy(j)'
      BY Zenon, <2>1, <2>3, <2>8, <3>2 DEF Copy, Extends, SamePoints
    <3>4. Values'
      BY Zenon, <1>1, <2>1, <2>5, <2>6, <3>1, <3>2 DEF Values, HasPut
    <3>. QED BY Zenon, <1>1, <2>1, <2>3, <3>1, <3>3, <3>4, GotoKeeps DEF StInv, Active
  <2>. QED BY <2>3, <2>7, <2>8
<1>. QED BY <1>2, <1>3 DEF Register

\* Updated: the rows as they were read, but for the job's slots.
LEMMA UpdatedFacts ==
    ASSUME NEW j, NEW t, NEW rd, NEW s \in Slots, Updated(j, t, rd)[s] # None, NEW i \in Idx
    PROVE  Updated(j, t, rd)[s][i] =
               IF Owners(s, i, j, t) = {} THEN rd[s][i]
               ELSE IF j.kind = "delete" THEN None ELSE <<CHOOSE m \in Owners(s, i, j, t) : TRUE, j>>
<1>1. CASE j.kind # "delete"
  <2>1. Updated(j, t, rd)[s] = importEnergyValuesV2(rd[s], s, j, t)
    BY <1>1 DEF Updated
  <2>. QED BY <1>1, <2>1 DEF importEnergyValuesV2
<1>2. CASE j.kind = "delete"
  <2>1. Updated(j, t, rd)[s] = inspectMeteringSlots(rd[s], s, j, t)
    BY <1>2 DEF Updated
  <2>. QED BY <1>2, <2>1 DEF inspectMeteringSlots
<1>. QED BY Zenon, <1>1, <1>2

LEMMA GetRowsKeeps ==
    ASSUME StInv, NEW j \in Jobs, GetRows(j)
    PROVE  StInv'
<1>1. pc[j] = "getRows" /\ UNCHANGED <<meta, rows, truth, torn, unsettled>> /\ lock = j
  BY Holder DEF GetRows, Active
<1>2. CASE Return(j) /\ UNCHANGED unread
  BY <1>1, <1>2, QuietReturn
<1>3. CASE \E rd : /\ buf' = [buf EXCEPT ![j] = Updated(j, snap[j], rd)]
                   /\ unread \subseteq unread'
                   /\ \A s \in Slots, i \in Idx : rd[s][i] = rows[s][i] \/ (s \in unread' /\ rd[s][i] = None)
                   /\ Goto(j, "setLines") /\ UNCHANGED snap
  <2>1. PICK rd : /\ buf' = [buf EXCEPT ![j] = Updated(j, snap[j], rd)]
                  /\ unread \subseteq unread'
                  /\ \A s \in Slots, i \in Idx : rd[s][i] = rows[s][i] \/ (s \in unread' /\ rd[s][i] = None)
                  /\ Goto(j, "setLines") /\ UNCHANGED snap
    BY Zenon, <1>3
  <2>2. /\ pc' = [pc EXCEPT ![j] = "setLines"] /\ lock' = lock
        /\ pc'[j] = "setLines" /\ buf'[j] = Updated(j, snap[j], rd) /\ snap'[j] = snap[j] /\ DOMAIN buf' = Jobs
    BY Zenon, <2>1 DEF Goto, StInv, Turns
  <2>3. Fresh(j)'
    <3>1. SUFFICES ASSUME NEW s \in Slots, buf'[j][s] # None, NEW i \in Idx
                   PROVE  IF Owners(s, i, j, snap[j]) = {}
                          THEN buf'[j][s][i] = rows[s][i] \/ (s \in unread' /\ buf'[j][s][i] = None)
                          ELSE buf'[j][s][i] = IF j.kind = "delete" THEN None
                                               ELSE <<CHOOSE m \in Owners(s, i, j, snap[j]) : TRUE, j>>
      BY Zenon, <1>1, <2>2, FreshAt
    <3>2. buf'[j][s][i] = IF Owners(s, i, j, snap[j]) = {} THEN rd[s][i]
                          ELSE IF j.kind = "delete" THEN None ELSE <<CHOOSE m \in Owners(s, i, j, snap[j]) : TRUE, j>>
      <4>1. s \in Slots /\ i \in Idx /\ Updated(j, snap[j], rd)[s] # None
        BY Zenon, <2>2, <3>1
      <4>. QED BY <2>2, <4>1, UpdatedFacts
    <3>. QED BY Zenon, <2>1, <3>2
  <2>4. Copy(j)'
    <3>1. Copy(j)
      BY <1>1 DEF StInv, Active
    <3>. QED BY Zenon, <1>1, <2>1, <2>2, <3>1 DEF Copy
  <2>5. Values'
    <3>1. BaseOf(meta, rows, truth, torn, unread) /\ CoverOf(meta, truth, unsettled)
      BY Zenon, <1>1, NotPut
    <3>2. BaseOf(meta, rows, truth, torn, unread')
      BY Zenon, <2>1, <3>1, BaseAt
    <3>3. ~HasPut'
      BY <1>1, <2>2 DEF HasPut
    <3>. QED BY <1>1, <3>1, <3>2, <3>3 DEF Values
  <2>. QED BY Zenon, <1>1, <2>1, <2>2, <2>3, <2>4, <2>5, GotoKeeps DEF StInv, Active
<1>4. ASSUME buf' = [buf EXCEPT ![j] = Updated(j, snap[j], rows)], Goto(j, "setLines"), UNCHANGED <<snap, unread, count>>
      PROVE  StInv'
  BY Zenon, <1>3, <1>4
<1>5. ASSUME NEW s \in ReadRange(j), unread' = unread \cup {s}, Goto(j, "setLines"), UNCHANGED snap,
             buf' = [buf EXCEPT ![j] = Updated(j, snap[j], [rows EXCEPT ![s] = [i \in Idx |-> None]])]
      PROVE  StInv'
  <2>1. PICK rd : rd = [rows EXCEPT ![s] = [i \in Idx |-> None]]
    BY Zenon
  <2>2. \A u \in Slots, i \in Idx : rd[u][i] = rows[u][i] \/ (u \in unread' /\ rd[u][i] = None)
    BY <1>5, <2>1 DEF StInv
  <2>3. buf' = [buf EXCEPT ![j] = Updated(j, snap[j], rd)] /\ unread \subseteq unread'
    BY Zenon, <1>5, <2>1
  <2>. QED BY Zenon, <1>3, <1>5, <2>2, <2>3
<1>. QED BY Zenon, <1>2, <1>4, <1>5 DEF GetRows

\* SetLines has put the rows w.
LEMMA PutFacts ==
    ASSUME StInv, NEW j \in Jobs, lock = j, pc[j] = "setLines", NEW w \in SUBSET Pending(j), Put(j, w)
    PROVE  /\ BaseOf(snap[j], rows', truth', torn, unread)
           /\ w = {} \/ j.kind # "excel" => BaseOf(meta, rows', truth', torn, unread)
           /\ w = {} \/ j.kind = "delete" => CoverOf(meta, truth', unsettled)
           /\ j.kind = "excel" => CoverOf(snap[j], truth', unsettled)
           /\ \A m \in Meters \ unsettled, s \in Slots :
                  truth'[m][s] # None /\ meta[m] # None => Covered(meta, m, s) \/ s \in SlotsOf(j, m)
           /\ DOMAIN rows' = Slots /\ DOMAIN truth' = Meters
<1>1. Copy(j) /\ Fresh(j)
  BY DEF StInv, Active
<1>2. BaseOf(meta, rows, truth, torn, unread) /\ CoverOf(meta, truth, unsettled)
  BY Zenon, NotPut
<1>3. BaseOf(snap[j], rows', truth', torn, unread)
  <2>1. BaseOf(snap[j], rows, truth, torn, unread)
    BY Zenon, <1>1, <1>2, BaseGrows DEF Copy
  <2>. QED BY Zenon, <1>1, <2>1, PutBase DEF Copy
<1>4. \A m \in Meters, s \in Slots :
          truth'[m][s] = IF s \in w /\ s \in SlotsOf(j, m) /\ snap[j][m] # None
                         THEN IF j.kind = "delete" THEN None ELSE <<m, j>>
                         ELSE truth[m][s]
  BY DEF Put
<1>6. ASSUME j.kind # "excel" PROVE BaseOf(meta, rows', truth', torn, unread)
  <2>1. SamePoints(meta, snap[j])
    BY Zenon, <1>1, <1>6 DEF Copy
  <2>. QED BY Zenon, <1>3, <2>1, BaseSame
<1>7. ASSUME w = {} PROVE BaseOf(meta, rows', truth', torn, unread) /\ CoverOf(meta, truth', unsettled)
  <2>1. \A s \in Slots : rows'[s] = rows[s]
    BY <1>7 DEF Put
  <2>2. \A m \in Meters, s \in Slots : truth'[m][s] = truth[m][s]
    BY Zenon, <1>4, <1>7
  <2>3. BaseOf(meta, rows', truth', torn, unread)
    <3>1. unread \subseteq unread
      OBVIOUS
    <3>. QED BY <1>2, <2>1, <2>2, <3>1, BaseAt
  <2>. QED BY <1>2, <2>2, <2>3 DEF CoverOf
<1>8. j.kind = "delete" => CoverOf(meta, truth', unsettled)
  BY <1>2, <1>4 DEF CoverOf
<1>9. ASSUME j.kind = "excel", NEW m \in Meters \ unsettled, NEW s \in Slots, truth'[m][s] # None, snap[j][m] # None
      PROVE  Covered(snap[j], m, s)
  <2>1. Widened(meta, snap[j], j)
    BY <1>1, <1>9 DEF Copy
  <2>2. CASE s \in SlotsOf(j, m)
    BY <1>9, <2>1, <2>2 DEF Widened
  <2>3. CASE s \notin SlotsOf(j, m)
    <3>1. truth[m][s] # None
      BY Zenon, <1>4, <1>9, <2>3
    <3>2. meta[m] # None
      BY Zenon, <1>2, <1>9, <3>1 DEF BaseOf, StInv
    <3>3. Covered(meta, m, s)
      BY <1>2, <3>1, <3>2 DEF CoverOf
    <3>. QED BY <1>9, <2>1, <3>2, <3>3 DEF Widened
  <2>. QED BY Zenon, <2>2, <2>3
<1>10. \A m \in Meters \ unsettled, s \in Slots :
           truth'[m][s] # None /\ meta[m] # None => Covered(meta, m, s) \/ s \in SlotsOf(j, m)
  BY Zenon, <1>2, <1>4 DEF CoverOf
<1>11. DOMAIN rows' = Slots /\ DOMAIN truth' = Meters
  BY Zenon DEF Put
<1>12. j.kind = "excel" => CoverOf(snap[j], truth', unsettled)
  BY <1>9 DEF CoverOf
<1>. QED BY Zenon, <1>3, <1>6, <1>7, <1>8, <1>10, <1>11, <1>12

LEMMA SetLinesKeeps ==
    ASSUME StInv, NEW j \in Jobs, SetLines(j)
    PROVE  StInv'
<1>1. pc[j] = "setLines" /\ UNCHANGED <<meta, unread>> /\ lock = j /\ Copy(j) /\ Fresh(j)
  BY Holder DEF SetLines, Active, StInv
<1>2. CASE Return(j) /\ \E w \in SUBSET Pending(j) : Put(j, w) /\ Interrupted(j, w)
  <2>1. PICK w \in SUBSET Pending(j) : Put(j, w) /\ Interrupted(j, w)
    BY <1>2
  <2>2. /\ BaseOf(meta', rows', truth', torn', unread') /\ CoverOf(meta', truth', unsettled')
        /\ \A p \in torn' : p[1] \in unsettled'
    BY Zenon, <1>1, <2>1, PutInterrupted
  <2>3. DOMAIN rows' = Slots /\ DOMAIN truth' = Meters /\ IsMeta(meta')
    BY Zenon, <1>1, <2>1, PutFacts DEF StInv
  <2>4. pc' = [pc EXCEPT ![j] = "done"] /\ lock' = None /\ UNCHANGED <<snap, buf>>
    BY <1>2 DEF Return
  <2>. QED BY Zenon, <1>1, <2>2, <2>3, <2>4, ReturnKeeps
<1>3. ASSUME NEW w \in SUBSET Pending(j), Put(j, w), UNCHANGED <<torn, unsettled>>,
             w # Pending(j), j.kind = "delete", UNCHANGED <<pc, lock, snap>>,
             buf' = [buf EXCEPT ![j] = [s \in Slots |-> IF s \in w THEN None ELSE buf[j][s]]]
      PROVE  StInv'
  <2>1. pc' = [pc EXCEPT ![j] = "setLines"] /\ DOMAIN buf' = Jobs /\ buf'[j] = [s \in Slots |-> IF s \in w THEN None ELSE buf[j][s]]
    BY Zenon, <1>1, <1>3 DEF StInv, Turns
  <2>2. Copy(j)'
    BY Zenon, <1>1, <1>3 DEF Copy
  <2>3. Fresh(j)'
    <3>1. \A s \in Slots : buf'[j][s] # None => s \notin w /\ buf'[j][s] = buf[j][s] /\ rows'[s] = rows[s]
      BY Zenon, <1>3, <2>1 DEF Put
    <3>. QED BY Zenon, <1>1, <1>3, <3>1, SameFresh
  <2>4. Values'
    <3>1. ~HasPut'
      BY <1>1, <1>3 DEF HasPut
    <3>. QED BY Zenon, <1>1, <1>3, <3>1, PutFacts DEF Values
  <2>. QED BY Zenon, <1>1, <1>3, <2>1, <2>2, <2>3, <2>4, GotoKeeps, PutFacts DEF StInv, Active
<1>4. ASSUME Put(j, Pending(j)), UNCHANGED <<torn, unsettled>>, NEW l, Goto(j, l), UNCHANGED <<snap, buf>>,
             (j.kind = "energy" /\ l = "widen") \/ (j.kind = "excel" /\ l = "setMeta")
      PROVE  StInv'
  <2>1. pc' = [pc EXCEPT ![j] = l] /\ lock' = lock /\ pc'[j] = l /\ l \in Active \ {"getMeta", "setLines"}
    BY Zenon, <1>1, <1>4 DEF StInv, Turns, Goto, Active
  <2>2. (j.kind = "energy" /\ l = "widen") \/ (j.kind = "excel" /\ l = "setMeta")
    BY Zenon, <1>4
  <2>3. Copy(j)'
    BY Zenon, <1>1, <1>4, <2>1, <2>2 DEF Copy
  <2>4. Pending(j)' = Pending(j)
    BY <1>4 DEF Pending
  <2>5. Values'
    <3>1. HasPut' <=> Pending(j) # {}
      BY Zenon, <1>1, <2>1, <2>2, <2>4, NoneIsNoJob DEF HasPut
    <3>2. CASE Pending(j) = {}
      BY Zenon, <1>1, <1>4, <3>1, <3>2, PutFacts DEF Values
    <3>3. CASE Pending(j) # {}
      BY Zenon, <1>1, <1>4, <2>1, <2>2, <3>1, <3>3, PutFacts DEF Values
    <3>. QED BY <3>2, <3>3
  <2>. QED BY Zenon, <1>1, <1>4, <2>1, <2>3, <2>5, GotoKeeps, PutFacts DEF StInv
<1>5. ASSUME Put(j, Pending(j)), UNCHANGED <<torn, unsettled>>, j.kind = "delete", Return(j)
      PROVE  StInv'
  <2>1. pc' = [pc EXCEPT ![j] = "done"] /\ lock' = None /\ UNCHANGED <<snap, buf>>
    BY <1>5 DEF Return
  <2>. QED BY Zenon, <1>1, <1>5, <2>1, PutFacts, ReturnKeeps DEF StInv
<1>6. CASE ~\E w \in SUBSET Pending(j) : Put(j, w) /\ Interrupted(j, w) /\ Return(j)
  <2>. DEFINE first == {s \in Pending(j) : Cardinality({t \in Pending(j) : t < s}) < flushRows}
              w == IF j.kind = "delete" THEN first ELSE Pending(j)
  <2>1. /\ Put(j, w) /\ UNCHANGED <<torn, unsettled>>
        /\ IF w # Pending(j)
           THEN /\ buf' = [buf EXCEPT ![j] = [s \in Slots |-> IF s \in w THEN None ELSE buf[j][s]]]
                /\ UNCHANGED <<pc, lock, snap>>
           ELSE CASE j.kind = "energy" -> Goto(j, "widen") /\ UNCHANGED <<snap, buf>>
                  [] j.kind = "excel"  -> Goto(j, "setMeta") /\ UNCHANGED <<snap, buf>>
                  [] j.kind = "delete" -> Return(j)
    BY Zenon, <1>6 DEF SetLines
  <2>2. w \in SUBSET Pending(j) /\ (w # Pending(j) => j.kind = "delete")
    OBVIOUS
  <2>3. j.kind \in {"energy", "excel", "delete"}
    BY <1>1 DEF Copy
  <2>. HIDE DEF w
  <2>4. CASE w # Pending(j)
    BY <1>3, <2>1, <2>2, <2>4
  <2>5. CASE w = Pending(j)
    BY Zenon, <1>4, <1>5, <2>1, <2>3, <2>5
  <2>. QED BY <2>4, <2>5
<1>. QED BY <1>2, <1>6

LEMMA WidenKeeps ==
    ASSUME StInv, NEW j \in Jobs, Widen(j)
    PROVE  StInv'
<1>1. pc[j] = "widen" /\ UNCHANGED <<meta, rows, truth, unread>> /\ lock = j /\ Copy(j)
  BY Zenon, Holder DEF Widen, Active, StInv
<1>2. PICK new : new = widenMetaPeriods(meta, j.blocks)
  OBVIOUS
<1>3. j.kind = "energy" /\ SamePoints(meta, snap[j])
  BY Zenon, <1>1 DEF Copy
<1>4. /\ IsMeta(new) /\ SamePoints(meta, new) /\ Widened(meta, new, j)
      /\ \A m \in Meters \ JobMeters(j) : new[m] = meta[m]
  BY <1>2, WidenFacts DEF StInv
<1>5. BaseOf(meta, rows, truth, torn, unread)
  <2>1. CASE HasPut
    BY Zenon, <1>1, <1>3, <2>1, BaseSame DEF StInv, Values
  <2>2. CASE ~HasPut
    BY Zenon, <2>2 DEF StInv, Values
  <2>. QED BY Zenon, <2>1, <2>2
<1>6. \A m \in Meters \ unsettled, s \in Slots :
          truth[m][s] # None /\ meta[m] # None => Covered(meta, m, s) \/ s \in SlotsOf(j, m)
  <2>1. CASE HasPut
    BY Zenon, <1>1, <2>1 DEF StInv, Values
  <2>2. CASE ~HasPut
    BY Zenon, <2>2 DEF StInv, Values, CoverOf
  <2>. QED BY Zenon, <2>1, <2>2
<1>7. CoverOf(new, truth, unsettled)
  BY <1>4, <1>6 DEF CoverOf, Widened, SamePoints
<1>8. CASE new = meta /\ Return(j) /\ UNCHANGED <<torn, unsettled>>
  <2>1. pc' = [pc EXCEPT ![j] = "done"] /\ lock' = None /\ UNCHANGED <<snap, buf>>
    BY <1>8 DEF Return
  <2>. QED BY Zenon, <1>1, <1>5, <1>7, <1>8, <2>1, ReturnKeeps DEF StInv
<1>9. CASE snap' = [snap EXCEPT ![j] = new] /\ UNCHANGED <<buf, torn, unsettled>> /\ Goto(j, "setMeta")
  <2>1. /\ pc' = [pc EXCEPT ![j] = "setMeta"] /\ lock' = lock
        /\ pc'[j] = "setMeta" /\ snap'[j] = new /\ DOMAIN snap' = Jobs
    BY Zenon, <1>9 DEF Goto, StInv, Turns
  <2>2. Copy(j)'
    <3>1. Extends(meta, new)
      BY <1>4 DEF SamePoints, Extends
    <3>. QED BY Zenon, <1>1, <1>3, <1>4, <2>1, <3>1 DEF Copy
  <2>3. Pending(j)' = Pending(j)
    BY <1>9 DEF Pending
  <2>4. Values'
    <3>1. HasPut' <=> HasPut
      BY Zenon, <1>1, <2>1, <2>3 DEF HasPut
    <3>2. CASE ~HasPut
      BY Zenon, <1>1, <1>9, <3>1, <3>2 DEF StInv, Values
    <3>3. CASE HasPut
      <4>1. BaseOf(new, rows, truth, torn, unread)
        <5>1. SamePoints(new, meta)
          BY <1>4 DEF SamePoints
        <5>. QED BY <1>5, <5>1, BaseSame
      <4>. QED BY Zenon, <1>1, <1>6, <1>7, <1>9, <2>1, <3>1, <3>3, <4>1 DEF Values
    <3>. QED BY <3>2, <3>3
  <2>. QED BY Zenon, <1>1, <1>9, <2>1, <2>2, <2>4, GotoKeeps DEF StInv, Active
<1>10. CASE Return(j) /\ Interrupted(j, Pending(j))
  <2>1. pc' = [pc EXCEPT ![j] = "done"] /\ lock' = None /\ UNCHANGED <<snap, buf>>
    BY <1>10 DEF Return
  <2>2. /\ BaseOf(meta', rows', truth', torn', unread') /\ CoverOf(meta', truth', unsettled')
        /\ \A p \in torn' : p[1] \in unsettled'
    BY <1>1, <1>10, RecordInterrupted
  <2>. QED BY Zenon, <1>1, <2>1, <2>2, ReturnKeeps DEF StInv
<1>. QED BY Zenon, <1>2, <1>8, <1>9, <1>10 DEF Widen

LEMMA SetMetaKeeps ==
    ASSUME StInv, NEW j \in Jobs, SetMeta(j)
    PROVE  StInv'
<1>1. pc[j] = "setMeta" /\ UNCHANGED <<rows, truth, unread>> /\ lock = j /\ Copy(j)
  BY Holder DEF SetMeta, Active, StInv
<1>2. pc' = [pc EXCEPT ![j] = "done"] /\ lock' = None /\ UNCHANGED <<snap, buf>>
  BY DEF SetMeta, Return
<1>3. CASE meta' = snap[j] /\ UNCHANGED <<torn, unsettled>>
  <2>1. PICK t : t = snap[j]
    BY Zenon
  <2>2. IsMeta(t) /\ Extends(meta, t) /\ Widened(meta, t, j)
    BY <1>1, <2>1 DEF Copy
  <2>3. BaseOf(t, rows, truth, torn, unread) /\ CoverOf(t, truth, unsettled)
    <3>1. CASE HasPut
      BY <1>1, <2>1, <3>1 DEF StInv, Values
    <3>2. CASE ~HasPut
      <4>1. BaseOf(meta, rows, truth, torn, unread) /\ CoverOf(meta, truth, unsettled)
        BY <3>2 DEF StInv, Values
      <4>2. BaseOf(t, rows, truth, torn, unread)
        BY <2>2, <4>1, BaseGrows
      <4>3. \A m \in Meters, s \in Slots : meta[m] # None /\ Covered(meta, m, s) /\ t[m] # None => Covered(t, m, s)
        BY <2>2 DEF Widened
      <4>4. \A p \in torn : p[1] \in unsettled
        BY DEF StInv
      <4>. QED BY Zenon, <4>1, <4>2, <4>3, <4>4, CoverGrows
    <3>. QED BY Zenon, <3>1, <3>2
  <2>. QED BY Zenon, <1>1, <1>2, <1>3, <2>1, <2>2, <2>3, ReturnKeeps DEF StInv
<1>4. CASE UNCHANGED meta /\ Interrupted(j, Pending(j))
  <2>1. /\ BaseOf(meta', rows', truth', torn', unread') /\ CoverOf(meta', truth', unsettled')
        /\ \A p \in torn' : p[1] \in unsettled'
    BY <1>1, <1>4, RecordInterrupted
  <2>. QED BY Zenon, <1>1, <1>2, <1>4, <2>1, ReturnKeeps DEF StInv
<1>. QED BY Zenon, <1>3, <1>4 DEF SetMeta

LEMMA CrashKeeps ==
    ASSUME StInv, Crash
    PROVE  StInv'
<1>1. PICK j \in Jobs : j = lock
  BY DEF Crash, StInv, Turns
<1>2. pc[j] \in Active /\ UNCHANGED <<meta, unread, snap, buf>> /\ pc' = [pc EXCEPT ![j] = "done"] /\ lock' = None
  BY <1>1 DEF Crash, StInv, Turns
<1>3. IsMeta(meta')
  BY <1>2 DEF StInv
<1>4. CASE pc[j] = "setLines"
  <2>1. PICK w \in SUBSET Pending(j) : Put(j, w) /\ Interrupted(j, w)
    BY <1>1, <1>4 DEF Crash
  <2>2. DOMAIN rows' = Slots /\ DOMAIN truth' = Meters
    BY <2>1 DEF Put
  <2>3. /\ BaseOf(meta', rows', truth', torn', unread') /\ CoverOf(meta', truth', unsettled')
        /\ \A p \in torn' : p[1] \in unsettled'
    BY <1>1, <1>2, <1>4, <2>1, PutInterrupted
  <2>. QED BY Zenon, <1>1, <1>2, <1>3, <2>2, <2>3, ReturnKeeps
<1>5. CASE pc[j] \in {"widen", "setMeta"}
  <2>1. Interrupted(j, Pending(j)) /\ UNCHANGED <<rows, truth>>
    BY <1>1, <1>5 DEF Crash
  <2>2. /\ BaseOf(meta', rows', truth', torn', unread') /\ CoverOf(meta', truth', unsettled')
        /\ \A p \in torn' : p[1] \in unsettled'
    BY <1>1, <1>2, <1>5, <2>1, RecordInterrupted
  <2>. QED BY Zenon, <1>1, <1>2, <1>3, <2>1, <2>2, ReturnKeeps DEF StInv
<1>6. CASE pc[j] \notin {"setLines", "widen", "setMeta"}
  <2>1. UNCHANGED <<rows, truth, torn, unsettled>>
    BY <1>1, <1>6 DEF Crash
  <2>2. BaseOf(meta, rows, truth, torn, unread) /\ CoverOf(meta, truth, unsettled)
    BY <1>1, <1>6, NotPut
  <2>. QED BY Zenon, <1>1, <1>2, <1>3, <2>1, <2>2, ReturnKeeps DEF StInv
<1>. QED BY <1>4, <1>5, <1>6

-----------------------------------------------------------------------------
(* The invariant and what follows from it.                                 *)

LEMMA InitStInv == Init => StInv
<1>. SUFFICES ASSUME Init PROVE StInv
  OBVIOUS
<1>1. \A m \in Meters : meta[m] = None
  BY DEF Init
<1>2. IsMeta(meta)
  BY <1>1 DEF Init, IsMeta
<1>3. Turns
  BY NoneIsNoJob DEF Init, Turns, Active
<1>4. BaseOf(meta, rows, truth, torn, unread)
  BY <1>1 DEF BaseOf, Init, NoRows
<1>5. CoverOf(meta, truth, unsettled)
  BY <1>1 DEF CoverOf
<1>6. ~HasPut
  BY DEF Init, HasPut
<1>7. \A j \in Jobs : pc[j] \notin Active
  BY DEF Init, Active
<1>8. Values
  BY <1>4, <1>5, <1>6 DEF Values
<1>. QED BY <1>2, <1>3, <1>7, <1>8 DEF StInv, Init, Active

LEMMA NextStInv == StInv /\ [Next]_vars => StInv'
<1>. SUFFICES ASSUME StInv, [Next]_vars PROVE StInv'
  BY Zenon
<1>1. CASE UNCHANGED vars
  <2>1. Turns' /\ (\A p \in torn' : p[1] \in unsettled')
    BY Zenon, <1>1 DEF vars, StInv, Turns
  <2>2. \A j \in Jobs : Copy(j)' <=> Copy(j)
    BY <1>1 DEF vars, Copy
  <2>3. \A j \in Jobs : Fresh(j) => Fresh(j)'
    BY Zenon, <1>1, SameFresh DEF vars
  <2>4. Values' <=> Values
    <3>1. HasPut' <=> HasPut
      BY <1>1 DEF vars, HasPut, Pending
    <3>. QED BY Zenon, <1>1, <3>1 DEF vars, Values
  <2>. QED BY Zenon, <1>1, <2>1, <2>2, <2>3, <2>4 DEF vars, StInv
<1>2. ASSUME NEW j \in Jobs, Step(j) PROVE StInv'
  BY <1>2, LockWritesKeeps, GetMetaKeeps, RegisterKeeps, GetRowsKeeps, SetLinesKeeps, WidenKeeps, SetMetaKeeps DEF Step
<1>3. CASE Crash
  BY <1>3, CrashKeeps
<1>. QED BY <1>1, <1>2, <1>3 DEF Next, Terminated

LEMMA AlwaysStInv == Spec => []StInv
  BY InitStInv, NextStInv, PTL DEF Spec

\* What a query reads for a registered metering point is what the last import,
\* upload or delete wrote for it, whatever the order of the writers, their read
\* and write errors and crashes; but for the two gaps of the Excel upload
\* (ImportExcelEnergyFileNew, StoreEnergyV2, DeleteMeteringPointRawData, LockWrites).
THEOREM StoreReadsMatchWrites == Spec => []ReadsMatchWrites
<1>1. StInv => ReadsMatchWrites
  <2>. SUFFICES ASSUME StInv PROVE ReadsMatchWrites
    OBVIOUS
  <2>1. BaseOf(meta, rows, truth, torn, unread) \/ \E t : Extends(meta, t) /\ BaseOf(t, rows, truth, torn, unread)
    <3>1. CASE ~HasPut
      BY <3>1 DEF StInv, Values
    <3>2. CASE HasPut
      <4>1. lock \in Jobs /\ Copy(lock)
        BY <3>2 DEF StInv, HasPut, Turns, Active
      <4>. QED BY Zenon, <3>2, <4>1 DEF StInv, Values, Copy
    <3>. QED BY Zenon, <3>1, <3>2
  <2>2. PICK t : Extends(meta, t) /\ BaseOf(t, rows, truth, torn, unread)
    <3>1. Extends(meta, meta)
      BY DEF Extends
    <3>. QED BY <2>1, <3>1
  <2>. QED BY <2>2 DEF ReadsMatchWrites, ReadsMatch, ReadValue, Extends, BaseOf
<1>. QED BY <1>1, AlwaysStInv, PTL

\* Between two writers the period in cpmeta/0 covers every value of the metering
\* point, but where a write failed between rows and record (widenMetaPeriods,
\* updateMeta, updateMetaCP).
THEOREM StorePeriodCoversData == Spec => []PeriodCoversData
<1>1. StInv => PeriodCoversData
  <2>. SUFFICES ASSUME StInv, lock = None PROVE PeriodCoversData
    BY Zenon DEF PeriodCoversData
  <2>1. CoverOf(meta, truth, unsettled)
    BY DEF StInv, Values, HasPut
  <2>. QED BY <2>1 DEF PeriodCoversData, CoverOf, Covered
<1>. QED BY <1>1, AlwaysStInv, PTL

\* A metering point keeps its SourceIdx, and no other gets it: every write of
\* cpmeta/0 extends the record as it is then (registerMeteringPoint, metaInfoOf,
\* updateMeta).
THEOREM StoreIndexStable == Spec => IndexStable
<1>. DEFINE Stable == \A m \in Meters : meta[m] # None =>
                         /\ meta'[m] # None /\ meta'[m].idx = meta[m].idx
                         /\ \A n \in Meters \ {m} : meta'[n] # None => meta'[n].idx # meta[m].idx
<1>1. StInv /\ StInv' /\ [Next]_vars => [Stable]_vars
  <2>. SUFFICES ASSUME StInv, StInv', Next PROVE Stable
    OBVIOUS
  <2>1. Extends(meta, meta')
    <3>1. ASSUME UNCHANGED meta PROVE Extends(meta, meta')
      BY Zenon, <3>1 DEF Extends
    <3>2. ASSUME NEW j \in Jobs, pc[j] \in {"register", "setMeta"}, meta' = snap[j] PROVE Extends(meta, meta')
      BY <3>2 DEF StInv, Copy, Active
    <3>3. ASSUME NEW j \in Jobs, Step(j)
          PROVE  UNCHANGED meta \/ (pc[j] \in {"register", "setMeta"} /\ meta' = snap[j])
      BY Zenon, <3>3 DEF Step, LockWrites, GetMeta, Register, GetRows, SetLines, Widen, SetMeta
    <3>4. Crash \/ Terminated => UNCHANGED meta
      BY DEF Crash, Terminated, vars
    <3>. QED BY <3>1, <3>2, <3>3, <3>4 DEF Next
  <2>2. IsMeta(meta')
    BY Zenon DEF StInv
  <2>. QED BY <2>1, <2>2 DEF Extends, IsMeta
<1>2. [][Stable]_vars <=> IndexStable
  BY PTL DEF IndexStable
<1>. QED BY <1>1, <1>2, AlwaysStInv, PTL DEF Spec

=============================================================================
