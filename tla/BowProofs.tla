----------------------------- MODULE BowProofs -----------------------------
(* Proofs about the bow layer: the ids of buckets are never shared, what a *)
(* call has put survives, and a read returns exactly its records in order. *)
EXTENDS Bow, FiniteSetTheorems, WellFoundedInduction, TLAPS

-----------------------------------------------------------------------------
(* The inductive invariant.                                                *)

\* The buckets by name: as the process knows them, or as a new one will.
Names == IF bow.open THEN bow.buckets ELSE badger.meta

\* The ids that the sequence has given away lie below this one.
Given == FirstId + (IF bow.open THEN bow.next ELSE badger.seq)

\* What a read of the key in the bucket n may return.
MayOf(n, key) == IF <<n, key>> \in DOMAIN may THEN may[<<n, key>>] ELSE {Absent}

\* The records that the state is made of.
Shapes ==
    /\ DOMAIN badger = {"meta", "seq", "rows"}
    /\ DOMAIN bow = {"open", "buckets", "next", "leased"}
    /\ DOMAIN usr = Users
    /\ \A u \in Users : DOMAIN usr[u] = {"pc", "op", "id", "rest", "snap", "got"}

\* The sequence on disk is the end of the lease of an open database, and every
\* id that was given away lies below the next one.
Sequence ==
    /\ badger.seq \in Nat /\ bow.open \in BOOLEAN
    /\ bow.open => bow.next \in Nat /\ bow.leased = badger.seq /\ bow.next <= bow.leased
    /\ \A o \in owner : o[1] \in FirstId .. MaxBuckets /\ o[1] < Given
    /\ \A o, p \in owner : o[1] = p[1] => o[2] = p[2]

\* The buckets of the process are the ones on disk and the unsaved ones.
Known ==
    /\ \A n \in DOMAIN Names : <<Names[n], n>> \in owner
    /\ bow.open => /\ DOMAIN badger.meta \subseteq DOMAIN bow.buckets
                   /\ \A n \in DOMAIN badger.meta : badger.meta[n] = bow.buckets[n]
                   /\ unsaved = DOMAIN bow.buckets \ DOMAIN badger.meta
    /\ ~bow.open => bow.buckets = <<>> /\ unsaved = {}

\* A call runs on an open database, and holds the id of its bucket.
CallOK(u) ==
    usr[u].pc # "idle" =>
        /\ bow.open /\ usr[u].op \in BowOps
        /\ usr[u].pc \in {"create", "put", "batch"} => usr[u].rest \in Seq(Records)
        /\ usr[u].pc # "create" => usr[u].op.name \in DOMAIN bow.buckets /\ usr[u].id = bow.buckets[usr[u].op.name]

\* Every record lies in a bucket that was made; a bucket holds what it may; and
\* what is in no bucket may be absent.
Data ==
    /\ \A ik \in DOMAIN badger.rows : \E o \in owner : ik[1] = o[1]
    /\ \A x \in DOMAIN may : x = <<x[1], x[2]>> /\ x[2] \in Seq(Nat)
    /\ \A n \in DOMAIN Names : \A key \in Seq(Nat) : Value(key, badger.rows, Names[n]) \in MayOf(n, key)
    /\ \A x \in DOMAIN may : x[1] \notin DOMAIN Names => Absent \in may[x]

BInv == Shapes /\ Sequence /\ Known /\ (\A u \in Users : CallOK(u)) /\ Data

-----------------------------------------------------------------------------
(* Internal keys and written rows.                                         *)

\* internalKey: the id comes first, and the key can be told from it.
LEMMA KeyParts ==
    ASSUME NEW id, NEW k \in Seq(Nat)
    PROVE  /\ internalKey(id, k)[1] = id
           /\ DOMAIN internalKey(id, k) = 1 .. Len(k) + 1
           /\ \A i \in 1 .. Len(k) : internalKey(id, k)[i + 1] = k[i]
  BY SMTT(30) DEF internalKey

LEMMA KeysApart ==
    ASSUME NEW a, NEW b, NEW k \in Seq(Nat), NEW l \in Seq(Nat), internalKey(a, k) = internalKey(b, l)
    PROVE  a = b /\ k = l
<1>1. a = b
  BY KeyParts
<1>2. Len(k) = Len(l)
  <2>1. 1 .. Len(k) + 1 = 1 .. Len(l) + 1
    BY KeyParts
  <2>2. Len(k) \in Nat /\ Len(l) \in Nat
    OBVIOUS
  <2>. QED BY <2>1, <2>2
<1>3. \A i \in 1 .. Len(k) : k[i] = l[i]
  <2>1. \A i \in 1 .. Len(k) : internalKey(a, k)[i + 1] = k[i]
    BY KeyParts
  <2>2. \A i \in 1 .. Len(l) : internalKey(b, l)[i + 1] = l[i]
    BY SMTT(30), KeyParts
  <2>. QED BY Zenon, <1>2, <2>1, <2>2
<1>4. k = [i \in 1 .. Len(k) |-> k[i]] /\ l = [i \in 1 .. Len(l) |-> l[i]]
  OBVIOUS
<1>5. [i \in 1 .. Len(k) |-> k[i]] = [i \in 1 .. Len(l) |-> l[i]]
  BY <1>2, <1>3
<1>. QED BY Zenon, <1>1, <1>4, <1>5

\* A set of indices of a sequence has a last one (by induction on the set: a
\* smallest subset without one cannot exist).
LEMMA LastIndex ==
    ASSUME NEW n \in Nat, NEW S \in SUBSET (1 .. n), S # {}
    PROVE  \E i \in S : \A j \in S : j <= i
<1>. DEFINE HasLast(X) == \E i \in X : \A j \in X : j <= i
            Bad == {X \in FiniteSubsetsOf(S) : X # {} /\ ~HasLast(X)}
<1>1. IsFiniteSet(S)
  <2>1. IsFiniteSet(1 .. n)
    BY FS_Interval, 1 \in Int, n \in Int
  <2>. QED BY Zenon, <2>1, FS_Subset
<1>2. ASSUME Bad # {} PROVE FALSE
  <2>1. Bad \subseteq FiniteSubsetsOf(S) /\ IsWellFoundedOn(StrictSubsetOrdering(S), FiniteSubsetsOf(S))
    BY FS_StrictSubsetOrderingWellFounded
  <2>. HIDE DEF Bad
  <2>2. PICK X \in Bad : \A Y \in Bad : ~(<<Y, X>> \in StrictSubsetOrdering(S))
    BY <1>2, <2>1, WFMin
  <2>. USE DEF Bad
  <2>3. X \subseteq S /\ IsFiniteSet(X) /\ X # {} /\ ~HasLast(X)
    BY <2>2 DEF FiniteSubsetsOf
  <2>4. PICK x \in X : TRUE
    BY Zenon, <2>3
  <2>5. X \ {x} \in FiniteSubsetsOf(S) /\ <<X \ {x}, X>> \in StrictSubsetOrdering(S)
    BY Zenon, <2>3, <2>4, FS_RemoveElement DEF FiniteSubsetsOf, StrictSubsetOrdering
  <2>6. X \ {x} = {} \/ HasLast(X \ {x})
    BY Zenon, <2>2, <2>5
  <2>7. CASE X \ {x} = {}
    BY <2>3, <2>4, <2>7
  <2>8. CASE HasLast(X \ {x})
    <3>1. PICK i \in X \ {x} : \A j \in X \ {x} : j <= i
      BY <2>8
    <3>2. CASE x <= i
      BY <2>3, <2>4, <3>1, <3>2
    <3>3. CASE i <= x
      BY <2>3, <2>4, <3>1, <3>3
    <3>. QED BY <2>3, <2>4, <3>1, <3>2, <3>3
  <2>. QED BY <2>6, <2>7, <2>8
<1>. QED BY <1>1, <1>2 DEF FiniteSubsetsOf

\* The keys of rows are keys.
LEMMA RowKeys ==
    ASSUME NEW rs \in Seq(Records), NEW i \in DOMAIN rs
    PROVE  rs[i].key \in Seq(Nat)
<1>1. rs[i] \in Records
  OBVIOUS
<1>2. \A r \in Records : r.key \in Seq(Nat)
  BY Zenon DEF Records
<1>. QED BY <1>1, <1>2

\* Written: the rows lie in the bucket id; a key of the rows has the value of a
\* row with this key.
LEMMA WrittenIds ==
    ASSUME NEW id, NEW rs \in Seq(Records), NEW ik \in DOMAIN Written(id, rs)
    PROVE  ik[1] = id
<1>1. PICK i \in DOMAIN rs : ik = internalKey(id, rs[i].key)
  BY DEF Written
<1>2. rs[i].key \in Seq(Nat)
  BY RowKeys
<1>. QED BY <1>1, <1>2, KeyParts

LEMMA WrittenRows ==
    ASSUME NEW id, NEW rs \in Seq(Records), NEW k \in Seq(Nat)
    PROVE  /\ (\E r \in Range(rs) : r.key = k) => internalKey(id, k) \in DOMAIN Written(id, rs)
           /\ internalKey(id, k) \in DOMAIN Written(id, rs) =>
                 \E r \in Range(rs) : r.key = k /\ Written(id, rs)[internalKey(id, k)] = r.val
<1>1. (\E r \in Range(rs) : r.key = k) => internalKey(id, k) \in DOMAIN Written(id, rs)
  BY DEF Written, Range
<1>2. ASSUME internalKey(id, k) \in DOMAIN Written(id, rs)
      PROVE  \E r \in Range(rs) : r.key = k /\ Written(id, rs)[internalKey(id, k)] = r.val
  <2>. DEFINE S == {i \in DOMAIN rs : rs[i].key = k}
              IsLast(i) == /\ internalKey(id, rs[i].key) = internalKey(id, k)
                           /\ \A j \in DOMAIN rs : j > i => rs[j].key # rs[i].key
  <2>1. \A i \in DOMAIN rs : rs[i].key \in Seq(Nat)
    BY RowKeys
  <2>2. S # {}
    BY <1>2, <2>1, KeysApart DEF Written
  <2>3. Len(rs) \in Nat /\ S \in SUBSET (1 .. Len(rs))
    OBVIOUS
  <2>4. PICK i \in S : \A j \in S : j <= i
    BY Zenon, <2>2, <2>3, LastIndex
  <2>5. IsLast(i)
    BY <2>4
  <2>6. Written(id, rs)[internalKey(id, k)] = rs[CHOOSE l \in DOMAIN rs : IsLast(l)].val
    BY <1>2 DEF Written
  <2>7. PICK l \in DOMAIN rs : l = (CHOOSE m \in DOMAIN rs : IsLast(m)) /\ IsLast(l)
    BY <2>4, <2>5
  <2>8. rs[l].key = k
    BY <2>1, <2>7, KeysApart
  <2>. QED BY Zenon, <2>6, <2>7, <2>8 DEF Range
<1>. QED BY <1>1, <1>2

-----------------------------------------------------------------------------
(* Writes.                                                                 *)

\* Rows on disk after a write of the rows ws to the bucket id: other buckets
\* keep theirs, and a key has the value of a row, or else its old one.
LEMMA OverValue ==
    ASSUME NEW id, NEW ws \in Seq(Records), NEW rows, NEW other, NEW key \in Seq(Nat)
    PROVE  LET new == Over(Written(id, ws), rows)
           IN  /\ other # id => Value(key, new, other) = Value(key, rows, other)
               /\ \/ \E r \in Range(ws) : r.key = key /\ Value(key, new, id) = r.val
                  \/ (\A r \in Range(ws) : r.key # key) /\ Value(key, new, id) = Value(key, rows, id)
<1>. DEFINE w == Written(id, ws)
            new == Over(w, rows)
            ik(i) == internalKey(i, key)
<1>1. DOMAIN new = DOMAIN w \cup DOMAIN rows
  BY DEF Over
<1>2. \A k \in DOMAIN new : new[k] = IF k \in DOMAIN w THEN w[k] ELSE rows[k]
  BY DEF Over
<1>3. ASSUME other # id PROVE Value(key, new, other) = Value(key, rows, other)
  <2>1. ik(other)[1] = other
    BY KeyParts
  <2>2. ik(other) \notin DOMAIN w
    BY <1>3, <2>1, WrittenIds
  <2>. HIDE DEF w, new
  <2>. QED BY <1>1, <1>2, <2>2 DEF Value
<1>4. CASE ik(id) \in DOMAIN w
  <2>1. PICK r \in Range(ws) : r.key = key /\ w[ik(id)] = r.val
    BY <1>4, WrittenRows
  <2>. HIDE DEF w, new
  <2>2. Value(key, new, id) = r.val
    BY <1>1, <1>2, <1>4, <2>1 DEF Value
  <2>. QED BY <1>3, <2>1, <2>2 DEF w, new
<1>5. CASE ik(id) \notin DOMAIN w
  <2>1. \A r \in Range(ws) : r.key # key
    BY <1>5, WrittenRows
  <2>. HIDE DEF w, new
  <2>2. Value(key, new, id) = Value(key, rows, id)
    BY <1>1, <1>2, <1>5 DEF Value
  <2>. QED BY <1>3, <2>1, <2>2 DEF w, new
<1>. QED BY <1>4, <1>5

\* A bucket's name follows from its id.
LEMMA NameOfId ==
    ASSUME Sequence, Known, NEW n \in DOMAIN Names, NEW m \in DOMAIN Names, n # m
    PROVE  Names[n] # Names[m]
<1>1. <<Names[n], n>> \in owner /\ <<Names[m], m>> \in owner
  BY DEF Known
<1>2. \A o, p \in owner : o[1] = p[1] => o[2] = p[2]
  BY DEF Sequence
<1>. QED BY <1>1, <1>2

\* A write of the rows rs to the bucket of name, of which the rows ws reach the
\* disk, all of them unless it fails, leaves in every bucket what it may hold.
LEMMA WriteKeeps ==
    ASSUME BInv, bow.open, NEW name \in DOMAIN bow.buckets,
           NEW rs \in Seq(Records), NEW ws \in Seq(Records), NEW failed \in BOOLEAN,
           Range(ws) \subseteq Range(rs), failed \/ Range(ws) = Range(rs),
           \/ badger'.rows = Over(Written(bow.buckets[name], ws), badger.rows)
           \/ failed /\ badger'.rows = badger.rows,
           MayBe(name, rs, failed), UNCHANGED <<bow, owner, unsaved>>
    PROVE  Data'
<1>. DEFINE id == bow.buckets[name]
<1>1. Names = bow.buckets /\ Names' = bow.buckets
  BY DEF Names
<1>2. badger'.rows = Over(Written(id, ws), badger.rows) \/ (failed /\ badger'.rows = badger.rows)
  BY Zenon
<1>. DEFINE D == {<<name, r.key>> : r \in Range(rs)}
            V(x) == {r.val : r \in {q \in Range(rs) : q.key = x[2]}}
                    \cup (IF failed THEN IF x \in DOMAIN may THEN may[x] ELSE {Absent} ELSE {})
<1>4. /\ DOMAIN may' = D \cup DOMAIN may
      /\ \A x \in D : may'[x] = V(x)
      /\ \A x \in DOMAIN may \ D : may'[x] = may[x]
  BY DEF MayBe, Over
<1>5. \A ik \in DOMAIN badger'.rows : \E o \in owner' : ik[1] = o[1]
  <2>1. <<id, name>> \in owner
    BY <1>1 DEF BInv, Known
  <2>2. SUFFICES ASSUME NEW ik \in DOMAIN badger'.rows PROVE \E o \in owner : ik[1] = o[1]
    OBVIOUS
  <2>3. CASE ik \in DOMAIN badger.rows
    BY <2>3 DEF BInv, Data
  <2>4. CASE ik \in DOMAIN Written(id, ws)
    BY <2>1, <2>4, WrittenIds
  <2>. QED BY <1>2, <2>3, <2>4 DEF Over
<1>6. \A x \in DOMAIN may' : x = <<x[1], x[2]>> /\ x[2] \in Seq(Nat)
  <2>1. \A x \in DOMAIN may : x = <<x[1], x[2]>> /\ x[2] \in Seq(Nat)
    BY DEF BInv, Data
  <2>2. \A x \in D : x = <<x[1], x[2]>> /\ x[2] \in Seq(Nat)
    BY RowKeys DEF Range
  <2>. QED BY <1>4, <2>1, <2>2
<1>7. ASSUME NEW n \in DOMAIN Names', NEW key \in Seq(Nat)
      PROVE  Value(key, badger'.rows, Names'[n]) \in MayOf(n, key)'
  <2>1. Value(key, badger.rows, bow.buckets[n]) \in MayOf(n, key)
    BY <1>1, <1>7 DEF BInv, Data
  <2>2. CASE n # name
    <3>1. bow.buckets[n] # id
      BY <1>1, <1>7, <2>2, NameOfId DEF BInv
    <3>2. Value(key, badger'.rows, bow.buckets[n]) = Value(key, badger.rows, bow.buckets[n])
      BY <1>2, <3>1, OverValue
    <3>3. MayOf(n, key)' = MayOf(n, key)
      BY <1>4, <2>2 DEF MayOf
    <3>. QED BY <1>1, <2>1, <3>2, <3>3
  <2>3. CASE n = name
    <3>. DEFINE x == <<name, key>>
    <3>1. \/ \E r \in Range(ws) : r.key = key /\ Value(key, badger'.rows, id) = r.val
          \/ (failed \/ \A r \in Range(ws) : r.key # key) /\ Value(key, badger'.rows, id) = Value(key, badger.rows, id)
      BY SMTT(30), <1>2, OverValue
    <3>2. x \in D <=> \E r \in Range(rs) : r.key = key
      OBVIOUS
    <3>3. CASE \E r \in Range(ws) : r.key = key /\ Value(key, badger'.rows, id) = r.val
      <4>1. PICK r \in Range(ws) : r.key = key /\ Value(key, badger'.rows, id) = r.val
        BY <3>3
      <4>2. x \in D /\ r.val \in V(x)
        BY <3>2, <4>1
      <4>. HIDE DEF V, D
      <4>. QED BY <1>1, <1>4, <2>3, <4>1, <4>2 DEF MayOf
    <3>4. CASE (failed \/ \A r \in Range(ws) : r.key # key) /\ Value(key, badger'.rows, id) = Value(key, badger.rows, id)
      <4>1. CASE x \in D
        <5>1. failed
          BY <3>2, <3>4, <4>1
        <5>2. MayOf(n, key) \subseteq V(x)
          BY <2>3, <5>1 DEF MayOf
        <5>. HIDE DEF V, D
        <5>. QED BY Zenon, <1>1, <1>4, <2>1, <2>3, <3>4, <4>1, <5>2 DEF MayOf
      <4>2. CASE x \notin D
        <5>. HIDE DEF V, D
        <5>. QED BY <1>1, <1>4, <2>1, <2>3, <3>4, <4>2 DEF MayOf
      <4>. QED BY <4>1, <4>2
    <3>. QED BY <3>1, <3>3, <3>4
  <2>. QED BY <2>2, <2>3
<1>8. \A x \in DOMAIN may' : x[1] \notin DOMAIN Names' => Absent \in may'[x]
  <2>1. SUFFICES ASSUME NEW x \in DOMAIN may', x[1] \notin DOMAIN bow.buckets PROVE Absent \in may'[x]
    BY <1>1
  <2>2. x \notin D
    BY <2>1
  <2>. HIDE DEF V, D
  <2>. QED BY <1>1, <1>4, <2>1, <2>2 DEF BInv, Data
<1>. QED BY <1>5, <1>6, <1>7, <1>8 DEF Data

\* The database stays open, and with it the buckets that it has.
BucketsStay ==
    /\ bow.open => bow'.open
    /\ \A n \in DOMAIN bow.buckets : n \in DOMAIN bow'.buckets /\ bow'.buckets[n] = bow.buckets[n]

\* A call that ends, or goes on with the bucket that it holds.
LEMMA CallsKeep ==
    ASSUME BInv, NEW u \in Users, NEW call, usr' = [usr EXCEPT ![u] = call],
           DOMAIN call = {"pc", "op", "id", "rest", "snap", "got"},
           BucketsStay,
           call.pc # "idle" =>
               /\ bow'.open /\ call.op \in BowOps
               /\ call.pc \in {"create", "put", "batch"} => call.rest \in Seq(Records)
               /\ call.pc # "create" => call.op.name \in DOMAIN bow'.buckets /\ call.id = bow'.buckets[call.op.name]
    PROVE  /\ DOMAIN usr' = Users
           /\ \A v \in Users : DOMAIN usr'[v] = {"pc", "op", "id", "rest", "snap", "got"}
           /\ (\A v \in Users : CallOK(v))'
<1>1. DOMAIN usr' = Users /\ \A v \in Users : usr'[v] = IF v = u THEN call ELSE usr[v]
  BY DEF BInv, Shapes
<1>2. \A v \in Users : DOMAIN usr'[v] = {"pc", "op", "id", "rest", "snap", "got"}
  BY <1>1 DEF BInv, Shapes
<1>3. ASSUME NEW v \in Users PROVE CallOK(v)'
  <2>1. CallOK(v)
    BY DEF BInv
  <2>. QED BY <1>1, <2>1 DEF CallOK, BucketsStay
<1>. QED BY <1>1, <1>2, <1>3

\* Failed ends the call.
LEMMA FailedKeeps ==
    ASSUME BInv, NEW u \in Users, Failed(u), BucketsStay
    PROVE  /\ DOMAIN usr' = Users
           /\ \A v \in Users : DOMAIN usr'[v] = {"pc", "op", "id", "rest", "snap", "got"}
           /\ (\A v \in Users : CallOK(v))'
  BY Zenon, CallsKeep DEF Failed, Idler

\* A step that changes the rows alone keeps the ids and the names.
LEMMA IdsKept ==
    ASSUME BInv, DOMAIN badger' = DOMAIN badger, badger'.meta = badger.meta, badger'.seq = badger.seq,
           UNCHANGED <<bow, owner, unsaved>>
    PROVE  Sequence' /\ Known'
  BY DEF BInv, Sequence, Known, Given, Names

LEMMA PutKeeps ==
    ASSUME BInv, NEW u \in Users, Put(u)
    PROVE  BInv'
<1>. DEFINE name == usr[u].op.name
            rs   == usr[u].rest
<1>1. bow.open /\ name \in DOMAIN bow.buckets /\ usr[u].id = bow.buckets[name] /\ rs \in Seq(Records)
  <2>1. CallOK(u) /\ usr[u].pc = "put"
    BY DEF BInv, Put
  <2>. QED BY <2>1 DEF CallOK
<1>2. UNCHANGED <<bow, owner, unsaved>> /\ Failed(u)
  BY DEF Put
<1>3. CASE badger' = [badger EXCEPT !.rows = Over(Written(usr[u].id, rs), @)] /\ MayBe(name, rs, FALSE)
  <2>1. Data'
    <3>1. badger'.rows = Over(Written(bow.buckets[name], rs), badger.rows)
      BY <1>1, <1>3 DEF BInv, Shapes
    <3>. HIDE DEF name, rs
    <3>. QED BY Zenon, <1>1, <1>2, <1>3, <3>1, WriteKeeps
  <2>2. DOMAIN badger' = DOMAIN badger /\ badger'.meta = badger.meta /\ badger'.seq = badger.seq
    BY <1>3 DEF BInv, Shapes
  <2>. QED BY <1>2, <2>1, <2>2, FailedKeeps, IdsKept DEF BInv, Shapes, BucketsStay
<1>4. CASE MayBe(name, rs, TRUE) /\ UNCHANGED badger
  <2>1. Data'
    <3>1. badger'.rows = badger.rows
      BY <1>4
    <3>. HIDE DEF name, rs
    <3>. QED BY Zenon, <1>1, <1>2, <1>4, <3>1, WriteKeeps
  <2>. QED BY <1>2, <1>4, <2>1, FailedKeeps, IdsKept DEF BInv, Shapes, BucketsStay
<1>. QED BY Zenon, <1>3, <1>4 DEF Put

LEMMA SubRows ==
    ASSUME NEW rs \in Seq(Records), NEW m \in 0 .. Len(rs)
    PROVE  /\ SubSeq(rs, 1, m) \in Seq(Records) /\ SubSeq(rs, m + 1, Len(rs)) \in Seq(Records)
           /\ Len(SubSeq(rs, 1, m)) = m
           /\ Range(SubSeq(rs, 1, m)) \subseteq Range(rs)
<1>1. Len(SubSeq(rs, 1, m)) = m /\ \A i \in 1 .. m : SubSeq(rs, 1, m)[i] = rs[i]
  OBVIOUS
<1>2. SubSeq(rs, 1, m) \in Seq(Records) /\ SubSeq(rs, m + 1, Len(rs)) \in Seq(Records)
  OBVIOUS
<1>3. DOMAIN SubSeq(rs, 1, m) = 1 .. m /\ DOMAIN rs = 1 .. Len(rs)
  OBVIOUS
<1>4. Range(SubSeq(rs, 1, m)) \subseteq Range(rs)
  BY <1>1, <1>3 DEF Range
<1>. QED BY <1>1, <1>2, <1>4

\* PutBatch: a flush writes its chunk, or fails with a part of it written.
LEMMA PutBatchKeeps ==
    ASSUME BInv, NEW u \in Users, PutBatch(u)
    PROVE  BInv'
<1>. DEFINE name == usr[u].op.name
<1>1. /\ bow.open /\ name \in DOMAIN bow.buckets /\ usr[u].id = bow.buckets[name]
      /\ usr[u].rest \in Seq(Records) /\ usr[u].op \in BowOps /\ usr[u].pc = "batch"
  <2>1. CallOK(u) /\ usr[u].pc = "batch"
    BY DEF BInv, PutBatch
  <2>. QED BY <2>1 DEF CallOK
<1>2. UNCHANGED <<bow, owner, unsaved>>
  BY DEF PutBatch
<1>3. PICK n : n = IF Len(usr[u].rest) < FlushEvery THEN Len(usr[u].rest) ELSE FlushEvery
  OBVIOUS
<1>4. n \in 0 .. Len(usr[u].rest)
  BY <1>1, <1>3, BowConfig
<1>5. PICK chunk : chunk = SubSeq(usr[u].rest, 1, n)
  BY Zenon
<1>6. PICK rest : rest = SubSeq(usr[u].rest, n + 1, Len(usr[u].rest))
  BY Zenon
<1>7. chunk \in Seq(Records) /\ rest \in Seq(Records) /\ Len(chunk) = n
  BY <1>1, <1>4, <1>5, <1>6, SubRows
<1>8. CASE /\ badger' = [badger EXCEPT !.rows = Over(Written(usr[u].id, chunk), @)]
           /\ usr' = [usr EXCEPT ![u] = IF rest = <<>> THEN Idler ELSE [@ EXCEPT !.rest = rest]]
           /\ MayBe(name, chunk, FALSE)
  <2>1. badger'.rows = Over(Written(bow.buckets[name], chunk), badger.rows)
    BY <1>1, <1>8 DEF BInv, Shapes
  <2>2. Data'
    <3>. HIDE DEF name
    <3>. QED BY Zenon, <1>1, <1>2, <1>7, <1>8, <2>1, WriteKeeps
  <2>3. DOMAIN badger' = DOMAIN badger /\ badger'.meta = badger.meta /\ badger'.seq = badger.seq
    BY <1>8 DEF BInv, Shapes
  <2>4. PICK call : call = IF rest = <<>> THEN Idler ELSE [usr[u] EXCEPT !.rest = rest]
    BY Zenon
  <2>5. usr' = [usr EXCEPT ![u] = call] /\ DOMAIN call = {"pc", "op", "id", "rest", "snap", "got"}
    BY <1>8, <2>4 DEF BInv, Shapes, Idler
  <2>6. call.pc # "idle" =>
            /\ call.op \in BowOps /\ call.rest \in Seq(Records) /\ call.pc # "create"
            /\ call.op.name \in DOMAIN bow.buckets /\ call.id = bow.buckets[call.op.name]
    <3>1. CASE rest = <<>>
      BY <2>4, <3>1 DEF Idler
    <3>2. CASE rest # <<>>
      <4>1. call.pc = usr[u].pc /\ call.op = usr[u].op /\ call.id = usr[u].id /\ call.rest = rest
        BY <2>4, <3>2 DEF BInv, Shapes
      <4>. QED BY <1>1, <1>7, <4>1
    <3>. QED BY <3>1, <3>2
  <2>7. /\ DOMAIN usr' = Users
        /\ \A v \in Users : DOMAIN usr'[v] = {"pc", "op", "id", "rest", "snap", "got"}
        /\ (\A v \in Users : CallOK(v))'
    BY Zenon, <1>1, <1>2, <2>5, <2>6, CallsKeep DEF BucketsStay
  <2>. QED BY <1>2, <2>2, <2>3, <2>7, IdsKept DEF BInv, Shapes
<1>9. CASE /\ Failed(u) /\ MayBe(name, chunk, TRUE)
           /\ \E m \in 0 .. n - 1 : badger' = [badger EXCEPT !.rows = Over(Written(usr[u].id, SubSeq(chunk, 1, m)), @)]
  <2>1. PICK m \in 0 .. n - 1 : badger' = [badger EXCEPT !.rows = Over(Written(usr[u].id, SubSeq(chunk, 1, m)), @)]
    BY <1>9
  <2>2. PICK ws : ws = SubSeq(chunk, 1, m)
    BY Zenon
  <2>3. ws \in Seq(Records) /\ Range(ws) \subseteq Range(chunk)
    <3>1. m \in 0 .. Len(chunk)
      BY <1>4, <1>7, <2>1
    <3>. QED BY <1>7, <2>2, <3>1, SubRows
  <2>4. badger'.rows = Over(Written(bow.buckets[name], ws), badger.rows)
    BY <1>1, <2>1, <2>2 DEF BInv, Shapes
  <2>5. Data'
    <3>. HIDE DEF name
    <3>. QED BY Zenon, <1>1, <1>2, <1>7, <1>9, <2>3, <2>4, WriteKeeps
  <2>6. DOMAIN badger' = DOMAIN badger /\ badger'.meta = badger.meta /\ badger'.seq = badger.seq
    BY Zenon, <2>1 DEF BInv, Shapes
  <2>. QED BY <1>2, <1>9, <2>5, <2>6, FailedKeeps, IdsKept DEF BInv, Shapes, BucketsStay
<1>. QED BY Zenon, <1>3, <1>5, <1>6, <1>8, <1>9 DEF PutBatch

\* Delete: the key is absent, or nothing changes.
LEMMA DeleteKeeps ==
    ASSUME BInv, NEW u \in Users, Delete(u)
    PROVE  BInv'
<1>1. PICK name : name = usr[u].op.name
  OBVIOUS
<1>2. PICK key : key = usr[u].op.key
  OBVIOUS
<1>3. PICK id : id = bow.buckets[name]
  OBVIOUS
<1>4. bow.open /\ name \in DOMAIN bow.buckets /\ usr[u].id = id /\ key \in Seq(Nat)
  <2>1. CallOK(u) /\ usr[u].pc = "delete"
    BY DEF BInv, Delete
  <2>. QED BY <1>1, <1>2, <1>3, <2>1, BowConfig DEF CallOK
<1>5. UNCHANGED <<bow, owner, unsaved>> /\ Failed(u)
  BY DEF Delete
<1>6. CASE UNCHANGED <<badger, may>>
  <2>1. Data'
    BY <1>5, <1>6 DEF BInv, Data, Names, MayOf
  <2>. QED BY <1>5, <1>6, <2>1, FailedKeeps, IdsKept DEF BInv, Shapes, BucketsStay
<1>7. CASE /\ badger' = [badger EXCEPT !.rows = [k \in DOMAIN badger.rows \ {internalKey(id, key)} |-> badger.rows[k]]]
           /\ may' = Over([x \in {<<name, key>>} |-> {Absent}], may)
  <2>1. /\ DOMAIN badger' = DOMAIN badger /\ badger'.meta = badger.meta /\ badger'.seq = badger.seq
        /\ badger'.rows = [k \in DOMAIN badger.rows \ {internalKey(id, key)} |-> badger.rows[k]]
    BY <1>7 DEF BInv, Shapes
  <2>2. /\ DOMAIN may' = {<<name, key>>} \cup DOMAIN may
        /\ \A x \in DOMAIN may' : may'[x] = IF x = <<name, key>> THEN {Absent} ELSE may[x]
    BY <1>7 DEF Over
  <2>3. Names = bow.buckets /\ Names' = bow.buckets
    BY <1>4, <1>5 DEF Names
  <2>4. ASSUME NEW n \in DOMAIN bow.buckets, NEW k \in Seq(Nat)
        PROVE  Value(k, badger'.rows, bow.buckets[n]) \in MayOf(n, k)'
    <3>1. Value(k, badger.rows, bow.buckets[n]) \in MayOf(n, k)
      BY <2>3 DEF BInv, Data
    <3>2. CASE n = name /\ k = key
      BY <1>3, <2>1, <2>2, <3>2 DEF Value, MayOf
    <3>3. CASE ~(n = name /\ k = key)
      <4>1. internalKey(bow.buckets[n], k) # internalKey(id, key)
        BY <1>3, <1>4, <2>3, <3>3, NameOfId, KeysApart DEF BInv
      <4>2. Value(k, badger'.rows, bow.buckets[n]) = Value(k, badger.rows, bow.buckets[n])
        BY <2>1, <4>1 DEF Value
      <4>3. MayOf(n, k)' = MayOf(n, k)
        BY <2>2, <3>3 DEF MayOf
      <4>. QED BY <3>1, <4>2, <4>3
    <3>. QED BY <3>2, <3>3
  <2>5. Data'
    <3>1. \A ik \in DOMAIN badger'.rows : \E o \in owner' : ik[1] = o[1]
      BY <1>5, <2>1 DEF BInv, Data
    <3>2. \A x \in DOMAIN may' : x = <<x[1], x[2]>> /\ x[2] \in Seq(Nat)
      BY <1>4, <2>2 DEF BInv, Data
    <3>3. \A x \in DOMAIN may' : x[1] \notin DOMAIN Names' => Absent \in may'[x]
      BY <1>4, <2>2, <2>3 DEF BInv, Data
    <3>. QED BY <2>3, <2>4, <3>1, <3>2, <3>3 DEF Data
  <2>. QED BY <1>5, <2>1, <2>5, FailedKeeps, IdsKept DEF BInv, Shapes, BucketsStay
<1>. QED BY <1>1, <1>2, <1>3, <1>4, <1>6, <1>7 DEF Delete

-----------------------------------------------------------------------------
(* Reads and the look for a bucket change nothing but the call.            *)

LEMMA OnlyCalls ==
    ASSUME BInv, UNCHANGED <<badger, bow, owner, may, unsaved>>,
           DOMAIN usr' = Users,
           \A v \in Users : DOMAIN usr'[v] = {"pc", "op", "id", "rest", "snap", "got"},
           (\A v \in Users : CallOK(v))'
    PROVE  BInv'
  BY DEF BInv, Shapes, Sequence, Known, Data, Given, Names, MayOf

\* Has: the call goes on with the bucket that is known by now.
LEMMA HasKeeps ==
    ASSUME BInv, NEW u \in Users, usr[u].pc = "create", BucketsStay, bow'.open,
           usr[u].op.name \in DOMAIN bow'.buckets, Has(u, bow'.buckets[usr[u].op.name])
    PROVE  /\ DOMAIN usr' = Users
           /\ \A v \in Users : DOMAIN usr'[v] = {"pc", "op", "id", "rest", "snap", "got"}
           /\ (\A v \in Users : CallOK(v))'
<1>1. PICK call : call = [usr[u] EXCEPT !.pc = usr[u].op.kind, !.id = bow'.buckets[usr[u].op.name]]
  OBVIOUS
<1>2. usr' = [usr EXCEPT ![u] = call]
  BY Zenon, <1>1 DEF Has, BInv, Shapes
<1>3. /\ DOMAIN call = {"pc", "op", "id", "rest", "snap", "got"}
      /\ call.op = usr[u].op /\ call.rest = usr[u].rest /\ call.id = bow'.buckets[usr[u].op.name]
  BY <1>1 DEF BInv, Shapes
<1>4. call.op \in BowOps /\ call.rest \in Seq(Records)
  <2>1. CallOK(u)
    BY DEF BInv
  <2>. QED BY <1>3, <2>1 DEF CallOK
<1>. QED BY Zenon, <1>2, <1>3, <1>4, CallsKeep

LEMMA ReadsKeep ==
    ASSUME BInv, NEW u \in Users, Get(u) \/ newIter(u) \/ Next(u) \/ CloseIter(u)
    PROVE  BInv'
<1>1. UNCHANGED <<badger, bow, owner, may, unsaved>>
  BY Zenon DEF Get, newIter, Next, CloseIter
<1>2. BucketsStay
  BY <1>1 DEF BucketsStay
<1>3. CallOK(u) /\ usr[u].pc \notin {"idle", "create", "put", "batch"} /\ DOMAIN usr[u] = {"pc", "op", "id", "rest", "snap", "got"}
  BY DEF BInv, Shapes, Get, newIter, Next, CloseIter
<1>4. CASE CloseIter(u)
  BY <1>1, <1>2, <1>4, FailedKeeps, OnlyCalls DEF CloseIter
<1>5. CASE Get(u) \/ newIter(u) \/ Next(u)
  <2>1. \E call : /\ usr' = [usr EXCEPT ![u] = call]
                  /\ DOMAIN call = {"pc", "op", "id", "rest", "snap", "got"}
                  /\ call.op = usr[u].op /\ call.id = usr[u].id /\ call.pc \in {"next", "end", "error"}
    <3>1. CASE Get(u)
      <4>. DEFINE ik == internalKey(usr[u].id, usr[u].op.key)
                  v  == Value(usr[u].op.key, badger.rows, usr[u].id)
      <4>0. PICK pc : pc = IF v = Junk THEN "error" ELSE "end"
        OBVIOUS
      <4>1. usr' = [usr EXCEPT ![u].snap = badger.rows, ![u].pc = pc,
                               ![u].got = IF v \in {Absent, Junk} THEN <<>> ELSE <<ik>>]
        BY <3>1, <4>0 DEF Get
      <4>. HIDE DEF v, ik
      <4>2. PICK call : call = [usr[u] EXCEPT !.snap = badger.rows, !.pc = pc,
                                              !.got = IF v \in {Absent, Junk} THEN <<>> ELSE <<ik>>]
        OBVIOUS
      <4>3. usr' = [usr EXCEPT ![u] = call]
        BY Zenon, <4>1, <4>2 DEF BInv, Shapes
      <4>4. DOMAIN call = {"pc", "op", "id", "rest", "snap", "got"} /\ call.op = usr[u].op /\ call.id = usr[u].id /\ call.pc = pc
        BY <1>3, <4>2
      <4>. QED BY Zenon, <4>0, <4>3, <4>4
    <3>2. CASE newIter(u)
      <4>1. usr' = [usr EXCEPT ![u].pc = "next", ![u].snap = badger.rows]
        BY <3>2 DEF newIter
      <4>2. PICK call : call = [usr[u] EXCEPT !.pc = "next", !.snap = badger.rows]
        OBVIOUS
      <4>3. usr' = [usr EXCEPT ![u] = call]
        BY Zenon, <4>1, <4>2 DEF BInv, Shapes
      <4>4. DOMAIN call = {"pc", "op", "id", "rest", "snap", "got"} /\ call.op = usr[u].op /\ call.id = usr[u].id /\ call.pc = "next"
        BY <1>3, <4>2
      <4>. QED BY Zenon, <4>3, <4>4
    <3>3. CASE Next(u)
      <4>1. PICK call : call = IF AtEnd(u) THEN [usr[u] EXCEPT !.pc = "end"]
                               ELSE IF ~decodeItem(u) THEN [usr[u] EXCEPT !.pc = "error"]
                               ELSE [usr[u] EXCEPT !.got = Append(usr[u].got, Item(u))]
        BY Zenon
      <4>2. usr' = [usr EXCEPT ![u] = call] /\ usr[u].pc = "next"
        BY <3>3, <4>1 DEF Next
      <4>3. DOMAIN call = {"pc", "op", "id", "rest", "snap", "got"} /\ call.op = usr[u].op /\ call.id = usr[u].id
        BY <1>3, <4>1
      <4>4. call.pc \in {"next", "end", "error"}
        BY <1>3, <4>1, <4>2
      <4>. QED BY Zenon, <4>2, <4>3, <4>4
    <3>. QED BY <1>5, <3>1, <3>2, <3>3
  <2>2. PICK call : /\ usr' = [usr EXCEPT ![u] = call]
                    /\ DOMAIN call = {"pc", "op", "id", "rest", "snap", "got"}
                    /\ call.op = usr[u].op /\ call.id = usr[u].id /\ call.pc \in {"next", "end", "error"}
    BY Zenon, <2>1
  <2>3. /\ bow'.open /\ call.op \in BowOps
        /\ call.op.name \in DOMAIN bow'.buckets /\ call.id = bow'.buckets[call.op.name]
    BY <1>1, <1>3, <2>2 DEF CallOK
  <2>4. /\ DOMAIN usr' = Users
        /\ \A v \in Users : DOMAIN usr'[v] = {"pc", "op", "id", "rest", "snap", "got"}
        /\ (\A v \in Users : CallOK(v))'
    BY Zenon, <1>2, <2>2, <2>3, CallsKeep
  <2>. QED BY <1>1, <2>4, OnlyCalls
<1>. QED BY <1>4, <1>5

\* Bucket: the bucket is known, or the call is about to make it.
LEMMA BucketKeeps ==
    ASSUME BInv, NEW u \in Users, NEW op \in BowOps, Bucket(u, op)
    PROVE  BInv'
<1>1. UNCHANGED <<badger, bow, owner, may, unsaved>> /\ bow.open
  BY DEF Bucket
<1>2. op.kind \in BowKinds /\ op.rows \in Seq(Records)
  BY BowConfig
<1>3. PICK call : call = IF op.name \in DOMAIN bow.buckets
                         THEN [Idler EXCEPT !.pc = op.kind, !.op = op, !.id = bow.buckets[op.name], !.rest = op.rows]
                         ELSE [Idler EXCEPT !.pc = "create", !.op = op, !.rest = op.rows]
  OBVIOUS
<1>4. usr' = [usr EXCEPT ![u] = call]
  BY <1>3 DEF Bucket
<1>5. /\ DOMAIN call = {"pc", "op", "id", "rest", "snap", "got"}
      /\ call.op = op /\ call.rest = op.rows
      /\ call.pc # "create" => op.name \in DOMAIN bow.buckets /\ call.id = bow.buckets[op.name]
  BY <1>3 DEF Idler
<1>. QED BY Zenon, <1>1, <1>2, <1>4, <1>5, CallsKeep, OnlyCalls DEF BucketsStay

-----------------------------------------------------------------------------
(* Buckets are made; the database is opened and closed.                    *)

\* The sequence gives the next id away, with a new lease when the old one is
\* used up.
LEMMA SequenceGrows ==
    ASSUME BInv, bow.open
    PROVE  SequenceNext \in Nat /\ bow.next + 1 <= SequenceNext /\ bow.next + 1 \in Nat
<1>1. bow.next \in Nat /\ bow.leased = badger.seq /\ bow.next <= bow.leased /\ badger.seq \in Nat
  BY DEF BInv, Sequence
<1>. QED BY <1>1, BowConfig DEF SequenceNext

\* An id that the sequence has not given away has no records.
LEMMA FreshId ==
    ASSUME BInv, bow.open, NEW key \in Seq(Nat)
    PROVE  Value(key, badger.rows, FirstId + bow.next) = Absent
<1>1. internalKey(FirstId + bow.next, key) \notin DOMAIN badger.rows
  <2>1. SUFFICES ASSUME internalKey(FirstId + bow.next, key) \in DOMAIN badger.rows PROVE FALSE
    OBVIOUS
  <2>2. PICK o \in owner : o[1] = FirstId + bow.next
    BY <2>1, KeyParts DEF BInv, Data
  <2>3. o[1] \in FirstId .. MaxBuckets /\ o[1] < FirstId + bow.next
    BY Zenon, <2>2 DEF BInv, Sequence, Given
  <2>. QED BY <2>2, <2>3
<1>. QED BY <1>1 DEF Value

LEMMA CreateBucketKeeps ==
    ASSUME BInv, NEW u \in Users, createBucket(u)
    PROVE  BInv'
<1>1. PICK name : name = usr[u].op.name
  OBVIOUS
<1>2. PICK id : id = FirstId + bow.next
  OBVIOUS
<1>3. PICK made : made = Over([n \in {name} |-> id], bow.buckets)
  OBVIOUS
<1>4. bow.open /\ usr[u].pc = "create"
  BY DEF BInv, CallOK, createBucket
<1>5. UNCHANGED may
  BY DEF createBucket
<1>6. CASE /\ name \in DOMAIN bow.buckets
           /\ Has(u, bow.buckets[name]) /\ UNCHANGED <<badger, bow, owner, unsaved, spent>>
  BY <1>1, <1>4, <1>5, <1>6, HasKeeps, OnlyCalls DEF BucketsStay
<1>7. CASE Failed(u) /\ UNCHANGED <<badger, bow, owner, unsaved>>
  BY <1>5, <1>7, FailedKeeps, OnlyCalls DEF BucketsStay
<1>8. CASE /\ badger' = [badger EXCEPT !.seq = SequenceNext]
           /\ bow' = [bow EXCEPT !.next = @ + 1, !.leased = SequenceNext]
           /\ Failed(u) /\ UNCHANGED <<owner, unsaved>>
  <2>1. /\ DOMAIN badger' = DOMAIN badger /\ badger'.meta = badger.meta /\ badger'.rows = badger.rows
        /\ badger'.seq = SequenceNext
        /\ DOMAIN bow' = DOMAIN bow /\ bow'.open = bow.open /\ bow'.buckets = bow.buckets
        /\ bow'.next = bow.next + 1 /\ bow'.leased = SequenceNext
    BY <1>8 DEF BInv, Shapes
  <2>2. Sequence'
    <3>1. \A o \in owner : o[1] \in FirstId .. MaxBuckets /\ o[1] < FirstId + bow.next
      BY <1>4 DEF BInv, Sequence, Given
    <3>2. \A o \in owner : o[1] < FirstId + (bow.next + 1)
      BY <1>4, <3>1, BowConfig DEF BInv, Sequence
    <3>. QED BY Zenon, <1>4, <1>8, <2>1, <3>2, SequenceGrows DEF BInv, Sequence, Given
  <2>3. Known' /\ Data'
    BY <1>5, <1>8, <2>1 DEF BInv, Known, Data, Names, MayOf
  <2>4. BucketsStay
    BY <2>1 DEF BucketsStay
  <2>. QED BY <1>8, <2>1, <2>2, <2>3, <2>4, FailedKeeps DEF BInv, Shapes
<1>9. CASE /\ name \notin DOMAIN bow.buckets /\ id <= MaxBuckets
           /\ bow' = [[bow EXCEPT !.next = @ + 1, !.leased = SequenceNext] EXCEPT !.buckets = made]
           /\ owner' = owner \cup {<<id, name>>}
           /\ \/ /\ badger' = [[badger EXCEPT !.seq = SequenceNext] EXCEPT !.meta = made]
                 /\ Has(u, id) /\ unsaved' = {}
              \/ /\ badger' = [badger EXCEPT !.seq = SequenceNext]
                 /\ Has(u, id) \/ Failed(u)
                 /\ unsaved' = unsaved \cup {name}
  <2>1. /\ DOMAIN badger' = DOMAIN badger /\ badger'.rows = badger.rows
        /\ badger'.seq = SequenceNext
    BY Zenon, <1>9 DEF BInv, Shapes
  <2>2. /\ DOMAIN bow' = DOMAIN bow /\ bow'.open = bow.open /\ bow'.buckets = made
        /\ bow'.next = bow.next + 1 /\ bow'.leased = SequenceNext
    BY <1>9 DEF BInv, Shapes
  <2>3. \/ badger'.meta = made /\ unsaved' = {}
        \/ badger'.meta = badger.meta /\ unsaved' = unsaved \cup {name}
    BY Zenon, <1>9 DEF BInv, Shapes
  <2>4. /\ DOMAIN made = DOMAIN bow.buckets \cup {name} /\ made[name] = id
        /\ \A n \in DOMAIN bow.buckets : made[n] = bow.buckets[n]
    BY <1>3, <1>9 DEF Over
  <2>5. Names = bow.buckets /\ Names' = made
    BY <1>4, <2>2 DEF Names
  <2>6. bow.next \in Nat /\ id \in FirstId .. MaxBuckets
    BY <1>2, <1>4, <1>9, BowConfig DEF BInv, Sequence
  <2>7. \A o \in owner : o[1] \in FirstId .. MaxBuckets /\ o[1] < id
    BY <1>2, <1>4 DEF BInv, Sequence, Given
  <2>8. Sequence'
    <3>1. \A o \in owner' : o[1] \in FirstId .. MaxBuckets /\ o[1] < FirstId + (bow.next + 1)
      BY SMTT(30), <1>2, <1>9, <2>6, <2>7, BowConfig
    <3>2. \A o, p \in owner' : o[1] = p[1] => o[2] = p[2]
      <4>1. \A o \in owner : o[1] # id
        BY <2>6, <2>7
      <4>2. \A o, p \in owner : o[1] = p[1] => o[2] = p[2]
        BY DEF BInv, Sequence
      <4>. QED BY <1>9, <4>1, <4>2
    <3>3. bow'.open
      BY <1>4, <2>2
    <3>. QED BY <1>4, <2>1, <2>2, <3>1, <3>2, <3>3, SequenceGrows DEF Sequence, Given, BInv
  <2>9. Known'
    <3>1. \A n \in DOMAIN made : <<made[n], n>> \in owner'
      BY <1>9, <2>4, <2>5 DEF BInv, Known
    <3>2. /\ DOMAIN badger'.meta \subseteq DOMAIN made
          /\ \A n \in DOMAIN badger'.meta : badger'.meta[n] = made[n]
          /\ unsaved' = DOMAIN made \ DOMAIN badger'.meta
      BY <1>4, <1>9, <2>3, <2>4 DEF BInv, Known
    <3>. QED BY <1>4, <2>2, <2>5, <3>1, <3>2 DEF Known
  <2>10. Data'
    <3>1. ASSUME NEW n \in DOMAIN made, NEW key \in Seq(Nat)
          PROVE  Value(key, badger.rows, made[n]) \in MayOf(n, key)
      <4>1. CASE n = name
        BY <1>2, <1>4, <1>9, <2>4, <2>5, <4>1, FreshId DEF BInv, Data, MayOf
      <4>2. CASE n \in DOMAIN bow.buckets
        BY <2>4, <2>5, <4>2 DEF BInv, Data
      <4>. QED BY <2>4, <4>1, <4>2
    <3>2. \A n, key : MayOf(n, key)' = MayOf(n, key)
      BY <1>5 DEF MayOf
    <3>3. \A ik \in DOMAIN badger.rows : \E o \in owner' : ik[1] = o[1]
      BY <1>9 DEF BInv, Data
    <3>4. \A x \in DOMAIN may : x[1] \notin DOMAIN made => Absent \in may[x]
      BY <2>4, <2>5 DEF BInv, Data
    <3>5. \A x \in DOMAIN may : x = <<x[1], x[2]>> /\ x[2] \in Seq(Nat)
      BY DEF BInv, Data
    <3>. QED BY <1>5, <2>1, <2>5, <3>1, <3>2, <3>3, <3>4, <3>5 DEF Data
  <2>11. BucketsStay
    BY <2>2, <2>4 DEF BucketsStay
  <2>12. /\ DOMAIN usr' = Users
         /\ \A v \in Users : DOMAIN usr'[v] = {"pc", "op", "id", "rest", "snap", "got"}
         /\ (\A v \in Users : CallOK(v))'
    BY <1>1, <1>4, <1>9, <2>2, <2>4, <2>11, HasKeeps, FailedKeeps
  <2>. QED BY <2>1, <2>2, <2>8, <2>9, <2>10, <2>12 DEF BInv, Shapes
<1>. QED BY <1>1, <1>2, <1>3, <1>6, <1>7, <1>8, <1>9 DEF createBucket

\* Open: the names are the ones on disk, and the lease begins where the sequence
\* on disk ends.
LEMMA OpenKeeps ==
    ASSUME BInv, Open
    PROVE  BInv'
<1>1. ~bow.open /\ UNCHANGED <<usr, owner, may, unsaved>>
  BY DEF Open
<1>2. CASE UNCHANGED <<badger, bow>>
  BY <1>1, <1>2, OnlyCalls DEF BInv, Shapes, CallOK
<1>3. CASE /\ bow' = [open |-> TRUE, buckets |-> readMeta, next |-> badger.seq, leased |-> badger.seq + Lease]
           /\ badger' = [badger EXCEPT !.seq = @ + Lease]
  <2>1. /\ DOMAIN badger' = DOMAIN badger /\ badger'.meta = badger.meta /\ badger'.rows = badger.rows
        /\ badger'.seq = badger.seq + Lease
        /\ DOMAIN bow' = DOMAIN bow /\ bow'.open /\ bow'.buckets = badger.meta
        /\ bow'.next = badger.seq /\ bow'.leased = badger.seq + Lease
    BY <1>3 DEF BInv, Shapes, readMeta
  <2>2. Sequence'
    <3>1. badger.seq \in Nat /\ badger.seq + Lease \in Nat /\ badger.seq <= badger.seq + Lease
      BY BowConfig DEF BInv, Sequence
    <3>2. bow'.open = TRUE
      BY <1>3
    <3>. QED BY <1>1, <2>1, <3>1, <3>2 DEF BInv, Sequence, Given
  <2>3. Names' = Names /\ Names = badger.meta
    BY <1>1, <2>1 DEF Names
  <2>4. Known'
    BY <1>1, <2>1, <2>3 DEF BInv, Known
  <2>5. Data'
    BY <1>1, <2>1, <2>3 DEF BInv, Data, MayOf
  <2>6. (\A u \in Users : CallOK(u))'
    BY <1>1, <2>1 DEF BInv, CallOK
  <2>. QED BY <1>1, <2>1, <2>2, <2>4, <2>5, <2>6 DEF BInv, Shapes
<1>. QED BY <1>2, <1>3 DEF Open

\* The process ends, or the database is closed: the unsaved buckets are gone.
\* The sequence on disk still lies above every id that was given away.
LEMMA EndKeeps ==
    ASSUME BInv, bow' = Closed, unsaved' = {}, UNCHANGED owner,
           DOMAIN badger' = DOMAIN badger, badger'.meta = badger.meta, badger'.rows = badger.rows,
           badger'.seq = badger.seq \/ (bow.open /\ badger'.seq = bow.next),
           may' = [x \in DOMAIN may |-> IF x[1] \in unsaved THEN may[x] \cup {Absent} ELSE may[x]],
           DOMAIN usr' = Users,
           \A u \in Users : usr'[u].pc = "idle" /\ DOMAIN usr'[u] = {"pc", "op", "id", "rest", "snap", "got"}
    PROVE  BInv'
<1>1. bow'.open = FALSE /\ bow'.buckets = <<>> /\ DOMAIN bow' = {"open", "buckets", "next", "leased"}
  BY DEF Closed
<1>2. Names' = badger.meta
  BY <1>1 DEF Names
<1>3. /\ DOMAIN badger.meta \subseteq DOMAIN Names
      /\ \A n \in DOMAIN badger.meta : badger.meta[n] = Names[n]
      /\ unsaved = DOMAIN Names \ DOMAIN badger.meta
  BY DEF BInv, Known, Names, Sequence
<1>4. Sequence'
  <2>1. badger'.seq \in Nat /\ Given <= FirstId + badger'.seq
    BY BowConfig DEF BInv, Sequence, Given
  <2>2. Given \in Nat
    BY BowConfig DEF BInv, Sequence, Given
  <2>3. \A o \in owner : o[1] \in FirstId .. MaxBuckets /\ o[1] < FirstId + badger'.seq
    BY <2>1, <2>2, BowConfig DEF BInv, Sequence
  <2>. QED BY Zenon, <1>1, <2>1, <2>3 DEF BInv, Sequence, Given
<1>5. Known'
  BY <1>1, <1>2, <1>3 DEF BInv, Known
<1>6. ASSUME NEW n \in DOMAIN badger.meta, NEW key \in Seq(Nat)
      PROVE  Value(key, badger.rows, badger.meta[n]) \in MayOf(n, key)'
  <2>1. Value(key, badger.rows, badger.meta[n]) \in MayOf(n, key)
    BY <1>3 DEF BInv, Data
  <2>. QED BY <2>1 DEF MayOf
<1>7. \A x \in DOMAIN may : x[1] \notin DOMAIN badger.meta => Absent \in may'[x]
  BY <1>3 DEF BInv, Data
<1>8. Data'
  BY <1>2, <1>6, <1>7 DEF BInv, Data
<1>. QED BY <1>1, <1>4, <1>5, <1>8 DEF BInv, Shapes, CallOK

LEMMA CloseKeeps ==
    ASSUME BInv, CloseDB \/ Crash
    PROVE  BInv'
<1>1. CASE CloseDB
  <2>1. \A u \in Users : usr'[u].pc = "idle" /\ DOMAIN usr'[u] = {"pc", "op", "id", "rest", "snap", "got"}
    BY <1>1 DEF CloseDB, BInv, Shapes
  <2>2. /\ DOMAIN badger' = DOMAIN badger /\ badger'.meta = badger.meta /\ badger'.rows = badger.rows
        /\ badger'.seq = badger.seq \/ (bow.open /\ badger'.seq = bow.next)
    BY <1>1 DEF CloseDB, BInv, Shapes
  <2>. QED BY <1>1, <2>1, <2>2, EndKeeps DEF CloseDB, BInv, Shapes
<1>2. CASE Crash
  <2>1. DOMAIN usr' = Users /\ \A u \in Users : usr'[u].pc = "idle" /\ DOMAIN usr'[u] = {"pc", "op", "id", "rest", "snap", "got"}
    BY Zenon, <1>2 DEF Crash, Idler
  <2>. QED BY <1>2, <2>1, EndKeeps DEF Crash
<1>. QED BY <1>1, <1>2

-----------------------------------------------------------------------------
(* The theorems.                                                           *)

LEMMA InitBInv ==
    ASSUME NEW calls, BowInit(calls)
    PROVE  BInv
  BY DEF BowInit, Closed, Idler, BInv, Shapes, Sequence, Known, CallOK, Data, Given, Names

LEMMA NextBInv ==
    ASSUME BInv, [BowNext]_bvars
    PROVE  BInv'
<1>1. CASE BowNext
  BY Zenon, <1>1, OpenKeeps, CloseKeeps, BucketKeeps, CreateBucketKeeps, PutKeeps, PutBatchKeeps, DeleteKeeps, ReadsKeep DEF BowNext
<1>2. CASE UNCHANGED bvars
  BY <1>2, OnlyCalls DEF bvars, BInv, Shapes, CallOK
<1>. QED BY <1>1, <1>2

LEMMA AlwaysBInv ==
    ASSUME NEW CONSTANT calls
    PROVE  BowSpec(calls) => []BInv
  BY InitBInv, NextBInv, PTL DEF BowSpec

\* An id is never given to two names, over any number of crashes with a lease
\* outstanding, releases, failing writes and concurrent creations, for every
\* bandwidth of the sequence (createBucket, Sequence.Next).
THEOREM BowBucketsApart ==
    ASSUME NEW CONSTANT calls
    PROVE  BowSpec(calls) => []BucketsApart
<1>1. BInv => BucketsApart
  BY DEF BInv, Sequence, Known, Names, BucketsApart
<1>. QED BY <1>1, AlwaysBInv, PTL

\* What a Put or a flush of PutBatch has acknowledged is found on disk under the
\* bucket that the record on disk names, whatever crashes, closes and failing
\* writes of others come between; for every set of callers, calls and rows.
THEOREM BowAckedSurvive ==
    ASSUME NEW CONSTANT calls
    PROVE  BowSpec(calls) => []AckedSurvive
<1>1. ASSUME BInv PROVE AckedSurvive
  <2>1. SUFFICES ASSUME NEW x \in DOMAIN may, x[1] \notin unsaved
                 PROVE  IF x[1] \in DOMAIN badger.meta
                        THEN Value(x[2], badger.rows, badger.meta[x[1]]) \in may[x]
                        ELSE Absent \in may[x]
    BY DEF AckedSurvive, readMeta
  <2>2. x = <<x[1], x[2]>> /\ x[2] \in Seq(Nat)
    BY <1>1 DEF BInv, Data
  <2>3. /\ DOMAIN badger.meta \subseteq DOMAIN Names
        /\ \A n \in DOMAIN badger.meta : badger.meta[n] = Names[n]
        /\ unsaved = DOMAIN Names \ DOMAIN badger.meta
    BY <1>1 DEF BInv, Known, Names, Sequence
  <2>4. CASE x[1] \in DOMAIN badger.meta
    <3>1. Value(x[2], badger.rows, badger.meta[x[1]]) \in MayOf(x[1], x[2])
      BY <1>1, <2>2, <2>3, <2>4 DEF BInv, Data
    <3>. QED BY Zenon, <2>2, <2>4, <3>1 DEF MayOf
  <2>5. CASE x[1] \notin DOMAIN badger.meta
    BY <1>1, <2>1, <2>3, <2>5 DEF BInv, Data
  <2>. QED BY <2>4, <2>5
<1>. QED BY <1>1, AlwaysBInv, PTL

-----------------------------------------------------------------------------
(* The order of keys.                                                      *)

\* A set of numbers has a least one.
LEMMA FirstNat ==
    ASSUME NEW S \in SUBSET Nat, S # {}
    PROVE  \E i \in S : \A j \in S : i <= j
<1>1. PICK i \in S : \A j \in S : ~(<<j, i>> \in OpToRel(<, Nat))
  BY Zenon, NatLessThanWellFounded, WFMin
<1>2. \A j \in S : ~(j < i)
  BY Zenon, <1>1 DEF OpToRel
<1>. QED BY <1>2

\* A proper prefix is shorter.
LEMMA ShorterPrefix ==
    ASSUME NEW a \in Seq(Nat), NEW b \in Seq(Nat), HasPrefix(b, a), Len(b) <= Len(a)
    PROVE  a = b
<1>1. Len(a) = Len(b) /\ \A i \in 1 .. Len(a) : a[i] = b[i]
  BY DEF HasPrefix
<1>2. a = [i \in 1 .. Len(a) |-> a[i]] /\ b = [i \in 1 .. Len(b) |-> b[i]]
  OBVIOUS
<1>. QED BY Zenon, <1>1, <1>2

\* a is before b in the order of keys because they differ at i.
Below(a, b, i) == i \in 1 .. Len(a) /\ i \in 1 .. Len(b) /\ a[i] < b[i] /\ \A j \in 1 .. i - 1 : a[j] = b[j]

\* The two ways in which a key comes before another one.
LEMMA BeforeCases ==
    ASSUME NEW a \in Seq(Nat), NEW b \in Seq(Nat)
    PROVE  Before(a, b) <=> (HasPrefix(b, a) /\ Len(a) < Len(b)) \/ \E i \in Nat : Below(a, b, i)
<1>1. HasPrefix(b, a) => (a # b <=> Len(a) < Len(b))
  BY ShorterPrefix
<1>2. DOMAIN a = 1 .. Len(a) /\ DOMAIN b = 1 .. Len(b) /\ Len(a) \in Nat /\ Len(b) \in Nat
  OBVIOUS
<1>3. (\E i \in DOMAIN a \cap DOMAIN b : a[i] < b[i] /\ \A j \in 1 .. i - 1 : a[j] = b[j]) <=> \E i \in Nat : Below(a, b, i)
  <2>1. ASSUME NEW i \in DOMAIN a \cap DOMAIN b, a[i] < b[i] /\ \A j \in 1 .. i - 1 : a[j] = b[j]
        PROVE  i \in Nat /\ Below(a, b, i)
    BY <1>2, <2>1 DEF Below
  <2>2. ASSUME NEW i \in Nat, Below(a, b, i)
        PROVE  i \in DOMAIN a \cap DOMAIN b /\ a[i] < b[i] /\ \A j \in 1 .. i - 1 : a[j] = b[j]
    BY Zenon, <1>2, <2>2 DEF Below
  <2>. QED BY Zenon, <2>1, <2>2
<1>. QED BY Zenon, <1>1, <1>3 DEF Before

\* Of two keys that are not the same one is before the other.
LEMMA BeforeTotal ==
    ASSUME NEW a \in Seq(Nat), NEW b \in Seq(Nat)
    PROVE  a = b \/ Before(a, b) \/ Before(b, a)
<1>. DEFINE D == {i \in Nat : i \in 1 .. Len(a) /\ i \in 1 .. Len(b) /\ a[i] # b[i]}
<1>1. CASE D = {}
  <2>0. Len(a) \in Nat /\ Len(b) \in Nat
    OBVIOUS
  <2>1. HasPrefix(a, b) \/ HasPrefix(b, a)
    <3>1. CASE Len(a) <= Len(b)
      <4>1. \A i \in 1 .. Len(a) : i \in Nat /\ i \in 1 .. Len(b)
        BY <2>0, <3>1
      <4>2. \A i \in 1 .. Len(a) : a[i] = b[i]
        BY Zenon, <1>1, <4>1
      <4>. QED BY Zenon, <3>1, <4>2 DEF HasPrefix
    <3>2. CASE Len(b) <= Len(a)
      <4>1. \A i \in 1 .. Len(b) : i \in Nat /\ i \in 1 .. Len(a)
        BY <2>0, <3>2
      <4>2. \A i \in 1 .. Len(b) : a[i] = b[i]
        BY Zenon, <1>1, <4>1
      <4>. QED BY Zenon, <3>2, <4>2 DEF HasPrefix
    <3>. QED BY <2>0, <3>1, <3>2
  <2>. QED BY Zenon, <2>1 DEF Before
<1>2. CASE D # {}
  <2>1. PICK i \in D : \A j \in D : i <= j
    BY Zenon, <1>2, FirstNat
  <2>2. ASSUME NEW j \in 1 .. i - 1 PROVE a[j] = b[j]
    <3>1. Len(a) \in Nat /\ Len(b) \in Nat /\ i \in Nat /\ i <= Len(a) /\ i <= Len(b)
      BY SMTT(30), <2>1
    <3>2. j \in Nat /\ j \in 1 .. Len(a) /\ j \in 1 .. Len(b) /\ ~(i <= j)
      BY <3>1
    <3>. QED BY Zenon, <2>1, <3>2
  <2>3. a[i] \in Nat /\ b[i] \in Nat /\ a[i] # b[i]
    BY <2>1
  <2>4. Below(a, b, i) \/ Below(b, a, i)
    BY SMTT(30), <2>1, <2>2, <2>3 DEF Below
  <2>. QED BY <2>1, <2>4, BeforeCases
<1>. QED BY <1>1, <1>2

LEMMA BeforeTransitive ==
    ASSUME NEW a \in Seq(Nat), NEW b \in Seq(Nat), NEW c \in Seq(Nat), Before(a, b), Before(b, c)
    PROVE  Before(a, c)
<1>1. CASE HasPrefix(b, a) /\ Len(a) < Len(b) /\ HasPrefix(c, b) /\ Len(b) < Len(c)
  <2>1. HasPrefix(c, a) /\ Len(a) < Len(c)
    BY <1>1 DEF HasPrefix
  <2>. QED BY <2>1, BeforeCases
<1>2. ASSUME HasPrefix(b, a), Len(a) < Len(b), NEW i \in Nat, Below(b, c, i) PROVE Before(a, c)
  <2>1. CASE i <= Len(a)
    <3>1. Below(a, c, i)
      BY <1>2, <2>1 DEF Below, HasPrefix
    <3>. QED BY <3>1, BeforeCases
  <2>2. CASE Len(a) < i
    <3>1. HasPrefix(c, a) /\ Len(a) < Len(c)
      BY SMTT(30), <1>2, <2>2 DEF Below, HasPrefix
    <3>. QED BY <3>1, BeforeCases
  <2>. QED BY <1>2, <2>1, <2>2
<1>3. ASSUME HasPrefix(c, b), NEW i \in Nat, Below(a, b, i) PROVE Before(a, c)
  <2>1. Below(a, c, i)
    BY SMTT(30), <1>3 DEF Below, HasPrefix
  <2>. QED BY <2>1, BeforeCases
<1>4. ASSUME NEW i \in Nat, Below(a, b, i), NEW j \in Nat, Below(b, c, j) PROVE Before(a, c)
  <2>1. CASE i <= j
    <3>0. i \in 1 .. Len(a) /\ i \in 1 .. Len(b) /\ a[i] < b[i] /\ j \in 1 .. Len(b) /\ j \in 1 .. Len(c) /\ b[j] < c[j]
      BY <1>4 DEF Below
    <3>1. i \in 1 .. Len(c) /\ a[i] \in Nat /\ b[i] \in Nat /\ c[i] \in Nat
      BY SMTT(30), <2>1, <3>0
    <3>2. b[i] <= c[i]
      <4>1. CASE i = j
        BY SMTT(30), <3>0, <3>1, <4>1
      <4>2. CASE i < j
        <5>1. i \in 1 .. j - 1
          BY <3>0, <4>2
        <5>2. b[i] = c[i]
          BY <1>4, <5>1 DEF Below
        <5>. QED BY <3>1, <5>2
      <4>. QED BY <2>1, <4>1, <4>2
    <3>3. \A l \in 1 .. i - 1 : a[l] = b[l] /\ b[l] = c[l]
      BY SMTT(30), <1>4, <2>1 DEF Below
    <3>4. Below(a, c, i)
      <4>1. a[i] < c[i]
        <5>1. \A x, y, z \in Nat : x < y /\ y <= z => x < z
          OBVIOUS
        <5>. QED BY Zenon, <3>0, <3>1, <3>2, <5>1
      <4>. QED BY Zenon, <3>0, <3>1, <3>3, <4>1 DEF Below
    <3>. QED BY <3>4, BeforeCases
  <2>2. CASE j < i
    <3>1. Below(a, c, j)
      BY SMTT(30), <1>4, <2>2 DEF Below
    <3>. QED BY <3>1, BeforeCases
  <2>. QED BY <2>1, <2>2
<1>. QED BY Zenon, <1>1, <1>2, <1>3, <1>4, BeforeCases

LEMMA BeforeIrreflexive ==
    ASSUME NEW a \in Seq(Nat)
    PROVE  ~Before(a, a)
  BY BeforeCases DEF Below

\* A finite set of keys has a first one.
LEMMA FirstKey ==
    ASSUME NEW S \in SUBSET Seq(Nat), IsFiniteSet(S), S # {}
    PROVE  \E k \in S : \A l \in S \ {k} : Before(k, l)
<1>. DEFINE HasFirst(X) == \E k \in X : \A l \in X \ {k} : Before(k, l)
            Bad == {X \in FiniteSubsetsOf(S) : X # {} /\ ~HasFirst(X)}
<1>1. ASSUME Bad # {} PROVE FALSE
  <2>1. Bad \subseteq FiniteSubsetsOf(S) /\ IsWellFoundedOn(StrictSubsetOrdering(S), FiniteSubsetsOf(S))
    BY FS_StrictSubsetOrderingWellFounded
  <2>. HIDE DEF Bad
  <2>2. PICK X \in Bad : \A Y \in Bad : ~(<<Y, X>> \in StrictSubsetOrdering(S))
    BY <1>1, <2>1, WFMin
  <2>. USE DEF Bad
  <2>3. X \subseteq S /\ IsFiniteSet(X) /\ X # {} /\ ~HasFirst(X)
    BY <2>2 DEF FiniteSubsetsOf
  <2>4. PICK x \in X : TRUE
    BY Zenon, <2>3
  <2>5. X \ {x} \in FiniteSubsetsOf(S) /\ <<X \ {x}, X>> \in StrictSubsetOrdering(S)
    BY Zenon, <2>3, <2>4, FS_RemoveElement DEF FiniteSubsetsOf, StrictSubsetOrdering
  <2>6. X \ {x} = {} \/ HasFirst(X \ {x})
    BY Zenon, <2>2, <2>5
  <2>7. CASE X \ {x} = {}
    BY Zenon, <2>3, <2>4, <2>7
  <2>8. CASE HasFirst(X \ {x})
    <3>1. PICK k \in X \ {x} : \A l \in (X \ {x}) \ {k} : Before(k, l)
      BY Zenon, <2>8
    <3>2. x \in Seq(Nat) /\ X \subseteq Seq(Nat) /\ k \in X /\ x # k
      BY Zenon, <2>3, <2>4, <3>1
    <3>3. CASE Before(k, x)
      BY Zenon, <2>3, <3>1, <3>2, <3>3
    <3>4. CASE Before(x, k)
      <4>1. \A l \in X \ {x} : Before(x, l)
        <5>. SUFFICES ASSUME NEW l \in X \ {x} PROVE Before(x, l)
          BY Zenon
        <5>1. l # k => Before(k, l) /\ l \in Seq(Nat) /\ k \in Seq(Nat)
          BY Zenon, <3>1, <3>2
        <5>. QED BY Zenon, <3>2, <3>4, <5>1, BeforeTransitive
      <4>. QED BY Zenon, <2>3, <2>4, <4>1
    <3>. QED BY Zenon, <3>2, <3>3, <3>4, BeforeTotal
  <2>. QED BY Zenon, <2>6, <2>7, <2>8
<1>2. S \in FiniteSubsetsOf(S)
  BY DEF FiniteSubsetsOf
<1>. QED BY Zenon, <1>1, <1>2

\* A key with the prefix p does not come before it, and the keys with the prefix
\* lie together: none without it comes between p and one of them.
LEMMA PrefixTogether ==
    ASSUME NEW p \in Seq(Nat), NEW k \in Seq(Nat), HasPrefix(k, p)
    PROVE  /\ ~Before(k, p)
           /\ \A i \in Seq(Nat) : ~Before(i, p) /\ ~Before(k, i) => HasPrefix(i, p)
<1>1. ~Before(k, p)
  <2>1. Len(k) \in Nat /\ Len(p) \in Nat /\ Len(p) <= Len(k) /\ \A j \in 1 .. Len(p) : k[j] = p[j] /\ p[j] \in Nat
    BY DEF HasPrefix
  <2>2. ~(HasPrefix(p, k) /\ Len(k) < Len(p)) /\ \A i \in Nat : ~Below(k, p, i)
    BY <2>1 DEF Below
  <2>. QED BY Zenon, <2>2, BeforeCases
<1>2. ASSUME NEW i \in Seq(Nat), ~Before(i, p), ~Before(k, i) PROVE HasPrefix(i, p)
  <2>1. i = p \/ Before(p, i)
    BY <1>2, BeforeTotal
  <2>2. CASE i = p
    BY <2>2 DEF HasPrefix
  <2>3. ASSUME NEW j \in Nat, Below(p, i, j) PROVE FALSE
    <3>1. Below(k, i, j)
      BY SMTT(30), <2>3 DEF Below, HasPrefix
    <3>. QED BY <1>2, <3>1, BeforeCases
  <2>. QED BY <2>1, <2>2, <2>3, BeforeCases
<1>. QED BY <1>1, <1>2

\* Range looks at as many numbers of the key i as its end e has.  A key whose
\* numbers are not behind it is before e or begins with e; from a key whose
\* numbers are behind it on no key is.
LEMMA RangeEnd ==
    ASSUME NEW e \in Seq(Nat), NEW i \in Seq(Nat), Len(e) <= Len(i)
    PROVE  /\ ~Before(e, SubSeq(i, 1, Len(e))) => Before(i, e) \/ HasPrefix(i, e)
           /\ Before(e, SubSeq(i, 1, Len(e))) =>
                 \A k \in Seq(Nat) : ~Before(k, i) => ~Before(k, e) /\ ~HasPrefix(k, e)
<1>1. PICK n \in 0 .. Len(i) : n = Len(e)
  OBVIOUS
<1>2. PICK s : s = SubSeq(i, 1, Len(e))
  BY Zenon
<1>3. s \in Seq(Nat) /\ Len(s) = Len(e) /\ (\A j \in 1 .. Len(e) : s[j] = i[j]) /\ Len(e) \in Nat /\ Len(i) \in Nat
  <2>1. SubSeq(i, 1, n) \in Seq(Nat) /\ Len(SubSeq(i, 1, n)) = n /\ \A j \in 1 .. n : SubSeq(i, 1, n)[j] = i[j]
    OBVIOUS
  <2>. QED BY <1>1, <1>2, <2>1
<1>4. ~(Len(s) < Len(e)) /\ ~(Len(e) < Len(s))
  BY <1>3
<1>5. ASSUME ~Before(e, s) PROVE Before(i, e) \/ HasPrefix(i, e)
  <2>1. s = e \/ Before(s, e)
    BY Zenon, <1>3, <1>5, BeforeTotal
  <2>2. CASE s = e
    BY <1>3, <2>2 DEF HasPrefix
  <2>3. ASSUME NEW j \in Nat, Below(s, e, j) PROVE Before(i, e)
    <3>1. Below(i, e, j)
      BY SMTT(30), <1>3, <2>3 DEF Below
    <3>. QED BY <3>1, BeforeCases
  <2>. QED BY Zenon, <1>3, <1>4, <2>1, <2>2, <2>3, BeforeCases
<1>6. ASSUME Before(e, s), NEW k \in Seq(Nat), ~Before(k, i) PROVE ~Before(k, e) /\ ~HasPrefix(k, e)
  <2>1. PICK j \in Nat : Below(e, s, j)
    BY Zenon, <1>3, <1>6, <1>4, BeforeCases
  <2>2. Below(e, i, j)
    BY SMTT(30), <1>3, <2>1 DEF Below
  <2>3. ~Before(k, e)
    BY Zenon, <1>6, <2>2, BeforeCases, BeforeTransitive
  <2>4. ASSUME HasPrefix(k, e) PROVE FALSE
    <3>1. Below(k, i, j)
      BY SMTT(30), <2>2, <2>4 DEF Below, HasPrefix
    <3>. QED BY <1>6, <3>1, BeforeCases
  <2>. QED BY <2>3, <2>4
<1>. QED BY Zenon, <1>2, <1>5, <1>6

\* The first number decides: a key that is not before another one does not have
\* a smaller first number, and a larger one puts it behind.
LEMMA FirstDecides ==
    ASSUME NEW a \in Seq(Nat), NEW b \in Seq(Nat), a # <<>>, b # <<>>
    PROVE  /\ ~Before(a, b) => b[1] <= a[1]
           /\ b[1] < a[1] => ~Before(a, b) /\ ~HasPrefix(a, b)
<1>1. Len(a) \in Nat \ {0} /\ Len(b) \in Nat \ {0} /\ a[1] \in Nat /\ b[1] \in Nat
  OBVIOUS
<1>2. a[1] < b[1] => Below(a, b, 1)
  BY <1>1 DEF Below
<1>3. ASSUME b[1] < a[1] PROVE ~HasPrefix(a, b) /\ ~HasPrefix(b, a) /\ \A i \in Nat : ~Below(a, b, i)
  <2>1. ~HasPrefix(a, b) /\ ~HasPrefix(b, a)
    BY SMTT(30), <1>1, <1>3 DEF HasPrefix
  <2>2. ASSUME NEW i \in Nat, Below(a, b, i) PROVE FALSE
    <3>1. CASE i = 1
      BY <1>1, <1>3, <2>2, <3>1 DEF Below
    <3>2. CASE i # 1
      <4>1. 1 \in 1 .. i - 1
        BY <2>2, <3>2 DEF Below
      <4>2. a[1] = b[1]
        BY Zenon, <2>2, <4>1 DEF Below
      <4>. QED BY <1>1, <1>3, <4>2
    <3>. QED BY <3>1, <3>2
  <2>. QED BY <2>1, <2>2
<1>. QED BY <1>1, <1>2, <1>3, BeforeCases

-----------------------------------------------------------------------------
(* What a reader sees.                                                     *)

\* Of a call c: the key that it seeks, the end of its range, the records that it
\* is to return, and the ones that its iterator has not passed.
From(c) == internalKey(c.id, c.op.key)
Upto(c) == internalKey(c.id, c.op.until)
Own(c) ==
    {k \in DOMAIN c.snap :
        CASE c.op.kind = "get"  -> k = From(c)
          [] c.op.kind = "iter" -> HasPrefix(k, From(c))
          [] OTHER -> ~Before(k, From(c)) /\ (Before(k, Upto(c)) \/ HasPrefix(k, Upto(c)))}
AheadOf(c) == {k \in DOMAIN c.snap : ~Before(k, From(c))} \ Range(c.got)

\* The call has returned exactly these records, in order.
Exact(c) ==
    /\ Range(c.got) = Own(c) /\ Len(c.got) = Cardinality(Own(c))
    /\ \A k \in Own(c) : c.snap[k] # Junk
    /\ \A i \in 1 .. Len(c.got) - 1 : Before(c.got[i], c.got[i + 1])

\* The records on disk are rows of calls to a bucket of that name.
Stocked ==
    /\ IsFiniteSet(DOMAIN badger.rows)
    /\ \A k \in DOMAIN badger.rows :
          /\ badger.rows[k] # Absent
          /\ \E o \in owner, op \in BowOps : \E i \in DOMAIN op.rows :
                o[2] = op.name /\ k = internalKey(o[1], op.rows[i].key)

\* What an iterator reads: keys, in the bucket of a range no shorter than its end.
SnapOK(c) ==
    /\ c.id \in Nat /\ c.op \in BowOps /\ c.op.kind \in {"iter", "range"}
    /\ IsFiniteSet(DOMAIN c.snap)
    /\ \A k \in DOMAIN c.snap : k \in Seq(Nat) /\ k # <<>> /\ (c.op.kind = "range" /\ k[1] = c.id => Len(k) > Len(c.op.until))

\* What it has returned: records that it is to return, in order, and all of them
\* before the ones to come.
GotOK(c) ==
    /\ c.got \in Seq(DOMAIN c.snap)
    /\ \A i, j \in 1 .. Len(c.got) : i < j => Before(c.got[i], c.got[j])
    /\ \A k \in Range(c.got) : k \in Own(c) /\ c.snap[k] # Junk /\ \A l \in AheadOf(c) : Before(k, l)

\* A call that writes has rows of its own left; a read is where its kind says.
CallInv(c) ==
    /\ c.pc \in {"create", "put", "batch"} => Range(c.rest) \subseteq Range(c.op.rows)
    /\ c.pc \notin {"idle", "create", "next", "end", "error"} => c.pc = c.op.kind
    /\ c.pc \in BowKinds \cup {"create"} => c.got = <<>>
    /\ c.pc = "next" => SnapOK(c) /\ GotOK(c)
    /\ c.pc = "end" => Exact(c)

IInv == BInv /\ Stocked /\ \A u \in Users : CallInv(usr[u])

\* The keys of a call are keys, and begin with its id.
LEMMA CallKeys ==
    ASSUME NEW c, c.id \in Nat, c.op \in BowOps
    PROVE  /\ From(c) \in Seq(Nat) /\ From(c) # <<>> /\ From(c)[1] = c.id
           /\ Upto(c) \in Seq(Nat) /\ Upto(c) # <<>> /\ Upto(c)[1] = c.id /\ Len(Upto(c)) = Len(c.op.until) + 1
<1>1. c.op.key \in Seq(Nat) /\ c.op.until \in Seq(Nat)
  BY BowConfig
<1>2. ASSUME NEW k \in Seq(Nat)
      PROVE  LET ik == internalKey(c.id, k) IN ik \in Seq(Nat) /\ ik # <<>> /\ ik[1] = c.id /\ Len(ik) = Len(k) + 1
  BY DEF internalKey
<1>. QED BY Zenon, <1>1, <1>2 DEF From, Upto

\* What the iterator stands at.
LEMMA ItemFirst ==
    ASSUME NEW u \in Users, SnapOK(usr[u]), AheadOf(usr[u]) # {}
    PROVE  Item(u) \in AheadOf(usr[u]) /\ \A l \in AheadOf(usr[u]) \ {Item(u)} : Before(Item(u), l)
<1>1. Ahead(u) = AheadOf(usr[u])
  BY DEF Ahead, AheadOf, From
<1>2. AheadOf(usr[u]) \subseteq DOMAIN usr[u].snap /\ DOMAIN usr[u].snap \subseteq Seq(Nat) /\ IsFiniteSet(DOMAIN usr[u].snap)
  BY DEF AheadOf, SnapOK
<1>3. IsFiniteSet(AheadOf(usr[u])) /\ AheadOf(usr[u]) \in SUBSET Seq(Nat)
  BY Zenon, <1>2, FS_Subset
<1>4. \E k \in AheadOf(usr[u]) : \A l \in AheadOf(usr[u]) \ {k} : Before(k, l)
  BY Zenon, <1>3, FirstKey
<1>. QED BY Zenon, <1>1, <1>4 DEF Item

\* Next at the end: the iterator has passed all records that it is to return.
LEMMA EndPasses ==
    ASSUME NEW u \in Users, SnapOK(usr[u]), AtEnd(u), NEW k \in Own(usr[u]), k \notin Range(usr[u].got)
    PROVE  FALSE
<1>. DEFINE c == usr[u]
            i == Item(u)
<1>1. /\ c.id \in Nat /\ c.op \in BowOps /\ c.op.kind \in {"iter", "range"}
      /\ \A l \in DOMAIN c.snap : l \in Seq(Nat) /\ l # <<>> /\ (c.op.kind = "range" /\ l[1] = c.id => Len(l) > Len(c.op.until))
  BY DEF SnapOK
<1>2. /\ From(c) \in Seq(Nat) /\ From(c) # <<>> /\ From(c)[1] = c.id
      /\ Upto(c) \in Seq(Nat) /\ Upto(c) # <<>> /\ Upto(c)[1] = c.id /\ Len(Upto(c)) = Len(c.op.until) + 1
  BY Zenon, <1>1, CallKeys
<1>3. k \in DOMAIN c.snap /\ k \in Seq(Nat) /\ k # <<>>
  BY Zenon, <1>1 DEF Own
<1>4. /\ c.op.kind = "iter" => HasPrefix(k, From(c))
      /\ c.op.kind = "range" => ~Before(k, From(c)) /\ (Before(k, Upto(c)) \/ HasPrefix(k, Upto(c)))
  BY DEF Own
<1>5. ~Before(k, From(c))
  BY Zenon, <1>1, <1>2, <1>3, <1>4, PrefixTogether
<1>6. k \in AheadOf(c)
  BY Zenon, <1>3, <1>5 DEF AheadOf
<1>7. i \in AheadOf(c) /\ (k = i \/ Before(i, k))
  BY Zenon, <1>6, ItemFirst
<1>8. i \in DOMAIN c.snap /\ i \in Seq(Nat) /\ i # <<>> /\ ~Before(i, From(c))
  BY Zenon, <1>1, <1>7 DEF AheadOf
<1>9. ~Before(k, i)
  BY Zenon, <1>3, <1>7, <1>8, BeforeIrreflexive, BeforeTransitive
<1>10. \/ c.op.kind = "iter" /\ ~HasPrefix(i, From(c))
       \/ c.op.kind = "range" /\ Len(i) < Len(Upto(c))
       \/ c.op.kind = "range" /\ Before(Upto(c), SubSeq(i, 1, Len(Upto(c))))
  <2>1. Ahead(u) = AheadOf(c)
    BY DEF Ahead, AheadOf, From
  <2>. QED BY Zenon, <1>6, <2>1 DEF AtEnd, From, Upto
<1>. HIDE DEF c, i
<1>11. CASE c.op.kind = "iter" /\ ~HasPrefix(i, From(c))
  BY Zenon, <1>2, <1>3, <1>4, <1>8, <1>9, <1>11, PrefixTogether
<1>12. CASE c.op.kind = "range" /\ Len(i) < Len(Upto(c))
  <2>1. i[1] # c.id
    <3>1. i[1] = c.id => Len(i) > Len(c.op.until)
      BY Zenon, <1>1, <1>8, <1>12
    <3>2. c.op.until \in Seq(Nat)
      BY <1>1, BowConfig
    <3>. QED BY SMTT(30), <1>2, <1>8, <1>12, <3>1, <3>2
  <2>2. c.id <= i[1] /\ i[1] <= k[1]
    BY Zenon, <1>2, <1>3, <1>8, <1>9, FirstDecides
  <2>3. i[1] \in Nat /\ k[1] \in Nat
    BY <1>3, <1>8
  <2>4. Upto(c)[1] < k[1]
    BY SMTT(30), <1>1, <1>2, <2>1, <2>2, <2>3
  <2>. QED BY Zenon, <1>2, <1>3, <1>4, <1>12, <2>4, FirstDecides
<1>13. CASE c.op.kind = "range" /\ Len(Upto(c)) <= Len(i) /\ Before(Upto(c), SubSeq(i, 1, Len(Upto(c))))
  BY Zenon, <1>2, <1>3, <1>4, <1>8, <1>9, <1>13, RangeEnd
<1>. QED BY SMTT(30), <1>2, <1>8, <1>10, <1>11, <1>12, <1>13

\* Next short of the end: the record is one that it is to return.
LEMMA ItemOwn ==
    ASSUME NEW u \in Users, SnapOK(usr[u]), ~AtEnd(u)
    PROVE  AheadOf(usr[u]) # {} /\ Item(u) \in Own(usr[u])
<1>. DEFINE c == usr[u]
            i == Item(u)
<1>1. c.id \in Nat /\ c.op \in BowOps /\ c.op.kind \in {"iter", "range"} /\ DOMAIN c.snap \subseteq Seq(Nat)
  BY DEF SnapOK
<1>2. Upto(c) \in Seq(Nat)
  BY Zenon, <1>1, CallKeys
<1>3. /\ AheadOf(c) # {}
      /\ c.op.kind = "iter" => HasPrefix(i, From(c))
      /\ c.op.kind = "range" => ~(Len(i) < Len(Upto(c))) /\ ~Before(Upto(c), SubSeq(i, 1, Len(Upto(c))))
  <2>1. Ahead(u) = AheadOf(c)
    BY DEF Ahead, AheadOf, From
  <2>. QED BY Zenon, <2>1 DEF AtEnd, From, Upto
<1>4. i \in DOMAIN c.snap /\ i \in Seq(Nat) /\ ~Before(i, From(c))
  BY Zenon, <1>1, <1>3, ItemFirst DEF AheadOf
<1>. HIDE DEF c, i
<1>5. ASSUME c.op.kind = "iter" PROVE i \in Own(c)
  BY Zenon, <1>3, <1>4, <1>5 DEF Own
<1>6. ASSUME c.op.kind = "range" PROVE i \in Own(c)
  <2>1. Len(Upto(c)) <= Len(i)
    BY <1>2, <1>3, <1>4, <1>6
  <2>2. Before(i, Upto(c)) \/ HasPrefix(i, Upto(c))
    BY Zenon, <1>2, <1>3, <1>4, <1>6, <2>1, RangeEnd
  <2>. QED BY Zenon, <1>4, <1>6, <2>2 DEF Own
<1>. QED BY Zenon, <1>1, <1>3, <1>5, <1>6 DEF c, i

\* A loop that is at its end has returned all of them.
LEMMA EndExact ==
    ASSUME NEW c, SnapOK(c), GotOK(c), Own(c) \subseteq Range(c.got)
    PROVE  Exact(c)
<1>1. /\ c.got \in Seq(DOMAIN c.snap) /\ DOMAIN c.snap \subseteq Seq(Nat)
      /\ \A i, j \in 1 .. Len(c.got) : i < j => Before(c.got[i], c.got[j])
      /\ Range(c.got) = Own(c)
  BY Zenon DEF SnapOK, GotOK
<1>2. Len(c.got) \in Nat /\ DOMAIN c.got = 1 .. Len(c.got) /\ \A i \in 1 .. Len(c.got) : c.got[i] \in DOMAIN c.snap /\ c.got[i] \in Own(c)
  BY <1>1 DEF Range
<1>3. ASSUME NEW i \in 1 .. Len(c.got), NEW j \in 1 .. Len(c.got), c.got[i] = c.got[j] PROVE i = j
  <2>1. ~Before(c.got[i], c.got[j]) /\ ~Before(c.got[j], c.got[i])
    BY <1>1, <1>2, <1>3, BeforeIrreflexive
  <2>2. ~(i < j) /\ ~(j < i)
    BY <1>1, <2>1
  <2>. QED BY <1>2, <2>2
<1>4. c.got \in Bijection(1 .. Len(c.got), Own(c))
  <2>1. c.got \in [1 .. Len(c.got) -> Own(c)]
    BY <1>1, <1>2
  <2>2. \A k \in Own(c) : \E i \in 1 .. Len(c.got) : c.got[i] = k
    BY Zenon, <1>1, <1>2 DEF Range
  <2>. QED BY <1>3, <2>1, <2>2 DEF Bijection, Injection, Surjection, IsInjective
<1>5. Cardinality(Own(c)) = Len(c.got)
  BY <1>2, <1>4, FS_CountingElements DEF ExistsBijection
<1>6. \A i \in 1 .. Len(c.got) - 1 : Before(c.got[i], c.got[i + 1])
  <2>1. \A i \in 1 .. Len(c.got) - 1 : i \in 1 .. Len(c.got) /\ i + 1 \in 1 .. Len(c.got) /\ i < i + 1
    BY <1>2
  <2>. QED BY Zenon, <1>1, <2>1
<1>7. \A k \in Own(c) : c.snap[k] # Junk
  BY <1>1 DEF GotOK
<1>. QED BY <1>1, <1>5, <1>6, <1>7 DEF Exact

\* Next keeps what a loop has returned in order.
LEMMA NextReads ==
    ASSUME NEW u \in Users, CallInv(usr[u]), DOMAIN usr[u] = {"pc", "op", "id", "rest", "snap", "got"}, Next(u),
           DOMAIN usr = Users
    PROVE  CallInv(usr'[u])
<1>. DEFINE c == usr[u]
            i == Item(u)
<1>1. SnapOK(c) /\ GotOK(c) /\ c.pc = "next"
  BY Zenon DEF CallInv, Next
<1>2. CASE AtEnd(u)
  <2>1. usr'[u] = [c EXCEPT !.pc = "end"]
    BY Zenon, <1>2 DEF Next
  <2>2. Exact(c)
    BY Zenon, <1>1, <1>2, EndPasses, EndExact
  <2>3. /\ usr'[u].pc = "end" /\ usr'[u].op = c.op /\ usr'[u].id = c.id /\ usr'[u].snap = c.snap /\ usr'[u].got = c.got
    BY <2>1
  <2>4. From(usr'[u]) = From(c) /\ Upto(usr'[u]) = Upto(c)
    BY Zenon, <2>3 DEF From, Upto
  <2>5. Own(usr'[u]) = Own(c)
    BY Zenon, <2>3, <2>4 DEF Own
  <2>6. Exact(usr'[u])
    BY Zenon, <2>2, <2>3, <2>5 DEF Exact
  <2>. QED BY <2>3, <2>6 DEF CallInv, BowKinds
<1>3. CASE ~AtEnd(u) /\ ~decodeItem(u)
  <2>1. usr'[u] = [c EXCEPT !.pc = "error"]
    BY Zenon, <1>3 DEF Next
  <2>2. usr'[u].pc = "error"
    BY Zenon, <2>1
  <2>. QED BY <2>2 DEF CallInv, BowKinds
<1>4. CASE ~AtEnd(u) /\ decodeItem(u)
  <2>1. usr'[u] = [c EXCEPT !.got = Append(c.got, i)]
    BY Zenon, <1>4 DEF Next
  <2>2. /\ i \in Own(c) /\ i \in AheadOf(c) /\ \A l \in AheadOf(c) \ {i} : Before(i, l)
    BY Zenon, <1>1, <1>4, ItemOwn, ItemFirst
  <2>3. i \in DOMAIN c.snap /\ c.snap[i] # Junk
    BY <1>4, <2>2 DEF AheadOf, decodeItem
  <2>. HIDE DEF i
  <2>4. PICK d : d = usr'[u]
    BY Zenon
  <2>5. d.pc = "next" /\ d.op = c.op /\ d.id = c.id /\ d.snap = c.snap /\ d.got = Append(c.got, i)
    BY <1>1, <2>1, <2>4
  <2>6. From(d) = From(c) /\ Upto(d) = Upto(c)
    BY Zenon, <2>5 DEF From, Upto
  <2>7. Own(d) = Own(c) /\ SnapOK(d)
    <3>1. Own(d) = Own(c)
      BY Zenon, <2>5, <2>6 DEF Own
    <3>2. SnapOK(d)
      BY Zenon, <1>1, <2>5 DEF SnapOK
    <3>. QED BY <3>1, <3>2
  <2>8. c.got \in Seq(DOMAIN c.snap)
    BY <1>1 DEF GotOK
  <2>. HIDE DEF c
  <2>9. /\ d.got \in Seq(DOMAIN d.snap) /\ Len(d.got) = Len(c.got) + 1 /\ d.got[Len(c.got) + 1] = i
        /\ Len(c.got) \in Nat /\ \A j \in 1 .. Len(c.got) : d.got[j] = c.got[j] /\ c.got[j] \in Range(c.got)
    <3>1. PICK g \in Seq(DOMAIN c.snap) : g = c.got
      BY Zenon, <2>8
    <3>2. /\ Append(g, i) \in Seq(DOMAIN c.snap) /\ Len(Append(g, i)) = Len(g) + 1 /\ Append(g, i)[Len(g) + 1] = i
          /\ Len(g) \in Nat /\ \A j \in 1 .. Len(g) : Append(g, i)[j] = g[j] /\ j \in DOMAIN g
      BY <2>3
    <3>. QED BY Zenon, <2>5, <3>1, <3>2 DEF Range
  <2>10. Range(d.got) = Range(c.got) \cup {i}
    <3>1. DOMAIN d.got = 1 .. Len(c.got) + 1 /\ DOMAIN c.got = 1 .. Len(c.got)
      BY <2>8, <2>9
    <3>2. 1 .. Len(c.got) + 1 = (1 .. Len(c.got)) \cup {Len(c.got) + 1}
      BY <2>9
    <3>3. \A j \in DOMAIN d.got : d.got[j] \in Range(c.got) \cup {i}
      BY Zenon, <2>9, <3>1, <3>2
    <3>4. \A j \in DOMAIN c.got : j \in DOMAIN d.got /\ c.got[j] = d.got[j]
      BY Zenon, <2>9, <3>1, <3>2
    <3>5. Len(c.got) + 1 \in DOMAIN d.got
      BY Zenon, <3>1, <3>2
    <3>. QED BY Zenon, <2>9, <3>3, <3>4, <3>5 DEF Range
  <2>11. AheadOf(d) = AheadOf(c) \ {i}
    BY Zenon, <2>5, <2>6, <2>10 DEF AheadOf
  <2>12. ASSUME NEW j \in 1 .. Len(d.got), NEW k \in 1 .. Len(d.got), j < k PROVE Before(d.got[j], d.got[k])
    <3>1. CASE k = Len(c.got) + 1
      <4>1. j \in 1 .. Len(c.got)
        BY <2>9, <2>12, <3>1
      <4>2. d.got[j] \in Range(c.got) /\ d.got[k] = i
        BY Zenon, <2>9, <3>1, <4>1
      <4>. QED BY Zenon, <1>1, <2>2, <4>2 DEF GotOK
    <3>2. CASE k # Len(c.got) + 1
      <4>1. j \in 1 .. Len(c.got) /\ k \in 1 .. Len(c.got)
        BY <2>9, <2>12, <3>2
      <4>. QED BY Zenon, <1>1, <2>9, <2>12, <4>1 DEF GotOK
    <3>. QED BY <3>1, <3>2
  <2>13. \A k \in Range(d.got) : k \in Own(d) /\ d.snap[k] # Junk /\ \A l \in AheadOf(d) : Before(k, l)
    BY Zenon, <1>1, <2>2, <2>3, <2>5, <2>7, <2>10, <2>11 DEF GotOK
  <2>14. GotOK(d)
    BY Zenon, <2>9, <2>12, <2>13 DEF GotOK
  <2>. QED BY <2>4, <2>5, <2>7, <2>14 DEF CallInv, BowKinds
<1>. QED BY <1>2, <1>3, <1>4

\* newIter: the snapshot is what is on disk.
LEMMA NewIterReads ==
    ASSUME IInv, NEW u \in Users, newIter(u)
    PROVE  CallInv(usr'[u])
<1>. DEFINE c == usr[u]
<1>1. /\ CallInv(c) /\ CallOK(u) /\ c.pc \in {"iter", "range"} /\ u \in DOMAIN usr
      /\ DOMAIN c = {"pc", "op", "id", "rest", "snap", "got"}
  BY DEF IInv, BInv, Shapes, newIter
<1>2. c.op \in BowOps /\ c.op.kind \in {"iter", "range"} /\ c.got = <<>>
  BY <1>1 DEF CallInv, CallOK, BowKinds
<1>3. <<c.id, c.op.name>> \in owner /\ c.id \in Nat
  <2>1. bow.open /\ c.op.name \in DOMAIN bow.buckets /\ c.id = bow.buckets[c.op.name]
    BY Zenon, <1>1 DEF CallOK
  <2>2. <<c.id, c.op.name>> \in owner
    BY <2>1 DEF IInv, BInv, Known, Names
  <2>. QED BY <2>2, BowConfig DEF IInv, BInv, Sequence
<1>4. PICK d : d = usr'[u]
  BY Zenon
<1>5. d.pc = "next" /\ d.op = c.op /\ d.id = c.id /\ d.snap = badger.rows /\ d.got = <<>>
  BY Zenon, <1>1, <1>2, <1>4 DEF newIter
<1>. HIDE DEF c
<1>6. ASSUME NEW k \in DOMAIN badger.rows
      PROVE  k \in Seq(Nat) /\ k # <<>> /\ (c.op.kind = "range" /\ k[1] = c.id => Len(k) > Len(c.op.until))
  <2>1. PICK o \in owner, op \in BowOps : \E i \in DOMAIN op.rows : o[2] = op.name /\ k = internalKey(o[1], op.rows[i].key)
    BY DEF IInv, Stocked
  <2>2. PICK i \in DOMAIN op.rows : o[2] = op.name /\ k = internalKey(o[1], op.rows[i].key)
    BY <2>1
  <2>3. op.rows[i].key \in Seq(Nat) /\ o[1] \in Nat
    <3>1. op.rows \in Seq(Records)
      BY BowConfig
    <3>2. o[1] \in Nat
      BY BowConfig DEF IInv, BInv, Sequence
    <3>. QED BY <3>1, <3>2, RowKeys
  <2>4. k \in Seq(Nat) /\ k # <<>> /\ k[1] = o[1] /\ Len(k) = Len(op.rows[i].key) + 1
    BY <2>2, <2>3 DEF internalKey
  <2>5. ASSUME c.op.kind = "range", k[1] = c.id PROVE Len(k) > Len(c.op.until)
    <3>1. o[2] = c.op.name
      BY Zenon, <1>3, <2>4, <2>5 DEF IInv, BInv, Sequence
    <3>2. Len(op.rows[i].key) >= Len(c.op.until)
      BY Zenon, <1>2, <2>2, <2>5, <3>1, BowConfig
    <3>3. c.op.until \in Seq(Nat)
      BY <1>2, BowConfig
    <3>. QED BY SMTT(30), <2>3, <2>4, <3>2, <3>3
  <2>. QED BY <2>4, <2>5
<1>7. SnapOK(d)
  BY Zenon, <1>2, <1>3, <1>5, <1>6 DEF SnapOK, IInv, Stocked
<1>8. GotOK(d)
  <2>1. Range(d.got) = {} /\ Len(d.got) = 0 /\ d.got \in Seq(DOMAIN d.snap)
    BY <1>5 DEF Range
  <2>2. \A i, j \in 1 .. Len(d.got) : i < j => Before(d.got[i], d.got[j])
    BY <2>1
  <2>. QED BY Zenon, <2>1, <2>2 DEF GotOK
<1>. QED BY <1>4, <1>5, <1>7, <1>8 DEF CallInv, BowKinds

\* Get returns the record with its key, if there is one that can be read.
LEMMA GetReads ==
    ASSUME IInv, NEW u \in Users, Get(u)
    PROVE  CallInv(usr'[u])
<1>. DEFINE c == usr[u]
            ik == From(c)
            v == Value(c.op.key, badger.rows, c.id)
<1>1. /\ CallInv(c) /\ c.pc = "get" /\ u \in DOMAIN usr /\ DOMAIN c = {"pc", "op", "id", "rest", "snap", "got"}
  BY DEF IInv, BInv, Shapes, Get
<1>2. c.op.kind = "get"
  BY <1>1 DEF CallInv
<1>3. PICK d : d = usr'[u]
  BY Zenon
<1>4. /\ d.op = c.op /\ d.id = c.id /\ d.snap = badger.rows /\ d.pc = (IF v = Junk THEN "error" ELSE "end")
      /\ d.got = IF v \in {Absent, Junk} THEN <<>> ELSE <<ik>>
  BY Zenon, <1>1, <1>3 DEF Get, From
<1>5. v = (IF ik \in DOMAIN badger.rows THEN badger.rows[ik] ELSE Absent) /\ From(d) = ik
  BY Zenon, <1>4 DEF Value, From
<1>6. Own(d) = {k \in DOMAIN badger.rows : k = ik}
  BY Zenon, <1>2, <1>4, <1>5 DEF Own
<1>. HIDE DEF c, ik, v
<1>7. CASE v = Junk
  BY <1>3, <1>4, <1>7 DEF CallInv, BowKinds
<1>8. ASSUME v # Junk PROVE Exact(d)
  <2>1. CASE ik \in DOMAIN badger.rows
    <3>1. badger.rows[ik] = v /\ v # Absent
      BY <1>5, <2>1 DEF IInv, Stocked
    <3>2. d.got = <<ik>> /\ Own(d) = {ik}
      BY <1>4, <1>6, <1>8, <2>1, <3>1
    <3>3. Range(d.got) = {ik} /\ Len(d.got) = 1
      BY <3>2 DEF Range
    <3>4. Cardinality({ik}) = 1
      BY Zenon, FS_Singleton
    <3>. QED BY <1>4, <1>8, <3>1, <3>2, <3>3, <3>4 DEF Exact
  <2>2. CASE ik \notin DOMAIN badger.rows
    <3>1. d.got = <<>> /\ Own(d) = {}
      BY <1>4, <1>5, <1>6, <2>2
    <3>2. Range(d.got) = {} /\ Len(d.got) = 0
      BY <3>1 DEF Range
    <3>3. Cardinality({}) = 0
      BY FS_EmptySet
    <3>. QED BY <3>1, <3>2, <3>3 DEF Exact
  <2>. QED BY <2>1, <2>2
<1>. QED BY <1>3, <1>4, <1>7, <1>8 DEF CallInv, BowKinds

-----------------------------------------------------------------------------
(* The other steps.                                                        *)

\* The calls of the others are theirs.
LEMMA CallsRead ==
    ASSUME IInv, NEW u \in Users, NEW call, usr' = [usr EXCEPT ![u] = call], CallInv(call)
    PROVE  \A v \in Users : CallInv(usr'[v])
<1>1. \A v \in Users : usr'[v] = IF v = u THEN call ELSE usr[v]
  BY DEF IInv, BInv, Shapes
<1>. QED BY Zenon, <1>1 DEF IInv

LEMMA IdlerRead == CallInv(Idler)
  BY DEF CallInv, Idler, BowKinds

\* The keys of written rows.
LEMMA WrittenFinite ==
    ASSUME NEW id, NEW ws \in Seq(Records)
    PROVE  IsFiniteSet(DOMAIN Written(id, ws))
<1>. DEFINE f == [i \in DOMAIN ws |-> internalKey(id, ws[i].key)]
<1>1. f \in Surjection(DOMAIN ws, DOMAIN Written(id, ws))
  BY DEF Written, Surjection
<1>2. IsFiniteSet(DOMAIN ws)
  <2>1. DOMAIN ws = 1 .. Len(ws) /\ Len(ws) \in Int /\ 1 \in Int
    OBVIOUS
  <2>. QED BY <2>1, FS_Interval
<1>. HIDE DEF f
<1>. QED BY <1>1, <1>2, FS_Surjection

\* A write of rows of the call op.
LEMMA WriteStocks ==
    ASSUME IInv, NEW id, NEW op \in BowOps, <<id, op.name>> \in owner, NEW ws \in Seq(Records),
           Range(ws) \subseteq Range(op.rows), badger'.rows = Over(Written(id, ws), badger.rows), owner' = owner
    PROVE  Stocked'
<1>1. /\ DOMAIN badger'.rows = DOMAIN Written(id, ws) \cup DOMAIN badger.rows
      /\ \A k \in DOMAIN badger'.rows : badger'.rows[k] = IF k \in DOMAIN Written(id, ws) THEN Written(id, ws)[k] ELSE badger.rows[k]
  BY DEF Over
<1>2. IsFiniteSet(DOMAIN badger'.rows)
  <2>1. IsFiniteSet(DOMAIN Written(id, ws)) /\ IsFiniteSet(DOMAIN badger.rows)
    BY Zenon, WrittenFinite DEF IInv, Stocked
  <2>2. IsFiniteSet(DOMAIN Written(id, ws) \cup DOMAIN badger.rows)
    BY Zenon, <2>1, FS_Union
  <2>. QED BY Zenon, <1>1, <2>2
<1>3. ASSUME NEW k \in DOMAIN Written(id, ws)
      PROVE  /\ Written(id, ws)[k] # Absent
             /\ \E i \in DOMAIN op.rows : k = internalKey(id, op.rows[i].key)
  <2>1. PICK j \in DOMAIN ws : k = internalKey(id, ws[j].key)
    BY DEF Written
  <2>2. ws[j].key \in Seq(Nat)
    BY RowKeys
  <2>3. PICK r \in Range(ws) : r.key = ws[j].key /\ Written(id, ws)[k] = r.val
    BY Zenon, <1>3, <2>1, <2>2, WrittenRows
  <2>4. r \in Records /\ \A s \in Records : s.val # Absent
    <3>1. r \in Records
      BY <2>3 DEF Range
    <3>2. \A s \in Records : s.val # Absent
      BY DEF Records
    <3>. QED BY <3>1, <3>2
  <2>5. \E i \in DOMAIN op.rows : r = op.rows[i]
    BY Zenon, <2>3 DEF Range
  <2>. QED BY Zenon, <2>1, <2>3, <2>4, <2>5
<1>4. ASSUME NEW k \in DOMAIN badger'.rows
      PROVE  /\ badger'.rows[k] # Absent
             /\ \E o \in owner, w \in BowOps : \E i \in DOMAIN w.rows : o[2] = w.name /\ k = internalKey(o[1], w.rows[i].key)
  <2>1. CASE k \in DOMAIN Written(id, ws)
    <3>1. PICK i \in DOMAIN op.rows : k = internalKey(id, op.rows[i].key)
      BY Zenon, <1>3, <2>1
    <3>2. PICK o \in owner : o = <<id, op.name>>
      BY Zenon
    <3>3. o[1] = id /\ o[2] = op.name
      BY <3>2
    <3>. QED BY Zenon, <1>1, <1>3, <2>1, <3>1, <3>3
  <2>2. CASE k \notin DOMAIN Written(id, ws)
    BY Zenon, <1>1, <2>2 DEF IInv, Stocked
  <2>. QED BY <2>1, <2>2
<1>. QED BY Zenon, <1>2, <1>4 DEF Stocked

\* Steps that leave the rows alone.
LEMMA SameStock ==
    ASSUME IInv, badger'.rows = badger.rows, owner \subseteq owner'
    PROVE  Stocked'
<1>1. ASSUME NEW k \in DOMAIN badger.rows
      PROVE  \E o \in owner', op \in BowOps : \E i \in DOMAIN op.rows : o[2] = op.name /\ k = internalKey(o[1], op.rows[i].key)
  BY Zenon DEF IInv, Stocked
<1>2. IsFiniteSet(DOMAIN badger'.rows) /\ \A k \in DOMAIN badger'.rows : k \in DOMAIN badger.rows /\ badger'.rows[k] # Absent
  BY Zenon DEF IInv, Stocked
<1>. QED BY Zenon, <1>1, <1>2 DEF Stocked

LEMMA PutStocks ==
    ASSUME IInv, NEW u \in Users, Put(u) \/ PutBatch(u)
    PROVE  Stocked' /\ \A v \in Users : CallInv(usr'[v])
<1>1. PICK c : c = usr[u]
  BY Zenon
<1>2. /\ c.pc \in {"put", "batch"} /\ owner' = owner /\ bow.open /\ c.op \in BowOps /\ c.rest \in Seq(Records)
      /\ c.op.name \in DOMAIN bow.buckets /\ c.id = bow.buckets[c.op.name]
  <2>1. c.pc \in {"put", "batch"} /\ owner' = owner
    BY Zenon, <1>1 DEF Put, PutBatch
  <2>. QED BY <1>1, <2>1 DEF IInv, BInv, CallOK
<1>3. <<c.id, c.op.name>> \in owner /\ Range(c.rest) \subseteq Range(c.op.rows)
  BY <1>1, <1>2 DEF IInv, BInv, Known, Names, CallInv
<1>4. DOMAIN badger = {"meta", "seq", "rows"} /\ DOMAIN c = {"pc", "op", "id", "rest", "snap", "got"}
  BY <1>1 DEF IInv, BInv, Shapes
<1>5. CASE Put(u)
  <2>1. badger'.rows = Over(Written(c.id, c.rest), badger.rows) \/ badger'.rows = badger.rows
    BY Zenon, <1>1, <1>4, <1>5 DEF Put
  <2>2. Stocked'
    BY Zenon, <1>2, <1>3, <2>1, WriteStocks, SameStock
  <2>. QED BY Zenon, <1>5, <2>2, CallsRead, IdlerRead DEF Put, Failed
<1>6. CASE PutBatch(u)
  <2>1. PICK n : n = IF Len(c.rest) < FlushEvery THEN Len(c.rest) ELSE FlushEvery
    BY Zenon
  <2>2. n \in 0 .. Len(c.rest)
    BY <1>2, <2>1, BowConfig
  <2>3. PICK chunk : chunk = SubSeq(c.rest, 1, n)
    BY Zenon
  <2>4. PICK rest : rest = SubSeq(c.rest, n + 1, Len(c.rest))
    BY Zenon
  <2>5. chunk \in Seq(Records) /\ Range(chunk) \subseteq Range(c.op.rows) /\ Len(chunk) = n
    BY <1>2, <1>3, <2>2, <2>3, SubRows
  <2>6. Range(rest) \subseteq Range(c.rest)
    <3>1. PICK r \in Seq(Records) : r = c.rest
      BY Zenon, <1>2
    <3>2. Len(SubSeq(r, n + 1, Len(r))) = Len(r) - n /\ \A i \in 1 .. Len(r) - n : SubSeq(r, n + 1, Len(r))[i] = r[n + i] /\ n + i \in DOMAIN r
      BY SMTT(30), <2>2, <3>1
    <3>3. DOMAIN SubSeq(r, n + 1, Len(r)) = 1 .. Len(r) - n
      BY <2>2, <3>1, <3>2
    <3>4. \A i \in DOMAIN rest : \E j \in DOMAIN c.rest : rest[i] = c.rest[j]
      BY Zenon, <2>4, <3>1, <3>2, <3>3
    <3>. QED BY Zenon, <3>4 DEF Range
  <2>7. CASE /\ badger' = [badger EXCEPT !.rows = Over(Written(c.id, chunk), @)]
             /\ usr' = [usr EXCEPT ![u] = IF rest = <<>> THEN Idler ELSE [@ EXCEPT !.rest = rest]]
    <3>1. badger'.rows = Over(Written(c.id, chunk), badger.rows)
      BY <1>4, <2>7
    <3>2. Stocked'
      BY Zenon, <1>2, <1>3, <2>5, <3>1, WriteStocks
    <3>3. CASE rest = <<>>
      BY Zenon, <2>7, <3>2, <3>3, CallsRead, IdlerRead
    <3>4. CASE rest # <<>>
      <4>1. PICK d : d = [c EXCEPT !.rest = rest]
        BY Zenon
      <4>2. d.rest = rest /\ d.pc = c.pc /\ d.op = c.op /\ d.got = c.got
        BY <1>4, <4>1
      <4>3. CallInv(c)
        BY Zenon, <1>1 DEF IInv
      <4>4. CallInv(d)
        BY <1>2, <1>3, <2>6, <4>2, <4>3 DEF CallInv
      <4>5. usr' = [usr EXCEPT ![u] = d]
        BY Zenon, <1>1, <2>7, <3>4, <4>1
      <4>. QED BY Zenon, <3>2, <4>4, <4>5, CallsRead
    <3>. QED BY <3>3, <3>4
  <2>8. CASE /\ Failed(u)
             /\ \E m \in 0 .. n - 1 : badger' = [badger EXCEPT !.rows = Over(Written(c.id, SubSeq(chunk, 1, m)), @)]
    <3>1. PICK m \in 0 .. n - 1 : badger' = [badger EXCEPT !.rows = Over(Written(c.id, SubSeq(chunk, 1, m)), @)]
      BY Zenon, <2>8
    <3>2. PICK ws : ws = SubSeq(chunk, 1, m)
      BY Zenon
    <3>3. ws \in Seq(Records) /\ Range(ws) \subseteq Range(c.op.rows)
      <4>1. m \in 0 .. Len(chunk)
        BY <2>2, <2>5, <3>1
      <4>. QED BY <2>5, <3>2, <4>1, SubRows
    <3>4. badger'.rows = Over(Written(c.id, ws), badger.rows)
      BY <1>4, <3>1, <3>2
    <3>5. Stocked'
      BY Zenon, <1>2, <1>3, <3>3, <3>4, WriteStocks
    <3>. QED BY Zenon, <2>8, <3>5, CallsRead, IdlerRead DEF Failed
  <2>. QED BY Zenon, <1>1, <1>6, <2>1, <2>3, <2>4, <2>7, <2>8 DEF PutBatch
<1>. QED BY <1>5, <1>6

LEMMA DeleteStocks ==
    ASSUME IInv, NEW u \in Users, Delete(u)
    PROVE  Stocked' /\ \A v \in Users : CallInv(usr'[v])
<1>1. PICK ik : ik = internalKey(usr[u].id, usr[u].op.key)
  BY Zenon
<1>2. /\ owner' = owner /\ Failed(u)
      /\ \/ badger' = [badger EXCEPT !.rows = [k \in DOMAIN badger.rows \ {ik} |-> badger.rows[k]]]
         \/ badger' = badger
  BY Zenon, <1>1 DEF Delete
<1>3. CASE badger' = badger
  BY Zenon, <1>2, <1>3, SameStock, CallsRead, IdlerRead DEF Failed
<1>4. CASE badger' = [badger EXCEPT !.rows = [k \in DOMAIN badger.rows \ {ik} |-> badger.rows[k]]]
  <2>1. badger'.rows = [k \in DOMAIN badger.rows \ {ik} |-> badger.rows[k]]
    BY <1>4 DEF IInv, BInv, Shapes
  <2>2. DOMAIN badger'.rows \subseteq DOMAIN badger.rows /\ \A k \in DOMAIN badger'.rows : badger'.rows[k] = badger.rows[k]
    BY <2>1
  <2>3. IsFiniteSet(DOMAIN badger'.rows)
    BY Zenon, <2>2, FS_Subset DEF IInv, Stocked
  <2>4. Stocked'
    BY Zenon, <1>2, <2>2, <2>3 DEF IInv, Stocked
  <2>. QED BY Zenon, <1>2, <2>4, CallsRead, IdlerRead DEF Failed
<1>. QED BY <1>2, <1>3, <1>4

\* Bucket and createBucket: a call gets its bucket, and has read nothing.
LEMMA BucketReads ==
    ASSUME IInv, NEW u \in Users, NEW op \in BowOps, Bucket(u, op)
    PROVE  \A v \in Users : CallInv(usr'[v])
<1>1. PICK call : call = IF op.name \in DOMAIN bow.buckets
                         THEN [Idler EXCEPT !.pc = op.kind, !.op = op, !.id = bow.buckets[op.name], !.rest = op.rows]
                         ELSE [Idler EXCEPT !.pc = "create", !.op = op, !.rest = op.rows]
  BY Zenon
<1>2. call.pc \in {"create", op.kind} /\ call.op = op /\ call.rest = op.rows /\ call.got = <<>>
  BY <1>1 DEF Idler
<1>3. op.kind \in BowKinds
  BY BowConfig
<1>4. CallInv(call)
  BY <1>2, <1>3 DEF CallInv, BowKinds
<1>5. usr' = [usr EXCEPT ![u] = call]
  BY Zenon, <1>1 DEF Bucket
<1>. QED BY Zenon, <1>4, <1>5, CallsRead

LEMMA CreateReads ==
    ASSUME IInv, NEW u \in Users, createBucket(u)
    PROVE  Stocked' /\ \A v \in Users : CallInv(usr'[v])
<1>1. badger'.rows = badger.rows /\ owner \subseteq owner'
  BY Zenon DEF createBucket, IInv, BInv, Shapes
<1>2. Failed(u) \/ \E id : Has(u, id)
  BY Zenon DEF createBucket
<1>3. Stocked'
  BY Zenon, <1>1, SameStock
<1>4. ASSUME NEW id, Has(u, id) PROVE \A v \in Users : CallInv(usr'[v])
  <2>1. PICK c : c = usr[u]
    BY Zenon
  <2>2. /\ CallInv(c) /\ c.pc = "create" /\ c.op \in BowOps /\ DOMAIN usr = Users
        /\ DOMAIN c = {"pc", "op", "id", "rest", "snap", "got"}
    BY <2>1 DEF createBucket, IInv, BInv, Shapes, CallOK
  <2>3. PICK d : d = [c EXCEPT !.pc = c.op.kind, !.id = id]
    BY Zenon
  <2>4. d.pc = c.op.kind /\ d.op = c.op /\ d.rest = c.rest /\ d.got = c.got
    BY <2>2, <2>3
  <2>5. c.op.kind \in BowKinds
    BY <2>2, BowConfig
  <2>6. CallInv(d)
    BY <2>2, <2>4, <2>5 DEF CallInv, BowKinds
  <2>7. usr' = [usr EXCEPT ![u] = d]
    BY Zenon, <1>4, <2>1, <2>2, <2>3 DEF Has
  <2>. QED BY Zenon, <2>6, <2>7, CallsRead
<1>. QED BY Zenon, <1>2, <1>3, <1>4, CallsRead, IdlerRead DEF Failed

LEMMA ReadsRead ==
    ASSUME IInv, NEW u \in Users, Get(u) \/ newIter(u) \/ Next(u) \/ CloseIter(u)
    PROVE  Stocked' /\ \A v \in Users : CallInv(usr'[v])
<1>1. badger' = badger /\ owner' = owner
  BY Zenon DEF Get, newIter, Next, CloseIter
<1>2. CallInv(usr'[u])
  <2>1. CallInv(usr[u]) /\ DOMAIN usr = Users /\ DOMAIN usr[u] = {"pc", "op", "id", "rest", "snap", "got"}
    BY Zenon DEF IInv, BInv, Shapes
  <2>2. CASE CloseIter(u)
    BY Zenon, <2>1, <2>2, IdlerRead DEF CloseIter, Failed
  <2>. QED BY Zenon, <2>1, <2>2, GetReads, NewIterReads, NextReads
<1>3. \A v \in Users \ {u} : usr'[v] = usr[v]
  BY Zenon DEF Get, newIter, Next, CloseIter, Failed, IInv, BInv, Shapes
<1>. QED BY Zenon, <1>1, <1>2, <1>3, SameStock DEF IInv

LEMMA InitIInv ==
    ASSUME NEW calls, BowInit(calls)
    PROVE  IInv
<1>1. BInv
  BY Zenon, InitBInv
<1>2. badger.rows = <<>> /\ \A u \in Users : usr[u] = Idler
  BY DEF BowInit
<1>3. Stocked
  <2>1. DOMAIN badger.rows = {}
    BY <1>2
  <2>. QED BY Zenon, <2>1, FS_EmptySet DEF Stocked
<1>. QED BY Zenon, <1>1, <1>2, <1>3, IdlerRead DEF IInv

LEMMA NextIInv ==
    ASSUME IInv, [BowNext]_bvars
    PROVE  IInv'
<1>1. BInv'
  BY Zenon, NextBInv DEF IInv
<1>2. CASE Open \/ CloseDB \/ UNCHANGED bvars
  <2>1. badger'.rows = badger.rows /\ owner' = owner /\ usr' = usr
    BY <1>2 DEF Open, CloseDB, bvars, IInv, BInv, Shapes
  <2>. QED BY Zenon, <1>1, <2>1, SameStock DEF IInv
<1>3. CASE Crash
  <2>1. badger' = badger /\ owner' = owner /\ \A u \in Users : usr'[u] = Idler
    BY <1>3 DEF Crash
  <2>. QED BY Zenon, <1>1, <2>1, SameStock, IdlerRead DEF IInv
<1>4. ASSUME NEW u \in Users, NEW op \in BowOps, Bucket(u, op) PROVE IInv'
  <2>1. badger' = badger /\ owner' = owner
    BY <1>4 DEF Bucket
  <2>. QED BY Zenon, <1>1, <1>4, <2>1, SameStock, BucketReads DEF IInv
<1>5. ASSUME NEW u \in Users,
             \/ createBucket(u) \/ Put(u) \/ PutBatch(u) \/ Delete(u)
             \/ Get(u) \/ newIter(u) \/ Next(u) \/ CloseIter(u)
      PROVE  IInv'
  <2>1. Stocked' /\ \A v \in Users : CallInv(usr'[v])
    BY Zenon, <1>5, CreateReads, PutStocks, DeleteStocks, ReadsRead
  <2>. QED BY Zenon, <1>1, <2>1 DEF IInv
<1>. QED BY Zenon, <1>2, <1>3, <1>4, <1>5 DEF BowNext

\* A Get, or a loop over Next, that ends without an error has returned exactly the
\* records of its bucket with the key or the prefix, or from seek to until, in
\* the snapshot that it began with, in the order of their keys, each once and all
\* of them readable; for every set of callers, calls, rows and keys, whatever is
\* written, closed or reopened meanwhile (Get, newIter, newRange, Next).
THEOREM BowIterationExact ==
    ASSUME NEW CONSTANT calls
    PROVE  BowSpec(calls) => []IterationExact
<1>1. ASSUME IInv PROVE IterationExact
  BY Zenon, <1>1 DEF IInv, CallInv, IterationExact, Exact, Own, From, Upto
<1>. QED BY <1>1, InitIInv, NextIInv, PTL DEF BowSpec

=============================================================================
