---------------------------- MODULE ImportProofs ----------------------------
(* Proofs about the import of a lane: what is acked, confirmed and         *)
(* remembered.                                                             *)
EXTENDS Import, TLAPS

-----------------------------------------------------------------------------
(* The inductive invariant.                                                *)

\* A sequence of elements of M without repetition.
Once(s, M) == s \in Seq(M) /\ \A i, j \in 1 .. Len(s) : s[i] = s[j] => i = j

Importing == {"ecId", "run", "register", "day", "block", "import", "importBlock"}
Working   == Importing \cup {"decode", "confirm"}

Fields == {"pc", "batch", "single", "rest", "finished", "call", "todo", "replied", "part", "errs",
           "ecIds", "idx", "run", "left", "day", "bad", "imports"}

Outcomes == {"none", "failed", "stopped"}

Shapes ==
    /\ DOMAIN lane = Fields /\ lane.pc \in Working \cup {"idle", "returned", "ack"}
    /\ lane.single \in BOOLEAN /\ lane.errs \in [Msgs -> Outcomes]
    /\ Once(lane.batch, Msgs) /\ Once(lane.rest, Msgs) /\ Once(lane.call, Msgs) /\ Once(lane.todo, Msgs) /\ Once(lane.part, Msgs) /\ Once(queue, Msgs)
    /\ replies \in [Msgs -> Nat] /\ DOMAIN count = {"faults", "panics", "crashes", "stops"} /\ count.crashes \in Nat

\* A queued message is not acked, and not in the batch.
Queued ==
    /\ Range(queue) \cap acked = {}
    /\ lane.pc # "idle" => Range(queue) \cap Range(lane.batch) = {}

\* ExecuteBatch is under way: the messages of the call still to do are not
\* finished, replied has the messages of the call and of the rerun only, and
\* what is done of them is finished.  In the first run of the batch none that is
\* still to do has a reply.
Calling ==
    /\ Range(lane.call) \cup Range(lane.rest) \subseteq Range(lane.batch)
    /\ Range(lane.call) \cap Range(lane.rest) = {}
    /\ Range(lane.todo) \cup Range(lane.part) \subseteq Range(lane.call)
    /\ Range(lane.todo) \cap Range(lane.part) = {}
    /\ (Range(lane.todo) \cup Range(lane.part) \cup Range(lane.rest)) \cap lane.finished = {}
    /\ Range(lane.part) \cap lane.replied = {}
    /\ lane.replied \subseteq Range(lane.call) \cup Range(lane.rest)
    /\ (lane.replied \cap Range(lane.call)) \ Range(lane.todo) \subseteq lane.finished
    /\ Range(lane.batch) \cap acked = {} /\ lane.finished \subseteq Range(lane.batch)
    /\ lane.single => Len(lane.call) = 1
    /\ ~lane.single => lane.rest = <<>> /\ Range(lane.todo) \cap lane.replied = {}
    /\ lane.pc \in Importing => lane.part # <<>>

\* It has returned: replied has messages still to rerun only.
Back ==
    /\ lane.part = <<>> /\ Range(lane.rest) \subseteq Range(lane.batch) /\ Range(lane.rest) \cap lane.finished = {}
    /\ lane.replied \subseteq Range(lane.rest)
    /\ Range(lane.batch) \cap acked = {} /\ lane.finished \subseteq Range(lane.batch)
    /\ ~lane.single => lane.rest = <<>>

\* The acks: the finished messages are acked or still to come.
Acking ==
    /\ lane.replied = {} /\ Range(lane.todo) \subseteq Range(lane.batch)
    /\ lane.finished \subseteq acked \cup Range(lane.todo)

Idle == lane.replied = {} /\ lane.finished = {} /\ lane.rest = <<>> /\ lane.part = <<>>

Accounted == {m \in Msgs : replies[m] > 0} \cup logged

\* A message with a reply of this process will not get another: it is acked, or
\* remembered in replied, or finished where no panic can forget that.
Safe(m) ==
    \/ m \in acked \cup lane.replied
    \/ m \in lane.finished /\ (lane.pc \in Working => lane.single)

ImInv ==
    /\ Shapes /\ Queued
    /\ lane.pc \in Working => Calling
    /\ lane.pc = "returned" => Back
    /\ lane.pc = "ack" => Acking
    /\ lane.pc = "idle" => Idle
    /\ acked \subseteq Accounted /\ lane.finished \subseteq Accounted
    /\ lane.replied \subseteq {m \in Msgs : replies[m] > 0}
    /\ \A m \in Msgs : replies[m] > count.crashes => replies[m] = count.crashes + 1 /\ Safe(m)

-----------------------------------------------------------------------------
(* Sequences without repetition.                                           *)

LEMMA RangeIs ==
    ASSUME NEW S, NEW s \in Seq(S), NEW x
    PROVE  x \in Range(s) <=> \E i \in 1 .. Len(s) : x = s[i]
  BY DEF Range

LEMMA EmptyOnce ==
    ASSUME NEW M
    PROVE  Once(<<>>, M) /\ Range(<<>>) = {}
<1>1. <<>> \in Seq(M) /\ 1 .. Len(<<>>) = {}
  OBVIOUS
<1>2. \A x : x \notin Range(<<>>)
  BY Zenon, <1>1, RangeIs
<1>. QED BY <1>1, <1>2 DEF Once

LEMMA TailOnce ==
    ASSUME NEW M, NEW s, Once(s, M), s # <<>>
    PROVE  Once(Tail(s), M) /\ Head(s) \in Range(s) /\ Head(s) \in M /\ Range(Tail(s)) = Range(s) \ {Head(s)}
<1>1. s \in Seq(M) /\ Len(s) \in Nat \ {0} /\ \A i, j \in 1 .. Len(s) : s[i] = s[j] => i = j
  BY DEF Once
<1>2. Tail(s) \in Seq(M) /\ Len(Tail(s)) = Len(s) - 1 /\ \A i \in 1 .. Len(s) - 1 : Tail(s)[i] = s[i + 1]
  BY <1>1
<1>3. Head(s) = s[1] /\ 1 \in 1 .. Len(s) /\ s[1] \in M
  BY <1>1
<1>4. Once(Tail(s), M)
  BY <1>1, <1>2 DEF Once
<1>5. ASSUME NEW x \in Range(Tail(s)) PROVE x \in Range(s) \ {Head(s)}
  <2>1. PICK i \in 1 .. Len(s) - 1 : x = s[i + 1]
    <3>1. Tail(s) \in Seq(M)
      BY <1>2
    <3>2. PICK i \in 1 .. Len(Tail(s)) : x = Tail(s)[i]
      BY Zenon, <3>1, <1>5, RangeIs
    <3>. QED BY <1>2, <3>2
  <2>2. i + 1 \in 1 .. Len(s) /\ i + 1 # 1
    BY <1>1, <2>1
  <2>. QED BY <1>1, <1>3, <2>1, <2>2, RangeIs
<1>6. ASSUME NEW x \in Range(s), x # Head(s) PROVE x \in Range(Tail(s))
  <2>1. PICK i \in 1 .. Len(s) : x = s[i]
    BY <1>1, <1>6, RangeIs
  <2>2. i - 1 \in 1 .. Len(s) - 1 /\ i = (i - 1) + 1
    BY <1>1, <1>3, <1>6, <2>1
  <2>3. x = Tail(s)[i - 1]
    BY <1>2, <2>1, <2>2
  <2>. QED BY Zenon, <1>2, <2>2, <2>3, RangeIs
<1>7. Head(s) \in Range(s)
  BY <1>1, <1>3, RangeIs
<1>. QED BY <1>3, <1>4, <1>5, <1>6, <1>7

LEMMA AppendOnce ==
    ASSUME NEW M, NEW s, Once(s, M), NEW m \in M, m \notin Range(s)
    PROVE  Once(Append(s, m), M) /\ Append(s, m) # <<>> /\ Range(Append(s, m)) = Range(s) \cup {m}
<1>1. s \in Seq(M) /\ Len(s) \in Nat /\ \A i, j \in 1 .. Len(s) : s[i] = s[j] => i = j
  BY DEF Once
<1>2. PICK a : a = Append(s, m)
  BY Zenon
<1>3. /\ a \in Seq(M) /\ Len(a) = Len(s) + 1 /\ \A i \in 1 .. Len(s) : a[i] = s[i]
      /\ a[Len(s) + 1] = m
  BY <1>1, <1>2
<1>4. \A i \in 1 .. Len(s) : s[i] # m
  BY <1>1, RangeIs
<1>5. \A i, j \in 1 .. Len(a) : a[i] = a[j] => i = j
  BY <1>1, <1>3, <1>4
<1>6. \A x : x \in Range(a) <=> x \in Range(s) \/ x = m
  <2>1. \A x : x \in Range(a) <=> \E i \in 1 .. Len(a) : x = a[i]
    BY <1>3, RangeIs
  <2>2. \A x : x \in Range(s) <=> \E i \in 1 .. Len(s) : x = s[i]
    BY <1>1, RangeIs
  <2>. QED BY <1>1, <1>3, <2>1, <2>2
<1>7. a # <<>>
  BY <1>1, <1>3
<1>. QED BY <1>2, <1>3, <1>5, <1>6, <1>7 DEF Once

LEMMA OneOnce ==
    ASSUME NEW M, NEW m \in M
    PROVE  Once(<<m>>, M) /\ Range(<<m>>) = {m} /\ Len(<<m>>) = 1
<1>1. <<m>> \in Seq(M) /\ Len(<<m>>) = 1 /\ 1 .. 1 = {1} /\ <<m>>[1] = m
  OBVIOUS
<1>2. \A x : x \in Range(<<m>>) <=> x = m
  <2>1. \A x : x \in Range(<<m>>) <=> \E i \in 1 .. Len(<<m>>) : x = <<m>>[i]
    BY Zenon, <1>1, RangeIs
  <2>. QED BY <1>1, <2>1
<1>. QED BY <1>1, <1>2 DEF Once

LEMMA OnlyOne ==
    ASSUME NEW M, NEW s, Once(s, M), Len(s) = 1, NEW x \in Range(s), NEW y \in Range(s)
    PROVE  x = y
  BY RangeIs DEF Once

LEMMA EmptyRange ==
    ASSUME NEW M, NEW s, Once(s, M)
    PROVE  (s = <<>> <=> Range(s) = {}) /\ Range(s) \subseteq M
<1>1. s \in Seq(M) /\ Len(s) \in Nat
  BY DEF Once
<1>2. s # <<>> => s[1] \in Range(s)
  BY <1>1, RangeIs
<1>3. Range(s) \subseteq M
  BY <1>1, RangeIs
<1>. QED BY <1>2, <1>3, EmptyOnce

\* The first n messages and the others.
LEMMA SplitElements ==
    ASSUME NEW M, NEW s \in Seq(M), NEW n \in 1 .. Len(s)
    PROVE  /\ SubSeq(s, 1, n) \in Seq(M) /\ Len(SubSeq(s, 1, n)) = n /\ \A i \in 1 .. n : SubSeq(s, 1, n)[i] = s[i]
           /\ SubSeq(s, n + 1, Len(s)) \in Seq(M) /\ Len(SubSeq(s, n + 1, Len(s))) = Len(s) - n
           /\ \A i \in 1 .. Len(s) - n : SubSeq(s, n + 1, Len(s))[i] = s[n + i]
<1>1. s \in Seq(M) /\ Len(s) \in Nat /\ n \in Nat
  OBVIOUS
<1>2. PICK a : a = SubSeq(s, 1, n)
  BY Zenon
<1>3. PICK b : b = SubSeq(s, n + 1, Len(s))
  BY Zenon
<1>4. a \in Seq(M) /\ Len(a) = n /\ \A i \in 1 .. n : a[i] = s[i]
  <2>1. 1 \in 1 .. Len(s) + 1 /\ n \in 1 - 1 .. Len(s) /\ n - 1 + 1 = n
    BY <1>1
  <2>. QED BY <1>1, <1>2, <2>1
<1>5. b \in Seq(M) /\ Len(b) = Len(s) - n /\ \A i \in 1 .. Len(s) - n : b[i] = s[n + i]
  <2>1. n + 1 \in 1 .. Len(s) + 1 /\ Len(s) \in (n + 1) - 1 .. Len(s) /\ Len(s) - (n + 1) + 1 = Len(s) - n
    BY <1>1
  <2>2. /\ b \in Seq(M) /\ Len(b) = Len(s) - (n + 1) + 1
        /\ \A i \in 1 .. Len(s) - (n + 1) + 1 : b[i] = s[(n + 1) + i - 1]
    <3>1. n + 1 \in Int /\ Len(s) \in Int /\ \A i \in n + 1 .. Len(s) : s[i] \in M
      BY <1>1
    <3>2. PICK k \in Int : k = n + 1
      BY <3>1
    <3>3. /\ SubSeq(s, k, Len(s)) \in Seq(M) /\ Len(SubSeq(s, k, Len(s))) = IF k <= Len(s) THEN Len(s) - k + 1 ELSE 0
          /\ \A i \in 1 .. Len(s) - k + 1 : SubSeq(s, k, Len(s))[i] = s[k + i - 1]
      BY <3>1, <3>2
    <3>4. b = SubSeq(s, k, Len(s)) /\ (IF k <= Len(s) THEN Len(s) - k + 1 ELSE 0) = Len(s) - k + 1
      BY <1>1, <1>3, <3>2
    <3>5. b \in Seq(M) /\ Len(b) = Len(s) - k + 1 /\ \A i \in 1 .. Len(s) - k + 1 : b[i] = s[k + i - 1]
      BY <3>3, <3>4
    <3>. QED BY <3>2, <3>5
  <2>3. \A i \in 1 .. Len(s) - n : (n + 1) + i - 1 = n + i
    BY <1>1
  <2>. QED BY <2>1, <2>2, <2>3
<1>. QED BY <1>2, <1>3, <1>4, <1>5

LEMMA SplitOnce ==
    ASSUME NEW M, NEW s, Once(s, M), NEW n \in 1 .. Len(s)
    PROVE  /\ Once(SubSeq(s, 1, n), M) /\ Once(SubSeq(s, n + 1, Len(s)), M)
           /\ Range(SubSeq(s, 1, n)) \subseteq Range(s) /\ Range(SubSeq(s, n + 1, Len(s))) \subseteq Range(s)
           /\ Range(SubSeq(s, 1, n)) \cap Range(SubSeq(s, n + 1, Len(s))) = {}
<1>1. s \in Seq(M) /\ Len(s) \in Nat /\ n \in Nat /\ \A i, j \in 1 .. Len(s) : s[i] = s[j] => i = j
  BY DEF Once
<1>2. PICK a : a = SubSeq(s, 1, n)
  BY Zenon
<1>3. PICK b : b = SubSeq(s, n + 1, Len(s))
  BY Zenon
<1>4. a \in Seq(M) /\ Len(a) = n /\ \A i \in 1 .. n : a[i] = s[i]
  BY <1>1, <1>2, SplitElements
<1>5. b \in Seq(M) /\ Len(b) = Len(s) - n /\ \A i \in 1 .. Len(s) - n : b[i] = s[n + i]
  BY <1>1, <1>3, SplitElements
<1>6. Once(a, M) /\ Once(b, M)
  <2>1. \A i, k \in 1 .. n : a[i] = a[k] => i = k
    BY <1>1, <1>4
  <2>2. \A i, k \in 1 .. Len(s) - n : b[i] = b[k] => i = k
    <3>1. SUFFICES ASSUME NEW i \in 1 .. Len(s) - n, NEW k \in 1 .. Len(s) - n, b[i] = b[k] PROVE i = k
      OBVIOUS
    <3>2. n + i \in 1 .. Len(s) /\ n + k \in 1 .. Len(s) /\ s[n + i] = s[n + k]
      BY <1>1, <1>5, <3>1
    <3>3. n + i = n + k
      BY <1>1, <3>2
    <3>. QED BY <1>1, <3>3
  <2>. QED BY <1>4, <1>5, <2>1, <2>2 DEF Once
<1>7. \A x : x \in Range(s) <=> \E i \in 1 .. Len(s) : x = s[i]
  BY <1>1, RangeIs
<1>8. \A x : x \in Range(a) <=> \E i \in 1 .. n : x = s[i]
  <2>1. \A x : x \in Range(a) <=> \E i \in 1 .. Len(a) : x = a[i]
    BY <1>4, RangeIs
  <2>. QED BY <1>4, <2>1
<1>9. \A x : x \in Range(b) <=> \E i \in 1 .. Len(s) - n : x = s[n + i]
  <2>1. \A x : x \in Range(b) <=> \E i \in 1 .. Len(b) : x = b[i]
    BY <1>5, RangeIs
  <2>. QED BY SMTT(30), <1>5, <2>1
<1>10. \A i \in 1 .. n : i \in 1 .. Len(s)
  BY <1>1
<1>11. \A i \in 1 .. Len(s) - n : n + i \in 1 .. Len(s) /\ n + i \notin 1 .. n
  BY <1>1
<1>12. Range(a) \subseteq Range(s) /\ Range(b) \subseteq Range(s)
  BY <1>7, <1>8, <1>9, <1>10, <1>11
<1>13. Range(a) \cap Range(b) = {}
  <2>1. SUFFICES ASSUME NEW i \in 1 .. n, NEW k \in 1 .. Len(s) - n, s[i] = s[n + k] PROVE FALSE
    BY <1>8, <1>9
  <2>. QED BY <1>1, <1>10, <1>11, <2>1
<1>. QED BY <1>2, <1>3, <1>6, <1>12, <1>13

-----------------------------------------------------------------------------
(* ImportBatch: it touches the fields of its own only.                     *)

\* l is the lane with other fields of ImportBatch.
Within(l) ==
    /\ DOMAIN l = Fields /\ l.errs \in [Msgs -> Outcomes]
    /\ l.batch = lane.batch /\ l.single = lane.single /\ l.rest = lane.rest /\ l.finished = lane.finished
    /\ l.call = lane.call /\ l.todo = lane.todo /\ l.replied = lane.replied /\ l.part = lane.part

LEMMA WithinSetErrs ==
    ASSUME NEW l, Within(l), NEW ms, NEW e \in Outcomes
    PROVE  Within(SetErrs(l, ms, e)) /\ SetErrs(l, ms, e).pc = l.pc
<1>1. PICK f : f = [m \in Msgs |-> IF m \in ms THEN e ELSE l.errs[m]]
  BY Zenon
<1>2. f \in [Msgs -> Outcomes]
  BY <1>1 DEF Within
<1>3. SetErrs(l, ms, e) = [l EXCEPT !.errs = f]
  BY <1>1 DEF SetErrs
<1>. QED BY <1>2, <1>3 DEF Within, Fields

LEMMA WithinSettle ==
    ASSUME Within(lane), NEW ok \in BOOLEAN
    PROVE  Within(Settle(lane, ok)) /\ Settle(lane, ok).pc \in Importing
<1>. DEFINE pending == {b.msg : b \in lane.left}
            done    == lane.run \ pending
            one     == SetErrs(lane, done \cap lane.bad, "failed")
            settled == SetErrs(one, done \ lane.bad, "none")
            stopped == SetErrs(settled, pending, "stopped")
            imports == pending \cup lane.idx
<1>1. Within(one)
  BY WithinSetErrs DEF Outcomes
<1>2. Within(settled)
  <2>. HIDE DEF one
  <2>. QED BY <1>1, WithinSetErrs DEF Outcomes
<1>3. Within(stopped)
  <2>. HIDE DEF settled
  <2>. QED BY <1>2, WithinSetErrs DEF Outcomes
<1>4. Settle(lane, ok) = IF ok THEN [stopped EXCEPT !.pc = "run"]
                         ELSE [settled EXCEPT !.pc = "import", !.idx = {}, !.imports = imports]
  BY DEF Settle
<1>. HIDE DEF stopped, settled, imports
<1>. QED BY <1>2, <1>3, <1>4 DEF Within, Fields, Importing

LEMMA WithinImport ==
    ASSUME NEW l, Within(l), NEW m
    PROVE  Within(StartImport(l, m)) /\ StartImport(l, m).pc \in Importing
  BY DEF Within, StartImport, Fields, Importing

\* A step of ImportBatch keeps the invariant.
LEMMA WithinKeeps ==
    ASSUME ImInv, lane.pc \in Importing, Within(lane'), lane'.pc \in Importing \cup {"confirm"},
           UNCHANGED <<msgs, queue, acked, replies, logged>>, DOMAIN count' = DOMAIN count, count'.crashes = count.crashes
    PROVE  ImInv'
<1>1. lane.pc \in Working /\ lane'.pc \in Working /\ Msgs' = Msgs
  BY DEF Working, Msgs
<1>2. Shapes'
  BY <1>1 DEF ImInv, Shapes, Within
<1>3. Calling'
  BY <1>1 DEF ImInv, Calling, Within, Importing
<1>4. Queued'
  BY <1>1 DEF ImInv, Queued, Within, Working, Importing
<1>5. acked' \subseteq Accounted' /\ lane'.finished \subseteq Accounted' /\ lane'.replied \subseteq {m \in Msgs : replies[m] > 0}'
  BY <1>1 DEF ImInv, Accounted, Within
<1>6. \A m \in Msgs' : replies'[m] > count'.crashes => replies'[m] = count'.crashes + 1 /\ Safe(m)'
  BY <1>1 DEF ImInv, Safe, Within
<1>7. lane'.pc \notin {"returned", "ack", "idle"}
  BY DEF Importing
<1>. QED BY <1>1, <1>2, <1>3, <1>4, <1>5, <1>6, <1>7 DEF ImInv

LEMMA LaneWithin ==
    ASSUME ImInv
    PROVE  Within(lane) /\ DOMAIN lane = Fields
  BY DEF ImInv, Shapes, Within

\* A field of l is replaced.
LEMMA WithinFields ==
    ASSUME NEW l, Within(l), NEW v
    PROVE  /\ Within([l EXCEPT !.pc = v]) /\ [l EXCEPT !.pc = v].pc = v
           /\ Within([l EXCEPT !.ecIds = v]) /\ [l EXCEPT !.ecIds = v].pc = l.pc
           /\ Within([l EXCEPT !.left = v]) /\ [l EXCEPT !.left = v].pc = l.pc
           /\ Within([l EXCEPT !.bad = v]) /\ [l EXCEPT !.bad = v].pc = l.pc
           /\ Within([l EXCEPT !.imports = v]) /\ [l EXCEPT !.imports = v].pc = l.pc
  BY DEF Within, Fields

LEMMA CountFacts ==
    ASSUME ImInv, UNCHANGED count \/ count' = [count EXCEPT !.faults = @ + 1]
                  \/ count' = [count EXCEPT !.panics = @ + 1] \/ count' = [count EXCEPT !.stops = @ + 1]
    PROVE  DOMAIN count' = DOMAIN count /\ count'.crashes = count.crashes
  BY DEF ImInv, Shapes

LEMMA ImportBatchKeeps ==
    ASSUME ImInv,
           \/ importEcId \/ ImportBatchDone \/ NextRun \/ Register \/ storeDay \/ RunDone
           \/ StoreBlock \/ BlocksDone \/ importOne \/ ImportBlock \/ ImportDone
    PROVE  ImInv'
<1>1. Within(lane)
  BY LaneWithin
<1>2. CASE importEcId
  <2>1. lane.pc = "ecId" /\ UNCHANGED <<msgs, queue, acked, replies, logged>>
    BY Zenon, <1>2 DEF importEcId
  <2>2. PICK ecId : ecId = msgs[First({m \in Range(lane.part) : msgs[m].ecId \in lane.ecIds})].ecId
    BY Zenon
  <2>3. PICK l : l = [lane EXCEPT !.ecIds = lane.ecIds \ {ecId}]
    BY Zenon
  <2>4. PICK ms : ms = {m \in Range(lane.part) : msgs[m].ecId = ecId}
    BY Zenon
  <2>5. \/ lane' \in {SetErrs(l, ms, "stopped"), SetErrs(l, ms, "failed")}
        \/ lane' = [l EXCEPT !.pc = "run", !.idx = ms]
    BY Zenon, <1>2, <2>2, <2>3, <2>4 DEF importEcId
  <2>8. Within(l) /\ l.pc = "ecId"
    BY Zenon, <1>1, <2>1, <2>3, WithinFields
  <2>6. Within(lane') /\ lane'.pc \in Importing
    <3>1. CASE lane' = [l EXCEPT !.pc = "run", !.idx = ms]
      BY <2>8, <3>1 DEF Within, Fields, Importing
    <3>2. CASE lane' \in {SetErrs(l, ms, "stopped"), SetErrs(l, ms, "failed")}
      BY <2>8, <3>2, WithinSetErrs DEF Outcomes, Importing
    <3>. QED BY <2>5, <3>1, <3>2
  <2>7. DOMAIN count' = DOMAIN count /\ count'.crashes = count.crashes
    BY Zenon, <1>2, CountFacts DEF importEcId
  <2>. QED BY <2>1, <2>6, <2>7, WithinKeeps DEF Importing
<1>3. CASE ImportBatchDone
  <2>1. Within(lane') /\ lane'.pc = "confirm"
    BY Zenon, <1>1, <1>3, WithinFields DEF ImportBatchDone
  <2>. QED BY <1>3, <2>1, WithinKeeps DEF ImportBatchDone, Importing
<1>4. CASE NextRun
  <2>1. lane.pc = "run" /\ UNCHANGED <<msgs, queue, acked, replies, logged, count>>
    BY <1>4 DEF NextRun
  <2>2. PICK r : r = splitRuns(lane.idx)
    OBVIOUS
  <2>3. PICK l : l = [lane EXCEPT !.idx = lane.idx \ r, !.run = r]
    OBVIOUS
  <2>4. Within(l) /\ l.pc = "run"
    BY <1>1, <2>1, <2>3 DEF Within, Fields
  <2>5. \/ lane' = [lane EXCEPT !.pc = "ecId"]
        \/ lane' = SetErrs(l, r, "stopped")
        \/ lane' = StartImport([l EXCEPT !.imports = r], First(r))
        \/ lane' = [l EXCEPT !.pc = "register", !.left = UNION {MsgBlocks(m) : m \in r}, !.bad = {}]
    BY <1>4, <2>2, <2>3 DEF NextRun
  <2>6. Within(lane') /\ lane'.pc \in Importing
    <3>1. CASE lane' = [lane EXCEPT !.pc = "ecId"]
      BY Zenon, <1>1, <3>1, WithinFields DEF Importing
    <3>2. CASE lane' = SetErrs(l, r, "stopped")
      BY <2>4, <3>2, WithinSetErrs DEF Outcomes, Importing
    <3>3. CASE lane' = StartImport([l EXCEPT !.imports = r], First(r))
      BY Zenon, <2>4, <3>3, WithinFields, WithinImport
    <3>4. CASE lane' = [l EXCEPT !.pc = "register", !.left = UNION {MsgBlocks(m) : m \in r}, !.bad = {}]
      BY <2>4, <3>4 DEF Within, Fields, Importing
    <3>. QED BY <2>5, <3>1, <3>2, <3>3, <3>4
  <2>. QED BY <2>1, <2>6, WithinKeeps DEF Importing
<1>5. CASE Register
  <2>1. lane.pc = "register" /\ UNCHANGED <<msgs, queue, acked, replies, logged>>
    BY <1>5 DEF Register
  <2>2. DOMAIN count' = DOMAIN count /\ count'.crashes = count.crashes
    BY Zenon, <1>5, CountFacts DEF Register
  <2>3. lane' = [lane EXCEPT !.pc = "day"] \/ lane' = Settle(lane, FALSE)
    BY Zenon, <1>5 DEF Register
  <2>4. Within(lane') /\ lane'.pc \in Importing
    <3>1. CASE lane' = [lane EXCEPT !.pc = "day"]
      BY Zenon, <1>1, <3>1, WithinFields DEF Importing
    <3>2. CASE lane' = Settle(lane, FALSE)
      BY Zenon, <1>1, <3>2, WithinSettle
    <3>. QED BY Zenon, <2>3, <3>1, <3>2
  <2>. QED BY <2>1, <2>2, <2>4, WithinKeeps DEF Importing
<1>6. CASE storeDay
  <2>1. lane.pc = "day" /\ UNCHANGED <<msgs, queue, acked, replies, logged>>
    BY <1>6 DEF storeDay
  <2>2. DOMAIN count' = DOMAIN count /\ count'.crashes = count.crashes
    BY <1>6, CountFacts DEF storeDay, StoreCall
  <2>3. \/ lane' = [lane EXCEPT !.left = lane.left \ DayBlocks]
        \/ lane' = [lane EXCEPT !.pc = "block", !.day = DayBlocks]
        \/ lane' = Settle(lane, FALSE)
    BY Zenon, <1>6 DEF storeDay
  <2>4. Within(lane') /\ lane'.pc \in Importing
    <3>1. CASE lane' = [lane EXCEPT !.left = lane.left \ DayBlocks]
      BY Zenon, <1>1, <2>1, <3>1, WithinFields DEF Importing
    <3>2. CASE lane' = [lane EXCEPT !.pc = "block", !.day = DayBlocks]
      BY <1>1, <3>2 DEF Within, Fields, Importing
    <3>3. CASE lane' = Settle(lane, FALSE)
      BY Zenon, <1>1, <3>3, WithinSettle
    <3>. QED BY Zenon, <2>3, <3>1, <3>2, <3>3
  <2>. QED BY <2>1, <2>2, <2>4, WithinKeeps DEF Importing
<1>7. CASE RunDone
  <2>1. Within(lane') /\ lane'.pc \in Importing
    BY Zenon, <1>1, <1>7, WithinSettle DEF RunDone
  <2>. QED BY Zenon, <1>7, <2>1, WithinKeeps DEF RunDone, Importing
<1>8. CASE StoreBlock
  <2>1. lane.pc = "block" /\ UNCHANGED <<msgs, queue, acked, replies, logged>>
    BY <1>8 DEF StoreBlock
  <2>2. DOMAIN count' = DOMAIN count /\ count'.crashes = count.crashes
    BY <1>8, CountFacts DEF StoreBlock, StoreCall
  <2>3. PICK b : b = FirstBlock(lane.day)
    OBVIOUS
  <2>4. PICK l : l = [lane EXCEPT !.day = lane.day \ {b}, !.left = lane.left \ {b}]
    OBVIOUS
  <2>5. Within(l) /\ l.pc = "block"
    BY <1>1, <2>1, <2>4 DEF Within, Fields
  <2>6. lane' = l \/ lane' = [l EXCEPT !.bad = l.bad \cup {b.msg}] \/ lane' = Settle(lane, FALSE)
    BY Zenon, <1>8, <2>3, <2>4 DEF StoreBlock
  <2>7. Within(lane') /\ lane'.pc \in Importing
    <3>1. CASE lane' = l
      BY <2>5, <3>1 DEF Importing
    <3>2. CASE lane' = [l EXCEPT !.bad = l.bad \cup {b.msg}]
      BY Zenon, <2>5, <3>2, WithinFields DEF Importing
    <3>3. CASE lane' = Settle(lane, FALSE)
      BY Zenon, <1>1, <3>3, WithinSettle
    <3>. QED BY Zenon, <2>6, <3>1, <3>2, <3>3
  <2>. QED BY <2>1, <2>2, <2>7, WithinKeeps DEF Importing
<1>9. CASE BlocksDone
  <2>1. Within(lane') /\ lane'.pc = "day"
    BY Zenon, <1>1, <1>9, WithinFields DEF BlocksDone
  <2>. QED BY <1>9, <2>1, WithinKeeps DEF BlocksDone, Importing
<1>10. CASE importOne
  <2>1. lane.pc = "import" /\ UNCHANGED <<msgs, queue, acked, replies, logged, count>>
    BY <1>10 DEF importOne
  <2>2. PICK m : m = First(lane.imports)
    OBVIOUS
  <2>3. PICK l : l = [lane EXCEPT !.imports = lane.imports \ {m}]
    BY Zenon
  <2>4. Within(l) /\ l.pc = "import"
    BY Zenon, <1>1, <2>1, <2>3, WithinFields
  <2>5. lane' = [lane EXCEPT !.pc = "run"] \/ lane' = SetErrs(l, {m}, "stopped") \/ lane' = StartImport(lane, m)
    BY <1>10, <2>2, <2>3 DEF importOne
  <2>6. Within(lane') /\ lane'.pc \in Importing
    <3>1. CASE lane' = [lane EXCEPT !.pc = "run"]
      BY Zenon, <1>1, <3>1, WithinFields DEF Importing
    <3>2. CASE lane' = SetErrs(l, {m}, "stopped")
      BY <2>4, <3>2, WithinSetErrs DEF Outcomes, Importing
    <3>3. CASE lane' = StartImport(lane, m)
      BY <1>1, <3>3, WithinImport
    <3>. QED BY <2>5, <3>1, <3>2, <3>3
  <2>. QED BY <2>1, <2>6, WithinKeeps DEF Importing
<1>11. CASE ImportBlock
  <2>1. lane.pc = "importBlock" /\ UNCHANGED <<msgs, queue, acked, replies, logged>>
    BY <1>11 DEF ImportBlock
  <2>2. DOMAIN count' = DOMAIN count /\ count'.crashes = count.crashes
    BY <1>11, CountFacts DEF ImportBlock, StoreCall
  <2>3. PICK b : b = FirstBlock(lane.left)
    OBVIOUS
  <2>4. PICK l : l = [lane EXCEPT !.left = lane.left \ {b}]
    BY Zenon
  <2>5. Within(l) /\ l.pc = "importBlock"
    BY Zenon, <1>1, <2>1, <2>4, WithinFields
  <2>6. lane' = l \/ lane' = [l EXCEPT !.bad = {b.msg}] \/ lane' = [l EXCEPT !.bad = {b.msg}, !.left = {}]
    BY <1>11, <2>3, <2>4 DEF ImportBlock
  <2>7. Within(lane') /\ lane'.pc \in Importing
    <3>1. CASE lane' = l
      BY <2>5, <3>1 DEF Importing
    <3>2. CASE lane' = [l EXCEPT !.bad = {b.msg}]
      BY Zenon, <2>5, <3>2, WithinFields DEF Importing
    <3>3. CASE lane' = [l EXCEPT !.bad = {b.msg}, !.left = {}]
      BY <2>5, <3>3 DEF Within, Fields, Importing
    <3>. QED BY <2>6, <3>1, <3>2, <3>3
  <2>. QED BY <2>1, <2>2, <2>7, WithinKeeps DEF Importing
<1>12. CASE ImportDone
  <2>1. lane.pc = "importBlock" /\ UNCHANGED <<msgs, queue, acked, replies, logged, count>>
    BY <1>12 DEF ImportDone
  <2>2. PICK e \in {"none", "failed"} : e = IF lane.bad = {} THEN "none" ELSE "failed"
    OBVIOUS
  <2>3. PICK l : l = [lane EXCEPT !.pc = "import", !.imports = lane.imports \ {First(lane.imports)}]
    OBVIOUS
  <2>4. Within(l) /\ l.pc = "import"
    BY <1>1, <2>3 DEF Within, Fields
  <2>5. lane' = SetErrs(l, {First(lane.imports)}, e)
    BY <1>12, <2>2, <2>3 DEF ImportDone
  <2>6. Within(lane') /\ lane'.pc = "import"
    BY <2>4, <2>5, WithinSetErrs DEF Outcomes
  <2>. QED BY <2>1, <2>6, WithinKeeps DEF Importing
<1>. QED BY <1>2, <1>3, <1>4, <1>5, <1>6, <1>7, <1>8, <1>9, <1>10, <1>11, <1>12

-----------------------------------------------------------------------------
(* ExecuteBatch.                                                           *)

LEMMA NewLaneFacts ==
    /\ DOMAIN NewLane = Fields /\ NewLane.pc = "idle" /\ NewLane.single = FALSE /\ NewLane.errs \in [Msgs -> Outcomes]
    /\ NewLane.batch = <<>> /\ NewLane.rest = <<>> /\ NewLane.call = <<>> /\ NewLane.todo = <<>> /\ NewLane.part = <<>>
    /\ NewLane.finished = {} /\ NewLane.replied = {}
<1>1. [m \in Msgs |-> "none"] \in [Msgs -> Outcomes]
  BY DEF Outcomes
<1>. QED BY Zenon, <1>1 DEF NewLane, Fields

\* The lane is under way in ExecuteBatch: the sequences and sets it has.
LEMMA CallFacts ==
    ASSUME ImInv, lane.pc \in Working
    PROVE  Calling /\ Shapes /\ lane.pc # "idle" /\ lane.pc \notin {"returned", "ack"}
  BY DEF ImInv, Working, Importing

LEMMA StartPartFacts ==
    ASSUME NEW l, DOMAIN l = Fields
    PROVE  /\ DOMAIN StartPart(l) = Fields /\ StartPart(l).pc = "ecId" /\ StartPart(l).errs \in [Msgs -> Outcomes]
           /\ StartPart(l).batch = l.batch /\ StartPart(l).single = l.single /\ StartPart(l).rest = l.rest
           /\ StartPart(l).finished = l.finished /\ StartPart(l).call = l.call /\ StartPart(l).todo = l.todo
           /\ StartPart(l).replied = l.replied /\ StartPart(l).part = l.part
  BY NewLaneFacts DEF StartPart, Fields

\* A step of ExecuteBatch with the lane as before but for todo, part, finished
\* and replied: what remains to be shown of it.
LEMMA CallKeeps ==
    ASSUME ImInv, lane.pc \in {"decode", "confirm"}, UNCHANGED <<msgs, queue, acked, count>>,
           DOMAIN lane' = Fields, lane'.pc \in {"decode", "confirm", "ecId"}, lane'.errs \in [Msgs -> Outcomes],
           lane'.batch = lane.batch, lane'.single = lane.single, lane'.rest = lane.rest, lane'.call = lane.call,
           Once(lane'.todo, Msgs), Once(lane'.part, Msgs), replies' \in [Msgs -> Nat], Calling',
           acked \subseteq Accounted', lane'.finished \subseteq Accounted', lane'.replied \subseteq {m \in Msgs : replies'[m] > 0},
           \A m \in Msgs : replies'[m] > count.crashes => replies'[m] = count.crashes + 1 /\ Safe(m)'
    PROVE  ImInv'
<1>1. lane'.pc \in Working /\ lane'.pc \notin {"returned", "ack", "idle"} /\ Msgs' = Msgs /\ lane.pc # "idle"
  BY DEF Working, Importing, Msgs
<1>2. Shapes'
  BY <1>1 DEF ImInv, Shapes
<1>3. Queued'
  BY <1>1 DEF ImInv, Queued
<1>. QED BY <1>1, <1>2, <1>3 DEF ImInv

LEMMA DecodeKeeps ==
    ASSUME ImInv, Decode
    PROVE  ImInv'
<1>1. lane.pc = "decode" /\ lane.todo # <<>> /\ UNCHANGED <<msgs, queue, acked, replies, count>> /\ lane.pc \in Working
  BY DEF Decode, Working
<1>2. Calling /\ Shapes
  BY <1>1, CallFacts
<1>3. PICK m : m = Head(lane.todo)
  OBVIOUS
<1>4. PICK t : t = Tail(lane.todo)
  BY Zenon
<1>5. /\ Once(t, Msgs) /\ m \in Range(lane.todo) /\ m \in Msgs /\ Range(t) = Range(lane.todo) \ {m}
      /\ m \notin Range(lane.part) /\ m \notin lane.finished /\ m \in Range(lane.call) /\ m \in Range(lane.batch)
      /\ m \notin Range(lane.rest)
  BY Zenon, <1>1, <1>2, <1>3, <1>4, TailOnce DEF Calling, Shapes
<1>6. PICK l : l = [lane EXCEPT !.todo = t]
  BY Zenon
<1>7. /\ DOMAIN l = Fields /\ l.pc = "decode" /\ l.errs = lane.errs
      /\ l.batch = lane.batch /\ l.single = lane.single /\ l.rest = lane.rest /\ l.finished = lane.finished
      /\ l.call = lane.call /\ l.todo = t /\ l.replied = lane.replied /\ l.part = lane.part
  BY <1>1, <1>2, <1>6 DEF Shapes, Fields
<1>8. Msgs' = Msgs /\ "decode" \notin Importing /\ lane.errs \in [Msgs -> Outcomes] /\ replies \in [Msgs -> Nat]
  BY <1>1, <1>2 DEF Msgs, Importing, Shapes
<1>9. CASE m \in lane.replied
  <2>1. lane' = [l EXCEPT !.replied = l.replied \ {m}, !.finished = l.finished \cup {m}] /\ logged' = logged
    BY <1>3, <1>4, <1>6, <1>9 DEF Decode
  <2>2. /\ DOMAIN lane' = Fields /\ lane'.pc = "decode" /\ lane'.errs = lane.errs
        /\ lane'.batch = lane.batch /\ lane'.single = lane.single /\ lane'.rest = lane.rest
        /\ lane'.finished = lane.finished \cup {m}
        /\ lane'.call = lane.call /\ lane'.todo = t /\ lane'.replied = lane.replied \ {m} /\ lane'.part = lane.part
    BY <1>7, <2>1 DEF Fields
  <2>3. lane.single
    BY <1>2, <1>5, <1>9 DEF Calling
  <2>4. Calling'
    BY <1>1, <1>2, <1>5, <1>8, <2>2, <2>3 DEF Calling
  <2>5. /\ acked \subseteq Accounted' /\ lane'.finished \subseteq Accounted'
        /\ lane'.replied \subseteq {n \in Msgs : replies'[n] > 0}
    BY <1>1, <1>8, <1>9, <2>1, <2>2 DEF ImInv, Accounted
  <2>6. \A n \in Msgs : replies'[n] > count.crashes => replies'[n] = count.crashes + 1 /\ Safe(n)'
    BY <1>1, <2>2, <2>3 DEF ImInv, Safe
  <2>. QED BY <1>1, <1>2, <1>5, <1>8, <2>2, <2>4, <2>5, <2>6, CallKeeps DEF Shapes
<1>10. CASE m \notin lane.replied /\ ctxDone
  <2>1. lane' = l /\ logged' = logged
    BY Zenon, <1>3, <1>4, <1>6, <1>10 DEF Decode
  <2>2. Calling'
    BY <1>1, <1>2, <1>5, <1>7, <1>8, <1>10, <2>1 DEF Calling
  <2>3. /\ acked \subseteq Accounted' /\ lane'.finished \subseteq Accounted'
        /\ lane'.replied \subseteq {n \in Msgs : replies'[n] > 0}
    BY <1>1, <1>7, <1>8, <2>1 DEF ImInv, Accounted
  <2>4. \A n \in Msgs : replies'[n] > count.crashes => replies'[n] = count.crashes + 1 /\ Safe(n)'
    BY <1>1, <1>7, <2>1 DEF ImInv, Safe
  <2>. QED BY <1>1, <1>2, <1>5, <1>7, <1>8, <2>1, <2>2, <2>3, <2>4, CallKeeps DEF Shapes
<1>11. CASE m \notin lane.replied /\ ~ctxDone /\ ~msgs[m].decodable
  <2>1. lane' = [l EXCEPT !.finished = l.finished \cup {m}] /\ logged' = logged \cup {m}
    BY <1>3, <1>4, <1>6, <1>11 DEF Decode
  <2>2. /\ DOMAIN lane' = Fields /\ lane'.pc = "decode" /\ lane'.errs = lane.errs
        /\ lane'.batch = lane.batch /\ lane'.single = lane.single /\ lane'.rest = lane.rest
        /\ lane'.finished = lane.finished \cup {m}
        /\ lane'.call = lane.call /\ lane'.todo = t /\ lane'.replied = lane.replied /\ lane'.part = lane.part
    BY Zenon, <1>7, <2>1 DEF Fields
  <2>3. Calling'
    BY <1>1, <1>2, <1>5, <1>8, <1>11, <2>2 DEF Calling
  <2>4. /\ acked \subseteq Accounted' /\ lane'.finished \subseteq Accounted'
        /\ lane'.replied \subseteq {n \in Msgs : replies'[n] > 0}
    BY <1>1, <1>8, <2>1, <2>2 DEF ImInv, Accounted
  <2>5. \A n \in Msgs : replies'[n] > count.crashes => replies'[n] = count.crashes + 1 /\ Safe(n)'
    BY <1>1, <2>2 DEF ImInv, Safe
  <2>. QED BY <1>1, <1>2, <1>5, <1>8, <2>2, <2>3, <2>4, <2>5, CallKeeps DEF Shapes
<1>12. CASE m \notin lane.replied /\ ~ctxDone /\ msgs[m].decodable
  <2>1. PICK p : p = Append(lane.part, m)
    BY Zenon
  <2>2. Once(p, Msgs) /\ p # <<>> /\ Range(p) = Range(lane.part) \cup {m}
    BY <1>2, <1>5, <2>1, AppendOnce DEF Shapes
  <2>3. PICK k : k = [l EXCEPT !.part = p]
    BY Zenon
  <2>4. /\ DOMAIN k = Fields /\ k.pc = "decode" /\ k.errs = lane.errs
        /\ k.batch = lane.batch /\ k.single = lane.single /\ k.rest = lane.rest /\ k.finished = lane.finished
        /\ k.call = lane.call /\ k.todo = t /\ k.replied = lane.replied /\ k.part = p
    BY <1>7, <2>3 DEF Fields
  <2>5. lane' \in {k, StartPart(k)} /\ logged' = logged
    BY <1>3, <1>4, <1>6, <1>12, <2>1, <2>3 DEF Decode
  <2>6. /\ DOMAIN lane' = Fields /\ lane'.pc \in {"decode", "ecId"} /\ lane'.errs \in [Msgs -> Outcomes]
        /\ lane'.batch = lane.batch /\ lane'.single = lane.single /\ lane'.rest = lane.rest /\ lane'.finished = lane.finished
        /\ lane'.call = lane.call /\ lane'.todo = t /\ lane'.replied = lane.replied /\ lane'.part = p
    BY SMTT(30), <1>8, <2>4, <2>5, StartPartFacts
  <2>7. Calling'
    BY <1>1, <1>2, <1>5, <1>12, <2>2, <2>6 DEF Calling
  <2>8. /\ acked \subseteq Accounted' /\ lane'.finished \subseteq Accounted'
        /\ lane'.replied \subseteq {n \in Msgs : replies'[n] > 0}
    BY <1>1, <1>8, <2>5, <2>6 DEF ImInv, Accounted
  <2>9. \A n \in Msgs : replies'[n] > count.crashes => replies'[n] = count.crashes + 1 /\ Safe(n)'
    BY <1>1, <2>6 DEF ImInv, Safe
  <2>. QED BY <1>1, <1>5, <1>8, <2>2, <2>6, <2>7, <2>8, <2>9, CallKeeps
<1>. QED BY <1>9, <1>10, <1>11, <1>12

LEMMA DecodeDoneKeeps ==
    ASSUME ImInv, DecodeDone
    PROVE  ImInv'
<1>1. /\ lane.pc = "decode" /\ lane.todo = <<>> /\ UNCHANGED <<msgs, queue, acked, replies, logged, count>>
      /\ lane.pc \in Working
  BY DEF DecodeDone, Working
<1>2. Calling /\ Shapes
  BY <1>1, CallFacts
<1>3. Msgs' = Msgs /\ replies \in [Msgs -> Nat]
  BY <1>1, <1>2 DEF Msgs, Shapes
<1>4. CASE lane.part # <<>>
  <2>1. /\ DOMAIN lane' = Fields /\ lane'.pc = "ecId" /\ lane'.errs \in [Msgs -> Outcomes]
        /\ lane'.batch = lane.batch /\ lane'.single = lane.single /\ lane'.rest = lane.rest /\ lane'.finished = lane.finished
        /\ lane'.call = lane.call /\ lane'.todo = lane.todo /\ lane'.replied = lane.replied /\ lane'.part = lane.part
    BY <1>2, <1>4, StartPartFacts DEF DecodeDone, Shapes
  <2>2. Calling'
    BY <1>1, <1>2, <1>4, <2>1 DEF Calling
  <2>3. /\ acked \subseteq Accounted' /\ lane'.finished \subseteq Accounted'
        /\ lane'.replied \subseteq {n \in Msgs : replies'[n] > 0}
    BY <1>1, <1>3, <2>1 DEF ImInv, Accounted
  <2>4. \A n \in Msgs : replies'[n] > count.crashes => replies'[n] = count.crashes + 1 /\ Safe(n)'
    BY <1>1, <2>1 DEF ImInv, Safe
  <2>. QED BY <1>1, <1>2, <1>3, <2>1, <2>2, <2>3, <2>4, CallKeeps DEF Shapes
<1>5. CASE lane.part = <<>>
  <2>1. lane' = [lane EXCEPT !.pc = "returned", !.replied = lane.replied \ Range(lane.call)]
    BY <1>5 DEF DecodeDone
  <2>2. /\ DOMAIN lane' = Fields /\ lane'.pc = "returned" /\ lane'.errs = lane.errs
        /\ lane'.batch = lane.batch /\ lane'.single = lane.single /\ lane'.rest = lane.rest /\ lane'.finished = lane.finished
        /\ lane'.call = lane.call /\ lane'.todo = lane.todo /\ lane'.replied = lane.replied \ Range(lane.call)
        /\ lane'.part = lane.part
    BY <1>2, <2>1 DEF Shapes, Fields
  <2>3. Shapes'
    BY <1>1, <1>2, <1>3, <2>2 DEF Shapes
  <2>4. Back'
    BY <1>1, <1>2, <1>5, <2>2 DEF Calling, Back
  <2>5. Queued'
    BY <1>1, <2>2 DEF ImInv, Queued
  <2>6. acked' \subseteq Accounted' /\ lane'.finished \subseteq Accounted' /\ lane'.replied \subseteq {m \in Msgs : replies[m] > 0}'
    BY <1>1, <1>3, <2>2 DEF ImInv, Accounted
  <2>7. "returned" \notin Working
    BY DEF Working, Importing
  <2>8. lane.replied \cap Range(lane.call) \subseteq lane.finished
    BY <1>1, <1>2, EmptyOnce DEF Calling
  <2>9. \A m \in Msgs' : replies'[m] > count'.crashes => replies'[m] = count'.crashes + 1 /\ Safe(m)'
    BY Zenon, <1>1, <1>3, <2>2, <2>7, <2>8 DEF ImInv, Safe
  <2>. QED BY <2>2, <2>3, <2>4, <2>5, <2>6, <2>7, <2>9 DEF ImInv
<1>. QED BY <1>4, <1>5

LEMMA ConfirmKeeps ==
    ASSUME ImInv, Confirm
    PROVE  ImInv'
<1>1. lane.pc = "confirm" /\ lane.part # <<>> /\ UNCHANGED <<msgs, queue, acked, count>> /\ lane.pc \in Working
  BY DEF Confirm, Working
<1>2. Calling /\ Shapes
  BY <1>1, CallFacts
<1>3. PICK m : m = Head(lane.part)
  OBVIOUS
<1>4. PICK t : t = Tail(lane.part)
  BY Zenon
<1>5. /\ Once(t, Msgs) /\ m \in Range(lane.part) /\ m \in Msgs /\ Range(t) = Range(lane.part) \ {m}
      /\ m \notin Range(lane.todo) /\ m \notin lane.finished /\ m \notin lane.replied /\ m \in Range(lane.call)
      /\ m \in Range(lane.batch) /\ m \notin Range(lane.rest) /\ m \notin acked
  BY Zenon, <1>1, <1>2, <1>3, <1>4, TailOnce DEF Calling, Shapes
<1>6. PICK e \in Outcomes : e = lane.errs[m]
  BY <1>2, <1>5 DEF Shapes
<1>7. Msgs' = Msgs /\ "confirm" \notin Importing /\ lane.errs \in [Msgs -> Outcomes] /\ replies \in [Msgs -> Nat]
      /\ count.crashes \in Nat
  BY <1>1, <1>2 DEF Msgs, Importing, Shapes
<1>8. PICK done, rep :
          /\ done = IF e = "stopped" THEN lane.finished ELSE lane.finished \cup {m}
          /\ rep = IF e = "none" THEN lane.replied \cup {m} ELSE lane.replied
  BY Zenon
<1>9. /\ DOMAIN lane' = Fields /\ lane'.pc = "confirm" /\ lane'.errs = lane.errs
      /\ lane'.batch = lane.batch /\ lane'.single = lane.single /\ lane'.rest = lane.rest /\ lane'.finished = done
      /\ lane'.call = lane.call /\ lane'.todo = lane.todo /\ lane'.replied = rep /\ lane'.part = t
  <2>1. PICK l : l = [lane EXCEPT !.part = t]
    BY Zenon
  <2>2. /\ DOMAIN l = Fields /\ l.pc = "confirm" /\ l.errs = lane.errs
        /\ l.batch = lane.batch /\ l.single = lane.single /\ l.rest = lane.rest /\ l.finished = lane.finished
        /\ l.call = lane.call /\ l.todo = lane.todo /\ l.replied = lane.replied /\ l.part = t
    BY <1>1, <1>2, <2>1 DEF Shapes, Fields
  <2>3. lane' = IF e = "stopped" THEN l
                ELSE IF e = "failed" THEN [l EXCEPT !.finished = l.finished \cup {m}]
                ELSE [l EXCEPT !.finished = l.finished \cup {m}, !.replied = l.replied \cup {m}]
    BY <1>3, <1>4, <1>6, <2>1 DEF Confirm
  <2>4. CASE e = "stopped"
    BY <1>8, <2>2, <2>3, <2>4
  <2>5. CASE e = "failed"
    BY <1>8, <2>2, <2>3, <2>5 DEF Fields
  <2>6. CASE e = "none"
    BY <1>8, <2>2, <2>3, <2>6 DEF Fields
  <2>. QED BY <2>4, <2>5, <2>6 DEF Outcomes
<1>10. /\ logged' = IF e = "failed" THEN logged \cup {m} ELSE logged
       /\ replies' = IF e = "none" THEN [replies EXCEPT ![m] = replies[m] + 1] ELSE replies
  BY <1>3, <1>6 DEF Confirm
<1>11. /\ replies' \in [Msgs -> Nat] /\ \A n \in Msgs : replies'[n] >= replies[n]
       /\ \A n \in Msgs \ {m} : replies'[n] = replies[n]
       /\ replies'[m] = IF e = "none" THEN replies[m] + 1 ELSE replies[m]
  BY SMTT(30), <1>5, <1>7, <1>10
<1>12. Calling'
  BY <1>1, <1>2, <1>5, <1>7, <1>8, <1>9 DEF Calling
<1>13. \A n \in Msgs : replies[n] > 0 => replies'[n] > 0
  BY <1>7, <1>11
<1>14. Accounted \subseteq Accounted'
  BY <1>7, <1>10, <1>13 DEF Accounted
<1>15. e # "stopped" => m \in Accounted'
  <2>1. CASE e = "none"
    BY <1>5, <1>7, <1>11, <2>1 DEF Accounted
  <2>2. CASE e = "failed"
    BY <1>10, <2>2 DEF Accounted
  <2>. QED BY <2>1, <2>2 DEF Outcomes
<1>16. acked \subseteq Accounted' /\ lane'.finished \subseteq Accounted'
  BY Zenon, <1>8, <1>9, <1>14, <1>15 DEF ImInv
<1>17. lane'.replied \subseteq {n \in Msgs : replies'[n] > 0}
  BY <1>5, <1>7, <1>8, <1>9, <1>11, <1>13 DEF ImInv
<1>18. ~(replies[m] > count.crashes)
  BY <1>5 DEF ImInv, Safe
<1>19. ASSUME NEW n \in Msgs, replies'[n] > count.crashes
       PROVE  replies'[n] = count.crashes + 1 /\ Safe(n)'
  <2>1. CASE n = m
    <3>1. e = "none" /\ replies'[m] = replies[m] + 1
      BY <1>11, <1>18, <1>19, <2>1
    <3>2. replies'[m] = count.crashes + 1
      BY <1>5, <1>7, <1>18, <1>19, <2>1, <3>1
    <3>3. m \in lane'.replied
      BY <1>8, <1>9, <3>1
    <3>. QED BY <2>1, <3>2, <3>3 DEF Safe
  <2>2. CASE n # m
    <3>1. replies[n] = count.crashes + 1 /\ Safe(n) /\ replies'[n] = replies[n]
      BY <1>11, <1>19, <2>2 DEF ImInv
    <3>. QED BY <1>1, <1>8, <1>9, <3>1 DEF Safe
  <2>. QED BY <2>1, <2>2
<1>. QED BY <1>1, <1>2, <1>5, <1>7, <1>9, <1>11, <1>12, <1>16, <1>17, <1>19, CallKeeps DEF Shapes

LEMMA ConfirmDoneKeeps ==
    ASSUME ImInv, ConfirmDone
    PROVE  ImInv'
<1>1. /\ lane.pc = "confirm" /\ UNCHANGED <<msgs, queue, acked, replies, logged, count>> /\ lane.pc \in Working
      /\ lane' = [lane EXCEPT !.pc = "decode"] /\ Msgs' = Msgs
  BY DEF ConfirmDone, Working, Msgs
<1>2. Calling /\ Shapes
  BY <1>1, CallFacts
<1>3. /\ DOMAIN lane' = Fields /\ lane'.pc = "decode" /\ lane'.errs = lane.errs
      /\ lane'.batch = lane.batch /\ lane'.single = lane.single /\ lane'.rest = lane.rest /\ lane'.finished = lane.finished
      /\ lane'.call = lane.call /\ lane'.todo = lane.todo /\ lane'.replied = lane.replied /\ lane'.part = lane.part
  BY <1>1, <1>2 DEF Shapes, Fields
<1>4. Calling'
  BY <1>1, <1>2, <1>3 DEF Calling, Importing
<1>5. /\ acked \subseteq Accounted' /\ lane'.finished \subseteq Accounted'
      /\ lane'.replied \subseteq {n \in Msgs : replies'[n] > 0}
  BY <1>1, <1>3 DEF ImInv, Accounted
<1>6. \A n \in Msgs : replies'[n] > count.crashes => replies'[n] = count.crashes + 1 /\ Safe(n)'
  BY <1>1, <1>3 DEF ImInv, Safe
<1>. QED BY <1>1, <1>2, <1>3, <1>4, <1>5, <1>6, CallKeeps DEF Shapes

-----------------------------------------------------------------------------
(* executeBatch.                                                           *)

\* A step that leaves replies, acks and the log alone.
LEMMA SameLog ==
    ASSUME ImInv, UNCHANGED <<msgs, acked, replies>>, logged \subseteq logged', lane'.finished \subseteq lane.finished \cup logged',
           lane'.replied \subseteq lane.replied
    PROVE  /\ Msgs' = Msgs /\ acked' \subseteq Accounted' /\ lane'.finished \subseteq Accounted'
           /\ lane'.replied \subseteq {m \in Msgs : replies[m] > 0}'
  BY DEF ImInv, Accounted, Msgs

LEMMA TakeBatchKeeps ==
    ASSUME ImInv, TakeBatch
    PROVE  ImInv'
<1>1. lane.pc = "idle" /\ UNCHANGED <<msgs, acked, replies, logged, count>> /\ Shapes /\ Idle /\ queue # <<>>
  BY DEF TakeBatch, ImInv
<1>2. PICK n \in 1 .. (IF Len(queue) < batchMax THEN Len(queue) ELSE batchMax) :
          /\ queue' = SubSeq(queue, n + 1, Len(queue))
          /\ lane' = [lane EXCEPT !.pc = "decode", !.batch = SubSeq(queue, 1, n), !.single = FALSE,
                                  !.call = SubSeq(queue, 1, n), !.todo = SubSeq(queue, 1, n), !.finished = {}]
  BY Zenon DEF TakeBatch
<1>3. PICK b : b = SubSeq(queue, 1, n)
  BY Zenon
<1>4. n \in 1 .. Len(queue)
  BY <1>1, <1>2, ImportConfig DEF Shapes, Once
<1>5. /\ Once(b, Msgs) /\ Once(queue', Msgs) /\ Range(b) \subseteq Range(queue) /\ Range(queue') \subseteq Range(queue)
      /\ Range(b) \cap Range(queue') = {}
  BY <1>1, <1>2, <1>3, <1>4, SplitOnce DEF Shapes
<1>6. /\ DOMAIN lane' = Fields /\ lane'.pc = "decode" /\ lane'.errs = lane.errs
      /\ lane'.batch = b /\ lane'.single = FALSE /\ lane'.rest = <<>> /\ lane'.finished = {}
      /\ lane'.call = b /\ lane'.todo = b /\ lane'.replied = {} /\ lane'.part = <<>>
  BY <1>1, <1>2, <1>3 DEF Shapes, Fields, Idle
<1>7. "decode" \in Working /\ "decode" \notin Importing
  BY DEF Working, Importing
<1>8. Msgs' = Msgs
  BY <1>1 DEF Msgs
<1>9. Shapes'
  BY Zenon, <1>1, <1>5, <1>6, <1>7, <1>8, EmptyOnce DEF Shapes
<1>10. Calling'
  BY <1>1, <1>5, <1>6, <1>7, EmptyOnce DEF Calling, ImInv, Queued
<1>11. Queued'
  BY Zenon, <1>1, <1>5, <1>6 DEF ImInv, Queued
<1>12. acked' \subseteq Accounted' /\ lane'.finished \subseteq Accounted' /\ lane'.replied \subseteq {m \in Msgs : replies[m] > 0}'
  BY <1>1, <1>6, SameLog
<1>13. \A m \in Msgs' : replies'[m] > count'.crashes => replies'[m] = count'.crashes + 1 /\ Safe(m)'
  BY <1>1, <1>8 DEF ImInv, Safe, Idle
<1>. QED BY <1>6, <1>9, <1>10, <1>11, <1>12, <1>13 DEF ImInv

LEMMA ReturnedKeeps ==
    ASSUME ImInv, Returned
    PROVE  ImInv'
<1>1. lane.pc = "returned" /\ UNCHANGED <<msgs, queue, acked, replies, logged, count>> /\ Shapes /\ Back
  BY DEF Returned, ImInv
<1>2. CASE lane.single /\ lane.rest # <<>>
  <2>1. PICK m : m = Head(lane.rest)
    OBVIOUS
  <2>2. PICK t : t = Tail(lane.rest)
    BY Zenon
  <2>3. /\ Once(t, Msgs) /\ m \in Range(lane.rest) /\ m \in Msgs /\ Range(t) = Range(lane.rest) \ {m}
        /\ Once(<<m>>, Msgs) /\ Range(<<m>>) = {m} /\ Len(<<m>>) = 1
    BY Zenon, <1>1, <1>2, <2>1, <2>2, TailOnce, OneOnce DEF Shapes
  <2>4. lane' = [lane EXCEPT !.pc = "decode", !.call = <<m>>, !.todo = <<m>>, !.rest = t]
    BY <1>2, <2>1, <2>2 DEF Returned
  <2>5. /\ DOMAIN lane' = Fields /\ lane'.pc = "decode" /\ lane'.errs = lane.errs
        /\ lane'.batch = lane.batch /\ lane'.single = lane.single /\ lane'.rest = t /\ lane'.finished = lane.finished
        /\ lane'.call = <<m>> /\ lane'.todo = <<m>> /\ lane'.replied = lane.replied /\ lane'.part = <<>>
    BY <1>1, <2>4 DEF Shapes, Fields, Back
  <2>6. "decode" \in Working /\ "decode" \notin Importing
    BY DEF Working, Importing
  <2>7. Msgs' = Msgs
    BY Zenon, <1>1 DEF Msgs
  <2>8. Shapes'
    BY <1>1, <2>3, <2>5, <2>6, <2>7, EmptyOnce DEF Shapes
  <2>9. Calling'
    BY Zenon, <1>1, <1>2, <2>3, <2>5, <2>6, EmptyOnce DEF Calling, Back
  <2>10. Queued'
    BY <1>1, <2>5 DEF ImInv, Queued
  <2>11. acked' \subseteq Accounted' /\ lane'.finished \subseteq Accounted' /\ lane'.replied \subseteq {n \in Msgs : replies[n] > 0}'
    BY <1>1, <2>5, SameLog
  <2>12. \A n \in Msgs' : replies'[n] > count'.crashes => replies'[n] = count'.crashes + 1 /\ Safe(n)'
    BY Zenon, <1>1, <1>2, <2>5, <2>7 DEF ImInv, Safe
  <2>. QED BY <2>5, <2>8, <2>9, <2>10, <2>11, <2>12 DEF ImInv
<1>3. CASE ~(lane.single /\ lane.rest # <<>>)
  <2>1. lane' = [lane EXCEPT !.pc = "ack", !.todo = lane.batch]
    BY <1>3 DEF Returned
  <2>2. /\ DOMAIN lane' = Fields /\ lane'.pc = "ack" /\ lane'.errs = lane.errs
        /\ lane'.batch = lane.batch /\ lane'.single = lane.single /\ lane'.rest = lane.rest /\ lane'.finished = lane.finished
        /\ lane'.call = lane.call /\ lane'.todo = lane.batch /\ lane'.replied = lane.replied /\ lane'.part = lane.part
    BY <1>1, <2>1 DEF Shapes, Fields
  <2>3. lane.rest = <<>> /\ lane.replied = {}
    BY <1>1, <1>3, EmptyOnce DEF Back
  <2>4. "ack" \notin Working /\ Msgs' = Msgs
    BY Zenon, <1>1 DEF Working, Importing, Msgs
  <2>5. Shapes'
    BY <1>1, <2>2, <2>4 DEF Shapes
  <2>6. Acking'
    BY <1>1, <2>2, <2>3 DEF Acking, Back
  <2>7. Queued'
    BY <1>1, <2>2 DEF ImInv, Queued
  <2>8. acked' \subseteq Accounted' /\ lane'.finished \subseteq Accounted' /\ lane'.replied \subseteq {n \in Msgs : replies[n] > 0}'
    BY <1>1, <2>2, SameLog
  <2>9. \A n \in Msgs' : replies'[n] > count'.crashes => replies'[n] = count'.crashes + 1 /\ Safe(n)'
    BY <1>1, <2>2, <2>4 DEF ImInv, Safe
  <2>. QED BY <2>2, <2>4, <2>5, <2>6, <2>7, <2>8, <2>9 DEF ImInv
<1>. QED BY <1>2, <1>3

LEMMA PanicKeeps ==
    ASSUME ImInv, Panic
    PROVE  ImInv'
<1>1. lane.pc \in Importing /\ UNCHANGED <<msgs, queue, acked, replies>> /\ lane.pc \in Working /\ Msgs' = Msgs
  BY DEF Panic, Working, Importing, Msgs
<1>2. Calling /\ Shapes /\ lane.pc # "idle"
  BY <1>1, CallFacts
<1>3. DOMAIN count' = DOMAIN count /\ count'.crashes = count.crashes
  BY CountFacts DEF Panic
<1>4. "returned" \notin Working /\ "returned" # "idle"
  BY DEF Working, Importing
<1>5. /\ DOMAIN AfterPanic = Fields /\ AfterPanic.pc = "returned" /\ AfterPanic.errs \in [Msgs -> Outcomes]
      /\ AfterPanic.batch = lane.batch /\ AfterPanic.single = lane.single /\ AfterPanic.rest = lane.rest
      /\ AfterPanic.call = <<>> /\ AfterPanic.todo = <<>> /\ AfterPanic.part = <<>>
      /\ AfterPanic.finished = {} /\ AfterPanic.replied = lane.replied
  BY Zenon, NewLaneFacts DEF AfterPanic, Fields
<1>6. CASE Len(lane.call) = 1
  <2>1. lane' = [AfterPanic EXCEPT !.finished = lane.finished \cup Range(lane.call)] /\ logged' = logged \cup Range(lane.call)
    BY <1>6 DEF Panic
  <2>2. /\ DOMAIN lane' = Fields /\ lane'.pc = "returned" /\ lane'.errs \in [Msgs -> Outcomes]
        /\ lane'.batch = lane.batch /\ lane'.single = lane.single /\ lane'.rest = lane.rest
        /\ lane'.call = <<>> /\ lane'.todo = <<>> /\ lane'.part = <<>>
        /\ lane'.finished = lane.finished \cup Range(lane.call) /\ lane'.replied = lane.replied
    BY <1>5, <2>1 DEF Fields
  <2>3. Range(lane.call) \cap lane.replied = {}
    <3>1. PICK x : x \in Range(lane.part)
      BY <1>1, <1>2, EmptyRange DEF Calling, Shapes
    <3>2. \A y \in Range(lane.call) : y = x
      BY <1>2, <1>6, <3>1, OnlyOne DEF Calling, Shapes
    <3>. QED BY <1>2, <3>1, <3>2 DEF Calling
  <2>4. Shapes'
    BY Zenon, <1>1, <1>2, <1>3, <2>2, EmptyOnce DEF Shapes
  <2>5. Back'
    BY <1>1, <1>2, <2>2, <2>3 DEF Calling, Back
  <2>6. Queued'
    BY <1>1, <1>2, <2>2 DEF ImInv, Queued
  <2>7. acked' \subseteq Accounted' /\ lane'.finished \subseteq Accounted' /\ lane'.replied \subseteq {n \in Msgs : replies[n] > 0}'
    BY <1>1, <2>1, <2>2, SameLog
  <2>8. \A n \in Msgs' : replies'[n] > count'.crashes => replies'[n] = count'.crashes + 1 /\ Safe(n)'
    BY <1>1, <1>3, <1>4, <2>2 DEF ImInv, Safe
  <2>. QED BY <1>4, <2>2, <2>4, <2>5, <2>6, <2>7, <2>8 DEF ImInv
<1>7. CASE Len(lane.call) # 1
  <2>1. lane' = [AfterPanic EXCEPT !.single = TRUE, !.rest = lane.batch] /\ UNCHANGED logged
    BY <1>7 DEF Panic
  <2>2. /\ DOMAIN lane' = Fields /\ lane'.pc = "returned" /\ lane'.errs \in [Msgs -> Outcomes]
        /\ lane'.batch = lane.batch /\ lane'.single = TRUE /\ lane'.rest = lane.batch
        /\ lane'.call = <<>> /\ lane'.todo = <<>> /\ lane'.part = <<>>
        /\ lane'.finished = {} /\ lane'.replied = lane.replied
    BY <1>5, <2>1 DEF Fields
  <2>3. ~lane.single /\ lane.replied \subseteq Range(lane.batch)
    BY <1>2, <1>7 DEF Calling
  <2>4. Shapes'
    BY Zenon, <1>1, <1>2, <1>3, <2>2, EmptyOnce DEF Shapes
  <2>5. Back'
    BY <1>1, <1>2, <2>2, <2>3 DEF Calling, Back
  <2>6. Queued'
    BY <1>1, <1>2, <2>2 DEF ImInv, Queued
  <2>7. acked' \subseteq Accounted' /\ lane'.finished \subseteq Accounted' /\ lane'.replied \subseteq {n \in Msgs : replies[n] > 0}'
    BY <1>1, <2>1, <2>2, SameLog
  <2>8. \A n \in Msgs' : replies'[n] > count'.crashes => replies'[n] = count'.crashes + 1 /\ Safe(n)'
    BY <1>1, <1>3, <1>4, <2>2, <2>3 DEF ImInv, Safe
  <2>. QED BY <1>4, <2>2, <2>4, <2>5, <2>6, <2>7, <2>8 DEF ImInv
<1>. QED BY <1>6, <1>7

LEMMA AckKeeps ==
    ASSUME ImInv, Ack
    PROVE  ImInv'
<1>1. lane.pc = "ack" /\ lane.todo # <<>> /\ UNCHANGED <<msgs, queue, replies, logged, count>> /\ Shapes /\ Acking
  BY DEF Ack, ImInv
<1>2. PICK m : m = Head(lane.todo)
  OBVIOUS
<1>3. PICK t : t = Tail(lane.todo)
  BY Zenon
<1>4. Once(t, Msgs) /\ m \in Range(lane.todo) /\ Range(t) = Range(lane.todo) \ {m}
  BY Zenon, <1>1, <1>2, <1>3, TailOnce DEF Shapes
<1>5. lane' = [lane EXCEPT !.todo = t] /\ acked' = acked \cup ({m} \cap lane.finished)
  BY <1>2, <1>3 DEF Ack
<1>6. /\ DOMAIN lane' = Fields /\ lane'.pc = "ack" /\ lane'.errs = lane.errs
      /\ lane'.batch = lane.batch /\ lane'.single = lane.single /\ lane'.rest = lane.rest /\ lane'.finished = lane.finished
      /\ lane'.call = lane.call /\ lane'.todo = t /\ lane'.replied = lane.replied /\ lane'.part = lane.part
  BY <1>1, <1>5 DEF Shapes, Fields
<1>7. Msgs' = Msgs /\ "ack" \notin Working
  BY <1>1 DEF Msgs, Working, Importing
<1>8. Shapes'
  BY <1>1, <1>4, <1>6, <1>7 DEF Shapes
<1>9. Acking'
  BY <1>1, <1>4, <1>5, <1>6 DEF Acking
<1>10. Queued'
  BY <1>1, <1>4, <1>5, <1>6 DEF ImInv, Queued, Acking
<1>11. acked' \subseteq Accounted' /\ lane'.finished \subseteq Accounted' /\ lane'.replied \subseteq {n \in Msgs : replies[n] > 0}'
  BY <1>1, <1>5, <1>6, <1>7 DEF ImInv, Accounted
<1>12. \A n \in Msgs' : replies'[n] > count'.crashes => replies'[n] = count'.crashes + 1 /\ Safe(n)'
  BY <1>1, <1>5, <1>6, <1>7 DEF ImInv, Safe
<1>. QED BY <1>6, <1>7, <1>8, <1>9, <1>10, <1>11, <1>12 DEF ImInv

\* The lane is new: after the acks, a restart or a crash.
LEMMA NewLaneKeeps ==
    ASSUME ImInv, UNCHANGED <<msgs, acked, replies, logged>>, lane' = NewLane, Once(queue', Msgs), Range(queue') \cap acked = {},
           DOMAIN count' = DOMAIN count, count'.crashes \in Nat,
           \A m \in Msgs : replies[m] > count'.crashes => replies[m] = count'.crashes + 1 /\ m \in acked
    PROVE  ImInv'
<1>1. /\ DOMAIN lane' = Fields /\ lane'.pc = "idle" /\ lane'.single = FALSE /\ lane'.errs \in [Msgs -> Outcomes]
      /\ lane'.batch = <<>> /\ lane'.rest = <<>> /\ lane'.call = <<>> /\ lane'.todo = <<>> /\ lane'.part = <<>>
      /\ lane'.finished = {} /\ lane'.replied = {}
  BY NewLaneFacts
<1>2. Msgs' = Msgs /\ "idle" \notin Working
  BY DEF Msgs, Working, Importing
<1>3. Shapes'
  <2>1. Once(<<>>, Msgs)
    BY EmptyOnce
  <2>. QED BY Zenon, <1>1, <1>2, <2>1 DEF ImInv, Shapes
<1>4. Queued' /\ Idle'
  BY <1>1 DEF Queued, Idle
<1>5. acked' \subseteq Accounted' /\ lane'.finished \subseteq Accounted' /\ lane'.replied \subseteq {n \in Msgs : replies[n] > 0}'
  BY <1>1, <1>2 DEF ImInv, Accounted
<1>6. \A n \in Msgs' : replies'[n] > count'.crashes => replies'[n] = count'.crashes + 1 /\ Safe(n)'
  BY <1>2 DEF Safe
<1>. QED BY <1>1, <1>2, <1>3, <1>4, <1>5, <1>6 DEF ImInv

LEMMA BatchDoneKeeps ==
    ASSUME ImInv, BatchDone
    PROVE  ImInv'
<1>1. lane.pc = "ack" /\ lane.todo = <<>> /\ UNCHANGED <<msgs, queue, acked, replies, logged, count>> /\ Shapes /\ Acking
  BY DEF BatchDone, ImInv
<1>2. lane' = NewLane
  BY Zenon, <1>1, NewLaneFacts DEF BatchDone, Acking, NewLane
<1>3. \A m \in Msgs : replies[m] > count.crashes => replies[m] = count.crashes + 1 /\ m \in acked
  BY <1>1, EmptyOnce DEF ImInv, Safe, Acking
<1>. QED BY Zenon, <1>1, <1>2, <1>3, NewLaneKeeps DEF ImInv, Shapes, Queued

\* The redelivered messages: the unacked ones, each once.
LEMMA RedeliveredFacts ==
    ASSUME NEW q \in Redelivered
    PROVE  Once(q, Msgs) /\ Range(q) \cap acked = {} /\ Msgs \ acked \subseteq Range(q)
<1>1. PICK n \in Nat : q \in Bijection(1 .. n, Msgs \ acked)
  <2>1. PICK n \in 0 .. Len(msgs) : q \in Bijection(1 .. n, Msgs \ acked)
    BY Zenon DEF Redelivered
  <2>2. n \in Nat
    OBVIOUS
  <2>. QED BY <2>1, <2>2
<1>2. /\ q \in [1 .. n -> Msgs \ acked] /\ (\A i, k \in 1 .. n : i # k => q[i] # q[k])
      /\ \A x \in Msgs \ acked : \E i \in 1 .. n : q[i] = x
  BY <1>1 DEF Bijection, Injection, IsInjective, Surjection
<1>3. q \in Seq(Msgs) /\ Len(q) = n
  <2>1. q \in [1 .. n -> Msgs]
    BY <1>2
  <2>. QED BY <2>1
<1>4. \A x \in Range(q) : x \notin acked
  <2>1. \A x \in Range(q) : \E i \in 1 .. n : x = q[i]
    BY <1>3, RangeIs
  <2>. QED BY <1>2, <2>1
<1>5. Msgs \ acked \subseteq Range(q)
  BY <1>2, <1>3, RangeIs
<1>. QED BY <1>2, <1>3, <1>4, <1>5 DEF Once

LEMMA RestartKeeps ==
    ASSUME ImInv, Restart
    PROVE  ImInv'
<1>1. Once(queue', Msgs) /\ Range(queue') \cap acked = {}
  BY RedeliveredFacts DEF Restart
<1>2. \A m \in Msgs : replies[m] > count.crashes => replies[m] = count.crashes + 1 /\ m \in acked
  BY DEF ImInv, Safe, Idle, Restart
<1>3. DOMAIN count' = DOMAIN count /\ count'.crashes = count.crashes /\ count.crashes \in Nat
  BY DEF Restart, ImInv, Shapes
<1>. QED BY <1>1, <1>2, <1>3, NewLaneKeeps DEF Restart

LEMMA CrashKeeps ==
    ASSUME ImInv, Crash
    PROVE  ImInv'
<1>1. Once(queue', Msgs) /\ Range(queue') \cap acked = {}
  BY RedeliveredFacts DEF Crash
<1>2. DOMAIN count' = DOMAIN count /\ count'.crashes = count.crashes + 1 /\ count.crashes \in Nat
  BY DEF Crash, ImInv, Shapes
<1>3. \A m \in Msgs : ~(replies[m] > count'.crashes)
  BY <1>2 DEF ImInv, Shapes
<1>. QED BY <1>1, <1>2, <1>3, NewLaneKeeps DEF Crash

-----------------------------------------------------------------------------
(* The invariant and what follows from it.                                 *)

LEMMA InitImInv == Init => ImInv
<1>. SUFFICES ASSUME Init PROVE ImInv
  OBVIOUS
<1>1. Len(msgs) \in Nat /\ Msgs = 1 .. Len(msgs)
  BY ImportConfig DEF Init, Msgs
<1>3. queue \in Seq(Msgs) /\ Len(queue) = Len(msgs) /\ \A i \in 1 .. Len(queue) : queue[i] = i
  BY <1>1 DEF Init
<1>4. Once(queue, Msgs)
  BY <1>3 DEF Once
<1>5. /\ DOMAIN lane = Fields /\ lane.pc = "idle" /\ lane.single = FALSE /\ lane.errs \in [Msgs -> Outcomes]
      /\ lane.batch = <<>> /\ lane.rest = <<>> /\ lane.call = <<>> /\ lane.todo = <<>> /\ lane.part = <<>>
      /\ lane.finished = {} /\ lane.replied = {}
  BY NewLaneFacts DEF Init
<1>6. replies \in [Msgs -> Nat] /\ (\A m \in Msgs : replies[m] = 0) /\ count.crashes = 0
      /\ DOMAIN count = {"faults", "panics", "crashes", "stops"} /\ acked = {}
  BY DEF Init
<1>7. "idle" \notin Working
  BY DEF Working, Importing
<1>8. Shapes
  <2>1. lane.single \in BOOLEAN
    BY Zenon, <1>5
  <2>2. Once(<<>>, Msgs)
    BY EmptyOnce
  <2>. QED BY <1>4, <1>5, <1>6, <2>1, <2>2 DEF Shapes
<1>9. Queued /\ Idle
  BY <1>5, <1>6 DEF Queued, Idle
<1>. QED BY <1>5, <1>6, <1>7, <1>8, <1>9 DEF ImInv

LEMMA NextImInv == ImInv /\ [Next]_vars => ImInv'
<1>. SUFFICES ASSUME ImInv, [Next]_vars PROVE ImInv'
  OBVIOUS
<1>2. CASE UNCHANGED vars
  BY Zenon, <1>2 DEF vars, ImInv, Shapes, Queued, Calling, Back, Acking, Idle, Accounted, Safe, Msgs
<1>3. CASE Lane
  BY <1>3, TakeBatchKeeps, ReturnedKeeps, AckKeeps, BatchDoneKeeps, DecodeKeeps, DecodeDoneKeeps, ConfirmKeeps,
     ConfirmDoneKeeps, ImportBatchKeeps DEF Lane
<1>4. CASE Stop
  <2>1. UNCHANGED <<msgs, queue, lane, acked, replies, logged>> /\ DOMAIN count' = DOMAIN count /\ count'.crashes = count.crashes
    BY <1>4, CountFacts DEF Stop
  <2>. QED BY Zenon, <2>1 DEF ImInv, Shapes, Queued, Calling, Back, Acking, Idle, Accounted, Safe, Msgs
<1>5. CASE Panic \/ Restart \/ Crash
  BY <1>5, PanicKeeps, RestartKeeps, CrashKeeps
<1>. QED BY <1>2, <1>3, <1>4, <1>5 DEF Next, Terminated

LEMMA AlwaysImInv == Spec => []ImInv
  BY InitImInv, NextImInv, PTL DEF Spec

\* A message is acked only when it was confirmed or given up with an ERROR log,
\* whatever panics, store errors, shutdowns and crashes happen (executeBatch,
\* executeParts, importPart).
THEOREM ImportAckedAccounted == Spec => []AckedAccounted
<1>1. ImInv => AckedAccounted
  BY DEF ImInv, AckedAccounted, Accounted
<1>. QED BY <1>1, AlwaysImInv, PTL

\* One reply per message and process: the rerun after a panic and the redelivery
\* after a shutdown do not repeat it (TenantEnergyImporter.replied).
THEOREM ImportOneReply == Spec => []OneReply
<1>1. ImInv => OneReply
  <2>. SUFFICES ASSUME ImInv, NEW m \in Msgs PROVE replies[m] <= 1 + count.crashes
    BY DEF OneReply
  <2>1. replies[m] \in Nat /\ count.crashes \in Nat /\ (replies[m] > count.crashes => replies[m] = count.crashes + 1)
    BY DEF ImInv, Shapes
  <2>. QED BY <2>1
<1>. QED BY <1>1, AlwaysImInv, PTL

\* Between two batches replied is empty: every path out of executeBatch, the
\* panics included, has removed what it put there.
THEOREM ImportRepliedForgotten == Spec => []RepliedForgotten
<1>1. ImInv => RepliedForgotten
  BY DEF ImInv, RepliedForgotten, Idle
<1>. QED BY <1>1, AlwaysImInv, PTL

-----------------------------------------------------------------------------
(* Sequences in order.                                                     *)

Sorted(s)   == \A i, j \in 1 .. Len(s) : i < j => s[i] < s[j]
Below(A, B) == \A x \in A, y \in B : x < y

LEMMA EmptySorted == Sorted(<<>>)
  BY DEF Sorted

LEMMA OneSorted ==
    ASSUME NEW m
    PROVE  Sorted(<<m>>)
  BY DEF Sorted

LEMMA TailSorted ==
    ASSUME NEW M, NEW s, Once(s, M), Sorted(s), s # <<>>
    PROVE  Sorted(Tail(s)) /\ \A x \in Range(Tail(s)) : Head(s) < x
<1>1. s \in Seq(M) /\ Len(s) \in Nat /\ Len(s) > 0
  BY DEF Once
<1>2. Tail(s) \in Seq(M) /\ Len(Tail(s)) = Len(s) - 1 /\ \A i \in 1 .. Len(s) - 1 : Tail(s)[i] = s[i + 1]
  BY <1>1
<1>3. Sorted(Tail(s))
  BY <1>1, <1>2 DEF Sorted
<1>4. ASSUME NEW x \in Range(Tail(s)) PROVE Head(s) < x
  <2>0. Tail(s) \in Seq(M)
    BY <1>2
  <2>1. PICK i \in 1 .. Len(Tail(s)) : x = Tail(s)[i]
    BY Zenon, <1>4, <2>0, RangeIs
  <2>2. Head(s) = s[1] /\ x = s[i + 1] /\ 1 < i + 1 /\ 1 \in 1 .. Len(s) /\ i + 1 \in 1 .. Len(s)
    BY <1>1, <1>2, <2>1
  <2>. QED BY <2>2 DEF Sorted
<1>. QED BY <1>3, <1>4

LEMMA AppendSorted ==
    ASSUME NEW M, NEW s, Once(s, M), Sorted(s), NEW m \in M, \A x \in Range(s) : x < m
    PROVE  Sorted(Append(s, m))
<1>1. s \in Seq(M) /\ Len(s) \in Nat
  BY DEF Once
<1>2. PICK a : a = Append(s, m)
  BY Zenon
<1>3. a \in Seq(M) /\ Len(a) = Len(s) + 1 /\ a[Len(s) + 1] = m /\ \A i \in 1 .. Len(s) : a[i] = s[i]
  BY <1>1, <1>2
<1>4. \A i \in 1 .. Len(s) : s[i] < m
  BY <1>1, RangeIs
<1>5. Sorted(a)
  BY <1>1, <1>3, <1>4 DEF Sorted
<1>. QED BY <1>2, <1>5

LEMMA SplitSorted ==
    ASSUME NEW M, NEW s, Once(s, M), Sorted(s), NEW n \in 1 .. Len(s)
    PROVE  /\ Sorted(SubSeq(s, 1, n)) /\ Sorted(SubSeq(s, n + 1, Len(s)))
           /\ Below(Range(SubSeq(s, 1, n)), Range(SubSeq(s, n + 1, Len(s))))
           /\ Range(s) \subseteq Range(SubSeq(s, 1, n)) \cup Range(SubSeq(s, n + 1, Len(s)))
<1>1. s \in Seq(M) /\ Len(s) \in Nat /\ n \in Nat
  BY DEF Once
<1>2. PICK a : a = SubSeq(s, 1, n)
  BY Zenon
<1>3. PICK b : b = SubSeq(s, n + 1, Len(s))
  BY Zenon
<1>4. /\ a \in Seq(M) /\ Len(a) = n /\ (\A i \in 1 .. n : a[i] = s[i])
      /\ b \in Seq(M) /\ Len(b) = Len(s) - n /\ \A i \in 1 .. Len(s) - n : b[i] = s[n + i]
  BY <1>2, <1>3, SplitElements DEF Once
<1>5. Sorted(a) /\ Sorted(b)
  <2>1. \A i \in 1 .. Len(s) - n : n + i \in 1 .. Len(s)
    BY <1>1
  <2>2. \A i, k \in 1 .. Len(s) - n : i < k => n + i < n + k
    BY <1>1
  <2>3. Sorted(b)
    BY Zenon, <1>1, <1>4, <2>1, <2>2 DEF Sorted
  <2>4. Sorted(a)
    <3>1. \A i \in 1 .. n : i \in 1 .. Len(s)
      BY <1>1
    <3>. QED BY <1>4, <3>1 DEF Sorted
  <2>. QED BY <2>3, <2>4
<1>6. Below(Range(a), Range(b))
  <2>1. SUFFICES ASSUME NEW x \in Range(a), NEW y \in Range(b) PROVE x < y
    BY DEF Below
  <2>2. PICK i \in 1 .. n : x = s[i]
    BY <1>4, <2>1, RangeIs
  <2>3. PICK k \in 1 .. Len(s) - n : y = s[n + k]
    BY SMTT(30), <1>4, <2>1, RangeIs
  <2>4. i \in 1 .. Len(s) /\ n + k \in 1 .. Len(s) /\ i < n + k
    BY <1>1, <2>2, <2>3
  <2>. QED BY <2>2, <2>3, <2>4 DEF Sorted
<1>7. ASSUME NEW x \in Range(s) PROVE x \in Range(a) \cup Range(b)
  <2>1. PICK i \in 1 .. Len(s) : x = s[i]
    BY <1>1, <1>7, RangeIs
  <2>2. CASE i <= n
    <3>1. i \in 1 .. n /\ x = a[i]
      BY <1>1, <1>4, <2>1, <2>2
    <3>. QED BY <1>4, <3>1, RangeIs
  <2>3. CASE i > n
    <3>1. PICK k \in 1 .. Len(s) - n : i = n + k
      <4>1. i - n \in 1 .. Len(s) - n /\ i = n + (i - n)
        BY <1>1, <2>1, <2>3
      <4>. QED BY <4>1
    <3>2. x = b[k]
      BY <1>4, <2>1, <3>1
    <3>. QED BY <1>4, <3>1, <3>2, RangeIs
  <2>. QED BY <1>1, <2>1, <2>2, <2>3
<1>. QED BY <1>2, <1>3, <1>5, <1>6, <1>7

-----------------------------------------------------------------------------
(* What is in the store.                                                   *)

StoreDom == DOMAIN store = {<<s.ecId, s.meter, q>> : s \in Range(msgs), q \in Slots}

StoredIn(st, m) == \A c \in Cells(m) : Newer(st[c], <<m, LastEntry(m, c)>>)
Stored(m) == StoredIn(store, m)

LEMMA MsgNat ==
    ASSUME msgs \in Loads
    PROVE  Msgs \subseteq Nat
  BY ImportConfig DEF Msgs

\* The content of the messages does not change.
LEMMA SameMsgs ==
    ASSUME UNCHANGED msgs
    PROVE  /\ Msgs' = Msgs /\ \A m : MsgBlocks(m)' = MsgBlocks(m) /\ Cells(m)' = Cells(m) /\ selfOverlaps(m)' = selfOverlaps(m)
           /\ \A b : BlockCells(b)' = BlockCells(b)
           /\ \A m, n : Overlapping(m, n)' = Overlapping(m, n) /\ LastEntry(m, n)' = LastEntry(m, n)
           /\ \A m : Stored(m)' = StoredIn(store', m)
<1>1. Msgs' = Msgs /\ \A m, n : Overlapping(m, n)' = Overlapping(m, n) /\ LastEntry(m, n)' = LastEntry(m, n)
  BY DEF Msgs, Overlapping, LastEntry
<1>2. \A m : MsgBlocks(m)' = MsgBlocks(m) /\ selfOverlaps(m)' = selfOverlaps(m)
  BY DEF MsgBlocks, SplitEnergyByDay, selfOverlaps
<1>3. \A b : BlockCells(b)' = BlockCells(b) /\ BlockSlots(b)' = BlockSlots(b)
  BY DEF BlockCells, BlockSlots
<1>4. \A m : Cells(m)' = Cells(m)
  BY <1>2, <1>3 DEF Cells
<1>5. \A m : Stored(m)' = StoredIn(store', m)
  BY <1>1, <1>4 DEF Stored, StoredIn
<1>. QED BY <1>1, <1>2, <1>3, <1>4, <1>5

-----------------------------------------------------------------------------
(* The inductive invariant of the store.                                   *)

\* The messages come in their order: in the queue, in the batch, and in the part.
Ordered ==
    /\ Sorted(queue) /\ Sorted(lane.batch) /\ Sorted(lane.todo) /\ Sorted(lane.part)
    /\ lane.pc \in Working => Below(Range(lane.part), Range(lane.todo))
    /\ lane.pc # "idle" => Below(Range(lane.batch), Range(queue))

\* The messages of the part whose outcome is still to come: of the community
\* that is imported, and of the communities after it.
Active ==
    lane.idx \cup (IF lane.pc \in {"register", "day", "block"} THEN lane.run ELSE {})
             \cup (IF lane.pc \in {"import", "importBlock"} THEN lane.imports ELSE {})
Waiting == {m \in Range(lane.part) : msgs[m].ecId \in lane.ecIds}
Open    == Waiting \cup Active
Settled == Range(lane.part) \ Open

\* ImportBatch works on one community, on an earlier run before the later ones.
Groups ==
    /\ Active \subseteq Range(lane.part) /\ lane.ecIds \subseteq EcIdsOf(Range(lane.part))
    /\ lane.pc \in {"ecId", "confirm"} => lane.idx = {}
    /\ lane.pc = "confirm" => lane.ecIds = {}
    /\ \A m, n \in Active : msgs[m].ecId = msgs[n].ecId
    /\ \A m \in Active : msgs[m].ecId \notin lane.ecIds
    /\ lane.pc \in {"register", "day", "block"} => Below(lane.run, lane.idx)
    /\ lane.pc \in {"import", "importBlock"} => Below(lane.imports, lane.idx)
    /\ lane.pc = "importBlock" => lane.imports # {}

\* A run has no overlapping periods, and the blocks that are done are stored.
Running ==
    lane.pc \in {"register", "day", "block"} =>
        /\ \A m, n \in lane.run : m # n => ~Overlapping(m, n)
        /\ \A m \in lane.run : ~selfOverlaps(m)
        /\ lane.left \subseteq UNION {MsgBlocks(m) : m \in lane.run}
        /\ lane.pc = "block" => lane.day \subseteq lane.left
        /\ \A m \in lane.run \ lane.bad : \A b \in MsgBlocks(m) \ lane.left :
               \A c \in BlockCells(b) : Newer(store[c], <<m, b.entry>>)

\* Import writes the blocks in their order.
OneByOne ==
    lane.pc = "importBlock" => \A m \in lane.imports : m = First(lane.imports) =>
        /\ lane.left \subseteq MsgBlocks(m)
        /\ lane.bad = {} =>
              /\ \A b \in MsgBlocks(m) \ lane.left, d \in lane.left : b.entry <= d.entry
              /\ \A b \in MsgBlocks(m) \ lane.left : \A c \in BlockCells(b) : Newer(store[c], <<m, b.entry>>)

LEMMA SameRuns ==
    ASSUME Running, OneByOne, UNCHANGED <<msgs, lane, store>>
    PROVE  Running' /\ OneByOne'
<1>1. First(lane.imports)' = First(lane.imports)
  BY DEF First, Earlier
<1>2. Running'
  <2>1. /\ \A m : MsgBlocks(m)' = MsgBlocks(m) /\ selfOverlaps(m)' = selfOverlaps(m)
        /\ \A b : BlockCells(b)' = BlockCells(b)
        /\ \A m, n : Overlapping(m, n)' = Overlapping(m, n)
    BY Zenon, SameMsgs
  <2>2. UNION {MsgBlocks(m)' : m \in lane.run} = UNION {MsgBlocks(m) : m \in lane.run}
    BY <2>1
  <2>. QED BY Zenon, <2>1, <2>2 DEF Running
<1>. QED BY <1>1, <1>2, SameMsgs DEF OneByOne

\* What is settled: it does not come after an overlapping open message; what has
\* no error is stored; and what is stopped stops what comes after it.
Outcome ==
    /\ \A m \in Settled, n \in Open : Overlapping(m, n) => m < n
    /\ \A m \in Open : lane.errs[m] = "none"
    /\ \A m \in Settled : lane.errs[m] = "none" => Stored(m)
    /\ \A m \in Settled : lane.errs[m] = "stopped" => ctxDone
    /\ lane.pc \in {"register", "day", "block", "importBlock"} => \A m \in Range(lane.part) : lane.errs[m] # "stopped"
    /\ \A m, n \in Settled : m < n /\ Overlapping(m, n) /\ lane.errs[m] = "stopped" => lane.errs[n] = "stopped"

Importable ==
    /\ \A m \in Msgs : replies[m] > 0 => msgs[m].decodable
    /\ lane.pc \in Working => \A m \in Range(lane.part) : msgs[m].decodable

StoreInv ==
    /\ msgs \in Loads /\ StoreDom
    /\ Ordered /\ Importable /\ count.panics \in Nat
    /\ (lane.pc \notin Importing => lane.idx = {}) /\ (lane.pc = "idle" => lane.batch = <<>>)
    /\ lane.pc \in Importing \cup {"confirm"} => Groups /\ Running /\ OneByOne /\ Outcome

\* Without a panic: an unacked message is queued or in the batch; it is only left
\* unfinished after the end of the context, and with it the later ones that
\* overlap it; and what is finished with a reply is stored.
Overlapped(m, n) == m < n /\ msgs[m].decodable /\ msgs[n].decodable /\ Overlapping(m, n)
Unbroken ==
    /\ ~(lane.pc = "idle" /\ ctxDone) => Msgs \ acked \subseteq Range(queue) \cup Range(lane.batch)
    /\ ~lane.single
    /\ lane.pc \in Working =>
          /\ lane.call = lane.batch
          /\ \A m \in Range(lane.call) \ (Range(lane.todo) \cup Range(lane.part)) : m \in lane.finished \/ ctxDone
          /\ \A m \in Range(lane.call), n \in Range(lane.part) : Overlapped(m, n) =>
                m \in Range(lane.part) \cup lane.finished \/ (lane.pc = "confirm" /\ lane.errs[n] = "stopped")
    /\ lane.pc \in {"returned", "ack"} => \A m \in Range(lane.batch) : m \in lane.finished \/ ctxDone
    /\ \A m, n \in Range(lane.batch) : Overlapped(m, n) /\ n \in lane.finished => m \in lane.finished
    /\ AckOrder
    /\ \A m \in acked \cup lane.finished : replies[m] > 0 /\ m \notin logged => Stored(m)

WinInv == ImInv /\ StoreInv /\ (count.panics = 0 => Unbroken)

-----------------------------------------------------------------------------
(* executeBatch.                                                           *)

\* A step that leaves the store and the content of the messages alone.
LEMMA QuietKeeps ==
    ASSUME WinInv, ImInv', UNCHANGED <<msgs, store>>, count'.panics = count.panics, Ordered', Importable',
           lane'.pc \notin Importing => lane'.idx = {}, lane'.pc = "idle" => lane'.batch = <<>>,
           lane'.pc \in Importing \cup {"confirm"} => Groups' /\ Running' /\ OneByOne' /\ Outcome',
           count.panics = 0 /\ Unbroken => Unbroken'
    PROVE  WinInv'
<1>1. StoreDom' /\ msgs' \in Loads
  BY DEF WinInv, StoreInv, StoreDom
<1>2. StoreInv'
  BY <1>1 DEF WinInv, StoreInv
<1>. QED BY <1>2 DEF WinInv

LEMMA SameStore ==
    ASSUME UNCHANGED <<msgs, store>>
    PROVE  /\ Msgs' = Msgs /\ \A m : Stored(m)' = Stored(m)
           /\ \A m, n : Overlapped(m, n)' = Overlapped(m, n) /\ Overlapping(m, n)' = Overlapping(m, n)
<1>1. \A m : Stored(m)' = StoredIn(store', m) /\ StoredIn(store', m) = Stored(m)
  BY SameMsgs DEF Stored
<1>2. \A m, n : Overlapped(m, n)' = Overlapped(m, n)
  BY SameMsgs DEF Overlapped
<1>. QED BY <1>1, <1>2, SameMsgs

LEMMA SameAcks ==
    ASSUME UNCHANGED <<msgs, store, acked, replies, count>>, AckOrder
    PROVE  AckOrder'
  BY SameStore DEF AckOrder

LEMMA InitWins == Init => WinInv
<1>. SUFFICES ASSUME Init PROVE WinInv
  OBVIOUS
<1>1. ImInv
  BY Zenon, InitImInv
<1>2. Len(msgs) \in Nat /\ Msgs = 1 .. Len(msgs) /\ msgs \in Loads
  BY ImportConfig DEF Init, Msgs
<1>3. queue \in Seq(Msgs) /\ Len(queue) = Len(msgs) /\ \A i \in 1 .. Len(queue) : queue[i] = i
  <2>1. queue = [i \in Msgs |-> i]
    BY Zenon DEF Init
  <2>. QED BY <1>2, <2>1
<1>4. Sorted(queue) /\ Msgs \subseteq Range(queue)
  BY Zenon, <1>2, <1>3, RangeIs DEF Sorted
<1>5. /\ lane.pc = "idle" /\ lane.batch = <<>> /\ lane.single = FALSE /\ lane.finished = {} /\ lane.idx = {}
      /\ lane.todo = <<>> /\ lane.part = <<>>
  BY DEF Init, NewLane
<1>6. "idle" \notin Working /\ "idle" \notin Importing \cup {"confirm"}
  BY DEF Working, Importing
<1>7. (\A m \in Msgs : replies[m] = 0) /\ acked = {} /\ count.panics = 0
  BY DEF Init
<1>8. Ordered
  BY <1>4, <1>5, <1>6, EmptySorted DEF Ordered
<1>9. Importable
  BY <1>5, <1>6, <1>7 DEF Importable
<1>10. StoreDom
  BY DEF Init, StoreDom
<1>11. StoreInv
  <2>1. count.panics \in Nat
    BY <1>7
  <2>. QED BY Zenon, <1>2, <1>5, <1>6, <1>8, <1>9, <1>10, <2>1 DEF StoreInv
<1>12. Unbroken
  <2>1. AckOrder
    BY <1>7 DEF AckOrder
  <2>2. Range(lane.batch) = {}
    BY <1>5, EmptyOnce
  <2>. QED BY <1>4, <1>5, <1>6, <1>7, <2>1, <2>2 DEF Unbroken
<1>. QED BY <1>1, <1>11, <1>12 DEF WinInv

LEMMA TakeBatchWins ==
    ASSUME WinInv, TakeBatch
    PROVE  WinInv'
<1>1. /\ lane.pc = "idle" /\ ~ctxDone /\ UNCHANGED <<msgs, ctxDone, store, acked, replies, logged, count>> /\ Shapes /\ Idle
      /\ ImInv /\ Ordered /\ Importable /\ lane.idx = {} /\ lane.batch = <<>> /\ lane.pc \notin Working
  BY DEF TakeBatch, ImInv, WinInv, StoreInv, Importing, Working
<1>2. PICK n \in 1 .. (IF Len(queue) < batchMax THEN Len(queue) ELSE batchMax) :
          /\ queue' = SubSeq(queue, n + 1, Len(queue))
          /\ lane' = [lane EXCEPT !.pc = "decode", !.batch = SubSeq(queue, 1, n), !.single = FALSE,
                                  !.call = SubSeq(queue, 1, n), !.todo = SubSeq(queue, 1, n), !.finished = {}]
  BY Zenon DEF TakeBatch
<1>3. PICK b : b = SubSeq(queue, 1, n)
  BY Zenon
<1>4. n \in 1 .. Len(queue)
  BY <1>1, <1>2, ImportConfig DEF Shapes, Once
<1>5. /\ Sorted(b) /\ Sorted(queue') /\ Below(Range(b), Range(queue'))
      /\ Range(queue) \subseteq Range(b) \cup Range(queue')
  BY <1>1, <1>2, <1>3, <1>4, SplitSorted DEF Shapes, Ordered
<1>6. /\ lane'.pc = "decode" /\ lane'.batch = b /\ lane'.single = FALSE /\ lane'.finished = {} /\ lane'.idx = {}
      /\ lane'.call = b /\ lane'.todo = b /\ lane'.part = <<>>
  BY <1>1, <1>2, <1>3 DEF Shapes, Fields, Idle
<1>7. lane'.pc \in Working /\ lane'.pc \notin Importing \cup {"confirm"} /\ lane'.pc # "idle"
      /\ Range(<<>>) = {} /\ lane'.pc \notin {"returned", "ack"}
  BY <1>6, EmptyOnce DEF Working, Importing
<1>8. Ordered'
  BY <1>5, <1>6, <1>7, EmptySorted DEF Ordered, Below, Sorted
<1>9. Importable'
  BY Zenon, <1>1, <1>6, <1>7, SameStore DEF Importable
<1>10. ASSUME count.panics = 0, Unbroken PROVE Unbroken'
  <2>1. Msgs' \ acked' \subseteq Range(queue') \cup Range(lane'.batch)
    BY Zenon, <1>1, <1>5, <1>6, <1>7, <1>10, SameStore DEF Unbroken
  <2>2. AckOrder'
    BY Zenon, <1>1, <1>10, SameAcks DEF Unbroken
  <2>3. \A m \in acked' \cup lane'.finished : replies'[m] > 0 /\ m \notin logged' => Stored(m)'
    BY <1>1, <1>6, <1>10, SameStore DEF Unbroken
  <2>. QED BY Zenon, <1>6, <1>7, <2>1, <2>2, <2>3 DEF Unbroken
<1>. QED BY <1>1, <1>6, <1>7, <1>8, <1>9, <1>10, TakeBatchKeeps, QuietKeeps

LEMMA ReturnedWins ==
    ASSUME WinInv, Returned
    PROVE  WinInv'
<1>1. /\ lane.pc = "returned" /\ UNCHANGED <<msgs, queue, ctxDone, store, acked, replies, logged, count>> /\ Shapes /\ Back
      /\ ImInv /\ Ordered /\ Importable /\ lane.idx = {}
  BY DEF Returned, ImInv, WinInv, StoreInv, Importing
<1>2. CASE lane.single /\ lane.rest # <<>>
  <2>1. lane' = [lane EXCEPT !.pc = "decode", !.call = <<Head(lane.rest)>>, !.todo = <<Head(lane.rest)>>,
                             !.rest = Tail(lane.rest)]
    BY <1>2 DEF Returned
  <2>2. /\ lane'.pc = "decode" /\ lane'.batch = lane.batch /\ lane'.idx = {}
        /\ lane'.todo = <<Head(lane.rest)>> /\ lane'.part = <<>>
    BY <1>1, <2>1 DEF Shapes, Fields, Back
  <2>3. "decode" \notin Importing \cup {"confirm"} /\ Range(<<>>) = {} /\ Sorted(lane'.todo)
    BY Zenon, <2>2, EmptyOnce, OneSorted DEF Importing
  <2>4. Ordered'
    BY Zenon, <1>1, <2>2, <2>3, EmptySorted DEF Ordered, Below, Sorted
  <2>5. Importable'
    BY <1>1, <2>2, <2>3, SameStore DEF Importable
  <2>6. ~(count.panics = 0 /\ Unbroken)
    BY <1>2 DEF Unbroken
  <2>. QED BY <1>1, <2>2, <2>3, <2>4, <2>5, <2>6, ReturnedKeeps, QuietKeeps
<1>3. CASE ~(lane.single /\ lane.rest # <<>>)
  <2>1. lane' = [lane EXCEPT !.pc = "ack", !.todo = lane.batch]
    BY <1>3 DEF Returned
  <2>2. /\ lane'.pc = "ack" /\ lane'.batch = lane.batch /\ lane'.single = lane.single /\ lane'.finished = lane.finished
        /\ lane'.idx = {} /\ lane'.todo = lane.batch /\ lane'.part = lane.part
    BY <1>1, <2>1 DEF Shapes, Fields
  <2>3. "ack" \notin Working /\ "ack" \notin Importing \cup {"confirm"}
    BY DEF Working, Importing
  <2>4. Ordered'
    BY <1>1, <2>2, <2>3 DEF Ordered, Below, Sorted
  <2>5. Importable'
    BY Zenon, <1>1, <2>2, <2>3, SameStore DEF Importable
  <2>6. ASSUME count.panics = 0, Unbroken PROVE Unbroken'
    <3>1. AckOrder'
      BY <1>1, <2>6, SameAcks DEF Unbroken
    <3>. QED BY <1>1, <2>2, <2>3, <2>6, <3>1, SameStore DEF Unbroken
  <2>. QED BY <1>1, <2>2, <2>3, <2>4, <2>5, <2>6, ReturnedKeeps, QuietKeeps
<1>. QED BY <1>2, <1>3

LEMMA PanicWins ==
    ASSUME WinInv, Panic
    PROVE  WinInv'
<1>1. /\ UNCHANGED <<msgs, queue, ctxDone, store, acked, replies>> /\ count' = [count EXCEPT !.panics = @ + 1]
      /\ ImInv /\ Ordered /\ Importable /\ count.panics \in Nat /\ DOMAIN count = {"faults", "panics", "crashes", "stops"}
      /\ lane.pc # "idle"
  BY DEF Panic, WinInv, StoreInv, ImInv, Shapes
<1>2. count'.panics \in Nat /\ count'.panics # 0
  BY <1>1
<1>3. /\ DOMAIN AfterPanic = Fields /\ AfterPanic.pc = "returned" /\ AfterPanic.batch = lane.batch
      /\ AfterPanic.todo = <<>> /\ AfterPanic.part = <<>> /\ AfterPanic.idx = {}
  BY DEF AfterPanic, Fields, NewLane
<1>4. \/ lane' = [AfterPanic EXCEPT !.finished = lane.finished \cup Range(lane.call)]
      \/ lane' = [AfterPanic EXCEPT !.single = TRUE, !.rest = lane.batch]
  BY DEF Panic
<1>5. lane'.pc = "returned" /\ lane'.batch = lane.batch /\ lane'.todo = <<>> /\ lane'.part = <<>> /\ lane'.idx = {}
  BY Zenon, <1>3, <1>4 DEF Fields
<1>6. "returned" \notin Working /\ "returned" \notin Importing \cup {"confirm"}
  BY DEF Working, Importing
<1>7. Ordered'
  BY <1>1, <1>5, <1>6, EmptySorted DEF Ordered, Below, Sorted
<1>8. Importable'
  BY <1>1, <1>5, <1>6, SameStore DEF Importable
<1>9. StoreDom' /\ msgs' \in Loads
  BY <1>1 DEF WinInv, StoreInv, StoreDom
<1>10. StoreInv'
  BY <1>2, <1>5, <1>6, <1>7, <1>8, <1>9 DEF StoreInv
<1>. QED BY <1>1, <1>2, <1>10, PanicKeeps DEF WinInv

LEMMA AckWins ==
    ASSUME WinInv, Ack
    PROVE  WinInv'
<1>1. /\ lane.pc = "ack" /\ lane.todo # <<>> /\ UNCHANGED <<msgs, queue, ctxDone, store, replies, logged, count>>
      /\ ImInv /\ Ordered /\ Importable /\ lane.idx = {} /\ Shapes /\ Acking /\ lane.pc \notin Working
      /\ lane.pc \notin Importing \cup {"confirm"} /\ Msgs \subseteq Nat
  BY MsgNat DEF Ack, ImInv, WinInv, StoreInv, Importing, Working
<1>2. PICK m : m = Head(lane.todo)
  OBVIOUS
<1>3. PICK t : t = Tail(lane.todo)
  BY Zenon
<1>4. Once(t, Msgs) /\ m \in Range(lane.todo) /\ m \in Msgs /\ Range(t) = Range(lane.todo) \ {m}
  BY <1>1, <1>2, <1>3, TailOnce DEF Shapes
<1>5. Sorted(t) /\ \A x \in Range(t) : m < x
  BY <1>1, <1>2, <1>3, TailSorted DEF Shapes, Ordered
<1>6. lane' = [lane EXCEPT !.todo = t] /\ acked' = acked \cup ({m} \cap lane.finished)
  BY <1>2, <1>3 DEF Ack
<1>7. /\ lane'.pc = "ack" /\ lane'.batch = lane.batch /\ lane'.single = lane.single /\ lane'.finished = lane.finished
      /\ lane'.idx = {} /\ lane'.todo = t /\ lane'.part = lane.part
  BY Zenon, <1>1, <1>6 DEF Shapes, Fields
<1>8. Ordered'
  BY Zenon, <1>1, <1>5, <1>7 DEF Ordered, Below, Sorted
<1>9. Importable'
  BY Zenon, <1>1, <1>7, SameStore DEF Importable
<1>10. ASSUME count.panics = 0, Unbroken PROVE Unbroken'
  <2>1. ASSUME NEW x \in Msgs, NEW n \in Msgs, x < n, n \in acked', replies[n] > 0, msgs[x].decodable, Overlapping(x, n)
        PROVE  x \in acked'
    <3>1. CASE n \in acked
      BY <1>6, <1>10, <2>1, <3>1 DEF Unbroken, AckOrder
    <3>2. CASE n \notin acked
      <4>1. n = m /\ m \in lane.finished /\ m \in Range(lane.batch)
        BY <1>1, <1>4, <1>6, <2>1, <3>2 DEF Acking
      <4>2. SUFFICES ASSUME x \notin acked PROVE FALSE
        BY Zenon, <1>6
      <4>3. x \in Range(queue) \cup Range(lane.batch)
        BY Zenon, <1>1, <1>10, <4>2 DEF Unbroken
      <4>4. x \notin Range(queue)
        <5>1. x \in Nat /\ m \in Nat /\ ~(m < x)
          <6>1. x \in Nat /\ m \in Nat /\ x < m
            BY Zenon, <1>1, <1>4, <2>1, <4>1
          <6>. QED BY <6>1
        <5>. QED BY <1>1, <4>1, <5>1 DEF Ordered, Below
      <4>5. x \in lane.finished
        BY <1>1, <1>10, <2>1, <4>1, <4>3, <4>4 DEF Unbroken, Overlapped, Importable
      <4>6. x \in Range(t)
        BY <1>1, <1>4, <2>1, <4>1, <4>2, <4>5 DEF Acking
      <4>. QED BY <1>1, <1>5, <2>1, <4>1, <4>6
    <3>. QED BY <3>1, <3>2
  <2>2. AckOrder'
    BY Zenon, <1>1, <2>1, SameStore DEF AckOrder
  <2>3. acked' \cup lane'.finished \subseteq acked \cup lane.finished
    BY Zenon, <1>6, <1>7
  <2>4. \A x \in acked' \cup lane'.finished : replies'[x] > 0 /\ x \notin logged' => Stored(x)'
    BY <1>1, <1>10, <2>3, SameStore DEF Unbroken
  <2>5. Msgs' \ acked' \subseteq Range(queue') \cup Range(lane'.batch)
    BY <1>1, <1>6, <1>7, <1>10, SameStore DEF Unbroken
  <2>. QED BY <1>1, <1>7, <1>10, <2>2, <2>4, <2>5, SameStore DEF Unbroken
<1>. QED BY <1>1, <1>7, <1>8, <1>9, <1>10, AckKeeps, QuietKeeps

LEMMA BatchDoneWins ==
    ASSUME WinInv, BatchDone
    PROVE  WinInv'
<1>1. /\ lane.pc = "ack" /\ lane.todo = <<>> /\ UNCHANGED <<msgs, queue, ctxDone, store, acked, replies, logged, count>>
      /\ ImInv /\ Ordered /\ Importable /\ Acking
  BY DEF BatchDone, ImInv, WinInv, StoreInv
<1>2. lane' = [NewLane EXCEPT !.replied = lane.replied]
  BY DEF BatchDone
<1>3. /\ lane'.pc = "idle" /\ lane'.batch = <<>> /\ lane'.single = FALSE /\ lane'.finished = {} /\ lane'.idx = {}
      /\ lane'.todo = <<>> /\ lane'.part = <<>>
  BY <1>2 DEF NewLane
<1>4. "idle" \notin Working /\ "idle" \notin Importing \cup {"confirm"} /\ Range(<<>>) = {}
  BY EmptyOnce DEF Working, Importing
<1>5. Ordered'
  BY <1>1, <1>3, <1>4, EmptySorted DEF Ordered, Sorted
<1>6. Importable'
  BY <1>1, <1>3, <1>4, SameStore DEF Importable
<1>7. ASSUME count.panics = 0, Unbroken PROVE Unbroken'
  <2>1. ~ctxDone => Range(lane.batch) \subseteq acked
    BY <1>1, <1>4, <1>7 DEF Unbroken, Acking
  <2>2. ~ctxDone' => Msgs' \ acked' \subseteq Range(queue')
    BY <1>1, <1>7, <2>1, SameStore DEF Unbroken
  <2>3. AckOrder'
    BY Zenon, <1>1, <1>7, SameAcks DEF Unbroken
  <2>4. \A m \in acked' \cup lane'.finished : replies'[m] > 0 /\ m \notin logged' => Stored(m)'
    BY Zenon, <1>1, <1>3, <1>7, SameStore DEF Unbroken
  <2>. QED BY <1>3, <1>4, <2>2, <2>3, <2>4 DEF Unbroken
<1>. QED BY <1>1, <1>3, <1>4, <1>5, <1>6, <1>7, BatchDoneKeeps, QuietKeeps

-----------------------------------------------------------------------------
(* ExecuteBatch: executeParts and importPart.                              *)

\* ImportBatch begins: all messages of the part are open.
LEMMA PartStarts ==
    ASSUME lane'.pc = "ecId", UNCHANGED msgs, lane'.ecIds = EcIdsOf(Range(lane'.part)), lane'.idx = {},
           lane'.errs = [m \in Msgs |-> "none"], Range(lane'.part) \subseteq Msgs
    PROVE  Groups' /\ Running' /\ OneByOne' /\ Outcome'
<1>1. Active' = {}
  BY DEF Active
<1>2. Open' = Range(lane'.part) /\ Settled' = {}
  BY <1>1 DEF Open, Waiting, Settled, EcIdsOf
<1>3. Groups'
  BY <1>1 DEF Groups, EcIdsOf
<1>4. Running' /\ OneByOne'
  BY DEF Running, OneByOne
<1>5. Outcome'
  BY <1>2 DEF Outcome
<1>. QED BY <1>3, <1>4, <1>5

LEMMA PartStartsAs ==
    ASSUME NEW l, DOMAIN l = Fields, lane' = StartPart(l), UNCHANGED msgs, l.idx = {}, Range(l.part) \subseteq Msgs
    PROVE  Groups' /\ Running' /\ OneByOne' /\ Outcome' /\ lane'.idx = {}
<1>1. /\ lane'.pc = "ecId" /\ lane'.part = l.part /\ lane'.idx = l.idx /\ lane'.ecIds = EcIdsOf(Range(l.part))
      /\ lane'.errs = NewLane.errs
  BY DEF StartPart, Fields
<1>2. NewLane.errs = [m \in Msgs |-> "none"]
  BY Zenon DEF NewLane
<1>. QED BY <1>1, <1>2, PartStarts

LEMMA DecodeWins ==
    ASSUME WinInv, Decode
    PROVE  WinInv'
<1>1. /\ lane.pc = "decode" /\ lane.todo # <<>> /\ UNCHANGED <<msgs, queue, ctxDone, store, acked, replies, count>>
      /\ ImInv /\ Ordered /\ Importable /\ lane.idx = {} /\ lane.pc \in Working /\ Msgs \subseteq Nat
  BY MsgNat DEF Decode, WinInv, StoreInv, Importing, Working
<1>2. Calling /\ Shapes
  BY <1>1, CallFacts
<1>3. PICK m : m = Head(lane.todo)
  OBVIOUS
<1>4. PICK t : t = Tail(lane.todo)
  BY Zenon
<1>5. Once(t, Msgs) /\ m \in Range(lane.todo) /\ m \in Msgs /\ Range(t) = Range(lane.todo) \ {m} /\ m \in Range(lane.call)
  BY Zenon, <1>1, <1>2, <1>3, <1>4, TailOnce DEF Calling, Shapes
<1>6. Sorted(t) /\ (\A x \in Range(t) : m < x) /\ \A x \in Range(lane.part) : x < m
  BY Zenon, <1>1, <1>2, <1>3, <1>4, <1>5, TailSorted DEF Shapes, Ordered, Below
<1>7. PICK l : l = [lane EXCEPT !.todo = t]
  BY Zenon
<1>8. /\ DOMAIN l = Fields /\ l.pc = "decode" /\ l.batch = lane.batch /\ l.single = lane.single /\ l.finished = lane.finished
      /\ l.call = lane.call /\ l.todo = t /\ l.part = lane.part /\ l.idx = {} /\ l.replied = lane.replied
  BY <1>1, <1>2, <1>7 DEF Shapes, Fields
<1>9. /\ "decode" \notin Importing \cup {"confirm"} /\ "decode" \in Working /\ "ecId" \in Working
  BY DEF Importing, Working
\* The message is dropped, or finished.
<1>10. ASSUME ~(m \notin lane.replied /\ ~ctxDone /\ msgs[m].decodable) PROVE WinInv'
  <2>1. /\ logged \subseteq logged'
        /\ \/ m \in lane.replied /\ lane' = [l EXCEPT !.replied = l.replied \ {m}, !.finished = l.finished \cup {m}]
           \/ ctxDone /\ lane' = l
           \/ ~msgs[m].decodable /\ lane' = [l EXCEPT !.finished = l.finished \cup {m}]
    BY <1>3, <1>4, <1>7, <1>10 DEF Decode
  <2>2. /\ lane'.pc = "decode" /\ lane'.batch = lane.batch /\ lane'.single = lane.single /\ lane'.call = lane.call
        /\ lane'.todo = t /\ lane'.part = lane.part /\ lane'.idx = {}
    BY Zenon, <1>8, <2>1 DEF Fields
  <2>3. \/ m \in lane.replied
        \/ ctxDone /\ lane'.finished = lane.finished
        \/ ~msgs[m].decodable /\ lane'.finished = lane.finished \cup {m}
    BY <1>8, <2>1 DEF Fields
  <2>4. Ordered'
    BY Zenon, <1>1, <1>5, <1>6, <2>2 DEF Ordered, Below, Sorted
  <2>5. Importable'
    BY Zenon, <1>1, <2>2, SameStore DEF Importable
  <2>6. ASSUME count.panics = 0, Unbroken PROVE Unbroken'
    <3>1. m \notin lane.replied
      BY Zenon, <1>2, <1>5, <2>6 DEF Calling, Unbroken
    <3>2. lane.finished \subseteq lane'.finished /\ lane'.finished \subseteq lane.finished \cup {m}
          /\ (m \in lane'.finished \/ ctxDone)
          /\ \A x \in lane'.finished : x \in lane.finished \/ ~msgs[x].decodable
      BY <2>3, <3>1
    <3>3. AckOrder'
      BY <1>1, <2>6, SameAcks DEF Unbroken
    <3>4. \A x \in Range(lane'.call) \ (Range(lane'.todo) \cup Range(lane'.part)) : x \in lane'.finished \/ ctxDone'
      BY Zenon, <1>1, <1>5, <2>2, <2>6, <3>2 DEF Unbroken
    <3>5. \A x \in Range(lane'.call), n \in Range(lane'.part) : Overlapped(x, n)' =>
                x \in Range(lane'.part) \cup lane'.finished
      BY Zenon, <1>1, <2>2, <2>6, <3>2, SameStore DEF Unbroken
    <3>6. \A x, n \in Range(lane'.batch) : Overlapped(x, n)' /\ n \in lane'.finished => x \in lane'.finished
      BY Zenon, <1>1, <2>2, <2>6, <3>2, SameStore DEF Unbroken, Overlapped
    <3>7. \A x \in acked' \cup lane'.finished : replies'[x] > 0 /\ x \notin logged' => Stored(x)'
      <4>1. SUFFICES ASSUME NEW x \in acked \cup lane'.finished, replies[x] > 0, x \notin logged' PROVE Stored(x)
        BY <1>1, SameStore
      <4>2. x \in acked \cup lane.finished
        <5>1. x \in acked \cup lane.finished \cup {m}
          BY <3>2
        <5>2. x = m => msgs[x].decodable
          BY <1>1, <1>5, <4>1 DEF Importable
        <5>. QED BY <3>2, <5>1, <5>2
      <4>. QED BY <2>1, <2>6, <4>1, <4>2 DEF Unbroken
    <3>8. lane.call = lane.batch /\ ~lane.single /\ Msgs \ acked \subseteq Range(queue) \cup Range(lane.batch)
      BY <1>1, <2>6 DEF Unbroken
    <3>. QED BY Zenon, <1>1, <2>2, <3>3, <3>4, <3>5, <3>6, <3>7, <3>8, SameStore DEF Unbroken
  <2>. QED BY <1>1, <1>9, <2>2, <2>4, <2>5, <2>6, DecodeKeeps, QuietKeeps
\* It is added to the part.
<1>11. ASSUME m \notin lane.replied, ~ctxDone, msgs[m].decodable PROVE WinInv'
  <2>1. PICK p : p = Append(lane.part, m)
    BY Zenon
  <2>2. Once(p, Msgs) /\ Range(p) = Range(lane.part) \cup {m} /\ Range(p) \subseteq Msgs
    <3>1. Once(lane.part, Msgs) /\ m \notin Range(lane.part)
      BY Zenon, <1>2, <1>5 DEF Calling, Shapes
    <3>2. Once(p, Msgs) /\ Range(p) = Range(lane.part) \cup {m}
      BY <1>5, <2>1, <3>1, AppendOnce
    <3>. QED BY Zenon, <3>2, EmptyRange
  <2>3. Sorted(p)
    BY <1>1, <1>2, <1>5, <1>6, <2>1, AppendSorted DEF Shapes, Ordered
  <2>4. PICK k : k = [l EXCEPT !.part = p]
    BY Zenon
  <2>5. /\ DOMAIN k = Fields /\ k.pc = "decode" /\ k.batch = lane.batch /\ k.single = lane.single /\ k.finished = lane.finished
        /\ k.call = lane.call /\ k.todo = t /\ k.part = p /\ k.idx = {}
    BY <1>8, <2>4 DEF Fields
  <2>6. lane' \in {k, StartPart(k)} /\ logged' = logged
    BY <1>3, <1>4, <1>7, <1>11, <2>1, <2>4 DEF Decode
  <2>7. /\ lane'.pc \in {"decode", "ecId"} /\ lane'.batch = lane.batch /\ lane'.single = lane.single
        /\ lane'.finished = lane.finished /\ lane'.call = lane.call /\ lane'.todo = t /\ lane'.part = p
    BY <2>5, <2>6, StartPartFacts
  <2>8. lane'.pc \in Importing \cup {"confirm"} => Groups' /\ Running' /\ OneByOne' /\ Outcome'
    BY <1>1, <1>9, <2>2, <2>5, <2>6, PartStartsAs
  <2>9. lane'.idx = {}
    BY Zenon, <1>1, <2>2, <2>5, <2>6, PartStartsAs
  <2>10. Ordered'
    BY Zenon, <1>1, <1>5, <1>6, <2>2, <2>3, <2>7 DEF Ordered, Below, Sorted
  <2>11. Importable'
    BY Zenon, <1>1, <1>11, <2>2, <2>7, SameStore DEF Importable
  <2>12. ASSUME count.panics = 0, Unbroken PROVE Unbroken'
    <3>1. lane'.pc \in Working /\ lane'.pc # "idle" /\ lane'.pc \notin {"returned", "ack"}
      BY Zenon, <1>9, <2>7
    <3>2. AckOrder'
      BY <1>1, <2>12, SameAcks DEF Unbroken
    <3>3. \A x \in Range(lane'.call) \ (Range(lane'.todo) \cup Range(lane'.part)) : x \in lane'.finished \/ ctxDone'
      BY Zenon, <1>1, <1>5, <2>2, <2>7, <2>12 DEF Unbroken
    <3>4. ASSUME NEW x \in Range(lane.call), NEW n \in Range(p), Overlapped(x, n) PROVE x \in Range(p) \cup lane.finished
      <4>1. CASE n \in Range(lane.part)
        BY Zenon, <1>1, <2>2, <2>12, <3>4, <4>1 DEF Unbroken
      <4>2. CASE n = m
        <5>1. x \in Nat /\ m \in Nat /\ x < m
          BY Zenon, <1>1, <1>2, <1>5, <3>4, <4>2, EmptyRange DEF Overlapped, Shapes
        <5>2. x \notin Range(lane.todo)
          BY <1>5, <1>6, <5>1
        <5>. QED BY Zenon, <1>1, <1>11, <2>2, <2>12, <5>2 DEF Unbroken
      <4>. QED BY Zenon, <2>2, <4>1, <4>2
    <3>5. \A x \in acked' \cup lane'.finished : replies'[x] > 0 /\ x \notin logged' => Stored(x)'
      BY Zenon, <1>1, <2>6, <2>7, <2>12, SameStore DEF Unbroken
    <3>6. \A x, n \in Range(lane'.batch) : Overlapped(x, n)' /\ n \in lane'.finished => x \in lane'.finished
      BY Zenon, <1>1, <2>7, <2>12, SameStore DEF Unbroken
    <3>7. lane.call = lane.batch /\ ~lane.single /\ Msgs \ acked \subseteq Range(queue) \cup Range(lane.batch)
      BY <1>1, <2>12 DEF Unbroken
    <3>. QED BY Zenon, <1>1, <2>7, <3>1, <3>2, <3>3, <3>4, <3>5, <3>6, <3>7, SameStore DEF Unbroken
  <2>. QED BY Zenon, <1>1, <2>7, <2>8, <2>9, <2>10, <2>11, <2>12, DecodeKeeps, QuietKeeps
<1>. QED BY <1>10, <1>11

LEMMA DecodeDoneWins ==
    ASSUME WinInv, DecodeDone
    PROVE  WinInv'
<1>1. /\ lane.pc = "decode" /\ lane.todo = <<>> /\ UNCHANGED <<msgs, queue, ctxDone, store, acked, replies, logged, count>>
      /\ ImInv /\ Ordered /\ Importable /\ lane.idx = {} /\ lane.pc \in Working /\ "decode" \notin Importing \cup {"confirm"}
  BY Zenon DEF DecodeDone, WinInv, StoreInv, Importing, Working
<1>2. Calling /\ Shapes /\ Range(<<>>) = {}
  BY Zenon, <1>1, CallFacts, EmptyOnce
<1>3. CASE lane.part # <<>>
  <2>1. lane' = StartPart(lane) /\ Range(lane.part) \subseteq Msgs /\ DOMAIN lane = Fields
    BY Zenon, <1>2, <1>3, EmptyRange DEF DecodeDone, Shapes
  <2>2. /\ lane'.pc = "ecId" /\ lane'.batch = lane.batch /\ lane'.single = lane.single
        /\ lane'.finished = lane.finished /\ lane'.call = lane.call /\ lane'.todo = lane.todo /\ lane'.part = lane.part
    BY Zenon, <2>1, StartPartFacts
  <2>3. Groups' /\ Running' /\ OneByOne' /\ Outcome' /\ lane'.idx = {}
    BY Zenon, <1>1, <2>1, PartStartsAs
  <2>4. Ordered'
    BY Zenon, <1>1, <2>2 DEF Ordered, Below, Sorted
  <2>5. Importable'
    BY Zenon, <1>1, <2>2, SameStore DEF Importable
  <2>6. ASSUME count.panics = 0, Unbroken PROVE Unbroken'
    <3>1. AckOrder'
      BY Zenon, <1>1, <2>6, SameAcks DEF Unbroken
    <3>2. \A x \in Range(lane'.call), n \in Range(lane'.part) : Overlapped(x, n)' =>
                x \in Range(lane'.part) \cup lane'.finished
      BY Zenon, <1>1, <2>2, <2>6, SameStore DEF Unbroken
    <3>3. \A x \in acked' \cup lane'.finished : replies'[x] > 0 /\ x \notin logged' => Stored(x)'
      BY <1>1, <2>2, <2>6, SameStore DEF Unbroken
    <3>. QED BY Zenon, <1>1, <2>2, <2>6, <3>1, <3>2, <3>3, SameStore DEF Unbroken
  <2>. QED BY <1>1, <2>2, <2>3, <2>4, <2>5, <2>6, DecodeDoneKeeps, QuietKeeps
<1>4. CASE lane.part = <<>>
  <2>1. lane' = [lane EXCEPT !.pc = "returned", !.replied = lane.replied \ Range(lane.call)]
    BY <1>4 DEF DecodeDone
  <2>2. /\ lane'.pc = "returned" /\ lane'.batch = lane.batch /\ lane'.single = lane.single /\ lane'.finished = lane.finished
        /\ lane'.todo = lane.todo /\ lane'.part = lane.part /\ lane'.idx = {}
    BY <1>1, <1>2, <2>1 DEF Shapes, Fields
  <2>3. "returned" \notin Importing \cup {"confirm"} /\ "returned" \notin Working
    BY DEF Importing, Working
  <2>4. Ordered'
    BY Zenon, <1>1, <2>2, <2>3 DEF Ordered, Below, Sorted
  <2>5. Importable'
    BY Zenon, <1>1, <2>2, <2>3, SameStore DEF Importable
  <2>6. ASSUME count.panics = 0, Unbroken PROVE Unbroken'
    <3>1. AckOrder'
      BY <1>1, <2>6, SameAcks DEF Unbroken
    <3>2. \A x \in Range(lane'.batch) : x \in lane'.finished \/ ctxDone'
      BY Zenon, <1>1, <1>2, <1>4, <2>2, <2>6 DEF Unbroken
    <3>3. \A x \in acked' \cup lane'.finished : replies'[x] > 0 /\ x \notin logged' => Stored(x)'
      BY Zenon, <1>1, <2>2, <2>6, SameStore DEF Unbroken
    <3>. QED BY Zenon, <1>1, <2>2, <2>3, <2>6, <3>1, <3>2, <3>3, SameStore DEF Unbroken
  <2>. QED BY <1>1, <2>2, <2>3, <2>4, <2>5, <2>6, DecodeDoneKeeps, QuietKeeps
<1>. QED BY <1>3, <1>4

LEMMA NothingOpen ==
    ASSUME StoreInv, lane.pc = "confirm"
    PROVE  Active = {} /\ Open = {} /\ Settled = Range(lane.part) /\ Outcome
  BY DEF StoreInv, Groups, Active, Open, Waiting, Settled

LEMMA ConfirmWins ==
    ASSUME WinInv, Confirm
    PROVE  WinInv'
<1>1. /\ lane.pc = "confirm" /\ lane.part # <<>> /\ UNCHANGED <<msgs, queue, ctxDone, store, acked, count>>
      /\ ImInv /\ Ordered /\ Importable /\ lane.idx = {} /\ lane.pc \in Working /\ Msgs \subseteq Nat /\ StoreInv
      /\ "confirm" \notin Importing /\ Groups
  BY MsgNat DEF Confirm, WinInv, StoreInv, Importing, Working
<1>2. Calling /\ Shapes
  BY <1>1, CallFacts
<1>3. PICK m : m = Head(lane.part)
  OBVIOUS
<1>4. PICK t : t = Tail(lane.part)
  BY Zenon
<1>5. /\ Once(t, Msgs) /\ m \in Range(lane.part) /\ m \in Msgs /\ Range(t) = Range(lane.part) \ {m}
      /\ m \in Range(lane.call) /\ m \in Range(lane.batch) /\ m \notin acked
  BY Zenon, <1>1, <1>2, <1>3, <1>4, TailOnce DEF Calling, Shapes
<1>6. Sorted(t) /\ \A x \in Range(t) : m < x
  BY <1>1, <1>2, <1>3, <1>4, TailSorted DEF Shapes, Ordered
<1>7. PICK l : l = [lane EXCEPT !.part = t]
  BY Zenon
<1>8. /\ \/ lane.errs[m] = "stopped" /\ lane' = l
         \/ lane.errs[m] # "stopped" /\ lane' = [l EXCEPT !.finished = l.finished \cup {m}]
         \/ lane.errs[m] # "stopped" /\ lane' = [l EXCEPT !.finished = l.finished \cup {m}, !.replied = l.replied \cup {m}]
      /\ logged' = (IF lane.errs[m] = "failed" THEN logged \cup {m} ELSE logged)
      /\ replies' = (IF lane.errs[m] = "none" THEN [replies EXCEPT ![m] = replies[m] + 1] ELSE replies)
  BY <1>3, <1>4, <1>7 DEF Confirm
<1>9. /\ lane'.pc = "confirm" /\ lane'.batch = lane.batch /\ lane'.single = lane.single /\ lane'.call = lane.call
      /\ lane'.todo = lane.todo /\ lane'.part = t /\ lane'.idx = {} /\ lane'.ecIds = lane.ecIds /\ lane'.errs = lane.errs
      /\ lane'.finished = (IF lane.errs[m] = "stopped" THEN lane.finished ELSE lane.finished \cup {m})
  <2>1. /\ DOMAIN l = Fields /\ l.pc = "confirm" /\ l.batch = lane.batch /\ l.single = lane.single /\ l.call = lane.call
        /\ l.todo = lane.todo /\ l.part = t /\ l.idx = {} /\ l.ecIds = lane.ecIds /\ l.errs = lane.errs /\ l.finished = lane.finished
    BY <1>1, <1>2, <1>7 DEF Shapes, Fields
  <2>2. CASE lane.errs[m] = "stopped"
    BY <1>8, <2>1, <2>2
  <2>3. CASE lane.errs[m] # "stopped" /\ lane' = [l EXCEPT !.finished = l.finished \cup {m}]
    BY <2>1, <2>3 DEF Fields
  <2>4. CASE lane.errs[m] # "stopped" /\ lane' = [l EXCEPT !.finished = l.finished \cup {m}, !.replied = l.replied \cup {m}]
    BY <2>1, <2>4 DEF Fields
  <2>. QED BY Zenon, <1>8, <2>2, <2>3, <2>4
<1>10. Open = {} /\ Settled = Range(lane.part) /\ Outcome
  BY <1>1, NothingOpen
<1>11. Active' = {} /\ Open' = {} /\ Settled' = Range(t)
  BY <1>1, <1>9 DEF Groups, Active, Open, Waiting, Settled
<1>12. Groups' /\ Running' /\ OneByOne'
  <2>1. lane'.ecIds = {}
    BY <1>1, <1>9 DEF Groups
  <2>. QED BY Zenon, <1>9, <1>11, <2>1 DEF Groups, Running, OneByOne
<1>13. Outcome'
  <2>1. Range(t) \subseteq Range(lane.part)
    BY Zenon, <1>5
  <2>2. Settled' \subseteq Settled /\ Open' = {} /\ lane'.errs = lane.errs /\ ctxDone' = ctxDone /\ lane'.pc = "confirm"
    BY Zenon, <1>1, <1>9, <1>10, <1>11, <2>1
  <2>3. lane'.pc \notin {"register", "day", "block", "importBlock"}
    BY <2>2
  <2>4. \A x \in Settled' : x \in Settled /\ (Stored(x) <=> Stored(x)') /\ \A y : Overlapping(x, y)' = Overlapping(x, y)
    BY Zenon, <1>1, <2>2, SameStore
  <2>. QED BY Zenon, <1>10, <2>2, <2>3, <2>4 DEF Outcome
<1>14. Ordered'
  BY <1>1, <1>5, <1>6, <1>9 DEF Ordered, Below, Sorted
<1>15. \A x \in Msgs : x # m => replies'[x] = replies[x]
  BY <1>2, <1>8 DEF Shapes
<1>16. Importable'
  BY Zenon, <1>1, <1>5, <1>9, <1>15, SameStore DEF Importable
<1>17. ASSUME count.panics = 0, Unbroken PROVE Unbroken'
  <2>1. lane.call = lane.batch /\ ~lane.single /\ Msgs \ acked \subseteq Range(queue) \cup Range(lane.batch)
    BY Zenon, <1>1, <1>17 DEF Unbroken
  <2>2. \A x \in Range(lane'.call) \ (Range(lane'.todo) \cup Range(lane'.part)) : x \in lane'.finished \/ ctxDone'
    <3>1. m \in lane'.finished \/ ctxDone
      BY Zenon, <1>5, <1>9, <1>10 DEF Outcome
    <3>. QED BY Zenon, <1>1, <1>5, <1>9, <1>17, <3>1 DEF Unbroken
  <2>3. ASSUME NEW x \in Range(lane.call), NEW n \in Range(t), Overlapped(x, n)
        PROVE  x \in Range(t) \cup lane'.finished \/ lane.errs[n] = "stopped"
    <3>1. n \in Range(lane.part) /\ lane.finished \subseteq lane'.finished
      BY Zenon, <1>5, <1>9, <2>3
    <3>2. x \in Range(lane.part) \cup lane.finished \/ lane.errs[n] = "stopped"
      BY Zenon, <1>1, <1>17, <2>3, <3>1 DEF Unbroken
    <3>3. x = m /\ lane.errs[m] = "stopped" => lane.errs[n] = "stopped"
      BY Zenon, <1>5, <1>10, <2>3, <3>1 DEF Outcome, Overlapped
    <3>. QED BY Zenon, <1>5, <1>9, <3>1, <3>2, <3>3
  <2>4. ASSUME NEW x \in Range(lane.batch), NEW n \in Range(lane.batch), Overlapped(x, n), n \in lane'.finished
        PROVE  x \in lane'.finished
    <3>1. CASE n \in lane.finished
      BY Zenon, <1>9, <1>17, <2>4, <3>1 DEF Unbroken
    <3>2. CASE n \notin lane.finished
      <4>1. n = m /\ lane.errs[m] # "stopped"
        BY <1>9, <2>4, <3>2
      <4>2. x \in Range(lane.part) \cup lane.finished
        BY Zenon, <1>1, <1>5, <1>17, <2>1, <2>4, <4>1 DEF Unbroken
      <4>3. x \notin Range(lane.part)
        <5>1. Range(lane.batch) \subseteq Msgs /\ m \in Msgs
          BY <1>2, <1>5, EmptyRange DEF Shapes
        <5>2. x \in Nat /\ m \in Nat /\ x < m
          BY Zenon, <1>1, <2>4, <4>1, <5>1 DEF Overlapped
        <5>3. x \in Range(lane.part) => x = m \/ m < x
          BY Zenon, <1>5, <1>6
        <5>. QED BY <5>2, <5>3
      <4>. QED BY <1>9, <4>2, <4>3
    <3>. QED BY Zenon, <3>1, <3>2
  <2>5. AckOrder'
    BY Zenon, <1>1, <1>5, <1>15, <1>17, SameStore DEF Unbroken, AckOrder
  <2>6. ASSUME NEW x \in acked \cup lane'.finished, replies'[x] > 0, x \notin logged' PROVE Stored(x)
    <3>1. CASE x = m
      <4>1. x \in lane.finished \/ (lane.errs[m] \in Outcomes /\ lane.errs[m] # "failed" /\ lane.errs[m] # "stopped")
        BY <1>2, <1>5, <1>8, <1>9, <2>6, <3>1 DEF Shapes
      <4>2. m \notin lane.finished
        BY <1>2, <1>5 DEF Calling
      <4>3. lane.errs[m] = "none"
        BY Zenon, <3>1, <4>1, <4>2 DEF Outcomes
      <4>. QED BY <1>5, <1>10, <3>1, <4>3 DEF Outcome
    <3>2. CASE x # m
      <4>1. x \in acked \cup lane.finished /\ x \notin logged /\ x \in Msgs
        BY <1>1, <1>8, <1>9, <2>6, <3>2 DEF ImInv, Accounted
      <4>2. replies[x] > 0
        BY <1>15, <2>6, <3>2, <4>1
      <4>. QED BY <1>17, <4>1, <4>2 DEF Unbroken
    <3>. QED BY <3>1, <3>2
  <2>7. Msgs' \ acked' \subseteq Range(queue') \cup Range(lane'.batch) /\ ~lane'.single /\ lane'.call = lane'.batch
    BY Zenon, <1>1, <1>9, <2>1, SameStore
  <2>8. lane'.pc \notin {"returned", "ack"}
    BY <1>9
  <2>9. \A x \in Range(lane'.call), n \in Range(lane'.part) : Overlapped(x, n)' =>
            x \in Range(lane'.part) \cup lane'.finished \/ (lane'.pc = "confirm" /\ lane'.errs[n] = "stopped")
    BY <1>1, <1>9, <2>3, SameStore
  <2>10. \A x, n \in Range(lane'.batch) : Overlapped(x, n)' /\ n \in lane'.finished => x \in lane'.finished
    BY Zenon, <1>1, <1>9, <2>4, SameStore
  <2>11. \A x \in acked' \cup lane'.finished : replies'[x] > 0 /\ x \notin logged' => Stored(x)'
    BY Zenon, <1>1, <2>6, SameStore
  <2>. QED BY Zenon, <2>2, <2>5, <2>7, <2>8, <2>9, <2>10, <2>11 DEF Unbroken
<1>. QED BY <1>1, <1>9, <1>12, <1>13, <1>14, <1>16, <1>17, ConfirmKeeps, QuietKeeps

LEMMA ConfirmDoneWins ==
    ASSUME WinInv, ConfirmDone
    PROVE  WinInv'
<1>1. /\ lane.pc = "confirm" /\ lane.part = <<>> /\ UNCHANGED <<msgs, queue, ctxDone, store, acked, replies, logged, count>>
      /\ lane' = [lane EXCEPT !.pc = "decode"] /\ ImInv /\ Ordered /\ Importable /\ lane.idx = {}
      /\ "decode" \notin Importing \cup {"confirm"} /\ "confirm" \in Working /\ "decode" \in Working /\ Range(<<>>) = {}
  BY EmptyOnce DEF ConfirmDone, WinInv, StoreInv, Importing, Working
<1>2. DOMAIN lane = Fields
  BY <1>1 DEF ImInv, Shapes
<1>3. /\ lane'.pc = "decode" /\ lane'.batch = lane.batch /\ lane'.single = lane.single /\ lane'.finished = lane.finished
      /\ lane'.call = lane.call /\ lane'.todo = lane.todo /\ lane'.part = lane.part /\ lane'.idx = {}
  BY <1>1, <1>2 DEF Fields
<1>4. Ordered'
  BY <1>1, <1>3 DEF Ordered, Below, Sorted
<1>5. Importable'
  BY <1>1, <1>3, SameStore DEF Importable
<1>6. ASSUME count.panics = 0, Unbroken PROVE Unbroken'
  <2>1. AckOrder'
    BY <1>1, <1>6, SameAcks DEF Unbroken
  <2>2. \A x \in acked' \cup lane'.finished : replies'[x] > 0 /\ x \notin logged' => Stored(x)'
    BY <1>1, <1>3, <1>6, SameStore DEF Unbroken
  <2>. QED BY <1>1, <1>3, <1>6, <2>1, <2>2, SameStore DEF Unbroken
<1>. QED BY <1>1, <1>3, <1>4, <1>5, <1>6, ConfirmDoneKeeps, QuietKeeps

-----------------------------------------------------------------------------
(* The end of the context, and the beginning.                              *)

\* Nothing changes but the context.
LEMMA SameLaneWins ==
    ASSUME WinInv, ImInv', UNCHANGED <<msgs, queue, lane, store, acked, replies, logged>>, count'.panics = count.panics,
           ctxDone => ctxDone'
    PROVE  WinInv'
<1>1. Msgs' = Msgs /\ Active' = Active /\ Open' = Open /\ Settled' = Settled
  BY SameStore DEF Active, Open, Waiting, Settled
<1>2. Ordered' /\ Importable'
  <2>1. Ordered /\ Importable
    BY DEF WinInv, StoreInv
  <2>2. Ordered'
    BY Zenon, <2>1 DEF Ordered, Sorted, Below
  <2>3. Importable'
    BY Zenon, <2>1, <1>1 DEF Importable
  <2>. QED BY <2>2, <2>3
<1>3. ASSUME lane.pc \in Importing \cup {"confirm"} PROVE Groups' /\ Running' /\ OneByOne' /\ Outcome'
  <2>1. Groups /\ Running /\ OneByOne /\ Outcome
    BY Zenon, <1>3 DEF WinInv, StoreInv
  <2>2. Groups'
    BY Zenon, <1>1, <2>1 DEF Groups, EcIdsOf, Below
  <2>3. Running' /\ OneByOne'
    BY Zenon, <2>1, SameRuns
  <2>4. Outcome'
    BY Zenon, <1>1, <2>1, SameStore DEF Outcome
  <2>. QED BY Zenon, <2>2, <2>3, <2>4
<1>4. ASSUME count.panics = 0, Unbroken PROVE Unbroken'
  <2>1. AckOrder'
    BY Zenon, <1>4, SameStore DEF Unbroken, AckOrder
  <2>. QED BY Zenon, <1>1, <1>4, <2>1, SameStore DEF Unbroken
<1>5. (lane'.pc \notin Importing => lane'.idx = {}) /\ (lane'.pc = "idle" => lane'.batch = <<>>)
  BY DEF WinInv, StoreInv
<1>. QED BY Zenon, <1>2, <1>3, <1>4, <1>5, QuietKeeps

\* The lane is new, and the unacked messages come again, in their order.
LEMMA NewLaneWins ==
    ASSUME WinInv, ImInv', UNCHANGED <<msgs, acked, replies, logged>>, count'.panics = count.panics, lane' = NewLane,
           StoreDom', Sorted(queue'), Msgs \ acked \subseteq Range(queue'),
           count.panics = 0 /\ Unbroken => \A m \in acked : replies[m] > 0 /\ m \notin logged => StoredIn(store', m)
    PROVE  WinInv'
<1>1. /\ lane'.pc = "idle" /\ lane'.batch = <<>> /\ lane'.single = FALSE /\ lane'.finished = {} /\ lane'.idx = {}
      /\ lane'.todo = <<>> /\ lane'.part = <<>>
  BY DEF NewLane
<1>2. "idle" \notin Working /\ "idle" \notin Importing \cup {"confirm"} /\ Range(<<>>) = {} /\ Msgs' = Msgs
  BY Zenon, EmptyOnce, SameMsgs DEF Working, Importing
<1>3. Ordered'
  BY Zenon, <1>1, <1>2, EmptySorted DEF Ordered, Sorted
<1>4. Importable'
  BY Zenon, <1>1, <1>2 DEF WinInv, StoreInv, Importable
<1>5. StoreInv'
  BY Zenon, <1>1, <1>2, <1>3, <1>4 DEF WinInv, StoreInv
<1>6. ASSUME count.panics = 0, Unbroken PROVE Unbroken'
  <2>1. AckOrder'
    BY Zenon, <1>6, SameMsgs DEF Unbroken, AckOrder
  <2>2. \A m \in acked' \cup lane'.finished : replies'[m] > 0 /\ m \notin logged' => Stored(m)'
    BY Zenon, <1>1, <1>6, SameMsgs
  <2>. QED BY Zenon, <1>1, <1>2, <2>1, <2>2 DEF Unbroken
<1>. QED BY Zenon, <1>5, <1>6 DEF WinInv

LEMMA RedeliveredSorted ==
    ASSUME inOrder, NEW q \in Redelivered
    PROVE  Sorted(q) /\ Msgs \ acked \subseteq Range(q)
<1>1. q \in Seq(Msgs) /\ Msgs \ acked \subseteq Range(q)
  BY RedeliveredFacts DEF Once
<1>2. \A i, j \in DOMAIN q : i < j => q[i] < q[j]
  BY DEF Redelivered
<1>3. DOMAIN q = 1 .. Len(q)
  BY <1>1
<1>. QED BY <1>1, <1>2, <1>3 DEF Sorted

LEMMA RestartWins ==
    ASSUME WinInv, inOrder, Restart
    PROVE  WinInv'
<1>1. UNCHANGED <<msgs, store, acked, replies, logged, count>> /\ lane' = NewLane /\ queue' \in Redelivered
  BY DEF Restart
<1>2. ImInv'
  BY Zenon, RestartKeeps DEF WinInv
<1>3. StoreDom'
  <2>1. StoreDom
    BY Zenon DEF WinInv, StoreInv
  <2>. QED BY <1>1, <2>1 DEF StoreDom
<1>4. count.panics = 0 /\ Unbroken => \A m \in acked : replies[m] > 0 /\ m \notin logged => StoredIn(store', m)
  BY Zenon, <1>1, SameStore, SameMsgs DEF Unbroken
<1>. QED BY <1>1, <1>2, <1>3, <1>4, RedeliveredSorted, NewLaneWins

=============================================================================
