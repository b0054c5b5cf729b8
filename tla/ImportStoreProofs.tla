-------------------------- MODULE ImportStoreProofs --------------------------
(* Proofs about what the import of a lane leaves in the store: a confirmed *)
(* message is stored, and a later message wins.                            *)
EXTENDS ImportProofs, WellFoundedInduction

-----------------------------------------------------------------------------
(* Messages, their blocks and cells.                                       *)

\* A set of numbers has a least one.
LEMMA LeastNat ==
    ASSUME NEW S, S \subseteq Nat, S # {}
    PROVE  \E x \in S : \A y \in S : x <= y
<1>1. PICK R : R = OpToRel(<, Nat)
  BY Zenon
<1>2. IsWellFoundedOn(R, Nat)
  BY Zenon, <1>1, NatLessThanWellFounded
<1>3. PICK x \in S : \A y \in S : <<y, x>> \notin R
  BY Zenon, <1>2, WFMin
<1>4. R = {ss \in Nat \X Nat : ss[1] < ss[2]}
  BY <1>1 DEF OpToRel
<1>5. \A y \in S : <<y, x>> \in Nat \X Nat /\ <<y, x>>[1] = y /\ <<y, x>>[2] = x
  OBVIOUS
<1>6. \A y \in S : ~(y < x)
  BY Zenon, <1>3, <1>4, <1>5
<1>. QED BY <1>6

LEMMA GreatestBelow ==
    ASSUME NEW n \in Nat, NEW S, S \subseteq 1 .. n, S # {}
    PROVE  \E x \in S : \A y \in S : y <= x
<1>. DEFINE T == {n - x : x \in S}
<1>1. T \subseteq Nat /\ T # {}
  <2>1. \A x \in S : n - x \in Nat
    OBVIOUS
  <2>. QED BY Zenon, <2>1
<1>2. PICK t \in T : \A u \in T : t <= u
  <2>. HIDE DEF T
  <2>. QED BY Zenon, <1>1, LeastNat
<1>3. PICK x \in S : t = n - x
  BY <1>2
<1>4. \A y \in S : n - x <= n - y
  BY Zenon, <1>2, <1>3
<1>. QED BY <1>3, <1>4

LEMMA DivMono ==
    ASSUME NEW d \in Nat \ {0}, NEW s \in Nat, NEW t \in Nat, s <= t
    PROVE  s \div d <= t \div d
<1>1. s \div d \in Int /\ t \div d \in Int
  OBVIOUS
<1>2. s = d * (s \div d) + (s % d) /\ t = d * (t \div d) + (t % d) /\ s % d \in 0 .. d - 1 /\ t % d \in 0 .. d - 1
  OBVIOUS
<1>. DEFINE a == s \div d
            b == t \div d
<1>3. d * a < d * b + d
  BY <1>1, <1>2
<1>4. a < b + 1
  BY <1>1, <1>3
<1>. QED BY <1>1, <1>4

LEMMA DayFacts ==
    /\ DayLen \in Nat \ {0} /\ \A s \in Nat : day(s) \in Nat
    /\ \A s, t \in Nat : s <= t => day(s) <= day(t)
<1>1. DayLen \in Nat \ {0}
  BY ImportConfig
<1>2. \A s \in Nat : day(s) \in Nat
  BY <1>1 DEF day
<1>3. \A s, t \in Nat : s <= t => day(s) <= day(t)
  BY <1>1, DivMono DEF day
<1>. QED BY <1>1, <1>2, <1>3

LEMMA MsgFacts ==
    ASSUME msgs \in Loads
    PROVE  /\ Msgs \subseteq Nat
           /\ \A m \in Msgs :
                 /\ msgs[m].energy \in Seq(Nat \X Nat) /\ Len(msgs[m].energy) \in Nat
                 /\ DOMAIN msgs[m].energy = 1 .. Len(msgs[m].energy)
                 /\ \A i \in DOMAIN msgs[m].energy :
                       /\ i \in Nat /\ msgs[m].energy[i] \in Range(msgs[m].energy)
                       /\ msgs[m].energy[i][1] \in Nat /\ msgs[m].energy[i][2] \in Nat
                       /\ msgs[m].energy[i][1] < msgs[m].energy[i][2]
<1>1. Msgs = 1 .. Len(msgs) /\ Len(msgs) \in Nat
  BY ImportConfig DEF Msgs
<1>2. ASSUME NEW m \in Msgs
      PROVE  msgs[m].energy \in Seq(Nat \X Nat) /\ \A p \in Range(msgs[m].energy) : p[1] < p[2]
  BY ImportConfig DEF Msgs, Range
<1>3. ASSUME NEW m \in Msgs, NEW i \in DOMAIN msgs[m].energy
      PROVE  /\ i \in Nat /\ msgs[m].energy[i] \in Range(msgs[m].energy)
             /\ msgs[m].energy[i][1] \in Nat /\ msgs[m].energy[i][2] \in Nat
             /\ msgs[m].energy[i][1] < msgs[m].energy[i][2]
  <2>1. msgs[m].energy[i] \in Range(msgs[m].energy)
    BY <1>3 DEF Range
  <2>2. msgs[m].energy[i] \in Nat \X Nat /\ i \in Nat
    BY <1>2, <1>3
  <2>. QED BY <1>2, <2>1, <2>2
<1>. QED BY <1>1, <1>2, <1>3

LEMMA BlockFacts ==
    ASSUME msgs \in Loads, NEW m \in Msgs, NEW b \in MsgBlocks(m)
    PROVE  /\ b.msg = m /\ b.entry \in DOMAIN msgs[m].energy /\ b.entry \in Nat /\ b.day \in Nat
           /\ b = [msg |-> m, entry |-> b.entry, day |-> b.day]
<1>1. PICK i \in DOMAIN msgs[m].energy :
          \E d \in day(msgs[m].energy[i][1]) .. day(msgs[m].energy[i][2] - 1) : b = [msg |-> m, entry |-> i, day |-> d]
  BY DEF MsgBlocks, SplitEnergyByDay
<1>4. PICK d \in day(msgs[m].energy[i][1]) .. day(msgs[m].energy[i][2] - 1) : b = [msg |-> m, entry |-> i, day |-> d]
  BY <1>1
<1>2. i \in Nat /\ day(msgs[m].energy[i][1]) \in Nat /\ day(msgs[m].energy[i][2] - 1) \in Nat
  <2>1. i \in Nat /\ msgs[m].energy[i][1] \in Nat /\ msgs[m].energy[i][2] \in Nat /\ msgs[m].energy[i][1] < msgs[m].energy[i][2]
    BY MsgFacts
  <2>2. msgs[m].energy[i][2] - 1 \in Nat
    BY <2>1
  <2>. QED BY Zenon, <2>1, <2>2, DayFacts
<1>3. d \in Nat
  BY <1>2
<1>. QED BY <1>2, <1>3, <1>4

LEMMA InBlock ==
    ASSUME msgs \in Loads, NEW m \in Msgs, NEW b \in MsgBlocks(m), NEW c \in BlockCells(b)
    PROVE  /\ c = <<msgs[m].ecId, msgs[m].meter, c[3]>> /\ c[3] \in Slots /\ c[3] \in Nat /\ day(c[3]) = b.day
           /\ msgs[m].energy[b.entry][1] <= c[3] /\ c[3] < msgs[m].energy[b.entry][2] /\ c \in Cells(m)
<1>1. b.msg = m
  BY BlockFacts
<1>2. PICK s \in BlockSlots(b) : c = <<msgs[m].ecId, msgs[m].meter, s>>
  BY <1>1 DEF BlockCells
<1>3. c[3] = s /\ c \in Cells(m)
  BY <1>2 DEF Cells
<1>. QED BY <1>1, <1>2, <1>3, ImportConfig DEF BlockSlots

LEMMA CellHasBlock ==
    ASSUME msgs \in Loads, NEW m \in Msgs, NEW c \in Cells(m)
    PROVE  \E b \in MsgBlocks(m) : c \in BlockCells(b)
<1>1. PICK b \in MsgBlocks(m) : \E s \in BlockSlots(b) : c = <<msgs[m].ecId, msgs[m].meter, s>>
  BY DEF Cells
<1>2. b.msg = m
  BY BlockFacts
<1>. QED BY <1>1, <1>2 DEF BlockCells

\* The last entry with a value for a cell has a block with it.
LEMMA LastEntryHasBlock ==
    ASSUME msgs \in Loads, NEW m \in Msgs, NEW c \in Cells(m)
    PROVE  \E b \in MsgBlocks(m) : c \in BlockCells(b) /\ b.entry = LastEntry(m, c)
<1>. DEFINE e == msgs[m].energy
            S == {i \in DOMAIN e : e[i][1] <= c[3] /\ c[3] < e[i][2]}
<1>1. PICK b \in MsgBlocks(m) : c \in BlockCells(b)
  BY CellHasBlock
<1>2. /\ c = <<msgs[m].ecId, msgs[m].meter, c[3]>> /\ c[3] \in Slots /\ c[3] \in Nat
      /\ e[b.entry][1] <= c[3] /\ c[3] < e[b.entry][2] /\ b.entry \in DOMAIN e
  BY <1>1, InBlock, BlockFacts
<1>3. Len(e) \in Nat /\ S \subseteq 1 .. Len(e) /\ S # {}
  BY Zenon, <1>2, MsgFacts
<1>4. PICK i \in S : \A j \in S : j <= i
  <2>. HIDE DEF S
  <2>. QED BY Zenon, <1>3, GreatestBelow
<1>5. PICK l : l = LastEntry(m, c)
  OBVIOUS
<1>6. l \in DOMAIN e /\ e[l][1] <= c[3] /\ c[3] < e[l][2]
  BY Zenon, <1>4, <1>5 DEF LastEntry
<1>7. e[l][1] \in Nat /\ e[l][2] \in Nat /\ c[3] <= e[l][2] - 1 /\ e[l][2] - 1 \in Nat
  <2>1. e[l][1] \in Nat /\ e[l][2] \in Nat
    BY <1>6, MsgFacts
  <2>. QED BY SMTT(30), <1>2, <1>6, <2>1
<1>8. day(c[3]) \in day(e[l][1]) .. day(e[l][2] - 1)
  <2>1. day(e[l][1]) <= day(c[3]) /\ day(c[3]) <= day(e[l][2] - 1)
    BY Zenon, <1>2, <1>6, <1>7, DayFacts
  <2>2. day(e[l][1]) \in Nat /\ day(c[3]) \in Nat /\ day(e[l][2] - 1) \in Nat
    BY <1>2, <1>7, DayFacts
  <2>. QED BY SMTT(30), <2>1, <2>2
<1>9. PICK d : d = [msg |-> m, entry |-> l, day |-> day(c[3])]
  BY Zenon
<1>10. d \in MsgBlocks(m) /\ d.msg = m /\ d.entry = l /\ d.day = day(c[3])
  BY <1>6, <1>8, <1>9 DEF MsgBlocks, SplitEnergyByDay
<1>11. c[3] \in BlockSlots(d)
  BY <1>2, <1>6, <1>10 DEF BlockSlots
<1>. QED BY <1>2, <1>5, <1>10, <1>11 DEF BlockCells

\* Two messages with a cell in common overlap.
LEMMA CommonCell ==
    ASSUME msgs \in Loads, NEW m \in Msgs, NEW n \in Msgs, NEW b \in MsgBlocks(m), NEW d \in MsgBlocks(n),
           NEW c \in BlockCells(b), c \in BlockCells(d)
    PROVE  Overlapping(m, n) /\ Overlap(msgs[m].energy[b.entry], msgs[n].energy[d.entry])
<1>1. /\ c = <<msgs[m].ecId, msgs[m].meter, c[3]>> /\ c[3] \in Nat
      /\ msgs[m].energy[b.entry][1] <= c[3] /\ c[3] < msgs[m].energy[b.entry][2]
  BY InBlock
<1>2. /\ c = <<msgs[n].ecId, msgs[n].meter, c[3]>>
      /\ msgs[n].energy[d.entry][1] <= c[3] /\ c[3] < msgs[n].energy[d.entry][2]
  BY InBlock
<1>3. msgs[m].ecId = msgs[n].ecId /\ msgs[m].meter = msgs[n].meter
  BY <1>1, <1>2
<1>4. /\ b.entry \in DOMAIN msgs[m].energy /\ d.entry \in DOMAIN msgs[n].energy
      /\ msgs[m].energy[b.entry] \in Range(msgs[m].energy) /\ msgs[n].energy[d.entry] \in Range(msgs[n].energy)
      /\ msgs[m].energy[b.entry][1] \in Nat /\ msgs[m].energy[b.entry][2] \in Nat
      /\ msgs[n].energy[d.entry][1] \in Nat /\ msgs[n].energy[d.entry][2] \in Nat
  BY Zenon, BlockFacts, MsgFacts
<1>5. Overlap(msgs[m].energy[b.entry], msgs[n].energy[d.entry])
  BY <1>1, <1>2, <1>4 DEF Overlap
<1>. QED BY Zenon, <1>3, <1>4, <1>5 DEF Overlapping

\* In a message without overlapping entries two blocks have no cell in common.
LEMMA OneBlock ==
    ASSUME msgs \in Loads, NEW m \in Msgs, ~selfOverlaps(m), NEW b \in MsgBlocks(m), NEW d \in MsgBlocks(m),
           NEW c \in BlockCells(b), c \in BlockCells(d)
    PROVE  b = d
<1>1. Overlap(msgs[m].energy[b.entry], msgs[m].energy[d.entry]) /\ Overlap(msgs[m].energy[d.entry], msgs[m].energy[b.entry])
  BY Zenon, CommonCell DEF Overlap
<1>2. b.entry \in DOMAIN msgs[m].energy /\ d.entry \in DOMAIN msgs[m].energy /\ b.entry \in Nat /\ d.entry \in Nat
  BY BlockFacts
<1>3. b.entry = d.entry
  BY <1>1, <1>2 DEF selfOverlaps
<1>4. b.day = d.day
  BY InBlock
<1>. QED BY <1>3, <1>4, BlockFacts

LEMMA OverlappingSym ==
    ASSUME NEW m, NEW n, Overlapping(m, n)
    PROVE  Overlapping(n, m)
  BY DEF Overlapping, Overlap

-----------------------------------------------------------------------------
(* The order of messages and blocks.                                       *)

\* The part of a lane at work: messages in their order.
PartOk == msgs \in Loads /\ Once(lane.part, Msgs) /\ Sorted(lane.part)

LEMMA EarlierIs ==
    ASSUME PartOk, NEW m \in Range(lane.part), NEW n \in Range(lane.part)
    PROVE  (Earlier(m, n) <=> m < n) /\ m \in Nat /\ n \in Nat /\ m \in Msgs /\ n \in Msgs
<1>1. lane.part \in Seq(Msgs) /\ Len(lane.part) \in Nat /\ DOMAIN lane.part = 1 .. Len(lane.part) /\ Msgs \subseteq Nat
  BY MsgFacts DEF PartOk, Once
<1>2. PICK i \in 1 .. Len(lane.part) : m = lane.part[i]
  BY <1>1, RangeIs
<1>3. PICK j \in 1 .. Len(lane.part) : n = lane.part[j]
  BY <1>1, RangeIs
<1>4. m \in Nat /\ n \in Nat /\ m \in Msgs /\ n \in Msgs
  <2>1. m \in Msgs /\ n \in Msgs
    BY <1>1, EmptyRange DEF PartOk
  <2>. QED BY <1>1, <2>1
<1>5. ASSUME m < n PROVE Earlier(m, n)
  <2>1. i # j /\ ~(j < i)
    BY <1>2, <1>3, <1>4, <1>5 DEF PartOk, Sorted
  <2>. QED BY <1>1, <1>2, <1>3, <2>1 DEF Earlier
<1>6. ASSUME Earlier(m, n) PROVE m < n
  BY <1>1, <1>6 DEF Earlier, PartOk, Sorted
<1>. QED BY <1>4, <1>5, <1>6

LEMMA FirstIs ==
    ASSUME PartOk, NEW S, S \subseteq Range(lane.part), S # {}
    PROVE  First(S) \in S /\ \A n \in S : n # First(S) => First(S) < n
<1>1. S \subseteq Nat
  BY EarlierIs
<1>2. PICK x \in S : \A y \in S : x <= y
  BY Zenon, <1>1, LeastNat
<1>3. \A y \in S \ {x} : Earlier(x, y)
  BY <1>1, <1>2, EarlierIs
<1>4. First(S) \in S /\ \A y \in S \ {First(S)} : Earlier(First(S), y)
  BY <1>3 DEF First
<1>. QED BY <1>4, EarlierIs

\* Blocks of messages of the part.
Blocks(bs) == \A b \in bs : b.msg \in Range(lane.part) /\ b \in MsgBlocks(b.msg)

LEMMA FirstBlockIs ==
    ASSUME PartOk, NEW bs, Blocks(bs), bs # {}
    PROVE  FirstBlock(bs) \in bs /\ \A c \in bs : c.msg = FirstBlock(bs).msg => FirstBlock(bs).entry <= c.entry
<1>. DEFINE ms == {b.msg : b \in bs}
<1>1. \A b \in bs : b.msg \in Nat /\ b.entry \in Nat /\ b.day \in Nat /\ b = [msg |-> b.msg, entry |-> b.entry, day |-> b.day]
  <2>. TAKE b \in bs
  <2>1. b.msg \in Range(lane.part) /\ b \in MsgBlocks(b.msg)
    BY DEF Blocks
  <2>2. b.msg \in Nat /\ b.msg \in Msgs
    BY <2>1, EarlierIs
  <2>. QED BY <2>1, <2>2, BlockFacts DEF PartOk
<1>2. ms \subseteq Nat /\ ms # {}
  BY <1>1
<1>3. PICK m \in ms : \A n \in ms : m <= n
  <2>. HIDE DEF ms
  <2>. QED BY Zenon, <1>2, LeastNat
<1>. DEFINE es == {b.entry : b \in {c \in bs : c.msg = m}}
<1>4. es \subseteq Nat /\ es # {}
  BY <1>1, <1>3
<1>5. PICK e \in es : \A n \in es : e <= n
  <2>. HIDE DEF es
  <2>. QED BY Zenon, <1>4, LeastNat
<1>. DEFINE ds == {b.day : b \in {c \in bs : c.msg = m /\ c.entry = e}}
<1>6. ds \subseteq Nat /\ ds # {}
  BY <1>1, <1>5
<1>7. PICK d \in ds : \A n \in ds : d <= n
  <2>. HIDE DEF ds
  <2>. QED BY Zenon, <1>6, LeastNat
<1>8. PICK f \in bs : f.msg = m /\ f.entry = e /\ f.day = d
  BY <1>7
<1>9. ASSUME NEW c \in bs \ {f} PROVE BlockBefore(f, c)
  <2>1. m <= c.msg /\ (c.msg = m => e <= c.entry) /\ (c.msg = m /\ c.entry = e => d <= c.day)
    BY <1>3, <1>5, <1>7
  <2>2. CASE m < c.msg
    BY <1>8, <2>2, EarlierIs DEF BlockBefore, Blocks
  <2>3. CASE m = c.msg /\ e < c.entry
    BY <1>8, <2>3 DEF BlockBefore
  <2>4. CASE m = c.msg /\ e = c.entry
    <3>1. c.day # d
      BY <1>1, <1>8, <1>9, <2>4
    <3>. QED BY <1>1, <1>8, <2>1, <2>4, <3>1 DEF BlockBefore
  <2>. QED BY <1>1, <1>8, <2>1, <2>2, <2>3, <2>4
<1>. HIDE DEF ms, es, ds
<1>10. FirstBlock(bs) \in bs /\ \A c \in bs \ {FirstBlock(bs)} : BlockBefore(FirstBlock(bs), c)
  BY <1>8, <1>9 DEF FirstBlock
<1>11. PICK g \in bs : g = FirstBlock(bs)
  BY <1>10
<1>12. ASSUME NEW c \in bs, c.msg = g.msg PROVE g.entry <= c.entry
  <2>1. ~Earlier(g.msg, c.msg)
    BY <1>12, EarlierIs DEF Blocks
  <2>. QED BY <1>1, <1>10, <1>11, <1>12, <2>1 DEF BlockBefore
<1>. QED BY <1>11, <1>12

\* The first run: it comes before the others, and without overlaps unless it is
\* a single message.
LEMMA SplitRunsIs ==
    ASSUME PartOk, NEW S, S \subseteq Range(lane.part), S # {}, NEW r, r = splitRuns(S)
    PROVE  /\ r \subseteq S /\ r # {} /\ First(r) = First(S) /\ Below(r, S \ r)
           /\ selfOverlaps(First(S)) => r = {First(S)}
           /\ ~selfOverlaps(First(S)) =>
                 \A m \in r : ~selfOverlaps(m) /\ \A n \in r : m # n => ~Overlapping(m, n)
<1>1. \A m \in S : m \in Nat /\ m \in Range(lane.part)
  BY EarlierIs
<1>2. First(S) \in S /\ \A n \in S : n # First(S) => First(S) < n
  BY FirstIs
<1>3. CASE selfOverlaps(First(S))
  <2>1. r = {First(S)}
    BY <1>3 DEF splitRuns
  <2>2. First(r) \in r
    BY <1>1, <1>2, <2>1, FirstIs
  <2>. QED BY <1>2, <1>3, <2>1, <2>2 DEF Below
<1>4. CASE ~selfOverlaps(First(S))
  <2>. DEFINE flush(m) == selfOverlaps(m) \/ overlapsAny(m, {n \in S : Earlier(n, m)})
  <2>1. r = {m \in S : ~flush(m) /\ \A n \in S : Earlier(n, m) => ~flush(n)}
    BY <1>4 DEF splitRuns
  <2>2. \A m, n \in S : Earlier(m, n) <=> m < n
    BY <1>1, EarlierIs
  <2>3. First(S) \in r
    <3>1. \A n \in S : ~Earlier(n, First(S))
      BY <1>1, <1>2, <2>2
    <3>2. ~flush(First(S))
      BY <1>4, <3>1 DEF overlapsAny
    <3>. HIDE DEF flush
    <3>. QED BY <1>2, <2>1, <3>1, <3>2
  <2>4. ASSUME NEW x \in r, NEW y \in S \ r PROVE x < y
    <3>. HIDE DEF flush
    <3>1. SUFFICES ASSUME y < x PROVE FALSE
      BY <1>1, <2>1, <2>4
    <3>2. ~flush(y)
      BY <2>1, <2>2, <3>1
    <3>3. \A n \in S : Earlier(n, y) => Earlier(n, x)
      BY <1>1, <2>1, <2>2, <3>1
    <3>. QED BY <2>1, <2>4, <3>2, <3>3
  <2>5. ASSUME NEW m \in r, NEW n \in r, n < m PROVE ~Overlapping(m, n)
    BY <2>1, <2>2, <2>5 DEF overlapsAny
  <2>6. ASSUME NEW m \in r, NEW n \in r, m # n PROVE ~Overlapping(m, n)
    <3>1. n < m \/ m < n
      BY <1>1, <2>1, <2>6
    <3>. QED BY <2>5, <3>1, OverlappingSym
  <2>7. \A m \in r : ~selfOverlaps(m)
    BY <2>1
  <2>8. r \subseteq S
    BY <2>1
  <2>9. First(r) \in r /\ \A n \in r : n # First(r) => First(r) < n
    BY <2>3, <2>8, FirstIs
  <2>10. First(r) = First(S)
    BY <1>1, <1>2, <2>3, <2>8, <2>9
  <2>. QED BY <1>4, <2>3, <2>4, <2>6, <2>7, <2>8, <2>10 DEF Below
<1>. QED BY <1>3, <1>4

-----------------------------------------------------------------------------
(* Writes to the store.                                                    *)

\* No cell is in two of the blocks.
Apart(bs) == \A b, d \in bs : \A c \in BlockCells(b) : c \in BlockCells(d) => b = d

\* What a store call, complete or not, does to the cells.
Wrote(bs) ==
    /\ DOMAIN store' = DOMAIN store
    /\ \A c \in DOMAIN store :
          store'[c] = store[c] \/ \E b \in bs : c \in BlockCells(b) /\ store'[c] = <<b.msg, b.entry>>

LEMMA WriteIs ==
    ASSUME NEW bs, Apart(bs), NEW c \in DOMAIN store
    PROVE  /\ \A b \in bs : c \in BlockCells(b) => Write(store, bs)[c] = <<b.msg, b.entry>>
           /\ (\A b \in bs : c \notin BlockCells(b)) => Write(store, bs)[c] = store[c]
<1>1. PICK C : C = {b \in bs : c \in BlockCells(b)}
  BY Zenon
<1>2. Write(store, bs)[c] = IF C = {} THEN store[c] ELSE <<LastBlock(C).msg, LastBlock(C).entry>>
  BY <1>1 DEF Write
<1>3. ASSUME NEW b \in bs, c \in BlockCells(b) PROVE C = {b}
  BY <1>1, <1>3 DEF Apart
<1>4. \A b : LastBlock({b}) = b
  BY DEF LastBlock
<1>. QED BY Zenon, <1>1, <1>2, <1>3, <1>4

LEMMA WriteWrote ==
    ASSUME NEW bs, Apart(bs), NEW r,
           store' = [c \in DOMAIN store |-> IF c[3] \in r THEN Write(store, bs)[c] ELSE store[c]]
    PROVE  Wrote(bs)
<1>1. DOMAIN store' = DOMAIN store
  OBVIOUS
<1>2. ASSUME NEW c \in DOMAIN store
      PROVE  store'[c] = store[c] \/ \E b \in bs : c \in BlockCells(b) /\ store'[c] = <<b.msg, b.entry>>
  <2>1. store'[c] = store[c] \/ store'[c] = Write(store, bs)[c]
    OBVIOUS
  <2>. QED BY <2>1, WriteIs
<1>. QED BY <1>1, <1>2 DEF Wrote

LEMMA CallWrites ==
    ASSUME NEW bs, Apart(bs), NEW out \in {"ok", "failed", "meta"}, StoreCall(bs, out)
    PROVE  /\ Wrote(bs)
           /\ out = "ok" => \A b \in bs : \A c \in BlockCells(b) \cap DOMAIN store : store'[c] = <<b.msg, b.entry>>
           /\ UNCHANGED count \/ count' = [count EXCEPT !.faults = @ + 1]
<1>1. UNCHANGED count \/ count' = [count EXCEPT !.faults = @ + 1]
  BY DEF StoreCall
<1>2. PICK rows : rows = UNION {BlockSlots(b) : b \in bs}
  BY Zenon
<1>3. PICK r : /\ store' = [c \in DOMAIN store |-> IF c[3] \in r THEN Write(store, bs)[c] ELSE store[c]]
               /\ out = "ok" => r = rows
  BY Zenon, <1>2 DEF StoreCall
<1>4. Wrote(bs)
  BY <1>3, WriteWrote
<1>5. ASSUME out = "ok", NEW b \in bs, NEW c \in BlockCells(b) \cap DOMAIN store PROVE store'[c] = <<b.msg, b.entry>>
  <2>1. c[3] \in BlockSlots(b)
    BY DEF BlockCells
  <2>2. c[3] \in r
    BY <1>2, <1>3, <1>5, <2>1
  <2>3. store'[c] = Write(store, bs)[c]
    BY <1>3, <2>2
  <2>. QED BY <2>3, WriteIs
<1>. QED BY <1>1, <1>4, <1>5

LEMMA CellsInStore ==
    ASSUME msgs \in Loads, StoreDom, NEW m \in Msgs
    PROVE  Cells(m) \subseteq DOMAIN store /\ \A b \in MsgBlocks(m) : BlockCells(b) \subseteq DOMAIN store
<1>1. \A b \in MsgBlocks(m) : BlockCells(b) \subseteq DOMAIN store
  <2>. TAKE b \in MsgBlocks(m)
  <2>1. SUFFICES ASSUME NEW c \in BlockCells(b) PROVE c \in DOMAIN store
    OBVIOUS
  <2>2. c = <<msgs[m].ecId, msgs[m].meter, c[3]>> /\ c[3] \in Slots
    BY InBlock
  <2>3. msgs[m] \in Range(msgs)
    BY DEF Msgs, Range
  <2>. QED BY <2>2, <2>3 DEF StoreDom
<1>. QED BY <1>1, CellHasBlock

\* The messages written are newer than m where they overlap it.
Newest(m, bs) == \A b \in bs : b.msg \in Msgs /\ b \in MsgBlocks(b.msg) /\ (Overlapping(m, b.msg) => m < b.msg)

LEMMA CellKept ==
    ASSUME msgs \in Loads, StoreDom, NEW m \in Msgs, NEW bs, Wrote(bs), Newest(m, bs),
           NEW c \in Cells(m), NEW e, Newer(store[c], <<m, e>>)
    PROVE  Newer(store'[c], <<m, e>>)
<1>1. c \in DOMAIN store
  BY CellsInStore
<1>2. CASE store'[c] = store[c]
  BY <1>2
<1>3. ASSUME NEW b \in bs, c \in BlockCells(b), store'[c] = <<b.msg, b.entry>> PROVE Newer(store'[c], <<m, e>>)
  <2>1. b.msg \in Msgs /\ b \in MsgBlocks(b.msg)
    BY DEF Newest
  <2>2. PICK d \in MsgBlocks(m) : c \in BlockCells(d)
    BY CellHasBlock
  <2>3. Overlapping(m, b.msg)
    BY <1>3, <2>1, <2>2, CommonCell
  <2>4. m < b.msg /\ m \in Nat /\ b.msg \in Nat
    BY Zenon, <2>1, <2>3, MsgFacts DEF Newest
  <2>. QED BY <1>3, <2>4 DEF Newer
<1>. QED BY <1>1, <1>2, <1>3 DEF Wrote

LEMMA StoredKept ==
    ASSUME msgs \in Loads, StoreDom, NEW m \in Msgs, NEW bs, Wrote(bs), Newest(m, bs), Stored(m)
    PROVE  StoredIn(store', m)
  BY Zenon, CellKept DEF Stored, StoredIn

-----------------------------------------------------------------------------
(* A step of ImportBatch: what it has to keep.                             *)

\* ImportBatch is under way, or has returned.
Batching == lane.pc \in Importing \cup {"confirm"} /\ ImInv /\ StoreInv

LEMMA BatchingFacts ==
    ASSUME Batching
    PROVE  /\ PartOk /\ StoreDom /\ Range(lane.part) \subseteq Msgs /\ Msgs \subseteq Nat /\ lane.pc \in Working
           /\ Groups /\ Running /\ OneByOne /\ Outcome /\ Active \subseteq Open /\ Waiting \subseteq Open
           /\ Open \subseteq Range(lane.part) /\ \A m \in Active : m \notin Waiting
<1>1. /\ Once(lane.part, Msgs) /\ Sorted(lane.part) /\ msgs \in Loads /\ StoreDom
      /\ Groups /\ Running /\ OneByOne /\ Outcome /\ lane.pc \in Working
  BY DEF Batching, ImInv, Shapes, StoreInv, Ordered, Working
<1>2. Range(lane.part) \subseteq Msgs /\ Msgs \subseteq Nat
  BY <1>1, EmptyRange, MsgFacts
<1>3. Active \subseteq Open /\ Waiting \subseteq Open /\ Open \subseteq Range(lane.part) /\ \A m \in Active : m \notin Waiting
  BY <1>1 DEF Open, Waiting, Groups
<1>. QED BY <1>1, <1>2, <1>3 DEF PartOk

\* Two open messages that overlap are in the same community.
LEMMA OpenOverlap ==
    ASSUME Batching, NEW m \in Active, NEW n \in Open, Overlapping(m, n)
    PROVE  n \in Active
  BY BatchingFacts DEF Groups, Open, Waiting, Overlapping

\* The store call that the lane is in is for open messages.
LEMMA CallBlocksFacts ==
    ASSUME Batching
    PROVE  /\ Apart(CallBlocks) /\ Blocks(CallBlocks)
           /\ \A b \in CallBlocks : b.msg \in Active /\ b.msg \in Msgs /\ b \in lane.left
           /\ lane.pc \in {"register", "day", "block"} => \A b \in lane.left : b.msg \in lane.run /\ b \in MsgBlocks(b.msg)
<1>1. /\ PartOk /\ Range(lane.part) \subseteq Msgs /\ Groups /\ Running /\ OneByOne /\ msgs \in Loads
      /\ Active \subseteq Range(lane.part)
  BY BatchingFacts DEF PartOk
<1>2. CASE lane.pc \in {"register", "day", "block"}
  <2>1. lane.run \subseteq Active /\ lane.run \subseteq Range(lane.part)
    BY <1>1, <1>2 DEF Active
  <2>2. \A b \in lane.left : b.msg \in lane.run /\ b \in MsgBlocks(b.msg)
    <3>. TAKE b \in lane.left
    <3>1. PICK m \in lane.run : b \in MsgBlocks(m)
      BY <1>1, <1>2 DEF Running
    <3>. QED BY <1>1, <2>1, <3>1, BlockFacts
  <2>3. CallBlocks \subseteq lane.left
    <3>1. CASE lane.pc = "block" /\ lane.day # {}
      <4>1. lane.day \subseteq lane.left
        BY <1>1, <1>2, <3>1 DEF Running
      <4>2. FirstBlock(lane.day) \in lane.day
        <5>1. Blocks(lane.day)
          BY <2>1, <2>2, <4>1 DEF Blocks
        <5>. QED BY <1>1, <3>1, <5>1, FirstBlockIs
      <4>3. CallBlocks = {FirstBlock(lane.day)}
        BY <3>1 DEF CallBlocks
      <4>. QED BY <4>1, <4>2, <4>3
    <3>2. CASE lane.pc = "day"
      BY <3>2 DEF CallBlocks, DayBlocks
    <3>3. CASE ~(lane.pc = "block" /\ lane.day # {}) /\ lane.pc # "day"
      BY <1>2, <3>3 DEF CallBlocks
    <3>. QED BY <3>1, <3>2, <3>3
  <2>4. ASSUME NEW b \in CallBlocks, NEW d \in CallBlocks, NEW c \in BlockCells(b), c \in BlockCells(d) PROVE b = d
    <3>1. b.msg \in lane.run /\ b \in MsgBlocks(b.msg) /\ d.msg \in lane.run /\ d \in MsgBlocks(d.msg)
      BY <2>2, <2>3
    <3>2. b.msg \in Msgs /\ d.msg \in Msgs
      BY <1>1, <2>1, <3>1
    <3>3. Overlapping(b.msg, d.msg)
      BY <1>1, <2>4, <3>1, <3>2, CommonCell
    <3>4. b.msg = d.msg /\ ~selfOverlaps(b.msg)
      BY <1>1, <1>2, <3>1, <3>3 DEF Running
    <3>. QED BY <1>1, <2>4, <3>1, <3>2, <3>4, OneBlock
  <2>. QED BY <1>1, <2>1, <2>2, <2>3, <2>4 DEF Apart, Blocks
<1>3. CASE lane.pc = "importBlock" /\ lane.left # {}
  <2>1. lane.imports # {} /\ lane.imports \subseteq Active
    BY <1>1, <1>3 DEF Groups, Active
  <2>2. PICK m \in lane.imports : m = First(lane.imports)
    BY <1>1, <2>1, FirstIs
  <2>3. m \in Active /\ m \in Range(lane.part) /\ m \in Msgs /\ lane.left \subseteq MsgBlocks(m)
    BY <1>1, <1>3, <2>1, <2>2 DEF OneByOne
  <2>4. \A b \in lane.left : b.msg = m
    BY <1>1, <2>3, BlockFacts
  <2>5. Blocks(lane.left)
    BY <2>3, <2>4 DEF Blocks
  <2>6. FirstBlock(lane.left) \in lane.left
    BY <1>1, <1>3, <2>5, FirstBlockIs
  <2>7. CallBlocks = {FirstBlock(lane.left)}
    BY <1>3 DEF CallBlocks
  <2>. QED BY <1>3, <2>3, <2>4, <2>5, <2>6, <2>7 DEF Apart, Blocks
<1>4. CASE lane.pc \notin {"register", "day", "block"} /\ ~(lane.pc = "importBlock" /\ lane.left # {})
  <2>1. CallBlocks = {}
    BY <1>4 DEF CallBlocks
  <2>. QED BY <1>4, <2>1 DEF Apart, Blocks
<1>. QED BY <1>2, <1>3, <1>4

LEMMA NewestSettled ==
    ASSUME Batching, NEW m \in Settled
    PROVE  Newest(m, CallBlocks)
  BY BatchingFacts, CallBlocksFacts DEF Newest, Outcome, Blocks

\* What is finished with a reply is older than what is written, where they
\* overlap: the acks and the outcomes keep the order.
LEMMA NewestFinished ==
    ASSUME Batching, count.panics = 0, Unbroken, NEW m \in acked \cup lane.finished, replies[m] > 0, m \notin logged
    PROVE  m \in Msgs /\ Newest(m, CallBlocks)
<1>1. m \in Msgs
  BY DEF Batching, ImInv, Accounted
<1>2. ASSUME NEW b \in CallBlocks, Overlapping(m, b.msg) PROVE m < b.msg
  <2>1. PICK k \in Msgs : k = b.msg /\ k \in Range(lane.part)
    BY Zenon, BatchingFacts, CallBlocksFacts
  <2>2. /\ m \in Nat /\ k \in Nat /\ msgs[m].decodable /\ msgs[k].decodable /\ Calling /\ replies[m] > 0
        /\ Range(lane.part) \subseteq Range(lane.call) /\ Range(lane.call) \subseteq Range(lane.batch)
    BY <1>1, <2>1, BatchingFacts DEF Batching, ImInv, StoreInv, Importable, Calling
  <2>3. k \notin acked /\ k \notin lane.finished /\ k \in Range(lane.batch)
    BY <2>1, <2>2 DEF Calling
  <2>4. Overlapping(k, m)
    BY <1>2, <2>1, OverlappingSym
  <2>5. ~(k < m)
    <3>1. CASE m \in acked
      BY Zenon, <1>1, <2>1, <2>2, <2>3, <2>4, <3>1 DEF Unbroken, AckOrder
    <3>2. CASE m \in lane.finished
      <4>1. m \in Range(lane.batch)
        BY <2>2, <3>2 DEF Calling
      <4>. QED BY <2>2, <2>3, <2>4, <3>2, <4>1 DEF Unbroken, Overlapped
    <3>. QED BY Zenon, <3>1, <3>2
  <2>6. k # m
    BY <2>3
  <2>. QED BY <2>1, <2>2, <2>5, <2>6
<1>. QED BY <1>1, <1>2, CallBlocksFacts DEF Newest, Blocks

\* A step of ImportBatch that writes blocks of CallBlocks, or nothing.
Step(bs) ==
    /\ lane.pc \in Importing /\ lane'.pc \in Importing \cup {"confirm"} /\ Within(lane')
    /\ UNCHANGED <<msgs, queue, ctxDone, acked, replies, logged>>
    /\ UNCHANGED count \/ count' = [count EXCEPT !.faults = @ + 1]
    /\ bs \subseteq CallBlocks /\ Wrote(bs)

LEMMA NoWrite ==
    ASSUME UNCHANGED store
    PROVE  Wrote({})
  BY DEF Wrote

LEMMA NewestPart ==
    ASSUME NEW m, NEW bs, bs \subseteq CallBlocks, Newest(m, CallBlocks)
    PROVE  Newest(m, bs)
  BY DEF Newest

LEMMA StepKeeps ==
    ASSUME WinInv, NEW bs, Step(bs), Groups', Running', OneByOne', Outcome'
    PROVE  WinInv'
<1>1. lane.pc \in Working /\ lane'.pc \in Working /\ lane'.pc # "idle" /\ lane'.pc \notin {"returned", "ack"} /\ lane.pc # "idle"
      /\ lane.pc # "confirm"
  BY DEF Step, Working, Importing
<1>2. /\ lane'.batch = lane.batch /\ lane'.single = lane.single /\ lane'.finished = lane.finished
      /\ lane'.call = lane.call /\ lane'.todo = lane.todo /\ lane'.part = lane.part
      /\ UNCHANGED <<msgs, queue, ctxDone, acked, replies, logged>> /\ Msgs' = Msgs
  BY DEF Step, Within, Msgs
<1>3. ImInv'
  <2>1. DOMAIN count' = DOMAIN count /\ count'.crashes = count.crashes
    BY CountFacts DEF WinInv, Step
  <2>. QED BY <2>1, WithinKeeps DEF WinInv, Step
<1>4. Batching
  BY DEF WinInv, Batching, Step
<1>5. StoreInv'
  <2>1. Ordered'
    BY <1>1, <1>2 DEF WinInv, StoreInv, Ordered, Sorted, Below
  <2>2. Importable'
    BY <1>1, <1>2 DEF WinInv, StoreInv, Importable
  <2>3. StoreDom' /\ msgs' \in Loads
    BY <1>2 DEF WinInv, StoreInv, StoreDom, Step, Wrote
  <2>4. (lane'.pc \notin Importing => lane'.idx = {}) /\ lane'.pc # "idle"
    BY <1>1 DEF Groups, Step
  <2>5. count'.panics \in Nat
    BY Zenon DEF WinInv, StoreInv, ImInv, Shapes, Step
  <2>. QED BY <2>1, <2>2, <2>3, <2>4, <2>5 DEF StoreInv
<1>6. ASSUME count'.panics = 0 PROVE Unbroken'
  <2>1. count.panics = 0
    BY <1>6 DEF Step, WinInv, ImInv, Shapes
  <2>2. Unbroken
    BY <2>1 DEF WinInv
  <2>3. \A m, n : Overlapped(m, n)' = Overlapped(m, n)
    BY Zenon, <1>2, SameMsgs DEF Overlapped
  <2>4. AckOrder'
    BY <1>2, <2>1, <2>2, SameMsgs DEF Unbroken, AckOrder
  <2>5. \A m \in acked' \cup lane'.finished : replies'[m] > 0 /\ m \notin logged' => Stored(m)'
    <3>1. SUFFICES ASSUME NEW m \in acked \cup lane.finished, replies[m] > 0, m \notin logged PROVE StoredIn(store', m)
      BY <1>2, SameMsgs
    <3>2. m \in Msgs /\ Newest(m, CallBlocks)
      BY Zenon, <1>4, <2>1, <2>2, <3>1, NewestFinished
    <3>3. Stored(m)
      BY <2>2, <3>1 DEF Unbroken
    <3>4. Wrote(bs) /\ Newest(m, bs) /\ msgs \in Loads /\ StoreDom
      BY <3>2, NewestPart DEF Step, WinInv, StoreInv
    <3>. QED BY Zenon, <3>2, <3>3, <3>4, StoredKept
  <2>. QED BY <1>1, <1>2, <2>2, <2>3, <2>4, <2>5 DEF Unbroken
<1>. QED BY <1>3, <1>5, <1>6 DEF WinInv

\* The messages done get their outcome in the step.
LEMMA OutcomeMoves ==
    ASSUME Batching, NEW bs, Step(bs), NEW done, done \subseteq Open, Open' = Open \ done,
           \A m \in Range(lane.part) \ done : lane'.errs[m] = lane.errs[m],
           \A m \in done, n \in Open \ done : Overlapping(m, n) => m < n,
           \A m \in done : lane'.errs[m] = "none" => StoredIn(store', m),
           \A m \in done : lane'.errs[m] = "stopped" => ctxDone,
           lane'.pc \in {"register", "day", "block", "importBlock"} => \A m \in Range(lane.part) : lane'.errs[m] # "stopped",
           \A m \in done, n \in done : m < n /\ Overlapping(m, n) /\ lane'.errs[m] = "stopped" => lane'.errs[n] = "stopped",
           \A m \in Settled, n \in done : m < n /\ Overlapping(m, n) /\ lane.errs[m] = "stopped" => lane'.errs[n] = "stopped"
    PROVE  Outcome'
<1>1. /\ PartOk /\ StoreDom /\ msgs \in Loads /\ Outcome /\ Open \subseteq Range(lane.part) /\ Range(lane.part) \subseteq Msgs
      /\ Msgs \subseteq Nat
  BY BatchingFacts DEF PartOk
<1>2. lane'.part = lane.part /\ UNCHANGED <<msgs, ctxDone>> /\ Wrote(bs) /\ bs \subseteq CallBlocks
  BY DEF Step, Within
<1>3. Settled' = Settled \cup done
  BY Zenon, <1>1, <1>2 DEF Settled
<1>4. (\A m, n : Overlapping(m, n)' = Overlapping(m, n)) /\ (\A m : Stored(m)' = StoredIn(store', m))
  BY <1>2, SameMsgs
<1>5. \A m \in Settled : m \notin done /\ m \in Range(lane.part) /\ lane'.errs[m] = lane.errs[m]
  BY DEF Settled
<1>6. \A m \in Settled', n \in Open' : Overlapping(m, n)' => m < n
  BY Zenon, <1>1, <1>3, <1>4 DEF Outcome
<1>7. \A m \in Open' : lane'.errs[m] = "none"
  BY <1>1 DEF Outcome
<1>8. \A m \in Settled' : lane'.errs[m] = "none" => Stored(m)'
  <2>1. SUFFICES ASSUME NEW m \in Settled, lane.errs[m] = "none" PROVE StoredIn(store', m)
    BY <1>3, <1>4, <1>5
  <2>2. Stored(m) /\ Newest(m, bs) /\ m \in Msgs
    BY Zenon, <1>1, <1>2, <1>5, <2>1, NewestSettled, NewestPart DEF Outcome
  <2>. QED BY Zenon, <1>1, <1>2, <2>2, StoredKept
<1>9. \A m \in Settled' : lane'.errs[m] = "stopped" => ctxDone'
  BY <1>1, <1>2, <1>3, <1>5 DEF Outcome
<1>10. \A m, n \in Settled' : m < n /\ Overlapping(m, n)' /\ lane'.errs[m] = "stopped" => lane'.errs[n] = "stopped"
  <2>1. SUFFICES ASSUME NEW m \in Settled', NEW n \in Settled', m < n, Overlapping(m, n), lane'.errs[m] = "stopped"
                 PROVE  lane'.errs[n] = "stopped"
    BY <1>4
  <2>2. CASE m \in done /\ n \in Settled
    <3>1. n < m
      BY <1>1, <2>1, <2>2, OverlappingSym DEF Outcome
    <3>2. m \in Nat /\ n \in Nat
      BY Zenon, <1>1, <1>5, <2>2
    <3>. QED BY SMTT(30), <2>1, <3>1, <3>2
  <2>3. CASE m \in Settled /\ n \in Settled
    BY Zenon, <1>1, <1>5, <2>1, <2>3 DEF Outcome
  <2>4. CASE n \in done
    BY <1>3, <1>5, <2>1, <2>4
  <2>. QED BY <1>3, <2>2, <2>3, <2>4
<1>. QED BY Zenon, <1>2, <1>6, <1>7, <1>8, <1>9, <1>10 DEF Outcome

LEMMA OutcomeSame ==
    ASSUME Batching, NEW bs, Step(bs), Open' = Open, lane'.errs = lane.errs,
           lane'.pc \in {"register", "day", "block", "importBlock"} => \A m \in Range(lane.part) : lane.errs[m] # "stopped"
    PROVE  Outcome'
<1>1. PICK done : done = {}
  BY Zenon
<1>2. done \subseteq Open /\ Open' = Open \ done
  BY <1>1
<1>. QED BY <1>1, <1>2, OutcomeMoves

-----------------------------------------------------------------------------
(* The steps of ImportBatch.                                               *)

LEMMA SetErrsFacts ==
    ASSUME NEW l, DOMAIN l = Fields, NEW ms, NEW e
    PROVE  /\ DOMAIN SetErrs(l, ms, e) = Fields
           /\ SetErrs(l, ms, e).errs = [m \in Msgs |-> IF m \in ms THEN e ELSE l.errs[m]]
           /\ SetErrs(l, ms, e).pc = l.pc /\ SetErrs(l, ms, e).ecIds = l.ecIds /\ SetErrs(l, ms, e).idx = l.idx
           /\ SetErrs(l, ms, e).run = l.run /\ SetErrs(l, ms, e).left = l.left /\ SetErrs(l, ms, e).day = l.day
           /\ SetErrs(l, ms, e).bad = l.bad /\ SetErrs(l, ms, e).imports = l.imports
  BY DEF SetErrs, Fields

Pending == {b.msg : b \in lane.left}

\* What importRun leaves: the messages done have their outcome, the others are
\* stopped, or left to Import.
SettledAs(s, ok) ==
    /\ s.ecIds = lane.ecIds
    /\ ok => s.pc = "run" /\ s.idx = lane.idx
    /\ ~ok => s.pc = "import" /\ s.idx = {} /\ s.imports = Pending \cup lane.idx
    /\ \A m \in Msgs : s.errs[m] = IF m \in Pending THEN (IF ok THEN "stopped" ELSE lane.errs[m])
                                   ELSE IF m \in lane.run THEN (IF m \in lane.bad THEN "failed" ELSE "none")
                                   ELSE lane.errs[m]

LEMMA SettleFacts ==
    ASSUME DOMAIN lane = Fields, NEW ok \in BOOLEAN, Pending \subseteq lane.run, NEW s, s = Settle(lane, ok)
    PROVE  SettledAs(s, ok)
<1>. DEFINE done    == lane.run \ Pending
            one     == SetErrs(lane, done \cap lane.bad, "failed")
            settled == SetErrs(one, done \ lane.bad, "none")
            stopped == SetErrs(settled, Pending, "stopped")
<1>1. /\ DOMAIN one = Fields /\ one.ecIds = lane.ecIds /\ one.idx = lane.idx
      /\ one.errs = [m \in Msgs |-> IF m \in done \cap lane.bad THEN "failed" ELSE lane.errs[m]]
  BY SetErrsFacts
<1>2. /\ DOMAIN settled = Fields /\ settled.ecIds = lane.ecIds /\ settled.idx = lane.idx
      /\ settled.errs = [m \in Msgs |-> IF m \in done \ lane.bad THEN "none" ELSE one.errs[m]]
  <2>. HIDE DEF one
  <2>. QED BY <1>1, SetErrsFacts
<1>3. /\ DOMAIN stopped = Fields /\ stopped.ecIds = lane.ecIds /\ stopped.idx = lane.idx
      /\ stopped.errs = [m \in Msgs |-> IF m \in Pending THEN "stopped" ELSE settled.errs[m]]
  <2>1. PICK t : t = settled
    OBVIOUS
  <2>2. DOMAIN t = Fields /\ t.ecIds = lane.ecIds /\ t.idx = lane.idx
    BY <1>2, <2>1
  <2>3. /\ DOMAIN SetErrs(t, Pending, "stopped") = Fields
        /\ SetErrs(t, Pending, "stopped").ecIds = t.ecIds /\ SetErrs(t, Pending, "stopped").idx = t.idx
        /\ SetErrs(t, Pending, "stopped").errs = [m \in Msgs |-> IF m \in Pending THEN "stopped" ELSE t.errs[m]]
    BY <2>2, SetErrsFacts
  <2>. HIDE DEF settled
  <2>. QED BY <2>1, <2>2, <2>3
<1>4. s = IF ok THEN [stopped EXCEPT !.pc = "run"]
          ELSE [settled EXCEPT !.pc = "import", !.idx = {}, !.imports = Pending \cup lane.idx]
  BY DEF Settle, Pending
<1>. HIDE DEF one, settled, stopped
<1>5. \A m \in Msgs : settled.errs[m] = IF m \in done THEN (IF m \in lane.bad THEN "failed" ELSE "none") ELSE lane.errs[m]
  BY <1>1, <1>2
<1>6. CASE ok
  <2>1. s.pc = "run" /\ s.idx = stopped.idx /\ s.ecIds = stopped.ecIds /\ s.errs = stopped.errs
    BY <1>3, <1>4, <1>6 DEF Fields
  <2>2. \A m \in Msgs : s.errs[m] = IF m \in Pending THEN "stopped" ELSE settled.errs[m]
    BY <1>3, <2>1
  <2>3. \A m \in Msgs : s.errs[m] = IF m \in Pending THEN "stopped"
                                    ELSE IF m \in lane.run THEN (IF m \in lane.bad THEN "failed" ELSE "none") ELSE lane.errs[m]
    BY <1>5, <2>2
  <2>. QED BY Zenon, <1>3, <1>6, <2>1, <2>3 DEF SettledAs
<1>7. CASE ~ok
  <2>1. s.pc = "import" /\ s.idx = {} /\ s.imports = Pending \cup lane.idx /\ s.ecIds = settled.ecIds /\ s.errs = settled.errs
    BY <1>2, <1>4, <1>7 DEF Fields
  <2>. QED BY <1>2, <1>5, <1>7, <2>1 DEF SettledAs
<1>. QED BY <1>6, <1>7

LEMMA OpenNext ==
    ASSUME NEW bs, Step(bs)
    PROVE  /\ Open' = Waiting' \cup Active'
           /\ Waiting' = {m \in Range(lane.part) : msgs[m].ecId \in lane'.ecIds}
           /\ lane'.part = lane.part /\ EcIdsOf(Range(lane.part))' = EcIdsOf(Range(lane.part)) /\ UNCHANGED msgs
           /\ \A S : First(S)' = First(S)
  BY DEF Step, Within, Open, Waiting, EcIdsOf, First, Earlier

\* A step that adds no community and whose messages are of one.
LEMMA GroupsAre ==
    ASSUME NEW bs, Step(bs), lane.ecIds \subseteq EcIdsOf(Range(lane.part)), lane'.ecIds \subseteq lane.ecIds,
           Active' \subseteq Range(lane.part), \A m, n \in Active' : msgs[m].ecId = msgs[n].ecId,
           \A m \in Active' : msgs[m].ecId \notin lane'.ecIds,
           lane'.pc # "confirm", lane'.pc = "ecId" => lane'.idx = {},
           lane'.pc \in {"register", "day", "block"} => Below(lane'.run, lane'.idx),
           lane'.pc \in {"import", "importBlock"} => Below(lane'.imports, lane'.idx),
           lane'.pc = "importBlock" => lane'.imports # {}
    PROVE  Groups'
<1>1. lane'.part = lane.part /\ EcIdsOf(Range(lane.part))' = EcIdsOf(Range(lane.part)) /\ UNCHANGED msgs
  BY Zenon, OpenNext
<1>2. Active' \subseteq Range(lane'.part) /\ lane'.ecIds \subseteq EcIdsOf(Range(lane.part))'
  BY Zenon, <1>1
<1>. QED BY <1>1, <1>2 DEF Groups, Below

LEMMA GroupsNext ==
    ASSUME NEW bs, Step(bs), Groups, lane'.ecIds \subseteq lane.ecIds, Active' \subseteq Active,
           lane'.pc # "confirm", lane'.pc = "ecId" => lane'.idx = {},
           lane'.pc \in {"register", "day", "block"} => Below(lane'.run, lane'.idx),
           lane'.pc \in {"import", "importBlock"} => Below(lane'.imports, lane'.idx),
           lane'.pc = "importBlock" => lane'.imports # {}
    PROVE  Groups'
<1>1. /\ lane.ecIds \subseteq EcIdsOf(Range(lane.part)) /\ Active' \subseteq Range(lane.part)
      /\ \A m, n \in Active' : msgs[m].ecId = msgs[n].ecId
      /\ \A m \in Active' : msgs[m].ecId \notin lane'.ecIds
  BY Zenon DEF Groups
<1>. QED BY Zenon, <1>1, GroupsAre

LEMMA AllStored ==
    ASSUME msgs \in Loads, NEW m \in Msgs,
           \A b \in MsgBlocks(m) : \A c \in BlockCells(b) : Newer(store[c], <<m, b.entry>>)
    PROVE  Stored(m)
<1>. SUFFICES ASSUME NEW c \in Cells(m) PROVE Newer(store[c], <<m, LastEntry(m, c)>>)
  BY DEF Stored, StoredIn
<1>1. PICK b \in MsgBlocks(m) : c \in BlockCells(b) /\ b.entry = LastEntry(m, c)
  BY LastEntryHasBlock
<1>. QED BY <1>1

\* importEcId: the messages of a community.
LEMMA importEcIdKeeps ==
    ASSUME WinInv, importEcId
    PROVE  WinInv'
<1>1. lane.pc = "ecId" /\ lane.ecIds # {} /\ UNCHANGED <<msgs, queue, ctxDone, store, acked, replies, logged>>
  BY DEF importEcId
<1>2. Batching /\ Within(lane) /\ DOMAIN lane = Fields
  BY <1>1, LaneWithin DEF Batching, WinInv, Importing
<1>3. PICK S : S = Waiting
  BY Zenon
<1>4. S \subseteq Range(lane.part) /\ S # {} /\ lane.idx = {} /\ Active = {} /\ Open = S /\ PartOk /\ Range(lane.part) \subseteq Msgs
  BY <1>1, <1>2, <1>3, BatchingFacts DEF Groups, Waiting, Active, Open, EcIdsOf
<1>5. PICK ecId : ecId = msgs[First(S)].ecId
  OBVIOUS
<1>6. ecId \in lane.ecIds
  BY <1>3, <1>4, <1>5, FirstIs DEF Waiting
<1>7. PICK ms : ms = {m \in Range(lane.part) : msgs[m].ecId = ecId}
  BY Zenon
<1>8. PICK l : l = [lane EXCEPT !.ecIds = lane.ecIds \ {ecId}]
  BY Zenon
<1>9. /\ Within(l) /\ DOMAIN l = Fields /\ l.pc = "ecId" /\ l.ecIds = lane.ecIds \ {ecId} /\ l.idx = {} /\ l.errs = lane.errs
  BY Zenon, <1>1, <1>2, <1>4, <1>8 DEF Within, Fields
<1>10. \/ ctxDone /\ lane' = SetErrs(l, ms, "stopped") /\ UNCHANGED count
       \/ ~ctxDone /\ lane' = SetErrs(l, ms, "failed") /\ count' = [count EXCEPT !.faults = @ + 1]
       \/ ~ctxDone /\ lane' = [l EXCEPT !.pc = "run", !.idx = ms] /\ UNCHANGED count
  BY <1>3, <1>5, <1>7, <1>8 DEF importEcId, Waiting
<1>11. ms \subseteq S /\ \A m \in ms : msgs[m].ecId = ecId
  BY <1>3, <1>6, <1>7 DEF Waiting
<1>12. CASE lane' = [l EXCEPT !.pc = "run", !.idx = ms]
  <2>1. /\ Within(lane') /\ lane'.pc = "run" /\ lane'.ecIds = lane.ecIds \ {ecId} /\ lane'.idx = ms /\ lane'.errs = lane.errs
    BY <1>9, <1>12 DEF Within, Fields
  <2>2. Step({})
    BY Zenon, <1>1, <1>10, <2>1, NoWrite DEF Step, Importing
  <2>3. Active' = ms /\ Open' = Open
    BY Zenon, <1>3, <1>4, <1>7, <1>11, <2>1, <2>2, OpenNext DEF Active, Waiting
  <2>4. Groups'
    <3>1. /\ lane.ecIds \subseteq EcIdsOf(Range(lane.part)) /\ Active' \subseteq Range(lane.part)
          /\ \A m, n \in Active' : msgs[m].ecId = msgs[n].ecId
          /\ \A m \in Active' : msgs[m].ecId \notin lane'.ecIds
      BY Zenon, <1>2, <1>4, <1>11, <2>1, <2>3, BatchingFacts DEF Groups
    <3>. QED BY Zenon, <2>1, <2>2, <3>1, GroupsAre
  <2>5. Running' /\ OneByOne'
    BY <2>1 DEF Running, OneByOne
  <2>6. Outcome'
    BY <1>2, <2>1, <2>2, <2>3, OutcomeSame
  <2>. QED BY <2>2, <2>4, <2>5, <2>6, StepKeeps
<1>13. ASSUME NEW e \in {"stopped", "failed"}, lane' = SetErrs(l, ms, e), e = "stopped" => ctxDone PROVE WinInv'
  <2>1. /\ Within(lane') /\ lane'.pc = "ecId" /\ lane'.ecIds = lane.ecIds \ {ecId} /\ lane'.idx = {}
        /\ lane'.errs = [m \in Msgs |-> IF m \in ms THEN e ELSE lane.errs[m]]
    BY <1>9, <1>13, WithinSetErrs, SetErrsFacts DEF Outcomes
  <2>2. Step({})
    BY Zenon, <1>1, <1>10, <2>1, NoWrite DEF Step, Importing
  <2>3. Active' = {} /\ Open' = Open \ ms
    BY Zenon, <1>3, <1>4, <1>7, <1>11, <2>1, <2>2, OpenNext DEF Active, Waiting
  <2>4. Groups'
    BY Zenon, <1>2, <2>1, <2>2, <2>3, BatchingFacts, GroupsNext
  <2>5. Running' /\ OneByOne'
    BY <2>1 DEF Running, OneByOne
  <2>6. \A m \in ms, n \in Range(lane.part) : Overlapping(m, n) \/ Overlapping(n, m) => n \in ms
    BY <1>7, <1>11 DEF Overlapping
  <2>7. \A m \in Range(lane.part) : lane'.errs[m] = IF m \in ms THEN e ELSE lane.errs[m]
    BY <1>4, <2>1
  <2>8. ms \subseteq Open /\ Open \subseteq Range(lane.part) /\ Settled \subseteq Range(lane.part) /\ Settled \cap ms = {}
    BY <1>4, <1>11 DEF Settled
  <2>9. Outcome'
    BY Zenon, <1>2, <1>13, <2>1, <2>2, <2>3, <2>6, <2>7, <2>8, OutcomeMoves
  <2>. QED BY Zenon, <2>2, <2>4, <2>5, <2>9, StepKeeps
<1>. QED BY <1>10, <1>12, <1>13

LEMMA ImportBatchDoneKeeps ==
    ASSUME WinInv, ImportBatchDone
    PROVE  WinInv'
<1>1. lane.pc = "ecId" /\ lane.ecIds = {} /\ UNCHANGED <<msgs, queue, ctxDone, store, acked, replies, logged, count>>
      /\ lane' = [lane EXCEPT !.pc = "confirm"]
  BY DEF ImportBatchDone
<1>2. Batching /\ Within(lane) /\ DOMAIN lane = Fields
  BY <1>1, LaneWithin DEF Batching, WinInv, Importing
<1>3. Within(lane') /\ lane'.pc = "confirm" /\ lane'.ecIds = {} /\ lane'.idx = lane.idx /\ lane'.errs = lane.errs
  BY <1>1, <1>2 DEF Within, Fields
<1>4. Step({})
  BY <1>1, <1>3, NoWrite DEF Step, Importing
<1>5. lane.idx = {} /\ Active = {} /\ Active' = {} /\ Open' = Open
  BY <1>1, <1>2, <1>3, <1>4, BatchingFacts, OpenNext DEF Groups, Active, Open, Waiting
<1>6. Groups'
  BY <1>3, <1>5 DEF Groups
<1>7. Running' /\ OneByOne'
  BY <1>3 DEF Running, OneByOne
<1>8. Outcome'
  BY <1>2, <1>3, <1>4, <1>5, OutcomeSame
<1>. QED BY <1>4, <1>6, <1>7, <1>8, StepKeeps

\* Import of the first message of imports begins.
LEMMA StartImportKeeps ==
    ASSUME WinInv, NEW bs, Step(bs), lane'.pc = "importBlock", lane'.left = MsgBlocks(First(lane'.imports)), lane'.bad = {},
           lane'.errs = lane.errs, ~ctxDone, Open' = Open, Groups'
    PROVE  WinInv'
<1>1. Batching
  BY DEF Batching, WinInv, Step
<1>2. Running'
  BY DEF Running
<1>3. OneByOne'
  <2>1. lane'.part = lane.part /\ UNCHANGED msgs
    BY OpenNext
  <2>2. First(lane.imports)' = First(lane'.imports)
    BY <2>1 DEF First, Earlier
  <2>3. \A m : MsgBlocks(m)' = MsgBlocks(m)
    BY <2>1, SameMsgs
  <2>. QED BY <2>2, <2>3 DEF OneByOne
<1>4. \A m \in Range(lane.part) : lane.errs[m] # "stopped"
  BY <1>1, BatchingFacts DEF Outcome, Settled
<1>5. Outcome'
  BY <1>1, <1>4, OutcomeSame
<1>. QED BY <1>2, <1>3, <1>5, StepKeeps

LEMMA NextRunKeeps ==
    ASSUME WinInv, NextRun
    PROVE  WinInv'
<1>1. lane.pc = "run" /\ UNCHANGED <<msgs, queue, ctxDone, store, acked, replies, logged, count>>
  BY DEF NextRun
<1>2. Batching /\ Within(lane) /\ DOMAIN lane = Fields
  BY Zenon, <1>1, LaneWithin DEF Batching, WinInv, Importing
<1>3. /\ PartOk /\ Range(lane.part) \subseteq Msgs /\ Msgs \subseteq Nat /\ Groups /\ Active = lane.idx
      /\ lane.idx \subseteq Range(lane.part) /\ Open = Waiting \cup lane.idx /\ \A m \in lane.idx : m \notin Waiting
  BY <1>1, <1>2, BatchingFacts DEF Groups, Active, Open
<1>4. CASE lane.idx = {}
  <2>1. Within(lane') /\ lane'.pc = "ecId" /\ lane'.ecIds = lane.ecIds /\ lane'.idx = {} /\ lane'.errs = lane.errs
    BY <1>2, <1>4 DEF NextRun, Within, Fields
  <2>2. Step({})
    BY Zenon, <1>1, <2>1, NoWrite DEF Step, Importing
  <2>3. Active' = {} /\ Open' = Open
    BY Zenon, <1>3, <1>4, <2>1, <2>2, OpenNext DEF Active, Waiting
  <2>4. Groups'
    BY Zenon, <1>3, <2>1, <2>2, <2>3, OpenNext DEF Groups
  <2>5. Running' /\ OneByOne'
    BY <2>1 DEF Running, OneByOne
  <2>6. Outcome'
    BY <1>2, <2>1, <2>2, <2>3, OutcomeSame
  <2>. QED BY <2>2, <2>4, <2>5, <2>6, StepKeeps
<1>5. CASE lane.idx # {}
  <2>1. PICK r : r = splitRuns(lane.idx)
    OBVIOUS
  <2>2. /\ r \subseteq lane.idx /\ r # {} /\ First(r) = First(lane.idx) /\ Below(r, lane.idx \ r)
        /\ selfOverlaps(First(r)) => r = {First(r)}
        /\ ~selfOverlaps(First(r)) => \A m \in r : ~selfOverlaps(m) /\ \A n \in r : m # n => ~Overlapping(m, n)
    BY <1>3, <1>5, <2>1, SplitRunsIs
  <2>3. PICK l : l = [lane EXCEPT !.idx = lane.idx \ r, !.run = r]
    OBVIOUS
  <2>4. /\ Within(l) /\ DOMAIN l = Fields /\ l.pc = "run" /\ l.ecIds = lane.ecIds /\ l.idx = lane.idx \ r /\ l.run = r
        /\ l.errs = lane.errs
    BY <1>1, <1>2, <2>3 DEF Within, Fields
  <2>5. lane' = IF ctxDone THEN SetErrs(l, r, "stopped")
                ELSE IF selfOverlaps(First(r)) THEN StartImport([l EXCEPT !.imports = r], First(r))
                ELSE [l EXCEPT !.pc = "register", !.left = UNION {MsgBlocks(m) : m \in r}, !.bad = {}]
    BY <1>5, <2>1, <2>3 DEF NextRun
  <2>6. CASE ctxDone
    <3>1. /\ Within(lane') /\ lane'.pc = "run" /\ lane'.ecIds = lane.ecIds /\ lane'.idx = lane.idx \ r
          /\ lane'.errs = [m \in Msgs |-> IF m \in r THEN "stopped" ELSE lane.errs[m]]
      BY <2>4, <2>5, <2>6, WithinSetErrs, SetErrsFacts DEF Outcomes
    <3>2. Step({})
      BY Zenon, <1>1, <3>1, NoWrite DEF Step, Importing
    <3>3. Active' = lane.idx \ r /\ Open' = Open \ r
      BY Zenon, <1>3, <2>2, <3>1, <3>2, OpenNext DEF Active, Waiting
    <3>4. Groups'
      BY Zenon, <1>3, <3>1, <3>2, <3>3, GroupsNext
    <3>5. Running' /\ OneByOne'
      BY <3>1 DEF Running, OneByOne
    <3>6. \A m \in Range(lane.part) : lane'.errs[m] = IF m \in r THEN "stopped" ELSE lane.errs[m]
      BY <1>3, <3>1
    <3>7. \A m \in r, n \in Open \ r : Overlapping(m, n) => m < n
      BY <1>2, <1>3, <2>2, OpenOverlap DEF Below
    <3>8. r \subseteq Open /\ Open \subseteq Range(lane.part)
      BY Zenon, <1>2, <1>3, <2>2, BatchingFacts
    <3>9. Outcome'
      BY Zenon, <1>2, <2>6, <3>1, <3>2, <3>3, <3>6, <3>7, <3>8, OutcomeMoves
    <3>. QED BY <3>2, <3>4, <3>5, <3>9, StepKeeps
  <2>7. CASE ~ctxDone /\ selfOverlaps(First(r))
    <3>1. lane' = StartImport([l EXCEPT !.imports = r], First(r))
      BY <2>5, <2>7
    <3>2. /\ Within(lane') /\ lane'.pc = "importBlock" /\ lane'.ecIds = lane.ecIds /\ lane'.idx = lane.idx \ r
          /\ lane'.errs = lane.errs /\ lane'.imports = r /\ lane'.left = MsgBlocks(First(r)) /\ lane'.bad = {}
      BY <2>4, <3>1 DEF Within, Fields, StartImport
    <3>3. Step({})
      BY Zenon, <1>1, <3>2, NoWrite DEF Step, Importing
    <3>4. Active' = lane.idx /\ Open' = Open
      BY Zenon, <1>3, <2>2, <3>2, <3>3, OpenNext DEF Active, Waiting
    <3>5. Groups'
      BY Zenon, <1>3, <2>2, <3>2, <3>3, <3>4, GroupsNext
    <3>. QED BY <2>7, <3>2, <3>3, <3>4, <3>5, StartImportKeeps
  <2>8. CASE ~ctxDone /\ ~selfOverlaps(First(r))
    <3>1. lane' = [l EXCEPT !.pc = "register", !.left = UNION {MsgBlocks(m) : m \in r}, !.bad = {}]
      BY <2>5, <2>8
    <3>2. /\ Within(lane') /\ lane'.pc = "register" /\ lane'.ecIds = lane.ecIds /\ lane'.idx = lane.idx \ r
          /\ lane'.errs = lane.errs /\ lane'.run = r /\ lane'.left = UNION {MsgBlocks(m) : m \in r} /\ lane'.bad = {}
      BY <2>4, <3>1 DEF Within, Fields
    <3>3. Step({})
      BY Zenon, <1>1, <3>2, NoWrite DEF Step, Importing
    <3>4. Active' = lane.idx /\ Open' = Open
      BY Zenon, <1>3, <2>2, <3>2, <3>3, OpenNext DEF Active, Waiting
    <3>5. Groups'
      BY Zenon, <1>3, <2>2, <3>2, <3>3, <3>4, GroupsNext
    <3>6. Running' /\ OneByOne'
      <4>1. /\ \A m, n \in r : m # n => ~Overlapping(m, n)'
            /\ \A m \in r : ~selfOverlaps(m)' /\ MsgBlocks(m)' = MsgBlocks(m)
        BY <1>1, <2>2, <2>8, SameMsgs
      <4>2. lane'.left = UNION {MsgBlocks(m)' : m \in r}
        BY <3>2, <4>1
      <4>. QED BY Zenon, <3>2, <4>1, <4>2 DEF Running, OneByOne
    <3>7. \A m \in Range(lane.part) : lane.errs[m] # "stopped"
      BY <1>2, <2>8, BatchingFacts DEF Outcome, Settled
    <3>8. Outcome'
      BY Zenon, <1>2, <3>2, <3>3, <3>4, <3>7, OutcomeSame
    <3>. QED BY <3>3, <3>5, <3>6, <3>8, StepKeeps
  <2>. QED BY <2>6, <2>7, <2>8
<1>. QED BY <1>4, <1>5

-----------------------------------------------------------------------------
(* The blocks of a run, and Import of single messages.                     *)

\* A block of the run that is not written keeps its cells.
LEMMA RunCellKept ==
    ASSUME Batching, lane.pc \in {"register", "day", "block"}, NEW bs, Step(bs),
           NEW m \in lane.run, NEW b \in MsgBlocks(m), b \notin bs, NEW c \in BlockCells(b)
    PROVE  store'[c] = store[c]
<1>1. /\ PartOk /\ StoreDom /\ msgs \in Loads /\ Running /\ m \in Msgs /\ c \in DOMAIN store /\ Wrote(bs) /\ bs \subseteq lane.left
  <2>1. lane.run \subseteq Msgs
    BY BatchingFacts DEF Groups, Active
  <2>. QED BY Zenon, <2>1, BatchingFacts, CallBlocksFacts, CellsInStore DEF PartOk, Step
<1>2. ASSUME NEW d \in bs, c \in BlockCells(d) PROVE FALSE
  <2>1. d.msg \in lane.run /\ d \in MsgBlocks(d.msg) /\ d.msg \in Msgs
    BY Zenon, <1>1, <1>2, CallBlocksFacts, BatchingFacts DEF Groups, Active
  <2>2. Overlapping(m, d.msg)
    BY <1>1, <1>2, <2>1, CommonCell
  <2>3. d.msg = m /\ ~selfOverlaps(m)
    BY <1>1, <2>1, <2>2 DEF Running
  <2>. QED BY Zenon, <1>1, <1>2, <2>1, <2>3, OneBlock
<1>. QED BY <1>1, <1>2 DEF Wrote

\* A step within importRun: the blocks done are stored, or their message is bad.
LEMMA RunStepKeeps ==
    ASSUME WinInv, NEW bs, Step(bs), lane.pc \in {"register", "day", "block"}, lane'.pc \in {"register", "day", "block"},
           lane'.ecIds = lane.ecIds, lane'.idx = lane.idx, lane'.run = lane.run, lane'.errs = lane.errs,
           lane'.left \subseteq lane.left, lane.bad \subseteq lane'.bad, lane'.pc = "block" => lane'.day \subseteq lane'.left,
           \A b \in lane.left \ lane'.left :
               b.msg \in lane'.bad \/ \A c \in BlockCells(b) : store'[c] = <<b.msg, b.entry>>
    PROVE  WinInv'
<1>1. Batching
  BY DEF Batching, WinInv, Step
<1>2. /\ Running /\ Groups /\ Outcome /\ msgs \in Loads /\ lane.run \subseteq Msgs
      /\ (\A b \in lane.left : b.msg \in lane.run /\ b \in MsgBlocks(b.msg)) /\ bs \subseteq lane.left
  BY Zenon, <1>1, BatchingFacts, CallBlocksFacts DEF PartOk, Groups, Active, Step
<1>3. Active' = Active /\ Open' = Open
  BY Zenon, <1>2, OpenNext DEF Active, Open, Waiting
<1>4. Groups'
  <2>1. Below(lane'.run, lane'.idx)
    BY Zenon, <1>2 DEF Groups
  <2>. QED BY Zenon, <1>2, <1>3, <2>1, GroupsNext
<1>5. /\ (\A m : MsgBlocks(m)' = MsgBlocks(m) /\ selfOverlaps(m)' = selfOverlaps(m)) /\ (\A b : BlockCells(b)' = BlockCells(b))
      /\ \A m, n : Overlapping(m, n)' = Overlapping(m, n)
  BY OpenNext, SameMsgs
<1>6. ASSUME NEW m \in lane.run \ lane'.bad, NEW b \in MsgBlocks(m) \ lane'.left, NEW c \in BlockCells(b)
      PROVE  Newer(store'[c], <<m, b.entry>>)
  <2>1. b.msg = m /\ m \in Msgs /\ m \in Nat /\ b.entry \in Nat
    BY <1>2, <1>6, BlockFacts, MsgFacts
  <2>2. CASE b \in lane.left
    <3>1. store'[c] = <<m, b.entry>>
      BY <1>6, <2>1, <2>2
    <3>. QED BY <2>1, <3>1 DEF Newer
  <2>3. CASE b \notin lane.left
    <3>1. store'[c] = store[c]
      BY Zenon, <1>1, <1>2, <1>6, <2>3, RunCellKept
    <3>2. Newer(store[c], <<m, b.entry>>)
      BY Zenon, <1>2, <1>6, <2>3 DEF Running
    <3>. QED BY <3>1, <3>2
  <2>. QED BY <2>2, <2>3
<1>7. Running'
  <2>1. UNION {MsgBlocks(m)' : m \in lane.run} = UNION {MsgBlocks(m) : m \in lane.run}
    BY <1>5
  <2>. QED BY <1>2, <1>5, <1>6, <2>1 DEF Running
<1>8. OneByOne'
  BY DEF OneByOne
<1>9. Outcome'
  <2>1. \A m \in Range(lane.part) : lane.errs[m] # "stopped"
    BY <1>2 DEF Outcome
  <2>. QED BY <1>1, <1>3, <2>1, OutcomeSame
<1>. QED BY <1>4, <1>7, <1>8, <1>9, StepKeeps

\* The messages of the run without a block left, and not bad, are stored.
LEMMA RunStored ==
    ASSUME Batching, lane.pc \in {"register", "day", "block"}, NEW bs, Step(bs),
           NEW m \in lane.run \ lane.bad, \A b \in lane.left : b.msg # m
    PROVE  StoredIn(store', m)
<1>1. /\ Running /\ msgs \in Loads /\ StoreDom /\ lane.run \subseteq Msgs /\ Msgs \subseteq Nat
      /\ (\A b \in lane.left : b.msg \in lane.run /\ b \in MsgBlocks(b.msg)) /\ bs \subseteq lane.left /\ Wrote(bs)
  BY BatchingFacts, CallBlocksFacts DEF PartOk, Groups, Active, Step
<1>2. \A b \in MsgBlocks(m) : b \notin lane.left
  BY <1>1, BlockFacts
<1>3. Stored(m)
  BY Zenon, <1>1, <1>2, AllStored DEF Running
<1>4. Newest(m, bs)
  BY <1>1 DEF Newest, Running
<1>. QED BY Zenon, <1>1, <1>3, <1>4, StoredKept

\* The end of importRun.
LEMMA SettleKeeps ==
    ASSUME WinInv, NEW bs, Step(bs), lane.pc \in {"register", "day", "block"}, NEW ok \in BOOLEAN, lane' = Settle(lane, ok),
           ok /\ lane.left # {} => ctxDone
    PROVE  WinInv'
<1>1. Batching /\ DOMAIN lane = Fields
  BY LaneWithin DEF Batching, WinInv, Step
<1>2. /\ Running /\ Groups /\ Outcome /\ lane.run \subseteq Active /\ lane.run \subseteq Range(lane.part) /\ Active = lane.idx \cup lane.run
      /\ Range(lane.part) \subseteq Msgs /\ Msgs \subseteq Nat /\ Open \subseteq Range(lane.part) /\ Open = Waiting \cup Active
      /\ \A b \in lane.left : b.msg \in lane.run
  BY Zenon, <1>1, BatchingFacts, CallBlocksFacts DEF Groups, Active, Open
<1>3. Pending = {b.msg : b \in lane.left}
  BY DEF Pending
<1>4. Pending \subseteq lane.run
  BY <1>2, <1>3
<1>5. PICK done : done = IF ok THEN lane.run ELSE lane.run \ Pending
  BY Zenon
<1>6. /\ lane'.ecIds = lane.ecIds /\ (ok => lane'.pc = "run" /\ lane'.idx = lane.idx)
      /\ (~ok => lane'.pc = "import" /\ lane'.idx = {} /\ lane'.imports = Pending \cup lane.idx)
      /\ \A m \in Msgs : lane'.errs[m] = IF m \in Pending THEN (IF ok THEN "stopped" ELSE lane.errs[m])
                                         ELSE IF m \in lane.run THEN (IF m \in lane.bad THEN "failed" ELSE "none")
                                         ELSE lane.errs[m]
  <2>1. PICK s : s = Settle(lane, ok)
    OBVIOUS
  <2>2. SettledAs(s, ok) /\ lane' = s
    BY Zenon, <1>1, <1>4, <2>1, SettleFacts
  <2>. QED BY Zenon, <2>2 DEF SettledAs
<1>7. Below(lane.run, lane.idx) /\ \A m \in lane.run : m \notin lane.idx /\ m \notin Waiting
  <2>1. Below(lane.run, lane.idx)
    BY <1>2 DEF Groups
  <2>2. \A m \in lane.run : m \notin Waiting /\ m \in Nat
    BY Zenon, <1>1, <1>2, BatchingFacts
  <2>. QED BY <2>1, <2>2 DEF Below
<1>8. Active' = Active \ done /\ Open' = Open \ done
  <2>1. Active' = Active \ done
    BY Zenon, <1>2, <1>4, <1>5, <1>6, <1>7 DEF Active
  <2>. QED BY Zenon, <1>2, <1>5, <1>6, <1>7, <2>1, OpenNext DEF Waiting
<1>9. Groups'
  <2>1. ~ok => Below(lane'.imports, lane'.idx)
    BY Zenon, <1>6 DEF Below
  <2>. QED BY Zenon, <1>2, <1>6, <1>8, <2>1, GroupsNext
<1>10. Running' /\ OneByOne'
  BY <1>6 DEF Running, OneByOne
<1>11. done \subseteq lane.run /\ done \subseteq Open
  BY <1>2, <1>5
<1>12. \A m \in done, n \in Open \ done : Overlapping(m, n) => m < n
  <2>. SUFFICES ASSUME NEW m \in done, NEW n \in Open \ done, Overlapping(m, n) PROVE m < n
    OBVIOUS
  <2>1. n \in Active
    BY <1>1, <1>2, <1>11, OpenOverlap
  <2>2. n \notin lane.run
    BY <1>2, <1>11 DEF Running
  <2>. QED BY <1>2, <1>7, <1>11, <2>1, <2>2 DEF Below
<1>13. \A m \in done : lane'.errs[m] = "none" => StoredIn(store', m)
  <2>. SUFFICES ASSUME NEW m \in done, lane'.errs[m] = "none" PROVE StoredIn(store', m)
    OBVIOUS
  <2>1. m \in lane.run \ lane.bad /\ m \notin Pending
    BY Zenon, <1>2, <1>5, <1>6, <1>11
  <2>2. \A b \in lane.left : b.msg # m
    BY <1>3, <2>1
  <2>. QED BY <1>1, <2>1, <2>2, RunStored
<1>14. \A m \in Range(lane.part) \ done : lane'.errs[m] = lane.errs[m]
  BY Zenon, <1>2, <1>4, <1>5, <1>6
<1>15. \A m \in done : lane'.errs[m] = "stopped" => ctxDone
  BY Zenon, <1>2, <1>3, <1>5, <1>6, <1>11
<1>16. \A m \in done, n \in done : m < n => ~Overlapping(m, n)
  <2>1. \A m \in done : m \in Nat /\ m \in lane.run
    BY Zenon, <1>2, <1>11
  <2>2. \A m, n \in lane.run : m # n => ~Overlapping(m, n)
    BY <1>2 DEF Running
  <2>. QED BY <2>1, <2>2
<1>17. \A m \in Settled : lane.errs[m] # "stopped"
  BY <1>2 DEF Outcome, Settled
<1>18. lane'.pc \notin {"register", "day", "block", "importBlock"}
  BY <1>6
<1>19. Outcome'
  BY Zenon, <1>1, <1>8, <1>11, <1>12, <1>13, <1>14, <1>15, <1>16, <1>17, <1>18, OutcomeMoves
<1>. QED BY <1>9, <1>10, <1>19, StepKeeps

\* The lane within importRun, and what Settle makes of it.
LEMMA InRun ==
    ASSUME WinInv, lane.pc \in {"register", "day", "block"}
    PROVE  /\ Batching /\ Within(lane) /\ DOMAIN lane = Fields /\ lane.pc \in Importing /\ StoreDom /\ msgs \in Loads
           /\ \A ok \in BOOLEAN : Within(Settle(lane, ok)) /\ Settle(lane, ok).pc \in Importing
           /\ \A b \in lane.left : b.msg \in Msgs /\ b \in MsgBlocks(b.msg) /\ BlockCells(b) \subseteq DOMAIN store
<1>1. Batching /\ Within(lane) /\ DOMAIN lane = Fields /\ lane.pc \in Importing
  BY Zenon, LaneWithin DEF Batching, WinInv, Importing
<1>2. \A ok \in BOOLEAN : Within(Settle(lane, ok)) /\ Settle(lane, ok).pc \in Importing
  BY Zenon, <1>1, WithinSettle
<1>3. StoreDom /\ msgs \in Loads /\ lane.run \subseteq Msgs /\ \A b \in lane.left : b.msg \in lane.run /\ b \in MsgBlocks(b.msg)
  BY <1>1, BatchingFacts, CallBlocksFacts DEF PartOk, Groups, Active
<1>. QED BY <1>1, <1>2, <1>3, CellsInStore

LEMMA RegisterKeeps ==
    ASSUME WinInv, Register
    PROVE  WinInv'
<1>1. lane.pc = "register" /\ UNCHANGED <<msgs, queue, ctxDone, store, acked, replies, logged>>
      /\ (UNCHANGED count \/ count' = [count EXCEPT !.faults = @ + 1])
  BY Zenon DEF Register
<1>2. Within(lane) /\ DOMAIN lane = Fields /\ lane.pc \in Importing /\ Within(Settle(lane, FALSE)) /\ Settle(lane, FALSE).pc \in Importing
  BY Zenon, <1>1, InRun
<1>3. CASE lane' = [lane EXCEPT !.pc = "day"]
  <2>1. /\ Within(lane') /\ lane'.pc = "day" /\ lane'.ecIds = lane.ecIds /\ lane'.idx = lane.idx /\ lane'.run = lane.run
        /\ lane'.errs = lane.errs /\ lane'.left = lane.left /\ lane'.bad = lane.bad
    BY <1>2, <1>3 DEF Within, Fields
  <2>2. Step({})
    BY <1>1, <1>2, <2>1, NoWrite DEF Step, Importing
  <2>. QED BY <1>1, <2>1, <2>2, RunStepKeeps
<1>4. CASE lane' = Settle(lane, FALSE)
  <2>1. Step({})
    BY Zenon, <1>1, <1>2, <1>4, NoWrite DEF Step
  <2>. QED BY Zenon, <1>1, <1>4, <2>1, SettleKeeps
<1>. QED BY Zenon, <1>3, <1>4 DEF Register

LEMMA storeDayKeeps ==
    ASSUME WinInv, storeDay
    PROVE  WinInv'
<1>1. lane.pc = "day" /\ UNCHANGED <<msgs, queue, ctxDone, acked, replies, logged>>
  BY DEF storeDay
<1>2. PICK out \in {"ok", "failed", "meta"} :
          /\ StoreCall(DayBlocks, out)
          /\ lane' = CASE out = "ok"     -> [lane EXCEPT !.left = lane.left \ DayBlocks]
                       [] out = "failed" -> [lane EXCEPT !.pc = "block", !.day = DayBlocks]
                       [] out = "meta"   -> Settle(lane, FALSE)
  BY Zenon DEF storeDay
<1>3. /\ Batching /\ Within(lane) /\ DOMAIN lane = Fields /\ lane.pc \in Importing
      /\ Within(Settle(lane, FALSE)) /\ Settle(lane, FALSE).pc \in Importing
      /\ \A b \in lane.left : BlockCells(b) \subseteq DOMAIN store
  BY Zenon, <1>1, InRun
<1>4. CallBlocks = DayBlocks /\ DayBlocks \subseteq lane.left /\ Apart(DayBlocks)
  BY <1>1, <1>3, CallBlocksFacts DEF CallBlocks, DayBlocks
<1>5. /\ Wrote(DayBlocks) /\ (UNCHANGED count \/ count' = [count EXCEPT !.faults = @ + 1])
      /\ out = "ok" => \A b \in DayBlocks : \A c \in BlockCells(b) \cap DOMAIN store : store'[c] = <<b.msg, b.entry>>
  BY <1>2, <1>4, CallWrites
<1>6. CASE out = "ok"
  <2>1. lane' = [lane EXCEPT !.left = lane.left \ DayBlocks]
    BY <1>2, <1>6
  <2>2. /\ Within(lane') /\ lane'.pc = "day" /\ lane'.ecIds = lane.ecIds /\ lane'.idx = lane.idx /\ lane'.run = lane.run
        /\ lane'.errs = lane.errs /\ lane'.left = lane.left \ DayBlocks /\ lane'.bad = lane.bad
    BY <1>1, <1>3, <2>1 DEF Within, Fields
  <2>3. Step(DayBlocks)
    BY <1>1, <1>3, <1>4, <1>5, <2>2 DEF Step, Importing
  <2>4. \A b \in lane.left \ lane'.left : \A c \in BlockCells(b) : store'[c] = <<b.msg, b.entry>>
    BY <1>3, <1>5, <1>6, <2>2
  <2>. QED BY <1>1, <2>2, <2>3, <2>4, RunStepKeeps
<1>7. CASE out = "failed"
  <2>1. lane' = [lane EXCEPT !.pc = "block", !.day = DayBlocks]
    BY <1>2, <1>7
  <2>2. /\ Within(lane') /\ lane'.pc = "block" /\ lane'.ecIds = lane.ecIds /\ lane'.idx = lane.idx /\ lane'.run = lane.run
        /\ lane'.errs = lane.errs /\ lane'.left = lane.left /\ lane'.bad = lane.bad /\ lane'.day = DayBlocks
    BY <1>1, <1>3, <2>1 DEF Within, Fields
  <2>3. Step(DayBlocks)
    BY <1>1, <1>3, <1>4, <1>5, <2>2 DEF Step, Importing
  <2>. QED BY <1>1, <1>4, <2>2, <2>3, RunStepKeeps
<1>8. CASE out = "meta"
  <2>1. lane' = Settle(lane, FALSE)
    BY <1>2, <1>8
  <2>2. Step(DayBlocks)
    BY Zenon, <1>1, <1>3, <1>4, <1>5, <2>1 DEF Step
  <2>. QED BY Zenon, <1>1, <2>1, <2>2, SettleKeeps
<1>. QED BY <1>6, <1>7, <1>8

LEMMA RunDoneKeeps ==
    ASSUME WinInv, RunDone
    PROVE  WinInv'
<1>1. lane.pc = "day" /\ UNCHANGED <<msgs, queue, ctxDone, store, acked, replies, logged, count>> /\ lane' = Settle(lane, TRUE)
      /\ (lane.left # {} => ctxDone)
  BY DEF RunDone
<1>2. Step({})
  BY Zenon, <1>1, InRun, NoWrite DEF Step
<1>. QED BY Zenon, <1>1, <1>2, SettleKeeps

LEMMA StoreBlockKeeps ==
    ASSUME WinInv, StoreBlock
    PROVE  WinInv'
<1>1. lane.pc = "block" /\ lane.day # {} /\ UNCHANGED <<msgs, queue, ctxDone, acked, replies, logged>>
  BY DEF StoreBlock
<1>2. PICK b : b = FirstBlock(lane.day)
  OBVIOUS
<1>3. PICK l : l = [lane EXCEPT !.day = lane.day \ {b}, !.left = lane.left \ {b}]
  OBVIOUS
<1>4. PICK out \in {"ok", "failed", "meta"} :
          /\ StoreCall({b}, out)
          /\ lane' = CASE out = "ok"     -> l
                       [] out = "failed" -> [l EXCEPT !.bad = l.bad \cup {b.msg}]
                       [] out = "meta"   -> Settle(lane, FALSE)
  BY Zenon, <1>2, <1>3 DEF StoreBlock
<1>5. /\ Batching /\ Within(lane) /\ DOMAIN lane = Fields /\ lane.pc \in Importing
      /\ Within(Settle(lane, FALSE)) /\ Settle(lane, FALSE).pc \in Importing
      /\ \A d \in lane.left : BlockCells(d) \subseteq DOMAIN store
  BY Zenon, <1>1, InRun
<1>6. CallBlocks = {b} /\ b \in lane.left /\ Apart({b}) /\ lane.day \subseteq lane.left
  BY <1>1, <1>2, <1>5, CallBlocksFacts, BatchingFacts DEF CallBlocks, Running
<1>7. /\ Wrote({b}) /\ (UNCHANGED count \/ count' = [count EXCEPT !.faults = @ + 1])
      /\ out = "ok" => \A c \in BlockCells(b) \cap DOMAIN store : store'[c] = <<b.msg, b.entry>>
  BY <1>4, <1>6, CallWrites
<1>8. /\ Within(l) /\ DOMAIN l = Fields /\ l.pc = "block" /\ l.ecIds = lane.ecIds /\ l.idx = lane.idx /\ l.run = lane.run
      /\ l.errs = lane.errs /\ l.left = lane.left \ {b} /\ l.bad = lane.bad /\ l.day = lane.day \ {b}
  BY <1>1, <1>3, <1>5 DEF Within, Fields
<1>9. CASE out \in {"ok", "failed"}
  <2>1. lane' = IF out = "ok" THEN l ELSE [l EXCEPT !.bad = l.bad \cup {b.msg}]
    BY Zenon, <1>4, <1>9
  <2>2. /\ Within(lane') /\ lane'.pc = "block" /\ lane'.ecIds = lane.ecIds /\ lane'.idx = lane.idx /\ lane'.run = lane.run
        /\ lane'.errs = lane.errs /\ lane'.left = lane.left \ {b} /\ lane'.day = lane.day \ {b}
        /\ lane'.bad = IF out = "ok" THEN lane.bad ELSE lane.bad \cup {b.msg}
    <3>1. CASE out = "ok"
      BY <1>8, <2>1, <3>1
    <3>2. CASE out # "ok"
      BY <1>8, <2>1, <3>2 DEF Within, Fields
    <3>. QED BY <3>1, <3>2
  <2>3. Step({b})
    BY <1>1, <1>5, <1>6, <1>7, <2>2 DEF Step, Importing
  <2>4. b.msg \in lane'.bad \/ \A c \in BlockCells(b) : store'[c] = <<b.msg, b.entry>>
    BY <1>5, <1>6, <1>7, <2>2
  <2>5. lane'.left \subseteq lane.left /\ lane.bad \subseteq lane'.bad /\ lane'.day \subseteq lane'.left /\ lane.left \ lane'.left \subseteq {b}
    BY <1>6, <2>2
  <2>. QED BY <1>1, <2>2, <2>3, <2>4, <2>5, RunStepKeeps
<1>10. CASE out = "meta"
  <2>1. lane' = Settle(lane, FALSE)
    BY <1>4, <1>10
  <2>2. Step({b})
    BY Zenon, <1>1, <1>5, <1>6, <1>7, <2>1 DEF Step
  <2>. QED BY Zenon, <1>1, <2>1, <2>2, SettleKeeps
<1>. QED BY <1>9, <1>10

LEMMA BlocksDoneKeeps ==
    ASSUME WinInv, BlocksDone
    PROVE  WinInv'
<1>1. lane.pc = "block" /\ UNCHANGED <<msgs, queue, ctxDone, store, acked, replies, logged, count>> /\ lane' = [lane EXCEPT !.pc = "day"]
  BY DEF BlocksDone
<1>2. Within(lane) /\ DOMAIN lane = Fields /\ lane.pc \in Importing
  BY <1>1, InRun
<1>3. /\ Within(lane') /\ lane'.pc = "day" /\ lane'.ecIds = lane.ecIds /\ lane'.idx = lane.idx /\ lane'.run = lane.run
      /\ lane'.errs = lane.errs /\ lane'.left = lane.left /\ lane'.bad = lane.bad
  BY <1>1, <1>2 DEF Within, Fields
<1>4. Step({})
  BY Zenon, <1>1, <1>2, <1>3, NoWrite DEF Step, Importing
<1>. QED BY <1>1, <1>3, <1>4, RunStepKeeps

\* The messages imported one by one, and the first of them.
LEMMA InImports ==
    ASSUME WinInv, lane.pc \in {"import", "importBlock"}
    PROVE  /\ Batching /\ Within(lane) /\ DOMAIN lane = Fields /\ lane.pc \in Importing /\ PartOk /\ StoreDom /\ msgs \in Loads
           /\ Groups /\ OneByOne /\ Outcome /\ Active = lane.idx \cup lane.imports /\ Open = Waiting \cup Active
           /\ Range(lane.part) \subseteq Msgs /\ Msgs \subseteq Nat /\ Open \subseteq Range(lane.part)
           /\ lane.imports # {} =>
                 /\ First(lane.imports) \in lane.imports /\ First(lane.imports) \in Msgs
                 /\ First(lane.imports) \notin lane.idx /\ First(lane.imports) \notin Waiting
                 /\ \A n \in Open : n # First(lane.imports) /\ Overlapping(First(lane.imports), n) => First(lane.imports) < n
<1>1. Batching /\ Within(lane) /\ DOMAIN lane = Fields /\ lane.pc \in Importing
  BY Zenon, LaneWithin DEF Batching, WinInv, Importing
<1>2. /\ PartOk /\ StoreDom /\ msgs \in Loads /\ Groups /\ OneByOne /\ Outcome /\ Active = lane.idx \cup lane.imports
      /\ Open = Waiting \cup Active /\ Range(lane.part) \subseteq Msgs /\ Msgs \subseteq Nat /\ Open \subseteq Range(lane.part)
  BY <1>1, BatchingFacts DEF PartOk, Active, Open
<1>3. ASSUME lane.imports # {}
      PROVE  /\ First(lane.imports) \in lane.imports /\ First(lane.imports) \in Msgs
             /\ First(lane.imports) \notin lane.idx /\ First(lane.imports) \notin Waiting
             /\ \A n \in Open : n # First(lane.imports) /\ Overlapping(First(lane.imports), n) => First(lane.imports) < n
  <2>1. lane.imports \subseteq Range(lane.part)
    BY <1>2
  <2>2. PICK m : m = First(lane.imports)
    OBVIOUS
  <2>3. m \in lane.imports /\ \A n \in lane.imports : n # m => m < n
    BY <1>2, <1>3, <2>1, <2>2, FirstIs
  <2>4. Below(lane.imports, lane.idx)
    BY <1>2 DEF Groups
  <2>5. m \in Msgs /\ m \in Nat /\ m \in Active /\ m \notin Waiting
    BY Zenon, <1>1, <1>2, <2>1, <2>3, BatchingFacts
  <2>6. m \notin lane.idx
    BY <2>3, <2>4, <2>5 DEF Below
  <2>7. ASSUME NEW n \in Open, n # m, Overlapping(m, n) PROVE m < n
    <3>1. n \in lane.idx \cup lane.imports
      BY <1>1, <1>2, <2>5, <2>7, OpenOverlap
    <3>. QED BY <2>3, <2>4, <2>7, <3>1 DEF Below
  <2>. QED BY <2>2, <2>3, <2>5, <2>6, <2>7
<1>. QED BY <1>1, <1>2, <1>3

\* The first message of imports has its outcome.
ImportedAs(m, e) ==
    /\ lane'.pc = "import" /\ lane'.ecIds = lane.ecIds /\ lane'.idx = lane.idx /\ lane'.imports = lane.imports \ {m}
    /\ lane'.errs = [n \in Msgs |-> IF n \in {m} THEN e ELSE lane.errs[n]]

LEMMA ImportedKeeps ==
    ASSUME WinInv, lane.pc \in {"import", "importBlock"}, Step({}), lane.imports # {}, NEW m, m = First(lane.imports), NEW e \in Outcomes,
           ImportedAs(m, e), UNCHANGED store, e = "none" => Stored(m), e = "stopped" => ctxDone,
           e = "stopped" \/ \A n \in Range(lane.part) : lane.errs[n] # "stopped"
    PROVE  WinInv'
<1>. USE DEF ImportedAs
<1>1. /\ Batching /\ Groups /\ Active = lane.idx \cup lane.imports /\ Open = Waiting \cup Active
      /\ Range(lane.part) \subseteq Msgs /\ Msgs \subseteq Nat /\ Open \subseteq Range(lane.part)
      /\ m \in lane.imports /\ m \in Msgs /\ m \notin lane.idx /\ m \notin Waiting
      /\ \A n \in Open : n # m /\ Overlapping(m, n) => m < n
  BY InImports
<1>2. Active' = Active \ {m} /\ Open' = Open \ {m}
  <2>1. Active' = Active \ {m}
    BY Zenon, <1>1 DEF Active
  <2>. QED BY Zenon, <1>1, <2>1, OpenNext DEF Waiting
<1>3. Groups'
  <2>1. Below(lane'.imports, lane'.idx)
    BY Zenon, <1>1 DEF Groups, Below
  <2>. QED BY Zenon, <1>1, <1>2, <2>1, GroupsNext
<1>4. Running' /\ OneByOne'
  BY Zenon DEF Running, OneByOne
<1>5. PICK done : done = {m}
  BY Zenon
<1>6. done \subseteq Open /\ Open' = Open \ done /\ \A n \in done : n = m
  BY <1>1, <1>2, <1>5
<1>7. \A n \in Range(lane.part) : lane'.errs[n] = IF n \in done THEN e ELSE lane.errs[n]
  BY <1>1, <1>5
<1>8. e = "none" => StoredIn(store', m)
  BY DEF Stored
<1>9. m \in Range(lane.part) /\ Settled \subseteq Range(lane.part)
  BY <1>1 DEF Settled
<1>10. lane'.errs[m] = e /\ \A n \in Range(lane.part) \ done : lane'.errs[n] = lane.errs[n]
  BY <1>6, <1>7, <1>9, <1>5
<1>11. lane'.pc \notin {"register", "day", "block", "importBlock"}
  OBVIOUS
<1>12. /\ \A x \in done, n \in Open \ done : Overlapping(x, n) => x < n
       /\ \A x \in done : lane'.errs[x] = "none" => StoredIn(store', x)
       /\ \A x \in done : lane'.errs[x] = "stopped" => ctxDone
       /\ \A x \in done, n \in done : x < n /\ Overlapping(x, n) /\ lane'.errs[x] = "stopped" => lane'.errs[n] = "stopped"
       /\ \A x \in Settled, n \in done : x < n /\ Overlapping(x, n) /\ lane.errs[x] = "stopped" => lane'.errs[n] = "stopped"
  BY SMTT(30), <1>1, <1>5, <1>6, <1>8, <1>9, <1>10
<1>13. Outcome'
  BY Zenon, <1>1, <1>6, <1>10, <1>11, <1>12, OutcomeMoves
<1>. QED BY Zenon, <1>3, <1>4, <1>13, StepKeeps

LEMMA importOneKeeps ==
    ASSUME WinInv, importOne
    PROVE  WinInv'
<1>1. lane.pc = "import" /\ UNCHANGED <<msgs, queue, ctxDone, store, acked, replies, logged, count>>
  BY DEF importOne
<1>2. /\ Batching /\ Within(lane) /\ DOMAIN lane = Fields /\ lane.pc \in Importing /\ Groups /\ Active = lane.idx \cup lane.imports
      /\ Open = Waiting \cup Active
  BY <1>1, InImports
<1>3. CASE lane.imports = {}
  <2>1. Within(lane') /\ lane'.pc = "run" /\ lane'.ecIds = lane.ecIds /\ lane'.idx = lane.idx /\ lane'.errs = lane.errs
    BY <1>2, <1>3 DEF importOne, Within, Fields
  <2>2. Step({})
    BY <1>1, <1>2, <2>1, NoWrite DEF Step, Importing
  <2>3. Active' = Active
    BY <1>2, <1>3, <2>1 DEF Active
  <2>4. Open' = Open
    BY Zenon, <1>2, <2>1, <2>2, <2>3, OpenNext DEF Waiting
  <2>5. Groups'
    BY Zenon, <1>2, <2>1, <2>2, <2>3, GroupsNext
  <2>6. Running' /\ OneByOne'
    BY <2>1 DEF Running, OneByOne
  <2>7. Outcome'
    BY Zenon, <1>2, <2>1, <2>2, <2>4, OutcomeSame
  <2>. QED BY <2>2, <2>5, <2>6, <2>7, StepKeeps
<1>4. CASE lane.imports # {} /\ ctxDone
  <2>1. PICK m : m = First(lane.imports)
    OBVIOUS
  <2>2. PICK l : l = [lane EXCEPT !.imports = lane.imports \ {m}]
    BY Zenon
  <2>3. /\ Within(l) /\ DOMAIN l = Fields /\ l.pc = "import" /\ l.ecIds = lane.ecIds /\ l.idx = lane.idx
        /\ l.imports = lane.imports \ {m} /\ l.errs = lane.errs
    BY <1>1, <1>2, <2>2 DEF Within, Fields
  <2>4. lane' = SetErrs(l, {m}, "stopped")
    BY <1>4, <2>1, <2>2 DEF importOne
  <2>5. /\ Within(lane') /\ lane'.pc = "import" /\ lane'.ecIds = lane.ecIds /\ lane'.idx = lane.idx
        /\ lane'.imports = lane.imports \ {m} /\ lane'.errs = [n \in Msgs |-> IF n \in {m} THEN "stopped" ELSE lane.errs[n]]
    BY <2>3, <2>4, WithinSetErrs, SetErrsFacts DEF Outcomes
  <2>6. Step({})
    BY <1>1, <1>2, <2>5, NoWrite DEF Step, Importing
  <2>7. "stopped" \in Outcomes
    BY DEF Outcomes
  <2>8. ImportedAs(m, "stopped")
    BY Zenon, <2>5 DEF ImportedAs
  <2>. QED BY Zenon, <1>1, <1>4, <2>1, <2>6, <2>7, <2>8, ImportedKeeps
<1>5. CASE lane.imports # {} /\ ~ctxDone
  <2>1. lane' = StartImport(lane, First(lane.imports))
    BY <1>5 DEF importOne
  <2>2. /\ Within(lane') /\ lane'.pc = "importBlock" /\ lane'.ecIds = lane.ecIds /\ lane'.idx = lane.idx /\ lane'.imports = lane.imports
        /\ lane'.errs = lane.errs /\ lane'.left = MsgBlocks(First(lane.imports)) /\ lane'.bad = {}
    BY <1>2, <2>1 DEF Within, Fields, StartImport
  <2>3. Step({})
    BY <1>1, <1>2, <2>2, NoWrite DEF Step, Importing
  <2>4. Active' = Active
    BY <1>1, <2>2 DEF Active
  <2>5. Open' = Open
    BY Zenon, <1>2, <2>2, <2>3, <2>4, OpenNext DEF Waiting
  <2>6. Groups'
    <3>1. Below(lane'.imports, lane'.idx)
      BY Zenon, <1>1, <1>2, <2>2 DEF Groups
    <3>. QED BY Zenon, <1>2, <1>5, <2>2, <2>3, <2>4, <3>1, GroupsNext
  <2>. QED BY <1>5, <2>2, <2>3, <2>5, <2>6, StartImportKeeps
<1>. QED BY <1>3, <1>4, <1>5

LEMMA ImportBlockKeeps ==
    ASSUME WinInv, ImportBlock
    PROVE  WinInv'
<1>1. lane.pc = "importBlock" /\ lane.left # {} /\ UNCHANGED <<msgs, queue, ctxDone, acked, replies, logged>>
  BY Zenon DEF ImportBlock
<1>2. /\ Batching /\ Within(lane) /\ DOMAIN lane = Fields /\ lane.pc \in Importing /\ PartOk /\ StoreDom /\ msgs \in Loads
      /\ Groups /\ OneByOne /\ Outcome /\ lane.imports # {} /\ lane.imports \subseteq Range(lane.part) /\ Open = Waiting \cup Active
  BY <1>1, InImports DEF Groups
<1>3. PICK b : b = FirstBlock(lane.left)
  OBVIOUS
<1>4. PICK l : l = [lane EXCEPT !.left = lane.left \ {b}]
  BY Zenon
<1>5. PICK out \in {"ok", "failed", "meta"} :
          /\ StoreCall({b}, out)
          /\ lane' = CASE out = "ok"     -> l
                       [] out = "failed" -> [l EXCEPT !.bad = {b.msg}]
                       [] out = "meta"   -> [l EXCEPT !.bad = {b.msg}, !.left = {}]
  BY <1>3, <1>4 DEF ImportBlock
<1>6. PICK m \in lane.imports : m = First(lane.imports) /\ m \in Msgs /\ m \in Range(lane.part)
  BY Zenon, <1>1, <1>2, InImports
<1>7. lane.left \subseteq MsgBlocks(m) /\ (\A d \in lane.left : d.msg = m /\ d.entry \in Nat) /\ m \in Nat
  BY SMTT(30), <1>1, <1>2, <1>6, BlockFacts, MsgFacts DEF OneByOne
<1>8. b \in lane.left /\ \A d \in lane.left : b.entry <= d.entry
  <2>1. Blocks(lane.left)
    BY <1>6, <1>7 DEF Blocks
  <2>. QED BY Zenon, <1>1, <1>2, <1>3, <1>7, <2>1, FirstBlockIs
<1>9. CallBlocks = {b} /\ Apart({b})
  BY <1>1, <1>2, <1>3, CallBlocksFacts DEF CallBlocks
<1>10. /\ Wrote({b}) /\ (UNCHANGED count \/ count' = [count EXCEPT !.faults = @ + 1])
       /\ out = "ok" => \A c \in BlockCells(b) \cap DOMAIN store : store'[c] = <<b.msg, b.entry>>
  BY <1>5, <1>9, CallWrites
<1>11. /\ Within(l) /\ DOMAIN l = Fields /\ l.pc = "importBlock" /\ l.ecIds = lane.ecIds /\ l.idx = lane.idx /\ l.imports = lane.imports
       /\ l.errs = lane.errs /\ l.left = lane.left \ {b} /\ l.bad = lane.bad
  BY Zenon, <1>1, <1>2, <1>4 DEF Within, Fields
<1>12. /\ Within(lane') /\ lane'.pc = "importBlock" /\ lane'.ecIds = lane.ecIds /\ lane'.idx = lane.idx /\ lane'.imports = lane.imports
       /\ lane'.errs = lane.errs /\ lane'.left \subseteq lane.left
       /\ lane'.bad = {} => out = "ok" /\ lane.bad = {} /\ lane'.left = lane.left \ {b}
  <2>1. CASE out = "ok"
    BY <1>5, <1>11, <2>1
  <2>2. CASE out = "failed"
    <3>1. lane' = [l EXCEPT !.bad = {b.msg}]
      BY <1>5, <2>2
    <3>. QED BY <1>11, <3>1 DEF Within, Fields
  <2>3. CASE out = "meta"
    <3>1. lane' = [l EXCEPT !.bad = {b.msg}, !.left = {}]
      BY <1>5, <2>3
    <3>. QED BY <1>11, <3>1 DEF Within, Fields
  <2>. QED BY Zenon, <2>1, <2>2, <2>3
<1>13. Step({b})
  BY Zenon, <1>1, <1>2, <1>9, <1>10, <1>12 DEF Step, Importing
<1>14. Active' = Active
  BY <1>1, <1>12 DEF Active
<1>15. Open' = Open
  BY Zenon, <1>2, <1>12, <1>13, <1>14, OpenNext DEF Waiting
<1>16. Groups'
  BY Zenon, <1>1, <1>2, <1>12, <1>13, <1>14, OpenNext DEF Groups
<1>17. Running'
  BY <1>12 DEF Running
<1>18. OneByOne'
  <2>1. lane'.part = lane.part /\ UNCHANGED msgs
    BY <1>13, OpenNext
  <2>2. First(lane.imports)' = First(lane.imports)
    BY <1>12, <2>1 DEF First, Earlier
  <2>3. (\A n : MsgBlocks(n)' = MsgBlocks(n)) /\ (\A d : BlockCells(d)' = BlockCells(d))
    BY <2>1, SameMsgs
  <2>4. ASSUME lane'.bad = {}, NEW d \in MsgBlocks(m) \ lane'.left PROVE \A x \in lane'.left : d.entry <= x.entry
    <3>1. d = b \/ d \in MsgBlocks(m) \ lane.left
      BY <1>12, <2>4
    <3>. QED BY Zenon, <1>1, <1>2, <1>6, <1>8, <1>12, <2>4, <3>1 DEF OneByOne
  <2>5. ASSUME lane'.bad = {}, NEW d \in MsgBlocks(m) \ lane'.left, NEW c \in BlockCells(d) PROVE Newer(store'[c], <<m, d.entry>>)
    <3>1. d = b \/ d \in MsgBlocks(m) \ lane.left
      BY <1>12, <2>5
    <3>2. c \in DOMAIN store /\ d.entry \in Nat /\ b.msg = m /\ b.entry \in Nat
      BY Zenon, <1>2, <1>6, <1>7, <1>8, <2>5, CellsInStore, BlockFacts
    <3>3. CASE d = b
      <4>1. store'[c] = <<m, b.entry>>
        BY Zenon, <1>10, <1>12, <2>5, <3>2, <3>3
      <4>. QED BY <1>7, <3>2, <3>3, <4>1 DEF Newer
    <3>4. CASE d \in MsgBlocks(m) \ lane.left
      <4>1. Newer(store[c], <<m, d.entry>>) /\ d.entry <= b.entry
        BY Zenon, <1>1, <1>2, <1>6, <1>8, <1>12, <2>5, <3>4 DEF OneByOne
      <4>2. store'[c] = store[c] \/ store'[c] = <<m, b.entry>>
        BY Zenon, <1>10, <3>2 DEF Wrote
      <4>. QED BY SMTT(30), <1>7, <3>2, <4>1, <4>2 DEF Newer
    <3>. QED BY <3>1, <3>3, <3>4
  <2>6. lane'.left \subseteq MsgBlocks(m)
    BY Zenon, <1>7, <1>12
  <2>7. \A n \in lane'.imports : n = First(lane.imports)' => n = m
    BY Zenon, <1>6, <2>2
  <2>. QED BY Zenon, <2>3, <2>4, <2>5, <2>6, <2>7 DEF OneByOne
<1>19. Outcome'
  <2>1. \A n \in Range(lane.part) : lane.errs[n] # "stopped"
    BY Zenon, <1>1, <1>2 DEF Outcome
  <2>. QED BY Zenon, <1>2, <1>12, <1>13, <1>15, <2>1, OutcomeSame
<1>. QED BY <1>13, <1>16, <1>17, <1>18, <1>19, StepKeeps

LEMMA ImportDoneKeeps ==
    ASSUME WinInv, ImportDone
    PROVE  WinInv'
<1>1. lane.pc = "importBlock" /\ lane.left = {} /\ UNCHANGED <<msgs, queue, ctxDone, store, acked, replies, logged, count>>
  BY Zenon DEF ImportDone
<1>2. /\ Batching /\ Within(lane) /\ DOMAIN lane = Fields /\ lane.pc \in Importing /\ msgs \in Loads /\ OneByOne /\ Outcome
      /\ lane.imports # {}
  BY <1>1, InImports DEF Groups
<1>3. PICK m \in lane.imports : m = First(lane.imports) /\ m \in Msgs
  BY <1>1, <1>2, InImports
<1>4. PICK e \in Outcomes : e = IF lane.bad = {} THEN "none" ELSE "failed"
  BY DEF Outcomes
<1>5. PICK l : l = [lane EXCEPT !.pc = "import", !.imports = lane.imports \ {m}]
  OBVIOUS
<1>6. /\ Within(l) /\ DOMAIN l = Fields /\ l.pc = "import" /\ l.ecIds = lane.ecIds /\ l.idx = lane.idx
      /\ l.imports = lane.imports \ {m} /\ l.errs = lane.errs
  BY <1>2, <1>5 DEF Within, Fields
<1>7. lane' = SetErrs(l, {m}, e)
  BY Zenon, <1>3, <1>4, <1>5 DEF ImportDone
<1>8. /\ Within(lane') /\ lane'.pc = "import" /\ lane'.ecIds = lane.ecIds /\ lane'.idx = lane.idx
      /\ lane'.imports = lane.imports \ {m} /\ lane'.errs = [n \in Msgs |-> IF n \in {m} THEN e ELSE lane.errs[n]]
  BY <1>6, <1>7, WithinSetErrs, SetErrsFacts
<1>9. Step({})
  BY Zenon, <1>1, <1>2, <1>8, NoWrite DEF Step, Importing
<1>10. e = "none" => Stored(m)
  BY Zenon, <1>1, <1>2, <1>3, <1>4, AllStored DEF OneByOne
<1>11. e # "stopped" /\ \A n \in Range(lane.part) : lane.errs[n] # "stopped"
  BY <1>1, <1>2, <1>4 DEF Outcome
<1>12. ImportedAs(m, e)
  BY Zenon, <1>8 DEF ImportedAs
<1>. QED BY Zenon, <1>1, <1>2, <1>3, <1>9, <1>10, <1>11, <1>12, ImportedKeeps

-----------------------------------------------------------------------------
(* The invariant and what follows from it.                                 *)

\* The blocks of the store call that dies with the process are only newer ones.
LEMMA CrashWins ==
    ASSUME WinInv, inOrder, Crash
    PROVE  WinInv'
<1>1. /\ UNCHANGED <<msgs, acked, replies, logged>> /\ lane' = NewLane /\ queue' \in Redelivered
      /\ count' = [count EXCEPT !.crashes = @ + 1]
  BY DEF Crash
<1>2. ImInv'
  BY CrashKeeps DEF WinInv
<1>3. count'.panics = count.panics
  BY <1>1 DEF WinInv, ImInv, Shapes
<1>4. PICK r : store' = [c \in DOMAIN store |-> IF c[3] \in r THEN Write(store, CallBlocks)[c] ELSE store[c]]
  BY Zenon DEF Crash
<1>5. CASE lane.pc \in Importing
  <2>1. Batching
    BY <1>5 DEF Batching, WinInv
  <2>2. Wrote(CallBlocks)
    BY <1>4, <2>1, CallBlocksFacts, WriteWrote
  <2>3. StoreDom'
    BY <1>1, <2>2 DEF WinInv, StoreInv, StoreDom, Wrote
  <2>4. ASSUME count.panics = 0, Unbroken, NEW m \in acked, replies[m] > 0, m \notin logged PROVE StoredIn(store', m)
    <3>1. m \in Msgs /\ Newest(m, CallBlocks)
      BY SMTT(30), <2>1, <2>4, NewestFinished
    <3>2. Stored(m)
      BY <2>4 DEF Unbroken
    <3>3. msgs \in Loads /\ StoreDom
      BY DEF WinInv, StoreInv
    <3>. QED BY <2>2, <3>1, <3>2, <3>3, StoredKept
  <2>. QED BY <1>1, <1>2, <1>3, <2>3, <2>4, RedeliveredSorted, NewLaneWins
<1>6. CASE lane.pc \notin Importing
  <2>1. CallBlocks = {}
    BY <1>6 DEF CallBlocks, Importing
  <2>2. Apart({})
    BY DEF Apart
  <2>3. Wrote({})
    BY <1>4, <2>1, <2>2, WriteWrote
  <2>4. DOMAIN store' = DOMAIN store /\ \A c \in DOMAIN store : store'[c] = store[c]
    BY <2>3 DEF Wrote
  <2>5. StoreDom' /\ msgs \in Loads /\ StoreDom
    BY <1>1, <2>4 DEF WinInv, StoreInv, StoreDom
  <2>6. ASSUME count.panics = 0, Unbroken, NEW m \in acked, replies[m] > 0, m \notin logged PROVE StoredIn(store', m)
    <3>1. m \in Msgs
      BY <2>6 DEF WinInv, ImInv, Accounted
    <3>2. Stored(m)
      BY <2>6 DEF Unbroken
    <3>3. Newest(m, {})
      BY DEF Newest
    <3>. QED BY Zenon, <2>3, <2>5, <3>1, <3>2, <3>3, StoredKept
  <2>. QED BY <1>1, <1>2, <1>3, <2>5, <2>6, RedeliveredSorted, NewLaneWins
<1>. QED BY <1>5, <1>6

LEMMA NextWins ==
    ASSUME inOrder
    PROVE  WinInv /\ [Next]_vars => WinInv'
<1>. SUFFICES ASSUME WinInv, [Next]_vars PROVE WinInv'
  OBVIOUS
<1>1. ImInv'
  BY NextImInv DEF WinInv
<1>2. CASE UNCHANGED vars
  BY <1>1, <1>2, SameLaneWins DEF vars
<1>3. CASE Lane
  BY Zenon, <1>3, TakeBatchWins, ReturnedWins, AckWins, BatchDoneWins, DecodeWins, DecodeDoneWins, ConfirmWins, ConfirmDoneWins,
     importEcIdKeeps, ImportBatchDoneKeeps, NextRunKeeps, RegisterKeeps, storeDayKeeps, RunDoneKeeps, StoreBlockKeeps,
     BlocksDoneKeeps, importOneKeeps, ImportBlockKeeps, ImportDoneKeeps DEF Lane
<1>4. CASE Stop
  <2>1. UNCHANGED <<msgs, queue, lane, store, acked, replies, logged>> /\ ctxDone' /\ count' = [count EXCEPT !.stops = @ + 1]
    BY <1>4 DEF Stop
  <2>2. count'.panics = count.panics
    BY <2>1 DEF WinInv, ImInv, Shapes
  <2>. QED BY <1>1, <2>1, <2>2, SameLaneWins
<1>5. CASE Panic \/ Restart \/ Crash
  BY <1>5, PanicWins, RestartWins, CrashWins
<1>. QED BY <1>2, <1>3, <1>4, <1>5 DEF Next, Terminated

LEMMA AlwaysWins ==
    ASSUME inOrder
    PROVE  Spec => []WinInv
<1>1. WinInv /\ [Next]_vars => WinInv'
  BY NextWins
<1>. QED BY <1>1, InitWins, PTL DEF Spec

\* When messages are redelivered in their order, an acked message with a reply
\* is in the store with its values or newer ones, whatever store errors,
\* shutdowns and crashes happened: the runs and parts of a batch, the import one
\* by one after a meta record error, and a store call cut short keep the order
\* of overlapping messages (splitRuns, importRun, executeParts).
THEOREM ImportLaterWins ==
    ASSUME inOrder
    PROVE  Spec => []LaterWinsUnlessRerun
<1>1. WinInv => LaterWinsUnlessRerun
  <2>. SUFFICES ASSUME WinInv, count.panics = 0, NEW m \in Msgs, replies[m] > 0, m \notin logged, NEW c \in Cells(m)
                PROVE  \/ Newer(store[c], <<m, LastEntry(m, c)>>)
                       \/ \E n \in Msgs \ acked : n >= m /\ c \in Cells(n)
    BY Zenon DEF LaterWinsUnlessRerun, LaterWins
  <2>1. CASE m \in acked
    BY <2>1 DEF WinInv, Unbroken, Stored, StoredIn
  <2>2. CASE m \notin acked
    <3>1. m \in Nat
      BY Zenon, MsgFacts DEF WinInv, StoreInv
    <3>. QED BY <2>2, <3>1
  <2>. QED BY <2>1, <2>2
<1>. QED BY <1>1, AlwaysWins, PTL

\* Overlapping messages are acked in their order: no message that a confirmed
\* later one overlaps is still to be redelivered (executeBatch, importPart).
THEOREM ImportAckOrder ==
    ASSUME inOrder
    PROVE  Spec => []AckOrder
<1>1. WinInv => AckOrder
  BY DEF WinInv, Unbroken, AckOrder
<1>. QED BY <1>1, AlwaysWins, PTL

\* A confirmation goes out only when all quarter hours of the message hold its
\* values or newer ones, also when its run was imported one by one or a block of
\* its day failed (importPart, ImportBatch).
THEOREM ImportReplyMeansStored ==
    ASSUME inOrder
    PROVE  Spec => ReplyMeansStored
<1>1. ASSUME WinInv, [Next]_vars
      PROVE  [\A m \in Msgs : replies'[m] > replies[m] =>
                 \A c \in Cells(m) : Newer(store[c], <<m, LastEntry(m, c)>>)]_vars
  <2>1. CASE Confirm
    <3>1. lane.pc = "confirm" /\ lane.part # <<>> /\ StoreInv /\ Shapes
      BY <1>1, <2>1 DEF Confirm, WinInv, ImInv
    <3>2. PICK k : k = Head(lane.part)
      OBVIOUS
    <3>3. k \in Range(lane.part) /\ k \in Msgs
      BY Zenon, <3>1, <3>2, TailOnce DEF Shapes
    <3>4. replies' = IF lane.errs[k] = "none" THEN [replies EXCEPT ![k] = replies[k] + 1] ELSE replies
      BY <2>1, <3>2 DEF Confirm
    <3>5. \A m \in Msgs : replies'[m] > replies[m] => m = k /\ lane.errs[k] = "none"
      BY SMTT(30), <3>1, <3>4 DEF Shapes
    <3>6. lane.errs[k] = "none" => Stored(k)
      BY <3>1, <3>3, NothingOpen DEF Outcome
    <3>. QED BY <3>5, <3>6 DEF Stored, StoredIn
  <2>2. CASE UNCHANGED replies
    <3>1. \A m \in Msgs : ~(replies'[m] > replies[m])
      BY <1>1, <2>2 DEF WinInv, ImInv, Shapes
    <3>. QED BY Zenon, <3>1
  <2>3. Confirm \/ UNCHANGED replies
    BY Zenon, <1>1 DEF Next, vars, Lane, TakeBatch, Returned, Ack, BatchDone, Decode, DecodeDone, ConfirmDone, importEcId,
           ImportBatchDone, NextRun, Register, storeDay, RunDone, StoreBlock, BlocksDone, importOne, ImportBlock, ImportDone,
           Panic, Stop, Restart, Crash, Terminated
  <2>. QED BY <2>1, <2>2, <2>3
<1>. QED BY <1>1, AlwaysWins, PTL DEF ReplyMeansStored, Spec

=============================================================================
