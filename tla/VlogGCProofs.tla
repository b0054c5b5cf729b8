----------------------------- MODULE VlogGCProofs -----------------------------
(***************************************************************************)
(* Proofs about the value log GC inside Service, for any window, length of *)
(* a day, period of the ticker, databases and clients: every window in     *)
(* which a check happens has one run, at most one file is rewritten after  *)
(* the end of the window or of the service, and a file is only rewritten   *)
(* with budget left, in the database whose handle the run holds.           *)
(***************************************************************************)
EXTENDS ServiceProofs

-----------------------------------------------------------------------------
(* Arithmetic of days.                                                     *)

\* Multiplication by the length of a day keeps the order.
LEMMA DaysInOrder ==
    ASSUME NEW a \in Int, NEW b \in Int
    PROVE  a * DayMin < b * DayMin => a < b
BY VlogGCConfig

\* The day of a minute.
LEMMA DayOf ==
    ASSUME NEW t \in Nat
    PROVE  /\ t \div DayMin \in Nat
           /\ (t \div DayMin) * DayMin <= t /\ t < (t \div DayMin) * DayMin + DayMin
BY VlogGCConfig

\* The length of a window.
Length == (cfg.endMin - cfg.startMin) % DayMin

\* It is positive and less than a day.
LEMMA WindowLength ==
    ASSUME parse(cfg)
    PROVE  /\ Length =
              IF cfg.endMin < cfg.startMin THEN cfg.endMin - cfg.startMin + DayMin ELSE cfg.endMin - cfg.startMin
           /\ Length \in 1 .. DayMin - 1
BY SMTT(30), VlogGCConfig DEF parse, Length

\* A day and the next one: d + 1 days are d days and one more.
LEMMA NextDay ==
    ASSUME NEW d \in Int
    PROVE  (d + 1) * DayMin = d * DayMin + DayMin /\ (d - 1) * DayMin = d * DayMin - DayMin
           /\ d * DayMin \in Int
BY VlogGCConfig

\* A window ends before the one of the next day begins, and less than a day
\* after it began.
LEMMA WindowsApart ==
    ASSUME parse(cfg), NEW d \in Int
    PROVE  /\ at(d, cfg.startMin) \in Int /\ stopOf(d) \in Int
           /\ at(d, cfg.startMin) = d * DayMin + cfg.startMin
           /\ stopOf(d) = at(d, cfg.startMin) + Length
           /\ stopOf(d) < at(d, cfg.startMin) + DayMin
<1>1. d * DayMin \in Int /\ (d + 1) * DayMin = d * DayMin + DayMin
  BY NextDay
<1>2. /\ cfg.startMin \in 0 .. DayMin - 1 /\ cfg.endMin \in 0 .. DayMin - 1 /\ DayMin \in Nat \ {0}
  BY VlogGCConfig DEF parse
<1>3. at(d, cfg.startMin) = d * DayMin + cfg.startMin /\ at(d, cfg.startMin) \in Int
  BY <1>1, <1>2 DEF at
<1>4. stopOf(d) = d * DayMin + cfg.startMin + Length
  <2>1. CASE cfg.endMin < cfg.startMin
    BY <1>1, <1>2, <2>1, WindowLength DEF stopOf, at
  <2>2. CASE ~(cfg.endMin < cfg.startMin)
    BY <1>1, <1>2, <2>2, WindowLength DEF stopOf, at
  <2> QED BY <2>1, <2>2
<1> QED BY <1>1, <1>2, <1>3, <1>4, WindowLength

\* The windows around two moments in order are in order.
LEMMA WindowsInOrder ==
    ASSUME parse(cfg), NEW c \in Int, NEW d \in Int, NEW t \in Int,
           at(c, cfg.startMin) <= t, t < stopOf(d)
    PROVE  c <= d
<1>1. c * DayMin + cfg.startMin < (d + 1) * DayMin + cfg.startMin
  BY SMTT(30), WindowsApart, NextDay, VlogGCConfig DEF parse
<1>2. c * DayMin < (d + 1) * DayMin
  BY SMTT(30), <1>1, NextDay DEF parse
<1>3. c < d + 1
  BY <1>2, DaysInOrder
<1> QED BY <1>3

\* window finds the one window around t, if there is one: it looks at today and
\* yesterday, and no other day has a window around t.
LEMMA WindowIsUnique ==
    ASSUME parse(cfg), NEW t \in DayMin .. MaxNow
    PROVE  \/ window(t) = None /\ WindowsAround(t) = {}
           \/ /\ window(t) \in Nat /\ WindowsAround(t) = {window(t)}
              /\ at(window(t), cfg.startMin) <= t /\ t < stopOf(window(t))
<1> DEFINE q == t \div DayMin
           last == MaxNow \div DayMin
<1>1. /\ DayMin \in Nat \ {0} /\ MaxNow \in Nat /\ t \in Nat /\ q \in Nat /\ last \in Nat
      /\ q * DayMin \in Int /\ q * DayMin <= t /\ t < q * DayMin + DayMin
      /\ last * DayMin \in Int /\ MaxNow < last * DayMin + DayMin
  BY DayOf, NextDay, VlogGCConfig
<1> HIDE DEF q, last
<1>2. q <= last
  <2>1. q * DayMin < (last + 1) * DayMin
    BY <1>1, NextDay
  <2> QED BY <1>1, <2>1, DaysInOrder
<1>3. q >= 1
  <2>1. 1 * DayMin < (q + 1) * DayMin
    BY <1>1, NextDay
  <2> QED BY <1>1, <2>1, DaysInOrder
<1>4. ASSUME NEW d \in Int PROVE inWindow(d, t) <=> t - at(d, cfg.startMin) \in 0 .. Length - 1
  BY SMTT(30), <1>1, WindowsApart, WindowLength DEF inWindow
<1>5. WindowsAround(t) = {d \in 0 .. last : inWindow(d, t)}
  BY <1>1, <1>4 DEF WindowsAround, last, Length
<1>6. ASSUME NEW d \in Int, inWindow(d, t) PROVE d \in {q, q - 1}
  <2>1. d * DayMin < (q + 1) * DayMin
    <3>1. d * DayMin + cfg.startMin <= t /\ cfg.startMin \in Nat /\ d * DayMin \in Int
      BY <1>6, WindowsApart, NextDay DEF inWindow, parse
    <3> QED BY <1>1, <3>1, NextDay
  <2>2. q * DayMin < (d + 2) * DayMin
    <3>1. ((d + 1) + 1) * DayMin = d * DayMin + DayMin + DayMin
      BY NextDay
    <3>2. t < d * DayMin + cfg.startMin + DayMin
      BY <1>1, <1>6, WindowsApart, NextDay DEF inWindow, parse
    <3> QED BY <1>1, <3>1, <3>2, NextDay DEF parse
  <2>3. d < q + 1 /\ q < d + 2
    BY <1>1, <2>1, <2>2, DaysInOrder
  <2> QED BY <1>1, <2>3
<1>7. ~(inWindow(q, t) /\ inWindow(q - 1, t))
  BY <1>1, WindowsInOrder DEF inWindow
<1>8. window(t) = IF inWindow(q, t) THEN q ELSE IF inWindow(q - 1, t) THEN q - 1 ELSE None
  BY DEF window, q
<1>9. CASE inWindow(q, t)
  BY <1>1, <1>2, <1>5, <1>6, <1>7, <1>8, <1>9 DEF inWindow
<1>10. CASE ~inWindow(q, t) /\ inWindow(q - 1, t)
  BY <1>1, <1>2, <1>3, <1>5, <1>6, <1>8, <1>10 DEF inWindow
<1>11. CASE ~inWindow(q, t) /\ ~inWindow(q - 1, t)
  <2>1. WindowsAround(t) = {}
    BY <1>1, <1>5, <1>6, <1>11
  <2> QED BY <1>8, <1>11, <2>1
<1> QED BY <1>9, <1>10, <1>11

-----------------------------------------------------------------------------
(* The largest file id.                                                    *)

\* A finite set of integers that is not empty has a largest element (by
\* induction on the set: a smallest subset without one cannot exist).
LEMMA MaxExists ==
    ASSUME NEW S, IsFiniteSet(S), S \subseteq Int, S # {}
    PROVE  Max(S) \in S /\ \A y \in S : Max(S) >= y
<1> DEFINE HasMax(X) == \E x \in X : \A y \in X : x >= y
           Bad == {X \in FiniteSubsetsOf(S) : X # {} /\ ~HasMax(X)}
<1>1. ASSUME Bad # {} PROVE FALSE
  <2>1. Bad \subseteq FiniteSubsetsOf(S) /\ IsWellFoundedOn(StrictSubsetOrdering(S), FiniteSubsetsOf(S))
    BY FS_StrictSubsetOrderingWellFounded
  <2> HIDE DEF Bad
  <2>2. PICK X \in Bad : \A Y \in Bad : ~(<<Y, X>> \in StrictSubsetOrdering(S))
    BY <1>1, <2>1, WFMin
  <2> USE DEF Bad
  <2>3. X \subseteq S /\ IsFiniteSet(X) /\ X # {} /\ ~HasMax(X)
    BY <2>2 DEF FiniteSubsetsOf
  <2>4. PICK x \in X : TRUE
    BY Zenon, <2>3
  <2>5. X \ {x} \in FiniteSubsetsOf(S)
    BY <2>3, FS_RemoveElement DEF FiniteSubsetsOf
  <2>6. <<X \ {x}, X>> \in StrictSubsetOrdering(S)
    BY Zenon, <2>3, <2>4 DEF StrictSubsetOrdering
  <2>7. X \ {x} = {} \/ HasMax(X \ {x})
    BY Zenon, <2>2, <2>5, <2>6
  <2>8. CASE X \ {x} = {}
    BY <2>3, <2>4, <2>8
  <2>9. CASE HasMax(X \ {x})
    <3>1. PICK m \in X \ {x} : \A y \in X \ {x} : m >= y
      BY <2>9
    <3>2. x \in Int /\ m \in Int /\ X \subseteq Int
      BY <2>3, <2>4, <3>1
    <3>3. CASE x >= m
      BY <2>3, <2>4, <3>1, <3>2, <3>3
    <3>4. CASE m >= x
      BY <2>3, <2>4, <3>1, <3>2, <3>4
    <3> QED BY <3>2, <3>3, <3>4
  <2> QED BY <2>7, <2>8, <2>9
<1>2. HasMax(S)
  BY <1>1 DEF FiniteSubsetsOf
<1> QED BY Zenon, <1>2 DEF Max

-----------------------------------------------------------------------------
(* The windows and their runs.                                             *)

\* Checks never go back in time: what waits in the ticker is not before the
\* window of the last run, so the runs are in the order of their days.
WInv ==
    /\ cfg \in Configs /\ (gcPc # "exited" => parse(cfg))
    /\ now \in DayMin .. MaxNow /\ tick \in {None} \cup DayMin .. now
    /\ ticker \in -1 .. checkEvery - 1 /\ (ticker = None => tick = None)
    /\ gcPc = "start" => lastDay = None /\ ticker = None
    /\ lastDay \in Nat \cup {None} /\ served \in Seq(Nat) /\ seen \subseteq Range(served)
    /\ \A i, j \in DOMAIN served : i < j => served[i] < served[j]
    /\ \A i \in DOMAIN served : served[i] <= lastDay
    /\ lastDay # None => lastDay \in Range(served)
    /\ gcPc # "exited" /\ lastDay # None =>
          /\ at(lastDay, cfg.startMin) <= now
          /\ tick # None => at(lastDay, cfg.startMin) <= tick

\* A check at a moment t that is not before the window of the last run.
LEMMA CheckKeepsWInv ==
    ASSUME WInv, NEW t \in DayMin .. now, gcPc # "exited", tick' = None, check(t), NewTicker,
           lastDay # None => at(lastDay, cfg.startMin) <= t
    PROVE  WInv'
<1>1. /\ parse(cfg) /\ cfg' = cfg /\ now' = now /\ gcPc' \in {"select", "enumerate"}
      /\ seen' = seen \cup WindowsAround(t)
  BY DEF WInv, check, RunBegins
<1>2. now \in DayMin .. MaxNow /\ t \in DayMin .. MaxNow /\ DayMin \in Nat /\ MaxNow \in Nat
  BY VlogGCConfig DEF WInv
<1>3. ticker' \in -1 .. checkEvery - 1
  BY <1>2, VlogGCConfig DEF WInv, NewTicker
<1>4. CASE window(t) = None \/ window(t) = lastDay
  <2>1. UNCHANGED <<lastDay, served>>
    BY <1>4 DEF check
  <2>2. WindowsAround(t) \subseteq Range(served)
    BY <1>1, <1>2, <1>4, WindowIsUnique DEF WInv, None
  <2> QED BY <1>1, <1>2, <1>3, <2>1, <2>2 DEF WInv, at
<1>5. CASE window(t) # None /\ window(t) # lastDay
  <2>1. PICK d : d = window(t)
    OBVIOUS
  <2>2. /\ lastDay' = d /\ served' = Append(served, d) /\ d \in Nat /\ WindowsAround(t) = {d}
        /\ at(d, cfg.startMin) <= t /\ t < stopOf(d)
    BY <1>1, <1>2, <1>5, <2>1, WindowIsUnique DEF check, RunBegins
  <2>3. lastDay < d
    <3>1. CASE lastDay = None
      BY <2>2, <3>1 DEF None
    <3>2. CASE lastDay # None
      <4>1. lastDay \in Nat /\ lastDay # d
        BY <1>5, <2>1, <3>2 DEF WInv
      <4>2. lastDay <= d
        BY <1>1, <1>2, <2>2, <3>2, <4>1, WindowsInOrder
      <4> QED BY <2>2, <4>1, <4>2
    <3> QED BY <3>1, <3>2
  <2>4. /\ served \in Seq(Nat) /\ lastDay \in Int /\ \A i \in DOMAIN served : served[i] <= lastDay
        /\ \A i, j \in DOMAIN served : i < j => served[i] < served[j]
    BY DEF WInv, None
  <2>5. /\ served' \in Seq(Nat) /\ DOMAIN served' = 1 .. Len(served) + 1 /\ DOMAIN served = 1 .. Len(served)
        /\ Len(served) \in Nat
        /\ served'[Len(served) + 1] = d /\ \A i \in 1 .. Len(served) : served'[i] = served[i]
    BY <2>2, <2>4
  <2>6. /\ \A i, j \in DOMAIN served' : i < j => served'[i] < served'[j]
        /\ \A i \in DOMAIN served' : served'[i] <= d
    BY <2>2, <2>3, <2>4, <2>5
  <2>7. Range(served) \subseteq Range(served') /\ d \in Range(served')
    BY SMTT(30), <2>5 DEF Range
  <2>8. at(d, cfg.startMin) <= now
    <3>1. d \in Int
      BY <2>2
    <3>2. at(d, cfg.startMin) \in Int
      BY <1>1, <3>1, WindowsApart
    <3> QED BY <1>2, <2>2, <3>2
  <2>9. Range(served)' = Range(served')
    BY DEF Range
  <2> QED BY Zenon, <1>1, <1>2, <1>3, <2>2, <2>5, <2>6, <2>7, <2>8, <2>9 DEF WInv, at
<1> QED BY <1>4, <1>5

\* Every step of the service keeps it.
LEMMA NextWInv ==
    ASSUME SInv, WInv, [ServiceNext]_svars
    PROVE  WInv'
<1>1. ASSUME UNCHANGED <<cfg, now, ticker, tick, gcPc, lastDay, seen, served>> PROVE WInv'
  BY <1>1 DEF WInv, at, parse
<1>2. CASE GC
  <2>1. CASE FirstCheck
    <3>1. now \in DayMin .. now /\ tick' = None /\ gcPc = "start" /\ check(now) /\ NewTicker /\ lastDay = None
      BY <1>2, <2>1, VlogGCConfig DEF WInv, FirstCheck, GC, GCStep
    <3> QED BY <3>1, CheckKeepsWInv
  <2>2. CASE TickCheck
    <3>1. tick \in DayMin .. now /\ tick' = None /\ gcPc = "select" /\ check(tick) /\ NewTicker
      BY <1>2, <2>2 DEF WInv, TickCheck, GC, GCStep
    <3>2. lastDay # None => at(lastDay, cfg.startMin) <= tick
      BY Zenon, <2>2, <3>1 DEF WInv, TickCheck
    <3> QED BY <3>1, <3>2, CheckKeepsWInv
  <2>3. CASE \/ GCExit \/ enumerateVlogDBs \/ runVlogGC \/ opened
             \/ collectDatabase \/ RunValueLogGC \/ probeOnce \/ GCClose
    <3>1. UNCHANGED <<cfg, now, tick, lastDay, seen, served>> /\ gcPc # "exited" /\ gcPc' # "start" /\ NewTicker
      BY Zenon, <1>2, <2>3 DEF GC, GCStep, GCExit, enumerateVlogDBs, runVlogGC, opened, collectDatabase, CandidateSeen,
            RunValueLogGC, probeOnce, Ends, GCClose
    <3>2. ticker' \in -1 .. checkEvery - 1 /\ (ticker' = None => ticker = None)
      BY SMTT(30), <3>1, VlogGCConfig DEF WInv, NewTicker, None
    <3> QED BY <3>1, <3>2 DEF WInv, at, parse
  <2> QED BY <1>2, <2>1, <2>2, <2>3 DEF GC, GCStep
<1>3. CASE Clock
  <2>1. /\ now < MaxNow /\ now' = now + 1 /\ tick' \in {tick, now + 1} /\ (ticker = None => tick' = tick)
        /\ UNCHANGED <<cfg, ticker, gcPc, lastDay, seen, served>>
    BY <1>3 DEF Clock, Tick
  <2>2. now' \in DayMin .. MaxNow /\ tick' \in {None} \cup DayMin .. now'
    BY <2>1, VlogGCConfig DEF WInv
  <2>3. gcPc # "exited" /\ lastDay # None =>
            /\ at(lastDay, cfg.startMin) <= now + 1
            /\ tick' # None => at(lastDay, cfg.startMin) <= tick'
    <3> SUFFICES ASSUME gcPc # "exited", lastDay # None
                 PROVE  /\ at(lastDay, cfg.startMin) <= now + 1
                        /\ tick' # None => at(lastDay, cfg.startMin) <= tick'
      OBVIOUS
    <3>1. /\ at(lastDay, cfg.startMin) <= now /\ (tick # None => at(lastDay, cfg.startMin) <= tick)
          /\ now \in Int
      BY VlogGCConfig DEF WInv
    <3>2. at(lastDay, cfg.startMin) \in Int
      BY WindowsApart DEF WInv, None
    <3> QED BY <2>1, <3>1, <3>2
  <2> QED BY <2>1, <2>2, <2>3 DEF WInv, at, parse
<1>4. CASE \/ \E c \in Handlers : HandlerOpens(c)
           \/ \E c \in Lanes : LaneOpens(c)
           \/ \E c \in Clients : Opening(c) \/ Closing(c)
           \/ ClosePool
  BY <1>1, <1>4 DEF HandlerOpens, LaneOpens, Opening, Closing, ClosePool, PoolStep
<1>5. CASE \/ (\E c \in Lanes : Writes(c)) \/ Probe \/ (\E r \in Callers : readyz(r)) \/ Ended
           \/ UNCHANGED svars
  BY Zenon, <1>1, <1>5 DEF Writes, Overwrites, Probe, readyz, Ended, svars, gvars
<1>6. CASE quit \/ shutdownDone \/ waitVlogGC \/ dispatcherClose \/ exit
  BY <1>1, <1>6 DEF quit, shutdownDone, waitVlogGC, dispatcherClose, exit, gvars
<1> QED BY Zenon, <1>2, <1>3, <1>4, <1>5, <1>6 DEF ServiceNext, Shutdown

-----------------------------------------------------------------------------
(* The value logs on disk.                                                 *)

\* A value log: finitely many numbered files.  A rewritten file can leave any
\* integer as the size of the current one, as far as the model knows.
IsLog(v) ==
    /\ IsFiniteSet(DOMAIN v) /\ DOMAIN v \subseteq Nat
    /\ v \in [DOMAIN v -> [size : Int, dis : Int]]

\* An open database has a current file.
Disk ==
    /\ vlog = [k \in Keys |-> vlog[k]]
    /\ \A k \in Keys : IsLog(vlog[k]) /\ (db[k] => DOMAIN vlog[k] # {})

\* What opening and closing databases does to the files.
LEMMA DiskFollowsKeeps ==
    ASSUME Disk, TypeOK, TypeOK', DiskFollows
    PROVE  Disk'
<1>1. vlog' = FilesFollow(vlog) /\ db \in [Keys -> BOOLEAN] /\ db' \in [Keys -> BOOLEAN]
  BY DEF DiskFollows, TypeOK
<1>2. vlog' = [k \in Keys |-> vlog'[k]]
  BY <1>1 DEF FilesFollow
<1>3. ASSUME NEW k \in Keys PROVE IsLog(vlog'[k]) /\ (db'[k] => DOMAIN vlog'[k] # {})
  <2>1. PICK v : v = vlog[k]
    OBVIOUS
  <2>2. IsLog(v) /\ (db[k] => DOMAIN v # {})
    BY <2>1 DEF Disk
  <2>3. CASE ~db[k] /\ db'[k]
    <3>1. PICK n : n = Max(DOMAIN v \cup {0}) + 1
      OBVIOUS
    <3>2. IsFiniteSet(DOMAIN v \cup {0}) /\ DOMAIN v \cup {0} \subseteq Int /\ DOMAIN v \cup {0} \subseteq Nat
      BY <2>2, FS_AddElement DEF IsLog
    <3>3. Max(DOMAIN v \cup {0}) \in Nat
      BY <3>2, MaxExists
    <3>4. n \in Nat /\ IsFiniteSet(DOMAIN v \cup {n})
      BY <2>2, <3>1, <3>3, FS_AddElement DEF IsLog
    <3>5. vlog'[k] = [f \in DOMAIN v \cup {n} |-> IF f \in DOMAIN v THEN v[f] ELSE [size |-> 0, dis |-> 0]]
      BY <1>1, <2>1, <2>3, <3>1 DEF FilesFollow
    <3>6. \A f \in DOMAIN v : v[f] \in [size : Int, dis : Int]
      BY <2>2 DEF IsLog
    <3>7. DOMAIN vlog'[k] = DOMAIN v \cup {n} /\ vlog'[k] \in [DOMAIN v \cup {n} -> [size : Int, dis : Int]]
      BY <3>5, <3>6
    <3>8. DOMAIN v \cup {n} \subseteq Nat
      BY <2>2, <3>4 DEF IsLog
    <3> QED BY <3>4, <3>7, <3>8 DEF IsLog
  <2>4. CASE db[k] /\ ~db'[k]
    <3>1. vlog'[k] = [f \in {g \in DOMAIN v : v[g].size > 0} |-> v[f]]
      BY <1>1, <2>1, <2>4 DEF FilesFollow
    <3>2. PICK fs : fs = {g \in DOMAIN v : v[g].size > 0}
      BY Zenon
    <3>3. fs \subseteq DOMAIN v /\ IsFiniteSet(fs)
      BY <2>2, <3>2, FS_Subset DEF IsLog
    <3>4. vlog'[k] = [f \in fs |-> v[f]]
      BY <3>1, <3>2
    <3>5. DOMAIN vlog'[k] = fs /\ vlog'[k] \in [fs -> [size : Int, dis : Int]]
      BY <2>2, <3>3, <3>4 DEF IsLog
    <3>6. fs \subseteq Nat
      BY <2>2, <3>3 DEF IsLog
    <3> QED BY <2>4, <3>3, <3>5, <3>6 DEF IsLog
  <2>5. CASE ~(~db[k] /\ db'[k]) /\ ~(db[k] /\ ~db'[k])
    <3>1. vlog'[k] = v
      BY <1>1, <2>1, <2>5 DEF FilesFollow
    <3> QED BY <1>1, <2>2, <2>5, <3>1
  <2> QED BY <2>3, <2>4, <2>5
<1> QED BY <1>2, <1>3 DEF Disk

\* Writing to the current file keeps the files.
LEMMA OverwritesKeeps ==
    ASSUME Disk, TypeOK, NEW c \in Clients, Overwrites(c)
    PROVE  Disk'
<1>1. PICK k \in Keys : k = key[c]
  BY DEF TypeOK
<1>2. PICK n : n = curFid(k)
  OBVIOUS
<1>3. vlog' = [vlog EXCEPT ![k][n] = [size |-> 3, dis |-> 3]] /\ db' = db
  BY <1>1, <1>2 DEF Overwrites, vars
<1>4. vlog' = [l \in Keys |-> vlog'[l]] /\ \A l \in Keys \ {k} : vlog'[l] = vlog[l]
  BY Zenon, <1>3 DEF Disk
<1>5. PICK v : v = vlog[k] /\ IsLog(v)
  BY DEF Disk
<1>6. vlog'[k] = [v EXCEPT ![n] = [size |-> 3, dis |-> 3]]
  BY <1>3, <1>5 DEF Disk
<1>7. DOMAIN vlog'[k] = DOMAIN v /\ IsLog(vlog'[k])
  <2>1. v \in [DOMAIN v -> [size : Int, dis : Int]]
    BY <1>5 DEF IsLog
  <2>2. vlog'[k] \in [DOMAIN v -> [size : Int, dis : Int]]
    <3>1. vlog'[k] = [g \in DOMAIN v |-> IF g = n THEN [size |-> 3, dis |-> 3] ELSE v[g]]
      BY <1>6
    <3>2. [size |-> 3, dis |-> 3] \in [size : Int, dis : Int]
      OBVIOUS
    <3> QED BY <2>1, <3>1, <3>2
  <2>3. DOMAIN vlog'[k] = DOMAIN v
    BY <2>2
  <2> QED BY <1>5, <2>2, <2>3 DEF IsLog
<1> QED BY Zenon, <1>3, <1>4, <1>5, <1>7 DEF Disk

\* A file that RunValueLogGC rewrites is not the current one, which stays.
LEMMA RewriteKeeps ==
    ASSUME Disk, NEW k \in Keys, db[k], NEW f \in maxDiscard(k), NEW ratio, pickLog(k, f, ratio),
           rewrite(k, f), db' = db
    PROVE  Disk'
<1>1. PICK v : v = vlog[k] /\ IsLog(v)
  BY DEF Disk
<1>2. PICK n : n = curFid(k)
  OBVIOUS
<1>3. \A g \in DOMAIN v : v[g] \in [size : Int, dis : Int]
  BY <1>1 DEF IsLog
<1>4. f # 0 /\ f # n /\ f \in DOMAIN v
  BY <1>1, <1>2 DEF pickLog, maxDiscard, discardCandidate, MostDiscard
<1>5. n \in DOMAIN v
  <2>1. DOMAIN v # {} /\ DOMAIN v \subseteq Int /\ IsFiniteSet(DOMAIN v)
    BY <1>1, <1>4 DEF IsLog
  <2>2. n = Max(DOMAIN v)
    BY <1>1, <1>2 DEF curFid
  <2> QED BY <2>1, <2>2, MaxExists
<1>6. vlog' = [vlog EXCEPT ![k] = [g \in DOMAIN v \ {f} |->
                  IF g = n THEN [v[g] EXCEPT !.size = @ + v[f].size - v[f].dis] ELSE v[g]]]
  <2>1. vlog' = [vlog EXCEPT ![k] = [g \in DOMAIN vlog[k] \ {f} |->
            IF g = curFid(k) THEN [vlog[k][g] EXCEPT !.size = @ + vlog[k][f].size - vlog[k][f].dis] ELSE vlog[k][g]]]
    BY DEF rewrite
  <2> QED BY <1>1, <1>2, <2>1
<1>7. vlog' = [l \in Keys |-> vlog'[l]] /\ \A l \in Keys \ {k} : vlog'[l] = vlog[l]
  BY <1>6 DEF Disk
<1>8. vlog'[k] = [g \in DOMAIN v \ {f} |->
                  IF g = n THEN [v[g] EXCEPT !.size = @ + v[f].size - v[f].dis] ELSE v[g]]
  BY <1>6 DEF Disk
<1>9. vlog'[k] \in [DOMAIN v \ {f} -> [size : Int, dis : Int]]
  BY <1>3, <1>4, <1>8
<1>10. DOMAIN vlog'[k] = DOMAIN v \ {f} /\ IsFiniteSet(DOMAIN v \ {f}) /\ DOMAIN v \ {f} \subseteq Nat
  BY <1>1, <1>9, FS_RemoveElement DEF IsLog
<1> QED BY Zenon, <1>4, <1>5, <1>7, <1>9, <1>10 DEF Disk, IsLog

\* The size of the candidate, which is charged to the budget, is an integer.
LEMMA CandidateSize ==
    ASSUME Disk, NEW k \in Keys, NEW c \in maxDiscard(k)
    PROVE  (IF c = 0 THEN 0 ELSE vlog[k][c].size) \in Int
<1>1. \A g \in DOMAIN vlog[k] : vlog[k][g] \in [size : Int, dis : Int]
  BY DEF Disk, IsLog
<1>2. c = 0 \/ c \in DOMAIN vlog[k]
  BY DEF maxDiscard, discardCandidate, MostDiscard
<1> QED BY <1>1, <1>2

-----------------------------------------------------------------------------
(* The run.                                                                *)

InRun == {"enumerate", "next", "open"} \cup Collecting

\* A record of collectDatabase.
IsCol(c) ==
    /\ c = [files |-> c.files, before |-> c.before, cand |-> c.cand, end |-> c.end]
    /\ c.cand \in Int /\ \E S : c.files \in Seq(S)

\* The deadline is the end of the window of the last day, and the budget of a
\* run that rewrites is a number; a dry run opens no database.
GInv ==
    /\ Disk /\ IsCol(col)
    /\ gcPc \in InRun => lastDay # None /\ run.deadline = stopOf(lastDay)
    /\ ~cfg.dryRun => run.budget \in Int
    /\ gcPc \in {"open"} \cup Collecting => ~cfg.dryRun

\* Where RunValueLogGC is due the checks found the window and the service not
\* over and budget left, so no file was late; a late file means that the next
\* check finds the same end.
LInv ==
    /\ late \in {0, 1}
    /\ gcPc \in {"rewrite", "probe"} => late = 0 /\ run.budget > 0
    /\ late = 1 /\ gcPc \in InRun => ctxDone \/ now >= run.deadline

\* col without files.
LEMMA NoFiles ==
    ASSUME NEW b, NEW c, c = [NoCol EXCEPT !.before = b] \/ c = NoCol
    PROVE  IsCol(c) /\ c.files = <<>>
<1>1. PICK x : c = [files |-> <<>>, before |-> x, cand |-> 0, end |-> "none"]
  BY DEF NoCol
<1>2. <<>> \in Seq({})
  OBVIOUS
<1> QED BY <1>1, <1>2 DEF IsCol

\* col with another candidate or end, or with one file more.
LEMMA MoreFiles ==
    ASSUME IsCol(col), NEW f, NEW e, NEW n \in Int, NEW c,
           \/ c = [col EXCEPT !.end = e]
           \/ c = [col EXCEPT !.cand = n]
           \/ c = [col EXCEPT !.files = Append(@, f)]
           \/ c = [col EXCEPT !.files = <<f>>, !.end = e]
    PROVE  /\ IsCol(c)
           /\ c = [col EXCEPT !.end = e] \/ c = [col EXCEPT !.cand = n] => c.files = col.files
<1>1. PICK S : col.files \in Seq(S)
  BY DEF IsCol
<1>2. PICK files, before, cand, end : col = [files |-> files, before |-> before, cand |-> cand, end |-> end]
  BY DEF IsCol
<1>3. files \in Seq(S) /\ col.files = files /\ cand \in Int
  BY <1>1, <1>2 DEF IsCol
<1>4. Append(files, f) \in Seq(S \cup {f}) /\ <<f>> \in Seq({f})
  <2>1. files \in Seq(S \cup {f})
    BY <1>3
  <2> QED BY <2>1
<1>5. CASE c = [col EXCEPT !.end = e]
  <2>1. c = [files |-> files, before |-> before, cand |-> cand, end |-> e]
    BY <1>2, <1>5
  <2> QED BY <1>3, <2>1 DEF IsCol
<1>6. CASE c = [col EXCEPT !.cand = n]
  <2>1. c = [files |-> files, before |-> before, cand |-> n, end |-> end]
    BY <1>2, <1>6
  <2> QED BY <1>3, <2>1 DEF IsCol
<1>7. ASSUME NEW fs, NEW T, fs \in Seq(T), NEW x, c = [files |-> fs, before |-> before, cand |-> cand, end |-> x]
      PROVE  IsCol(c) /\ c.files = fs
  BY <1>3, <1>7 DEF IsCol
<1>8. CASE c = [col EXCEPT !.files = Append(@, f)]
  <2>1. c = [files |-> Append(files, f), before |-> before, cand |-> cand, end |-> end]
    BY Zenon, <1>2, <1>8
  <2>2. IsCol(c)
    BY Zenon, <1>4, <1>7, <2>1
  <2> QED BY <1>5, <1>6, <2>2
<1>9. CASE c = [col EXCEPT !.files = <<f>>, !.end = e]
  <2>1. c = [files |-> <<f>>, before |-> before, cand |-> cand, end |-> e]
    BY Zenon, <1>2, <1>9
  <2>2. IsCol(c)
    BY Zenon, <1>4, <1>7, <2>1
  <2> QED BY <1>5, <1>6, <2>2
<1> QED BY <1>5, <1>6, <1>8, <1>9

\* A check begins a run with the end of its window as the deadline.
LEMMA CheckKeepsGInv ==
    ASSUME SInv, WInv, GInv, FirstCheck \/ TickCheck \/ GCExit
    PROVE  GInv'
<1>1. UNCHANGED <<cfg, vlog, col>> /\ UNCHANGED vars
  BY DEF FirstCheck, TickCheck, GCExit, check, RunBegins
<1>2. Disk' /\ IsCol(col)'
  BY <1>1 DEF GInv, Disk, IsCol, vars
<1>3. \/ gcPc' \in {"select", "exited"} /\ run' = run
      \/ \E d : /\ d # None /\ gcPc' = "enumerate" /\ lastDay' = d
                /\ run' = [NoRun EXCEPT !.deadline = stopOf(d), !.budget = cfg.maxBytes]
  BY Zenon DEF FirstCheck, TickCheck, GCExit, check, RunBegins
<1>4. CASE gcPc' \in {"select", "exited"} /\ run' = run
  BY <1>1, <1>2, <1>4 DEF GInv, InRun, Collecting
<1>5. ASSUME NEW d, d # None, gcPc' = "enumerate", lastDay' = d,
             run' = [NoRun EXCEPT !.deadline = stopOf(d), !.budget = cfg.maxBytes]
      PROVE  GInv'
  <2>1. run'.deadline = stopOf(d) /\ run'.budget = cfg.maxBytes
    BY <1>5 DEF NoRun
  <2>2. cfg.maxBytes \in Int
    BY DEF WInv, Configs
  <2>3. stopOf(lastDay)' = stopOf(d)
    BY <1>1, <1>5 DEF stopOf, at
  <2> QED BY <1>1, <1>2, <1>5, <2>1, <2>2, <2>3 DEF GInv, Collecting
<1> QED BY Zenon, <1>3, <1>4, <1>5

\* The steps between two databases.
LEMMA RunKeepsGInv ==
    ASSUME SInv, WInv, GInv, enumerateVlogDBs \/ runVlogGC \/ opened
    PROVE  GInv'
<1>1. UNCHANGED <<cfg, vlog, lastDay>> /\ db' = db
  BY Zenon DEF enumerateVlogDBs, runVlogGC, opened, Get, vars
<1>2. Disk' /\ stopOf(lastDay)' = stopOf(lastDay)
  BY <1>1 DEF GInv, Disk, stopOf, at
<1>3. IsCol(col)'
  <2>1. \/ col' = col
        \/ \E b : col' = [NoCol EXCEPT !.before = b] \/ col' = NoCol
    BY Zenon DEF enumerateVlogDBs, runVlogGC, opened
  <2> QED BY Zenon, <2>1, NoFiles DEF GInv, IsCol
<1>4. /\ gcPc \in InRun /\ lastDay # None /\ run.deadline = stopOf(lastDay)
      /\ run = [refs |-> run.refs, deadline |-> run.deadline, budget |-> run.budget]
  BY DEF enumerateVlogDBs, runVlogGC, opened, GInv, InRun, SInv, GCHolds
<1> DEFINE GoesOn == gcPc' \in {"next", "open", "collect"} /\ (gcPc' \in {"open", "collect"} => ~cfg.dryRun)
<1>5. \/ gcPc' = "select" /\ run' = NoRun
      \/ GoesOn /\ run' = run
      \/ GoesOn /\ \E s : run' = [run EXCEPT !.refs = s]
      \/ cfg.dryRun /\ gcPc' = "next" /\ \E s, b : run' = [[run EXCEPT !.refs = s] EXCEPT !.budget = b]
  BY Zenon DEF enumerateVlogDBs, runVlogGC, opened, NextRef, GInv
<1>6. CASE gcPc' = "select" /\ run' = NoRun
  BY <1>2, <1>3, <1>6 DEF GInv, NoRun, InRun, Collecting
<1>7. CASE GoesOn /\ run' = run
  BY <1>1, <1>2, <1>3, <1>4, <1>7 DEF GInv, Collecting
<1>8. CASE GoesOn /\ \E s : run' = [run EXCEPT !.refs = s]
  <2>1. run'.deadline = run.deadline /\ run'.budget = run.budget
    BY <1>4, <1>8
  <2> QED BY <1>1, <1>2, <1>3, <1>4, <1>8, <2>1 DEF GInv, Collecting
<1>9. CASE cfg.dryRun /\ gcPc' = "next" /\ \E s, b : run' = [[run EXCEPT !.refs = s] EXCEPT !.budget = b]
  <2>1. run'.deadline = run.deadline
    BY Zenon, <1>4, <1>9
  <2> QED BY <1>1, <1>2, <1>3, <1>4, <1>9, <2>1 DEF GInv, Collecting
<1> HIDE DEF GoesOn
<1> QED BY Zenon, <1>5, <1>6, <1>7, <1>8, <1>9

\* The GC holds an open database while it collects.
LEMMA CollectsOpen ==
    ASSUME SInv, gcPc \in Collecting
    PROVE  key[gc] \in Keys /\ db[key[gc]] /\ Head(run.refs).key = key[gc]
<1>1. pc[gc] = "holding" /\ gc \in Clients /\ key[gc] \in Keys /\ Head(run.refs).key = key[gc]
  BY VlogGCConfig DEF SInv, GCHolds, PInv, TypeOK
<1>2. closePc = "idle"
  BY DEF SInv, Stages, Collecting
<1>3. handle[gc] = "open"
  BY <1>1, <1>2 DEF SInv, PInv, Handling, TypeOK
<1> QED BY <1>1, <1>3 DEF SInv, PInv, Handling

\* The charge to the budget.
LEMMA Charged ==
    ASSUME SInv, WInv, GInv, gcPc \in Collecting,
           run' = run \/ run' = [run EXCEPT !.budget = @ - col.cand]
    PROVE  run'.deadline = run.deadline /\ run'.budget \in Int
<1>1. ~cfg.dryRun /\ col.cand \in Int
  BY DEF GInv, IsCol
<1>2. PICK refs, deadline, budget : run = [refs |-> refs, deadline |-> deadline, budget |-> budget]
  BY DEF SInv, GCHolds
<1>3. budget \in Int /\ run.budget = budget /\ run.deadline = deadline
  BY <1>1, <1>2 DEF GInv
<1>4. \E b \in Int : run' = [refs |-> refs, deadline |-> deadline, budget |-> b]
  BY <1>1, <1>2, <1>3
<1> QED BY <1>3, <1>4

\* What a step inside collectDatabase does to the disk, the run and col; only
\* RunValueLogGC and the probe change the disk.
LEMMA CollectEffect ==
    ASSUME SInv, WInv, GInv, collectDatabase \/ RunValueLogGC \/ probeOnce
    PROVE  /\ Disk' /\ IsCol(col)' /\ UNCHANGED <<cfg, lastDay>>
           /\ gcPc \in Collecting /\ gcPc' \in Collecting
           /\ run' = run \/ run' = [run EXCEPT !.budget = @ - col.cand]
           /\ collectDatabase => col'.files = col.files
<1>1. /\ gcPc \in Collecting /\ gcPc' \in Collecting /\ UNCHANGED vars
      /\ UNCHANGED <<cfg, lastDay>>
  BY Zenon DEF collectDatabase, CandidateSeen, RunValueLogGC, probeOnce, Ends, Collecting
<1>2. PICK k \in Keys : k = key[gc] /\ db[k]
  BY <1>1, CollectsOpen
<1>3. db' = db /\ 0 \in Int /\ IsCol(col)
  BY <1>1 DEF vars, GInv
<1>4. ASSUME NEW e, col' = [col EXCEPT !.end = e] PROVE IsCol(col') /\ col'.files = col.files
  BY Zenon, <1>3, <1>4, MoreFiles
<1>5. ASSUME vlog' = vlog PROVE Disk'
  BY <1>3, <1>5 DEF Disk, GInv
<1>6. ASSUME NEW f \in maxDiscard(k), NEW ratio, pickLog(k, f, ratio), rewrite(k, f)
      PROVE  Disk' /\ run' = [run EXCEPT !.budget = @ - col.cand]
  BY <1>2, <1>3, <1>6, RewriteKeeps DEF GInv, rewrite
<1>7. IsCol(col)' <=> IsCol(col')
  BY DEF IsCol
<1>8. CASE collectDatabase
  <2>1. vlog' = vlog /\ run' = run
    BY <1>8 DEF collectDatabase
  <2>2. CASE \E e : Ends(e)
    BY Zenon, <1>1, <1>4, <1>5, <1>7, <2>1, <2>2 DEF Ends
  <2>3. CASE CandidateSeen
    <3>1. PICK c \in maxDiscard(k) : col' = [col EXCEPT !.cand = IF c = 0 THEN 0 ELSE vlog[k][c].size]
      BY Zenon, <1>2, <2>3 DEF CandidateSeen
    <3>2. PICK n \in Int : col' = [col EXCEPT !.cand = n]
      BY Zenon, <3>1, CandidateSize DEF GInv
    <3>3. IsCol(col') /\ col'.files = col.files
      BY Zenon, <1>3, <3>2, MoreFiles
    <3> QED BY Zenon, <1>1, <1>5, <1>7, <2>1, <3>3
  <2> QED BY Zenon, <1>8, <2>2, <2>3 DEF collectDatabase
<1>9. CASE RunValueLogGC
  <2>0. gcPc = "rewrite"
    BY <1>9 DEF RunValueLogGC
  <2>1. ASSUME NEW f \in maxDiscard(k), pickLog(k, f, cfg.discardRatio), rewrite(k, f),
               col' = [col EXCEPT !.files = Append(@, f)]
        PROVE  Disk' /\ IsCol(col') /\ run' = [run EXCEPT !.budget = @ - col.cand]
    BY Zenon, <1>3, <1>6, <2>1, MoreFiles
  <2>2. ASSUME NoRewrite, col' = col \/ \E e : Ends(e) PROVE Disk' /\ IsCol(col') /\ run' = run
    BY Zenon, <1>3, <1>4, <1>5, <2>2 DEF Ends, NoRewrite
  <2>3. Disk' /\ IsCol(col') /\ (run' = run \/ run' = [run EXCEPT !.budget = @ - col.cand])
    BY Zenon, <1>2, <1>9, <2>1, <2>2 DEF RunValueLogGC, NoRewrite
  <2> QED BY <1>1, <1>7, <2>0, <2>3 DEF collectDatabase
<1>10. CASE probeOnce
  <2>0. gcPc = "probe"
    BY <1>10 DEF probeOnce
  <2>1. ASSUME NEW f \in maxDiscard(k), pickLog(k, f, cfg.probeRatio), rewrite(k, f),
               col' = [col EXCEPT !.files = <<f>>, !.end = "probed"]
        PROVE  Disk' /\ IsCol(col') /\ run' = [run EXCEPT !.budget = @ - col.cand]
    BY Zenon, <1>3, <1>6, <2>1, MoreFiles
  <2>2. ASSUME NoRewrite, \E e : Ends(e) PROVE Disk' /\ IsCol(col') /\ run' = run
    BY Zenon, <1>4, <1>5, <2>2 DEF Ends, NoRewrite
  <2>3. Disk' /\ IsCol(col') /\ (run' = run \/ run' = [run EXCEPT !.budget = @ - col.cand])
    BY Zenon, <1>2, <1>10, <2>1, <2>2 DEF probeOnce, NoRewrite
  <2> QED BY <1>1, <1>7, <2>0, <2>3 DEF collectDatabase
<1> QED BY Zenon, <1>8, <1>9, <1>10

\* Collecting a database and closing it.
LEMMA CollectKeepsGInv ==
    ASSUME SInv, SInv', WInv, GInv, collectDatabase \/ RunValueLogGC \/ probeOnce \/ GCClose
    PROVE  GInv'
<1>1. UNCHANGED <<cfg, lastDay>> /\ gcPc \in Collecting
  BY CollectEffect DEF GCClose, Collecting
<1>2. stopOf(lastDay)' = stopOf(lastDay) /\ ~cfg.dryRun /\ lastDay # None /\ run.deadline = stopOf(lastDay)
  BY <1>1 DEF stopOf, at, GInv, InRun
<1>3. run = [refs |-> run.refs, deadline |-> run.deadline, budget |-> run.budget] /\ run.budget \in Int
  BY <1>2 DEF SInv, GCHolds, GInv
<1>4. CASE collectDatabase \/ RunValueLogGC \/ probeOnce
  <2>1. /\ Disk' /\ IsCol(col)' /\ gcPc' \in Collecting
        /\ run' = run \/ run' = [run EXCEPT !.budget = @ - col.cand]
    BY <1>4, CollectEffect
  <2>2. run'.deadline = run.deadline /\ run'.budget \in Int
    BY <1>1, <2>1, Charged
  <2> QED BY <1>1, <1>2, <2>1, <2>2 DEF GInv
<1>5. CASE GCClose
  <2>1. /\ DiskFollows /\ col' = NoCol
        /\ \/ gcPc' = "select" /\ run' = NoRun
           \/ gcPc' = "next" /\ run' = [run EXCEPT !.refs = Tail(@)]
    BY <1>5 DEF GCClose, NextRef
  <2>2. Disk'
    BY <2>1, DiskFollowsKeeps DEF GInv, SInv, PInv
  <2>3. IsCol(col)'
    BY <2>1, NoFiles DEF IsCol
  <2>4. run'.budget \in Int /\ (gcPc' = "next" => run'.deadline = run.deadline)
    BY <1>3, <2>1 DEF NoRun
  <2> QED BY <1>1, <1>2, <2>1, <2>2, <2>3, <2>4 DEF GInv, InRun, Collecting
<1> QED BY <1>4, <1>5

\* Every step of the service keeps it.
LEMMA NextGInv ==
    ASSUME SInv, SInv', WInv, GInv, [ServiceNext]_svars
    PROVE  GInv'
<1>1. ASSUME UNCHANGED <<cfg, gcPc, lastDay, run, col>>, Disk' PROVE GInv'
  BY <1>1 DEF GInv, IsCol, stopOf, at
<1>2. ASSUME UNCHANGED <<vlog, db>> PROVE Disk'
  BY <1>2 DEF GInv, Disk
<1>3. CASE GC
  BY <1>3, CheckKeepsGInv, RunKeepsGInv, CollectKeepsGInv DEF GC, GCStep
<1>4. CASE \/ \E c \in Handlers : HandlerOpens(c)
           \/ \E c \in Lanes : LaneOpens(c)
           \/ \E c \in Clients : Opening(c) \/ Closing(c)
           \/ ClosePool
  <2>1. DiskFollows /\ UNCHANGED <<cfg, gcPc, lastDay, run, col>>
    BY <1>4 DEF HandlerOpens, LaneOpens, Opening, Closing, ClosePool, PoolStep
  <2> QED BY Zenon, <1>1, <2>1, DiskFollowsKeeps DEF GInv, SInv, PInv
<1>5. CASE \E c \in Lanes : Writes(c)
  <2>1. PICK c \in Clients : Overwrites(c)
    BY <1>5, ServiceConfig DEF Writes
  <2>2. Disk'
    BY <2>1, OverwritesKeeps DEF GInv, SInv, PInv
  <2> QED BY <1>1, <2>1, <2>2 DEF Overwrites
<1>6. CASE Clock \/ Probe \/ (\E r \in Callers : readyz(r)) \/ Ended \/ UNCHANGED svars
  BY Zenon, <1>1, <1>2, <1>6 DEF Clock, Tick, Probe, readyz, Ended, svars, gvars, vars
<1>7. CASE quit \/ shutdownDone \/ waitVlogGC \/ dispatcherClose \/ exit
  BY Zenon, <1>1, <1>2, <1>7 DEF quit, shutdownDone, waitVlogGC, dispatcherClose, exit, gvars, vars
<1> QED BY <1>3, <1>4, <1>5, <1>6, <1>7 DEF ServiceNext, Shutdown

\* Any valid or invalid configuration on any disk is a start in the invariants.
LEMMA InitGInv ==
    ASSUME NEW configs \in SUBSET Configs, NEW disks \in SUBSET [Keys -> ValueLogs], main_Init(configs, disks)
    PROVE  WInv /\ GInv /\ LInv
<1>1. PICK c \in Configs, v \in [Keys -> ValueLogs] : StartVlogGC(c, v)
  BY DEF main_Init
<1>2. /\ cfg = c /\ vlog = v /\ now = DayMin /\ ticker = None /\ tick = None
      /\ gcPc = (IF c.enabled /\ parse(c) THEN "start" ELSE "exited") /\ lastDay = None
      /\ run = NoRun /\ col = NoCol /\ late = 0 /\ seen = {} /\ served = <<>>
  BY <1>1 DEF StartVlogGC
<1>3. WInv
  <2>1. DOMAIN served = {} /\ served \in Seq(Nat)
    BY <1>2
  <2> QED BY <1>2, <2>1, VlogGCConfig DEF WInv, None
<1>4. \A k \in Keys : db[k] = FALSE
  BY DEF main_Init, NewPool
<1>5. Disk
  <2>1. ASSUME NEW k \in Keys PROVE IsLog(v[k])
    <3>1. PICK fs \in SUBSET Nat : IsFiniteSet(fs) /\ v[k] \in [fs -> [size : Nat, dis : Nat]]
      BY DEF ValueLogs
    <3>2. DOMAIN v[k] = fs /\ v[k] \in [fs -> [size : Int, dis : Int]]
      BY <3>1
    <3> QED BY <3>1, <3>2 DEF IsLog
  <2> QED BY <1>2, <1>4, <2>1 DEF Disk
<1>6. IsCol(col)
  BY <1>2, NoFiles
<1>7. gcPc \in {"start", "exited"} /\ run.budget = 0
  BY <1>2 DEF NoRun
<1> QED BY <1>2, <1>3, <1>5, <1>6, <1>7 DEF GInv, LInv, InRun, Collecting

\* The clock and the context only go on.
LEMMA TimeGoesOn ==
    ASSUME WInv, GInv, LInv, gcPc \in InRun, ctxDone => ctxDone', now' \in {now, now + 1},
           run'.deadline = run.deadline, late' = late
    PROVE  late' = 1 => ctxDone' \/ now' >= run'.deadline
<1>1. gcPc # "exited"
  BY DEF InRun, Collecting
<1>2. now \in Int /\ lastDay \in Int /\ parse(cfg) /\ run.deadline = stopOf(lastDay)
  BY <1>1, VlogGCConfig DEF WInv, GInv, None
<1>3. run.deadline \in Int
  BY <1>2, WindowsApart
<1> QED BY <1>2, <1>3 DEF LInv

\* A file that is rewritten is the first late one.
LEMMA RewriteLate ==
    ASSUME SInv, WInv, GInv, LInv, RunValueLogGC \/ probeOnce
    PROVE  LInv'
<1>1. /\ gcPc \in {"rewrite", "probe"} /\ gcPc' \in {"collect", "probe", "close"} /\ UNCHANGED <<ctxDone, now>>
      /\ gcPc' = "probe" => run' = run /\ late' = late
      /\ run' = run \/ run' = [run EXCEPT !.budget = @ - col.cand]
      /\ late' = late \/ late' = IF ctxDone \/ now >= run.deadline THEN late + 1 ELSE late
  BY Zenon DEF RunValueLogGC, probeOnce, Ends, NoRewrite, rewrite
<1>2. gcPc \in Collecting /\ late = 0 /\ run.budget > 0
  BY <1>1 DEF LInv, Collecting
<1>3. run'.deadline = run.deadline
  BY <1>1, <1>2, Charged
<1> QED BY <1>1, <1>2, <1>3 DEF LInv

\* The checks at the head of the loop find the end that a late file came after.
LEMMA CheckedNotLate ==
    ASSUME SInv, WInv, GInv, LInv, collectDatabase
    PROVE  LInv'
<1>1. /\ gcPc = "collect" /\ UNCHANGED <<ctxDone, now, run, late>>
      /\ gcPc' = "close" \/ (gcPc' = "rewrite" /\ ~stopReason)
  BY Zenon DEF collectDatabase, CandidateSeen, Ends
<1>2. gcPc \in InRun /\ run.budget \in Int
  BY <1>1 DEF InRun, Collecting, GInv
<1> QED BY <1>1, <1>2 DEF LInv, stopReason

\* A run begins with no late file, or after the end of the service.
LEMMA CheckLate ==
    ASSUME LInv, FirstCheck \/ TickCheck \/ GCExit
    PROVE  LInv'
<1>1. /\ ctxDone' = ctxDone
      /\ \/ gcPc' \in {"select", "exited"} /\ late' = late
         \/ gcPc' = "enumerate" /\ late' = IF ctxDone THEN late ELSE 0
  BY Zenon DEF FirstCheck, TickCheck, GCExit, check, RunBegins
<1> QED BY <1>1 DEF LInv, InRun, Collecting

\* From one database to the next the deadline stays.
LEMMA RunLate ==
    ASSUME SInv, WInv, GInv, LInv, enumerateVlogDBs \/ runVlogGC \/ opened \/ GCClose
    PROVE  LInv'
<1>1. /\ UNCHANGED <<ctxDone, now, late>> /\ gcPc \in InRun
      /\ gcPc' \in {"select", "next", "open", "collect"}
      /\ \/ gcPc' = "select"
         \/ run' = run
         \/ \E s : run' = [run EXCEPT !.refs = s]
         \/ \E s, b : run' = [[run EXCEPT !.refs = s] EXCEPT !.budget = b]
  BY Zenon DEF enumerateVlogDBs, runVlogGC, opened, GCClose, NextRef, InRun, Collecting
<1>2. gcPc' = "select" \/ run'.deadline = run.deadline
  <2>1. run = [refs |-> run.refs, deadline |-> run.deadline, budget |-> run.budget]
    BY DEF SInv, GCHolds
  <2> QED BY Zenon, <1>1, <2>1
<1> QED BY <1>1, <1>2 DEF LInv, InRun, Collecting

\* Every step of the service keeps LInv.
LEMMA NextLInv ==
    ASSUME SInv, WInv, GInv, LInv, [ServiceNext]_svars
    PROVE  LInv'
<1>1. ASSUME UNCHANGED <<gcPc, run, late>>, ctxDone => ctxDone', now' \in {now, now + 1} PROVE LInv'
  BY <1>1, TimeGoesOn DEF LInv
<1>2. CASE GC
  BY <1>2, RewriteLate, CheckedNotLate, CheckLate, RunLate DEF GC, GCStep
<1>3. CASE \/ \E c \in Handlers : HandlerOpens(c)
           \/ \E c \in Lanes : LaneOpens(c)
           \/ \E c \in Clients : Opening(c) \/ Closing(c)
           \/ ClosePool
  BY Zenon, <1>1, <1>3 DEF HandlerOpens, LaneOpens, Opening, Closing, ClosePool, PoolStep
<1>4. CASE \/ (\E c \in Lanes : Writes(c)) \/ Clock \/ Probe \/ (\E r \in Callers : readyz(r)) \/ Ended
           \/ UNCHANGED svars
  <2>1. UNCHANGED <<gcPc, run, late, ctxDone>> /\ (now' = now \/ now' = now + 1)
    BY Zenon, <1>4 DEF Writes, Overwrites, Clock, Tick, Probe, readyz, Ended, svars, gvars
  <2> QED BY <1>1, <2>1
<1>5. CASE quit \/ shutdownDone \/ waitVlogGC \/ dispatcherClose \/ exit
  BY Zenon, <1>1, <1>5 DEF quit, shutdownDone, waitVlogGC, dispatcherClose, exit, gvars
<1> QED BY Zenon, <1>2, <1>3, <1>4, <1>5 DEF ServiceNext, Shutdown

\* A step that adds a rewritten file.
LEMMA RewriteStep ==
    ASSUME SInv, WInv, GInv, LInv, LInv', [ServiceNext]_svars, Len(col'.files) > Len(col.files)
    PROVE  /\ late' <= 1 /\ run.budget > 0
           /\ db[key[gc]] /\ Head(run.refs).key = key[gc]
<1>1. col' # col /\ Len(col.files) \in Nat /\ col'.files # col.files
  BY DEF GInv, IsCol
<1>2. ~\E b : col' = [NoCol EXCEPT !.before = b] \/ col' = NoCol
  <2> SUFFICES ASSUME NEW b, col' = [NoCol EXCEPT !.before = b] \/ col' = NoCol PROVE FALSE
    OBVIOUS
  <2>1. col'.files = <<>>
    BY NoFiles
  <2> QED BY <1>1, <2>1
<1>3. RunValueLogGC \/ probeOnce
  <2>1. ~(\/ \E c \in Handlers : HandlerOpens(c)
          \/ \E c \in Lanes : LaneOpens(c)
          \/ \E c \in Clients : Opening(c) \/ Closing(c)
          \/ ClosePool)
    BY <1>1 DEF HandlerOpens, LaneOpens, Opening, Closing, ClosePool, PoolStep
  <2>2. ~(\/ (\E c \in Lanes : Writes(c)) \/ Clock \/ Probe \/ (\E r \in Callers : readyz(r)) \/ Ended
          \/ UNCHANGED svars \/ quit \/ shutdownDone \/ waitVlogGC \/ dispatcherClose \/ exit)
    BY Zenon, <1>1 DEF Writes, Overwrites, Clock, Tick, Probe, readyz, Ended, svars, gvars,
                quit, shutdownDone, waitVlogGC, dispatcherClose, exit
  <2>3. ~(FirstCheck \/ TickCheck \/ GCExit \/ enumerateVlogDBs \/ runVlogGC \/ opened \/ GCClose)
    BY <1>1, <1>2 DEF FirstCheck, TickCheck, GCExit, check, enumerateVlogDBs, runVlogGC, opened, GCClose
  <2>4. ~collectDatabase
    BY <1>1, CollectEffect
  <2> QED BY <2>1, <2>2, <2>3, <2>4 DEF ServiceNext, Shutdown, GC, GCStep
<1>4. gcPc \in {"rewrite", "probe"}
  BY <1>3 DEF RunValueLogGC, probeOnce
<1>5. db[key[gc]] /\ Head(run.refs).key = key[gc]
  BY <1>4, CollectsOpen DEF Collecting
<1>6. run.budget > 0 /\ late' <= 1
  BY <1>4 DEF LInv
<1> QED BY <1>5, <1>6

-----------------------------------------------------------------------------
(* Theorems.                                                               *)

\* The invariants hold in every state of the service.
LEMMA AlwaysGInv ==
    ASSUME NEW CONSTANT configs \in SUBSET Configs, NEW CONSTANT disks \in SUBSET [Keys -> ValueLogs]
    PROVE  ServiceSpec(configs, disks) => [](SInv /\ WInv /\ GInv /\ LInv)
<1>1. main_Init(configs, disks) => SInv /\ WInv /\ GInv /\ LInv
  BY InitSInv, InitGInv
<1>2. SInv /\ WInv /\ GInv /\ LInv /\ [ServiceNext]_svars => (SInv /\ WInv /\ GInv /\ LInv)'
  <2> SUFFICES ASSUME SInv, WInv, GInv, LInv, [ServiceNext]_svars PROVE (SInv /\ WInv /\ GInv /\ LInv)'
    OBVIOUS
  <2>1. SInv'
    BY NextSInv
  <2> QED BY <2>1, NextWInv, NextGInv, NextLInv
<1> QED BY <1>1, <1>2, PTL DEF ServiceSpec

\* The variables of the GC and of main have their types, an open database has a
\* value log file, and the GC has a handle only while it opens, collects or
\* closes a database.
THEOREM ServiceTypes ==
    ASSUME NEW CONSTANT configs \in SUBSET Configs, NEW CONSTANT disks \in SUBSET [Keys -> ValueLogs]
    PROVE  ServiceSpec(configs, disks) => []ServiceTypeOK
<1>1. SInv /\ WInv /\ GInv => ServiceTypeOK
  <2> SUFFICES ASSUME SInv, WInv, GInv PROVE ServiceTypeOK
    OBVIOUS
  <2>1. now \in 0 .. MaxNow /\ tick \in -1 .. now /\ ticker \in -1 .. checkEvery - 1
    BY VlogGCConfig DEF WInv, None
  <2>2. TypeOK /\ known \subseteq Keys /\ \A k \in Keys : db[k] => DOMAIN vlog[k] # {}
    BY DEF SInv, PInv, GCHolds, GInv, Disk
  <2>3. pc[gc] = "holding" => gcPc \in {"open", "collect", "rewrite", "probe", "close"}
    BY DEF SInv, GCHolds, AtRest, Collecting
  <2> QED BY <2>1, <2>2, <2>3 DEF ServiceTypeOK, SInv, GCHolds, Collecting, Stages
<1> QED BY <1>1, AlwaysGInv, PTL

\* Every window in which a check happened had its run, and none had two, for any
\* window (over midnight too), length of a day and period of the ticker
\* (StartVlogGC, window).
THEOREM ServiceWindowServedOnce ==
    ASSUME NEW CONSTANT configs \in SUBSET Configs, NEW CONSTANT disks \in SUBSET [Keys -> ValueLogs]
    PROVE  ServiceSpec(configs, disks) => []WindowServedOnce
<1>1. WInv => WindowServedOnce
  <2> SUFFICES ASSUME WInv, NEW i \in DOMAIN served, NEW j \in DOMAIN served, i # j PROVE served[i] # served[j]
    BY DEF WInv, WindowServedOnce
  <2>1. /\ i \in Int /\ j \in Int /\ served[i] \in Int /\ served[j] \in Int
        /\ (i < j => served[i] < served[j]) /\ (j < i => served[j] < served[i])
    BY SMTT(30) DEF WInv
  <2> QED BY <2>1
<1> QED BY <1>1, AlwaysGInv, PTL

\* At most one file is rewritten after the end of the window or of the service,
\* however late the clock and the context change between the checks and the
\* rewrite; and a file is only rewritten with budget left, in the database that
\* the run is at and holds open (collectDatabase).
THEOREM ServiceRewriteAllowed ==
    ASSUME NEW CONSTANT configs \in SUBSET Configs, NEW CONSTANT disks \in SUBSET [Keys -> ValueLogs]
    PROVE  ServiceSpec(configs, disks) => RewriteAllowed
<1>1. SInv /\ WInv /\ GInv /\ LInv /\ LInv' /\ [ServiceNext]_svars =>
        [Len(col'.files) > Len(col.files) =>
          /\ late' <= 1 /\ run.budget > 0
          /\ db[key[gc]] /\ Head(run.refs).key = key[gc]]_<<col, late>>
  BY RewriteStep
<1> QED BY <1>1, AlwaysGInv, PTL DEF ServiceSpec, RewriteAllowed

=============================================================================
