-------------------------------- MODULE Store --------------------------------
(***************************************************************************)
(* The writers of one community's store: the MQTT import (StoreEnergyV2,   *)
(* StoreDayBatch), the Excel upload (ImportEEG) and the raw-data delete.   *)
(* The store is the record cpmeta/0, which gives every metering point a    *)
(* SourceIdx and a period, and the rows, one per quarter hour, which pack  *)
(* the values of all metering points by SourceIdx.  Every read and write   *)
(* of the store is a step; LockWrites serialises the writers.              *)
(***************************************************************************)
EXTENDS Integers, Sequences, FiniteSets, FiniteSetsExt, Functions

CONSTANTS
    Meters,     \* metering points (of one direction: SourceIdx counts per direction)
    Slots,      \* quarter hours, a set of naturals
    DayLen,     \* slots per day
    Jobs,       \* the calls: records [kind, blocks], a block being [meter, from, to]
    flushRows,  \* deleteWriteBatch
    MaxFaults,  \* bound: failed reads and writes
    MaxCrashes  \* bound: crashes

Blocks == [meter : Meters, from : Int, to : Int]
Kinds  == {"energy", "register", "excel", "delete"}

ASSUME StoreConfig ==
    /\ Slots \subseteq Nat /\ IsFiniteSet(Slots) /\ IsFiniteSet(Meters)
    /\ DayLen \in Nat \ {0} /\ flushRows \in Nat \ {0}
    /\ \A j \in Jobs : j \in [kind : Kinds, blocks : Seq(Blocks)]

None == <<>>   \* no value: a zero slot, an unknown metering point, no period

VARIABLES
    meta,     \* cpmeta/0: metering point -> [idx, period] or None
    rows,     \* slot -> SourceIdx -> <<metering point, job>> whose value it is, or None
    lock,     \* the job that holds LockWrites, or None
    pc,       \* job -> where it is
    snap,     \* job -> its copy of cpmeta/0
    buf,      \* job -> rows to write: slot -> row, or None
    truth,    \* metering point -> slot -> the value last written for it
    torn,     \* <<metering point, SourceIdx>> with rows written but not in cpmeta/0
    unread,   \* slots an Excel upload could not read and took for empty
    unsettled,\* metering points with rows written and the period not widened
    count     \* numbers of faults and crashes

vars == <<meta, rows, lock, pc, snap, buf, truth, torn, unread, unsettled, count>>

Idx == 0 .. Cardinality(Meters) - 1

NoRows == [s \in Slots |-> None]

Init ==
    /\ meta = [m \in Meters |-> None]
    /\ rows = [s \in Slots |-> [i \in Idx |-> None]]
    /\ lock = None
    /\ pc = [j \in Jobs |-> "idle"]
    /\ snap = [j \in Jobs |-> [m \in Meters |-> None]]
    /\ buf = [j \in Jobs |-> NoRows]
    /\ truth = [m \in Meters |-> NoRows]
    /\ torn = {} /\ unread = {} /\ unsettled = {}
    /\ count = [faults |-> 0, crashes |-> 0]

-----------------------------------------------------------------------------
(* The record cpmeta/0 and the rows.                                       *)

day(s) == s \div DayLen

JobMeters(j) == {b.meter : b \in Range(j.blocks)}

\* The slots of the blocks of j for m.
SlotsOf(j, m) == {s \in Slots : \E b \in Range(j.blocks) : b.meter = m /\ b.from <= s /\ s <= b.to}

\* metaInfoOf: the highest SourceIdx in use.
MaxIdx(mt) == Max({-1} \cup {mt[m].idx : m \in {n \in Meters : mt[n] # None}})

\* registerMeteringPoint: an unknown metering point gets the next SourceIdx.
registerMeteringPoint(mt, m) ==
    IF mt[m] # None THEN mt
    ELSE [mt EXCEPT ![m] = [idx |-> MaxIdx(mt) + 1, period |-> None]]

\* The metering points of the blocks, one after the other.
registerBlocks(mt, blocks) ==
    LET reg[n \in 0 .. Len(blocks)] ==
            IF n = 0 THEN mt ELSE registerMeteringPoint(reg[n - 1], blocks[n].meter)
    IN  reg[Len(blocks)]

\* Mutant: the period is assigned, not widened.
updateMetaCP_Assigns(mt, b) ==
    IF mt[b.meter] = None THEN mt ELSE [mt EXCEPT ![b.meter].period = <<b.from, b.to>>]

\* updateMetaCP: the period of the block's metering point covers the block.
updateMetaCP(mt, b) ==
    LET p == mt[b.meter].period
    IN  IF mt[b.meter] = None THEN mt
        ELSE [mt EXCEPT ![b.meter].period =
                 IF p = None THEN <<b.from, b.to>>
                 ELSE <<Min({p[1], b.from}), Max({p[2], b.to})>>]

widenMetaPeriods(mt, blocks) ==
    LET wide[n \in 0 .. Len(blocks)] ==
            IF n = 0 THEN mt ELSE updateMetaCP(wide[n - 1], blocks[n])
    IN  wide[Len(blocks)]

\* The metering points of the job with a value for the slot i of the row s.
Owners(s, i, j, mt) == {m \in JobMeters(j) : mt[m] # None /\ mt[m].idx = i /\ s \in SlotsOf(j, m)}

\* importEnergyValuesV2, and the cell loop of the Excel upload: the slots of the
\* job's metering points get its values.
importEnergyValuesV2(row, s, j, mt) ==
    [i \in Idx |-> IF Owners(s, i, j, mt) = {} THEN row[i]
                   ELSE <<CHOOSE m \in Owners(s, i, j, mt) : TRUE, j>>]

\* The slots of the metering point are zeroed.
inspectMeteringSlots(row, s, j, mt) ==
    [i \in Idx |-> IF Owners(s, i, j, mt) = {} THEN row[i] ELSE None]

\* The rows a job reads: whole days for the MQTT import, the sheet's rows for
\* the Excel upload, the range for the delete.
ReadRange(j) ==
    LET own == UNION {SlotsOf(j, m) : m \in JobMeters(j)}
    IN  IF j.kind = "energy" THEN {s \in Slots : \E t \in own : day(t) = day(s)} ELSE own

\* The rows to write: all that were read, with the new values.  The delete only
\* writes rows that had a value.
Updated(j, mt, rd) ==
    [s \in Slots |->
        IF s \notin ReadRange(j) THEN None
        ELSE IF j.kind # "delete" THEN importEnergyValuesV2(rd[s], s, j, mt)
        ELSE LET new == inspectMeteringSlots(rd[s], s, j, mt)
             IN  IF new = rd[s] THEN None ELSE new]

-----------------------------------------------------------------------------
(* The steps of a job.                                                     *)

Fault == count.faults < MaxFaults /\ count' = [count EXCEPT !.faults = @ + 1]

\* The job returns; the deferred unlock runs.
Return(j) ==
    /\ pc' = [pc EXCEPT ![j] = "done"]
    /\ lock' = None
    /\ UNCHANGED <<snap, buf>>

Goto(j, l) == pc' = [pc EXCEPT ![j] = l] /\ UNCHANGED lock

\* Mutant: the upload, the imports and the delete do not take turns.
LockWrites_NoTurns(j) ==
    /\ pc[j] = "idle"
    /\ lock' = j
    /\ pc' = [pc EXCEPT ![j] = "getMeta"]
    /\ UNCHANGED <<meta, rows, snap, buf, truth, torn, unread, unsettled, count>>

\* A job starts: LockWrites.
LockWrites(j) ==
    /\ pc[j] = "idle" /\ lock = None
    /\ lock' = j
    /\ pc' = [pc EXCEPT ![j] = "getMeta"]
    /\ UNCHANGED <<meta, rows, snap, buf, truth, torn, unread, unsettled, count>>

\* The job reads cpmeta/0.  The MQTT import registers its metering points, the
\* Excel upload does so and widens their periods in its copy, and the delete
\* of an unknown metering point does nothing.
GetMeta(j) ==
    /\ pc[j] = "getMeta"
    /\ \/ /\ LET reg == registerBlocks(meta, j.blocks) IN
             CASE j.kind = "energy" ->
                    /\ snap' = [snap EXCEPT ![j] = reg] /\ UNCHANGED buf
                    /\ Goto(j, IF reg # meta THEN "register" ELSE "getRows")
               [] j.kind = "register" ->
                    IF reg = meta THEN Return(j)
                    ELSE snap' = [snap EXCEPT ![j] = reg] /\ UNCHANGED buf /\ Goto(j, "register")
               [] j.kind = "excel" ->
                    /\ snap' = [snap EXCEPT ![j] = widenMetaPeriods(reg, j.blocks)]
                    /\ UNCHANGED buf /\ Goto(j, "getRows")
               [] j.kind = "delete" ->
                    IF \A m \in JobMeters(j) : meta[m] = None THEN Return(j)
                    ELSE snap' = [snap EXCEPT ![j] = meta] /\ UNCHANGED buf /\ Goto(j, "getRows")
          /\ UNCHANGED count
       \/ Fault /\ Return(j)
    /\ UNCHANGED <<meta, rows, truth, torn, unread, unsettled>>

\* registerBlocks, PrepareMetaInfoMap: the new metering points are written
\* before any row uses their SourceIdx.
Register(j) ==
    /\ pc[j] = "register"
    /\ \/ /\ meta' = snap[j] /\ UNCHANGED count
          /\ IF j.kind = "register" THEN Return(j)
             ELSE Goto(j, "getRows") /\ UNCHANGED <<snap, buf>>
       \/ Fault /\ Return(j) /\ UNCHANGED meta
    /\ UNCHANGED <<rows, truth, torn, unread, unsettled>>

\* Mutant: the error of fetchSourceRange is ignored (#31).
GetRows_IgnoresError(j) ==
    /\ pc[j] = "getRows"
    /\ \/ buf' = [buf EXCEPT ![j] = Updated(j, snap[j], rows)] /\ UNCHANGED count
       \/ /\ Fault
          /\ \E s \in ReadRange(j) :
                buf' = [buf EXCEPT ![j] =
                    Updated(j, snap[j], [rows EXCEPT ![s] = [i \in Idx |-> None]])]
    /\ Goto(j, "setLines")
    /\ UNCHANGED <<meta, rows, snap, truth, torn, unread, unsettled>>

\* The rows are read and changed in memory.  A read error ends the job, but
\* the Excel upload ignores it and goes on with an empty row.  (The delete reads
\* while it flushes; an error after a flush is the failing SetLines below.)
GetRows(j) ==
    /\ pc[j] = "getRows"
    /\ \/ /\ buf' = [buf EXCEPT ![j] = Updated(j, snap[j], rows)]
          /\ Goto(j, "setLines") /\ UNCHANGED <<snap, unread, count>>
       \/ j.kind # "excel" /\ Fault /\ Return(j) /\ UNCHANGED unread
       \/ /\ j.kind = "excel" /\ Fault
          /\ \E s \in ReadRange(j) :
                /\ unread' = unread \cup {s}
                /\ buf' = [buf EXCEPT ![j] =
                    Updated(j, snap[j], [rows EXCEPT ![s] = [i \in Idx |-> None]])]
          /\ Goto(j, "setLines") /\ UNCHANGED snap
    /\ UNCHANGED <<meta, rows, truth, torn, unsettled>>

\* The rows of the set w are written (the rest of the buffer remains).
Put(j, w) ==
    /\ rows' = [s \in Slots |-> IF s \in w THEN buf[j][s] ELSE rows[s]]
    /\ truth' = [m \in Meters |-> [s \in Slots |->
                    IF s \in w /\ s \in SlotsOf(j, m) /\ snap[j][m] # None
                    THEN IF j.kind = "delete" THEN None ELSE <<m, j>>
                    ELSE truth[m][s]]]

Pending(j) == {s \in Slots : buf[j][s] # None}

\* j ends with the rows w written (or earlier ones) but not its record.
Interrupted(j, w) ==
    LET ms == IF j.kind = "delete" \/ w = {} THEN {} ELSE JobMeters(j)
    IN  /\ torn' = torn \cup {<<m, snap[j][m].idx>> : m \in {n \in ms : meta[n] = None}}
        /\ unsettled' = unsettled \cup ms

\* SetLines: all rows at once, flushRows at a time in the delete; a failed
\* write may have written some rows.
SetLines(j) ==
    /\ pc[j] = "setLines"
    /\ \/ LET first == {s \in Pending(j) : Cardinality({t \in Pending(j) : t < s}) < flushRows}
              w     == IF j.kind = "delete" THEN first ELSE Pending(j)
          IN  /\ Put(j, w)
              /\ UNCHANGED <<torn, unsettled, count>>
              /\ IF w # Pending(j)
                 THEN /\ buf' = [buf EXCEPT ![j] = [s \in Slots |-> IF s \in w THEN None ELSE buf[j][s]]]
                      /\ UNCHANGED <<pc, lock, snap>>
                 ELSE CASE j.kind = "energy" -> Goto(j, "widen") /\ UNCHANGED <<snap, buf>>
                        [] j.kind = "excel"  -> Goto(j, "setMeta") /\ UNCHANGED <<snap, buf>>
                        [] j.kind = "delete" -> Return(j)
       \/ /\ Fault /\ Return(j)
          /\ \E w \in SUBSET Pending(j) : Put(j, w) /\ Interrupted(j, w)
    /\ UNCHANGED <<meta, unread>>

\* widenMetaPeriods, updateMeta: the record is read again
Widen(j) ==
    /\ pc[j] = "widen"
    /\ LET new == widenMetaPeriods(meta, j.blocks) IN
       \/ /\ new = meta /\ Return(j) /\ UNCHANGED <<count, torn, unsettled>>
       \/ /\ new # meta
          /\ snap' = [snap EXCEPT ![j] = new] /\ UNCHANGED <<buf, count, torn, unsettled>>
          /\ Goto(j, "setMeta")
       \/ Fault /\ Return(j) /\ Interrupted(j, Pending(j))
    /\ UNCHANGED <<meta, rows, truth, unread>>

\* and written; for the Excel upload this is the write of its copy.
SetMeta(j) ==
    /\ pc[j] = "setMeta"
    /\ \/ meta' = snap[j] /\ UNCHANGED <<torn, unsettled, count>>
       \/ Fault /\ UNCHANGED meta /\ Interrupted(j, Pending(j))
    /\ Return(j)
    /\ UNCHANGED <<rows, truth, unread>>

\* The process dies: the running job is gone, and with it the lock; a running
\* SetLines may have written some rows.
Crash ==
    /\ count.crashes < MaxCrashes /\ lock # None
    /\ count' = [count EXCEPT !.crashes = @ + 1]
    /\ CASE pc[lock] = "setLines" -> \E w \in SUBSET Pending(lock) : Put(lock, w) /\ Interrupted(lock, w)
         [] pc[lock] \in {"widen", "setMeta"} ->
                Interrupted(lock, Pending(lock)) /\ UNCHANGED <<rows, truth>>
         [] OTHER -> UNCHANGED <<rows, truth, torn, unsettled>>
    /\ pc' = [pc EXCEPT ![lock] = "done"]
    /\ lock' = None
    /\ UNCHANGED <<meta, snap, buf, unread>>

Step(j) ==
    LockWrites(j) \/ GetMeta(j) \/ Register(j) \/ GetRows(j) \/ SetLines(j) \/ Widen(j) \/ SetMeta(j)

Terminated == (\A j \in Jobs : pc[j] = "done") /\ UNCHANGED vars

Next == (\E j \in Jobs : Step(j)) \/ Crash \/ Terminated

Spec == Init /\ [][Next]_vars

-----------------------------------------------------------------------------
(* Properties.                                                             *)

\* What a query reads for m at s, by its SourceIdx.
ReadValue(m, s) == rows[s][meta[m].idx]

\* What a query reads for a registered metering point is what was last written
\* for it, except in the given slots and for the metering points and indices of
\* the given pairs.
ReadsMatch(slots, pairs) ==
    \A m \in Meters : meta[m] # None /\ (\A p \in pairs : p[1] # m /\ p[2] # meta[m].idx) =>
        \A s \in Slots \ slots : ReadValue(m, s) = truth[m][s]

\* No writer puts back a stale or an empty row over the values of another
\* (LockWrites, #31, #33, #34), and no metering point inherits the slots of
\* another (registerMeteringPoint).  Excepted are only the two gaps of
\* ImportExcelEnergyFileNew: a row it could not read and rebuilt from nothing,
\* and a SourceIdx whose rows it wrote before it ended without its record.
ReadsMatchWrites == ReadsMatch(unread, torn)

\* Without the first exception: an unreadable row is never written back without
\* the values of the other metering points (CHANGELOG, #31).
UnreadRowsKept == ReadsMatch({}, torn)

\* Without the second: a SourceIdx holds the series of one metering point
\* (dedupTargets relies on it).
OneSeriesPerIndex == ReadsMatch(unread, {})

\* A registered metering point keeps its SourceIdx for ever, and two of them
\* never share one: the stored rows would change their owner.
IndexStable ==
    [][\A m \in Meters : meta[m] # None =>
          /\ meta'[m] # None /\ meta'[m].idx = meta[m].idx
          /\ \A n \in Meters \ {m} : meta'[n] # None => meta'[n].idx # meta[m].idx]_vars

\* Between two writers the period of a metering point covers all its values,
\* unless a write failed between rows and record (updateMeta re-reads the record
\* so that no widening is dropped).
PeriodCoversData ==
    lock = None =>
        \A m \in Meters \ unsettled : \A s \in Slots :
            meta[m] # None /\ truth[m][s] # None =>
                meta[m].period # None /\ meta[m].period[1] <= s /\ s <= meta[m].period[2]

=============================================================================
