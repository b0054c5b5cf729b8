-------------------------------- MODULE Import --------------------------------
(***************************************************************************)
(* How a lane imports the messages of one tenant: executeBatch             *)
(* (mqttclient/dispatcher.go) runs the batch, after a panic message by     *)
(* message, and acks what is finished; ExecuteBatch (mqttclient/           *)
(* importBatch.go) decodes, imports in parts, runs and days, and replies.  *)
(* Every access to the store is a step; between two of them the context    *)
(* may end or the process may die.  A message is a number, in the order of *)
(* its first delivery.  A quarter hour is a slot, DayLen of them a day.    *)
(***************************************************************************)
EXTENDS Integers, Sequences, Functions

CONSTANTS
    Loads,      \* bound: sequences of messages that arrive; a message is a record
                \*   [ecId, meter, energy: periods <<start, end>>, size, decodable]
    Slots,      \* bound: quarter hours
    DayLen,     \* slots per day
    batchMax,   \* import.batchMax
    budget,     \* unpacked size that ends a part
    inOrder,    \* unacked messages are submitted again in their order
    MaxFaults,  \* bound: store errors
    MaxPanics,  \* bound: panics
    MaxCrashes, \* bound: crashes
    MaxStops    \* bound: shutdowns

ASSUME ImportConfig ==
    /\ DayLen \in Nat \ {0} /\ batchMax \in Nat \ {0} /\ inOrder \in BOOLEAN /\ Slots \subseteq Nat
    /\ \A load \in Loads :
           /\ Len(load) \in Nat /\ DOMAIN load = 1 .. Len(load)
           /\ \A m \in Range(load) :
                  /\ m.energy \in Seq(Nat \X Nat)
                  /\ \A p \in Range(m.energy) : p[1] < p[2] /\ p[1] .. p[2] - 1 \subseteq Slots

VARIABLES
    msgs,      \* message -> its content
    queue,     \* messages submitted and not yet taken by a lane
    ctxDone,   \* the dispatcher's context has ended
    lane,      \* the lane's control state, see NewLane
    store,     \* cell -> <<message, entry>> whose value it holds
    acked,     \* acked messages
    replies,   \* message -> number of cr_msg_history replies
    logged,    \* messages given up with an ERROR log
    count      \* numbers of store faults, panics, crashes and shutdowns

vars == <<msgs, queue, ctxDone, lane, store, acked, replies, logged, count>>

Msgs == DOMAIN msgs

\* The lane between two batches.
NewLane ==
    [pc       |-> "idle",
     batch    |-> <<>>,   \* executeBatch: the batch,
     single   |-> FALSE,  \*   rerun message by message,
     rest     |-> <<>>,   \*   messages still to rerun,
     finished |-> {},     \*   and messages that are finished
     call     |-> <<>>,   \* ExecuteBatch: its messages
     todo     |-> <<>>,   \*   still to decode (or, in executeBatch, to ack)
     replied  |-> {},     \* TenantEnergyImporter.replied
     part     |-> <<>>,   \* decoded messages of the part
     errs     |-> [m \in Msgs |-> "none"],  \* ImportBatch: the error of each
     ecIds    |-> {},     \*   communities still to import
     idx      |-> {},     \* importEcId: messages of the runs still to import
     run      |-> {},     \* importRun: its messages,
     left     |-> {},     \*   the day blocks not done, also of Import,
     day      |-> {},     \*   the blocks storeDay stores one by one,
     bad      |-> {},     \*   and messages with a failed block
     imports  |-> {}]     \* messages to import one by one

-----------------------------------------------------------------------------
(* Messages and their day blocks.                                          *)

\* The slices that ImportBatch makes of the part keep its order.  Here they are
\* sets, and this is the order in which their messages come.
Earlier(m, n) ==
    \E i, j \in DOMAIN lane.part : i < j /\ lane.part[i] = m /\ lane.part[j] = n
First(ms) == CHOOSE m \in ms : \A n \in ms \ {m} : Earlier(m, n)

Overlap(p, q) == p[1] < q[2] /\ q[1] < p[2]

\* Two entries of the message overlap.
selfOverlaps(m) ==
    LET e == msgs[m].energy
    IN  \E i, j \in DOMAIN e : i < j /\ Overlap(e[i], e[j])

\* Two messages have values for the same quarter hours of a metering point.
Overlapping(m, n) ==
    /\ msgs[m].ecId = msgs[n].ecId /\ msgs[m].meter = msgs[n].meter
    /\ \E p \in Range(msgs[m].energy), q \in Range(msgs[n].energy) : Overlap(p, q)

\* Mutant: every message joins the run.
overlapsAny_None(m, cur) == FALSE
overlapsAny(m, cur) == \E n \in cur : Overlapping(m, n)

\* The first of the runs into which the messages ms of one community are cut: a
\* message with overlapping entries alone, or the messages before the first one
\* that has overlapping entries or overlaps a message of the run.
splitRuns(ms) ==
    LET flush(m) == selfOverlaps(m) \/ overlapsAny(m, {n \in ms : Earlier(n, m)})
    IN  IF selfOverlaps(First(ms)) THEN {First(ms)}
        ELSE {m \in ms : ~flush(m) /\ \A n \in ms : Earlier(n, m) => ~flush(n)}

day(slot) == slot \div DayLen

\* The day blocks of entry i of m.
SplitEnergyByDay(m, i) ==
    LET p == msgs[m].energy[i]
    IN  {[msg |-> m, entry |-> i, day |-> d] : d \in day(p[1]) .. day(p[2] - 1)}

MsgBlocks(m) == UNION {SplitEnergyByDay(m, i) : i \in DOMAIN msgs[m].energy}

\* The order of the blocks of a day, and of the blocks of a message.
BlockBefore(b, c) ==
    \/ Earlier(b.msg, c.msg)
    \/ b.msg = c.msg /\ (b.entry < c.entry \/ (b.entry = c.entry /\ b.day < c.day))
FirstBlock(bs) == CHOOSE b \in bs : \A c \in bs \ {b} : BlockBefore(b, c)
LastBlock(bs)  == CHOOSE b \in bs : \A c \in bs \ {b} : BlockBefore(c, b)

BlockSlots(b) ==
    {s \in Slots : day(s) = b.day /\ msgs[b.msg].energy[b.entry][1] <= s
                                  /\ s < msgs[b.msg].energy[b.entry][2]}

\* The cells of a message: community, metering point, quarter hour.
Cells(m) ==
    {<<msgs[m].ecId, msgs[m].meter, s>> :
        s \in UNION {BlockSlots(b) : b \in MsgBlocks(m)}}

BlockCells(b) == {<<msgs[b.msg].ecId, msgs[b.msg].meter, s>> : s \in BlockSlots(b)}

\* StoreDayBatch and StoreEnergyV2: the rows of the blocks are overwritten in
\* the order of the blocks, so that the last one with a value for a cell wins.
Write(st, blocks) ==
    [c \in DOMAIN st |->
        LET bs == {b \in blocks : c \in BlockCells(b)}
        IN  IF bs = {} THEN st[c] ELSE <<LastBlock(bs).msg, LastBlock(bs).entry>>]

\* A store call with its outcome: a failed write may leave some of the rows, an
\* error of the meta record comes before the rows or after them.
StoreCall(blocks, out) ==
    LET new  == Write(store, blocks)
        rows == UNION {BlockSlots(b) : b \in blocks}
        kept == CASE out = "ok"     -> {rows}
                  [] out = "failed" -> SUBSET rows
                  [] out = "meta"   -> {{}, rows}
    IN  /\ out # "ok" => count.faults < MaxFaults
        /\ \E r \in kept :
               store' = [c \in DOMAIN store |-> IF c[3] \in r THEN new[c] ELSE store[c]]
        /\ count' = IF out = "ok" THEN count ELSE [count EXCEPT !.faults = @ + 1]

-----------------------------------------------------------------------------
(* executeBatch.                                                           *)

Init ==
    /\ msgs \in Loads
    /\ queue = [m \in Msgs |-> m] /\ ctxDone = FALSE /\ lane = NewLane
    /\ store = [c \in {<<s.ecId, s.meter, q>> : s \in Range(msgs), q \in Slots} |-> <<0, 0>>]
    /\ acked = {} /\ replies = [m \in Msgs |-> 0] /\ logged = {}
    /\ count = [faults |-> 0, panics |-> 0, crashes |-> 0, stops |-> 0]

\* A lane takes the messages submitted so far, at most batchMax.
TakeBatch ==
    /\ lane.pc = "idle" /\ queue # <<>> /\ ~ctxDone
    /\ \E n \in 1 .. (IF Len(queue) < batchMax THEN Len(queue) ELSE batchMax) :
          LET b == SubSeq(queue, 1, n) IN
          /\ queue' = SubSeq(queue, n + 1, Len(queue))
          /\ lane' = [lane EXCEPT !.pc = "decode", !.batch = b, !.single = FALSE,
                                  !.call = b, !.todo = b, !.finished = {}]
    /\ UNCHANGED <<msgs, ctxDone, store, acked, replies, logged, count>>

\* ExecuteBatch returned (or panicked in the rerun): the next message of a
\* rerun, or the acks.
Returned ==
    /\ lane.pc = "returned"
    /\ lane' = IF lane.single /\ lane.rest # <<>>
               THEN [lane EXCEPT !.pc = "decode", !.call = <<Head(lane.rest)>>,
                                 !.todo = <<Head(lane.rest)>>, !.rest = Tail(@)]
               ELSE [lane EXCEPT !.pc = "ack", !.todo = lane.batch]
    /\ UNCHANGED <<msgs, queue, ctxDone, store, acked, replies, logged, count>>

\* What a panic leaves of the lane's state: the importer with its replied.
AfterPanic == [NewLane EXCEPT !.batch = lane.batch, !.single = lane.single, !.rest = lane.rest,
                              !.replied = lane.replied, !.pc = "returned"]

\* Mutant: the message that panics is not acked.
Panic_Unfinished ==
    /\ lane.pc \in {"register", "day", "block", "importBlock"}
    /\ count.panics < MaxPanics
    /\ count' = [count EXCEPT !.panics = @ + 1]
    /\ lane' = [AfterPanic EXCEPT !.finished = lane.finished]
    /\ UNCHANGED <<msgs, queue, ctxDone, store, acked, replies, logged>>

\* A panic in ExecuteBatch, in a store call before it writes: its only message
\* is finished, a batch is rerun message by message.
Panic ==
    /\ lane.pc \in {"register", "day", "block", "importBlock"}
    /\ count.panics < MaxPanics
    /\ count' = [count EXCEPT !.panics = @ + 1]
    /\ IF Len(lane.call) = 1
       THEN /\ lane' = [AfterPanic EXCEPT !.finished = lane.finished \cup Range(lane.call)]
            /\ logged' = logged \cup Range(lane.call)
       ELSE /\ lane' = [AfterPanic EXCEPT !.single = TRUE, !.rest = lane.batch]
            /\ UNCHANGED logged
    /\ UNCHANGED <<msgs, queue, ctxDone, store, acked, replies>>

Ack ==
    /\ lane.pc = "ack" /\ lane.todo # <<>>
    /\ acked' = acked \cup ({Head(lane.todo)} \cap lane.finished)
    /\ lane' = [lane EXCEPT !.todo = Tail(@)]
    /\ UNCHANGED <<msgs, queue, ctxDone, store, replies, logged, count>>

BatchDone ==
    /\ lane.pc = "ack" /\ lane.todo = <<>>
    /\ lane' = [NewLane EXCEPT !.replied = lane.replied]
    /\ UNCHANGED <<msgs, queue, ctxDone, store, acked, replies, logged, count>>

-----------------------------------------------------------------------------
(* ExecuteBatch: executeParts and importPart.                              *)

EcIdsOf(ms) == {msgs[m].ecId : m \in ms}

PartSize(ms) == SumFunctionOnSet([m \in Msgs |-> msgs[m].size], ms)

\* ImportBatch begins with the decoded messages.
StartPart(l) ==
    [l EXCEPT !.pc = "ecId", !.ecIds = EcIdsOf(Range(l.part)), !.errs = NewLane.errs]

\* Mutant: the rerun does not know the replied messages.
Decode_IgnoresReplied ==
    /\ lane.pc = "decode" /\ lane.todo # <<>>
    /\ LET m == Head(lane.todo)
           l == [lane EXCEPT !.todo = Tail(@)]
           p == Append(lane.part, m)
       IN  lane' = IF ctxDone THEN l
                   ELSE IF ~msgs[m].decodable THEN [l EXCEPT !.finished = @ \cup {m}]
                   ELSE IF PartSize(Range(p)) >= budget THEN StartPart([l EXCEPT !.part = p])
                   ELSE [l EXCEPT !.part = p]
    /\ UNCHANGED <<msgs, queue, ctxDone, store, acked, replies, logged, count>>

\* One message: already replied before a panic, stopped, undecodable, or added
\* to the part, which may be full with it.
Decode ==
    /\ lane.pc = "decode" /\ lane.todo # <<>>
    /\ LET m == Head(lane.todo)
           l == [lane EXCEPT !.todo = Tail(@)]
           p == Append(lane.part, m)
       IN  /\ lane' =
                IF m \in lane.replied
                THEN [l EXCEPT !.replied = @ \ {m}, !.finished = @ \cup {m}]
                ELSE IF ctxDone THEN l
                ELSE IF ~msgs[m].decodable THEN [l EXCEPT !.finished = @ \cup {m}]
                ELSE IF PartSize(Range(p)) >= budget THEN StartPart([l EXCEPT !.part = p])
                ELSE [l EXCEPT !.part = p]
           /\ logged' = IF m \in lane.replied \/ ctxDone \/ msgs[m].decodable THEN logged
                        ELSE logged \cup {m}
    /\ UNCHANGED <<msgs, queue, ctxDone, store, acked, replies, count>>

\* Mutant: replied is not cleared.
DecodeDone_KeepsReplied ==
    /\ lane.pc = "decode" /\ lane.todo = <<>>
    /\ lane' = IF lane.part # <<>> THEN StartPart(lane) ELSE [lane EXCEPT !.pc = "returned"]
    /\ UNCHANGED <<msgs, queue, ctxDone, store, acked, replies, logged, count>>

\* The last part, or the return of executeParts.
DecodeDone ==
    /\ lane.pc = "decode" /\ lane.todo = <<>>
    /\ lane' = IF lane.part # <<>> THEN StartPart(lane)
               ELSE [lane EXCEPT !.pc = "returned", !.replied = @ \ Range(lane.call)]
    /\ UNCHANGED <<msgs, queue, ctxDone, store, acked, replies, logged, count>>

\* Mutant: a stopped message counts as finished.
Confirm_AcksStopped ==
    /\ lane.pc = "confirm" /\ lane.part # <<>>
    /\ LET m == Head(lane.part)
           e == lane.errs[m]
       IN  /\ lane' = [lane EXCEPT !.part = Tail(@), !.finished = @ \cup {m},
                                   !.replied = IF e = "none" THEN @ \cup {m} ELSE @]
           /\ logged' = IF e = "failed" THEN logged \cup {m} ELSE logged
           /\ replies' = IF e = "none" THEN [replies EXCEPT ![m] = @ + 1] ELSE replies
    /\ UNCHANGED <<msgs, queue, ctxDone, store, acked, count>>

\* importPart after ImportBatch: one message of the part is left unfinished,
\* logged, or replied.
Confirm ==
    /\ lane.pc = "confirm" /\ lane.part # <<>>
    /\ LET m == Head(lane.part)
           l == [lane EXCEPT !.part = Tail(@)]
           e == lane.errs[m]
       IN  /\ lane' = IF e = "stopped" THEN l
                      ELSE IF e = "failed" THEN [l EXCEPT !.finished = @ \cup {m}]
                      ELSE [l EXCEPT !.finished = @ \cup {m}, !.replied = @ \cup {m}]
           /\ logged' = IF e = "failed" THEN logged \cup {m} ELSE logged
           /\ replies' = IF e = "none" THEN [replies EXCEPT ![m] = @ + 1] ELSE replies
    /\ UNCHANGED <<msgs, queue, ctxDone, store, acked, count>>

ConfirmDone ==
    /\ lane.pc = "confirm" /\ lane.part = <<>>
    /\ lane' = [lane EXCEPT !.pc = "decode"]
    /\ UNCHANGED <<msgs, queue, ctxDone, store, acked, replies, logged, count>>

-----------------------------------------------------------------------------
(* ImportBatch: importEcId, importRun, storeDay, Import.                   *)

\* l with the error e for the messages ms.
SetErrs(l, ms, e) == [l EXCEPT !.errs = [m \in Msgs |-> IF m \in ms THEN e ELSE @[m]]]

\* The next community: stopped, its store cannot be opened, or cut into runs.
importEcId ==
    /\ lane.pc = "ecId" /\ lane.ecIds # {}
    /\ LET ecId == msgs[First({m \in Range(lane.part) : msgs[m].ecId \in lane.ecIds})].ecId
           ms   == {m \in Range(lane.part) : msgs[m].ecId = ecId}
           l    == [lane EXCEPT !.ecIds = @ \ {ecId}]
       IN  \/ /\ ctxDone
              /\ lane' = SetErrs(l, ms, "stopped") /\ UNCHANGED count
           \/ /\ ~ctxDone /\ count.faults < MaxFaults
              /\ lane' = SetErrs(l, ms, "failed")
              /\ count' = [count EXCEPT !.faults = @ + 1]
           \/ /\ ~ctxDone
              /\ lane' = [l EXCEPT !.pc = "run", !.idx = ms] /\ UNCHANGED count
    /\ UNCHANGED <<msgs, queue, ctxDone, store, acked, replies, logged>>

ImportBatchDone ==
    /\ lane.pc = "ecId" /\ lane.ecIds = {}
    /\ lane' = [lane EXCEPT !.pc = "confirm"]
    /\ UNCHANGED <<msgs, queue, ctxDone, store, acked, replies, logged, count>>

\* Import of m begins: its store is open since importEcId.
StartImport(l, m) == [l EXCEPT !.pc = "importBlock", !.left = MsgBlocks(m), !.bad = {}]

\* The next run: stopped, a message imported by itself, or importRun.
NextRun ==
    /\ lane.pc = "run"
    /\ lane' =
          IF lane.idx = {} THEN [lane EXCEPT !.pc = "ecId"]
          ELSE LET r == splitRuns(lane.idx)
                   l == [lane EXCEPT !.idx = @ \ r, !.run = r]
               IN  IF ctxDone THEN SetErrs(l, r, "stopped")
                   ELSE IF selfOverlaps(First(r)) THEN StartImport([l EXCEPT !.imports = r], First(r))
                   ELSE [l EXCEPT !.pc = "register", !.left = UNION {MsgBlocks(m) : m \in r}, !.bad = {}]
    /\ UNCHANGED <<msgs, queue, ctxDone, store, acked, replies, logged, count>>

\* Mutant: after a meta record error only the later runs are imported.
Settle_Drops(l, metaOk) ==
    LET pending == {b.msg : b \in l.left}
        done    == l.run \ pending
        settled == SetErrs(SetErrs(l, done \cap l.bad, "failed"), done \ l.bad, "none")
    IN  IF metaOk THEN [SetErrs(settled, pending, "stopped") EXCEPT !.pc = "run"]
        ELSE [settled EXCEPT !.pc = "import", !.idx = {}, !.imports = l.idx]

\* The end of importRun: the messages without a pending block have their
\* outcome, the others are stopped, or imported one by one after a meta record
\* error, and after them the messages of the later runs.
Settle(l, metaOk) ==
    LET pending == {b.msg : b \in l.left}
        done    == l.run \ pending
        settled == SetErrs(SetErrs(l, done \cap l.bad, "failed"), done \ l.bad, "none")
    IN  IF metaOk THEN [SetErrs(settled, pending, "stopped") EXCEPT !.pc = "run"]
        ELSE [settled EXCEPT !.pc = "import", !.idx = {}, !.imports = pending \cup l.idx]

\* importRun: RegisterMeteringPoints.
Register ==
    /\ lane.pc = "register"
    /\ \/ lane' = [lane EXCEPT !.pc = "day"] /\ UNCHANGED count
       \/ /\ count.faults < MaxFaults
          /\ count' = [count EXCEPT !.faults = @ + 1]
          /\ lane' = Settle(lane, FALSE)
    /\ UNCHANGED <<msgs, queue, ctxDone, store, acked, replies, logged>>

\* The blocks of the first day with blocks left.
DayBlocks == {b \in lane.left : \A c \in lane.left : b.day <= c.day}

\* importRun before the next day: stopped, or storeDay with the day's batch.
storeDay ==
    /\ lane.pc = "day" /\ lane.left # {} /\ ~ctxDone
    /\ \E out \in {"ok", "failed", "meta"} :
          /\ StoreCall(DayBlocks, out)
          /\ lane' = CASE out = "ok"     -> [lane EXCEPT !.left = @ \ DayBlocks]
                       [] out = "failed" -> [lane EXCEPT !.pc = "block", !.day = DayBlocks]
                       [] out = "meta"   -> Settle(lane, FALSE)
    /\ UNCHANGED <<msgs, queue, ctxDone, acked, replies, logged>>

RunDone ==
    /\ lane.pc = "day" /\ (lane.left = {} \/ ctxDone)
    /\ lane' = Settle(lane, TRUE)
    /\ UNCHANGED <<msgs, queue, ctxDone, store, acked, replies, logged, count>>

\* Mutant: the error of a block is only logged.
StoreBlock_Swallows ==
    /\ lane.pc = "block" /\ lane.day # {}
    /\ LET b == FirstBlock(lane.day)
           l == [lane EXCEPT !.day = @ \ {b}, !.left = @ \ {b}]
       IN  \E out \in {"ok", "failed", "meta"} :
              /\ StoreCall({b}, out)
              /\ lane' = CASE out = "ok"     -> l
                           [] out = "failed" -> l
                           [] out = "meta"   -> Settle(lane, FALSE)
    /\ UNCHANGED <<msgs, queue, ctxDone, acked, replies, logged>>

\* storeDay: one block after the failed batch.
StoreBlock ==
    /\ lane.pc = "block" /\ lane.day # {}
    /\ LET b == FirstBlock(lane.day)
           l == [lane EXCEPT !.day = @ \ {b}, !.left = @ \ {b}]
       IN  \E out \in {"ok", "failed", "meta"} :
              /\ StoreCall({b}, out)
              /\ lane' = CASE out = "ok"     -> l
                           [] out = "failed" -> [l EXCEPT !.bad = @ \cup {b.msg}]
                           [] out = "meta"   -> Settle(lane, FALSE)
    /\ UNCHANGED <<msgs, queue, ctxDone, acked, replies, logged>>

BlocksDone ==
    /\ lane.pc = "block" /\ lane.day = {}
    /\ lane' = [lane EXCEPT !.pc = "day"]
    /\ UNCHANGED <<msgs, queue, ctxDone, store, acked, replies, logged, count>>

\* importOne: the next message to import by itself, unless stopped.
importOne ==
    /\ lane.pc = "import"
    /\ lane' = IF lane.imports = {} THEN [lane EXCEPT !.pc = "run"]
               ELSE LET m == First(lane.imports) IN
                    IF ctxDone
                    THEN SetErrs([lane EXCEPT !.imports = @ \ {m}], {m}, "stopped")
                    ELSE StartImport(lane, m)
    /\ UNCHANGED <<msgs, queue, ctxDone, store, acked, replies, logged, count>>

\* Import: the next block; a meta record error ends it.
ImportBlock ==
    /\ lane.pc = "importBlock" /\ lane.left # {}
    /\ LET b == FirstBlock(lane.left)
           l == [lane EXCEPT !.left = @ \ {b}]
       IN  \E out \in {"ok", "failed", "meta"} :
              /\ StoreCall({b}, out)
              /\ lane' = CASE out = "ok"     -> l
                           [] out = "failed" -> [l EXCEPT !.bad = {b.msg}]
                           [] out = "meta"   -> [l EXCEPT !.bad = {b.msg}, !.left = {}]
    /\ UNCHANGED <<msgs, queue, ctxDone, acked, replies, logged>>

ImportDone ==
    /\ lane.pc = "importBlock" /\ lane.left = {}
    /\ LET m == First(lane.imports)
           e == IF lane.bad = {} THEN "none" ELSE "failed"
       IN  lane' = SetErrs([lane EXCEPT !.pc = "import", !.imports = @ \ {m}], {m}, e)
    /\ UNCHANGED <<msgs, queue, ctxDone, store, acked, replies, logged, count>>

-----------------------------------------------------------------------------
(* The end of the context, of the process, and redelivery.                 *)

\* The unacked messages, as the broker delivers them when the session
\* reconnects; Paho hands them over in any order unless inOrder.
Redelivered ==
    {q \in UNION {Bijection(1 .. n, Msgs \ acked) : n \in 0 .. Len(msgs)} :
        inOrder => \A i, j \in DOMAIN q : i < j => q[i] < q[j]}

Stop ==
    /\ ~ctxDone /\ count.stops < MaxStops
    /\ ctxDone' = TRUE /\ count' = [count EXCEPT !.stops = @ + 1]
    /\ UNCHANGED <<msgs, queue, lane, store, acked, replies, logged>>

\* The service starts again after an orderly shutdown.
Restart ==
    /\ ctxDone /\ lane.pc = "idle"
    /\ ctxDone' = FALSE /\ lane' = NewLane /\ queue' \in Redelivered
    /\ UNCHANGED <<msgs, store, acked, replies, logged, count>>

\* The blocks of the store call the lane is in, if it is in one.
CallBlocks ==
    CASE lane.pc = "day" -> DayBlocks
      [] lane.pc = "block" /\ lane.day # {} -> {FirstBlock(lane.day)}
      [] lane.pc = "importBlock" /\ lane.left # {} -> {FirstBlock(lane.left)}
      [] OTHER -> {}

\* The process dies at any point and starts again.  A store call may have
\* written some of its rows.
Crash ==
    /\ count.crashes < MaxCrashes
    /\ count' = [count EXCEPT !.crashes = @ + 1]
    /\ LET new == Write(store, CallBlocks) IN
       \E r \in SUBSET UNION {BlockSlots(b) : b \in CallBlocks} :
          store' = [c \in DOMAIN store |-> IF c[3] \in r THEN new[c] ELSE store[c]]
    /\ ctxDone' = FALSE /\ lane' = NewLane /\ queue' \in Redelivered
    /\ UNCHANGED <<msgs, acked, replies, logged>>

Terminated == acked = Msgs /\ lane.pc = "idle" /\ ~ctxDone /\ UNCHANGED vars

Lane ==
    \/ TakeBatch \/ Returned \/ Ack \/ BatchDone
    \/ Decode \/ DecodeDone \/ Confirm \/ ConfirmDone
    \/ importEcId \/ ImportBatchDone \/ NextRun \/ Register \/ storeDay \/ RunDone
    \/ StoreBlock \/ BlocksDone \/ importOne \/ ImportBlock \/ ImportDone

Next == Lane \/ Panic \/ Stop \/ Restart \/ Crash \/ Terminated

Spec == Init /\ [][Next]_vars

\* The lane's goroutine runs, every store call returns, and the service is
\* started again after a shutdown.
Fairness == WF_vars(Lane) /\ WF_vars(Restart)

FairSpec == Spec /\ Fairness

-----------------------------------------------------------------------------
(* Properties.                                                             *)

Newer(v, w) == v[1] > w[1] \/ (v[1] = w[1] /\ v[2] >= w[2])

\* The last entry of m with a value for the cell.
LastEntry(m, c) ==
    LET e == msgs[m].energy
    IN  CHOOSE i \in DOMAIN e :
            /\ e[i][1] <= c[3] /\ c[3] < e[i][2]
            /\ \A j \in DOMAIN e : e[j][1] <= c[3] /\ c[3] < e[j][2] => j <= i

\* A confirmed message never loses to an older one: each of its quarter hours
\* holds its value or a newer one, or a message that covers it is unacked and
\* will be imported (again).  (A message logged as not stored is one whose
\* redelivery failed after a crash.)  splitRuns and executeParts say that a later
\* message wins.
LaterWins ==
    \A m \in Msgs : replies[m] > 0 /\ m \notin logged =>
        \A c \in Cells(m) :
            \/ Newer(store[c], <<m, LastEntry(m, c)>>)
            \/ \E n \in Msgs \ acked : n >= m /\ c \in Cells(n)

\* LaterWins as long as no panic reran a batch.
LaterWinsUnlessRerun == count.panics = 0 => LaterWins

\* A confirmed message that overlaps an earlier one is acked after it:
\* otherwise the redelivery of the earlier one would overwrite it for good.
\* Again unless a panic reran a batch.
AckOrder ==
    count.panics = 0 =>
        \A m, n \in Msgs :
            m < n /\ n \in acked /\ replies[n] > 0 /\ msgs[m].decodable /\ Overlapping(m, n)
                => m \in acked

\* A message is only acked when it was confirmed or given up with an ERROR log
\* (store error, undecodable, panic): nothing is lost silently.
AckedAccounted == acked \subseteq {m \in Msgs : replies[m] > 0} \cup logged

\* A message is confirmed once, also when its batch panics or the service is
\* shut down after the reply; only a crash before the ack repeats it.
OneReply == \A m \in Msgs : replies[m] <= 1 + count.crashes

\* Between two batches the importer remembers no replied message, however its
\* batches ended (panics, reruns, a stop): the map does not grow from one to the
\* next.  A redelivered message is another key, so that nothing is skipped.
RepliedForgotten == lane.pc = "idle" => lane.replied = {}

\* A reply goes out only for a message whose quarter hours all hold its values
\* or newer ones.
ReplyMeansStored ==
    [][\A m \in Msgs : replies'[m] > replies[m] =>
          \A c \in Cells(m) : Newer(store[c], <<m, LastEntry(m, c)>>)]_vars

\* Every message is acked in the end.
EventuallyAcked == <>(acked = Msgs)

=============================================================================
