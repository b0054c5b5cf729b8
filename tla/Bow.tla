--------------------------------- MODULE Bow ---------------------------------
(***************************************************************************)
(* The bow layer of store/ebow (db.go, bucket.go, iter.go, range.go): one  *)
(* Badger directory with buckets.  A bucket is an id that prefixes the     *)
(* keys of its records; the ids come from a Badger sequence and the names  *)
(* are kept in one record.  A key is a sequence of numbers.  Badger itself *)
(* (transactions, sequences, the directory lock) is modelled from its use. *)
(***************************************************************************)
EXTENDS Integers, Sequences, FiniteSets, Functions

CONSTANTS
    Users,       \* goroutines with a handle of the database
    BowOps,      \* the calls they make
    Lease,       \* bandwidth of the sequence (1e3)
    FirstId,     \* 8 * 256
    MaxBuckets,  \* MaxBuckets
    FlushEvery,  \* rows of a flush in PutBatch (100)
    MaxBowCalls, \* bound: calls of BowStorage
    MaxFaults,   \* bound: failing writes
    MaxReopens   \* bound: closes and crashes

Absent == "absent"
Junk   == "undecodable"

\* A key is a sequence of numbers, a record a key and its encoded value.
Records  == [key : Seq(Nat), val : STRING \ {Absent}]
BowKinds == {"put", "batch", "delete", "get", "iter", "range"}

\* The keys of a bucket that Range is used on are no shorter than until, as those
\* of "rawdata" are.
ASSUME BowConfig ==
    /\ Lease \in Nat \ {0} /\ FirstId \in Nat /\ MaxBuckets \in Nat /\ FlushEvery \in Nat \ {0}
    /\ \A op \in BowOps : /\ op.kind \in BowKinds /\ op.rows \in Seq(Records)
                          /\ op.key \in Seq(Nat) /\ op.until \in Seq(Nat)
    /\ \A op, w \in BowOps : op.kind = "range" /\ w.name = op.name =>
           \A i \in DOMAIN w.rows : Len(w.rows[i].key) >= Len(op.until)

VARIABLES
    badger,   \* on disk: [meta (name -> id), seq, rows (internal key -> value)]
    dirLock,  \* Badger is open in this process
    bow,      \* DB: [open, buckets (name -> id), next, leased]
    usr,      \* user -> [pc, op, id, rest, snap, got]
    owner,    \* every <<id, name>> that a bucket was made with
    may,      \* <<name, key>> -> the values a read may return
    unsaved,  \* names in bow.buckets whose record could not be written
    spent     \* [calls, faults, reopens]

bvars == <<badger, dirLock, bow, usr, owner, may, unsaved, spent>>

Closed == [open |-> FALSE, buckets |-> <<>>, next |-> 0, leased |-> 0]
Idler  == [pc |-> "idle", op |-> <<>>, id |-> 0, rest |-> <<>>, snap |-> <<>>, got |-> <<>>]

BowInit(calls) ==
    /\ badger = [meta |-> <<>>, seq |-> 0, rows |-> <<>>]
    /\ dirLock = FALSE /\ bow = Closed
    /\ usr = [u \in Users |-> Idler]
    /\ owner = {} /\ unsaved = {} /\ may = <<>>
    /\ spent = [calls |-> calls, faults |-> 0, reopens |-> 0]

\* f, and g where f is not defined: f @@ g, with the domain spelled out for the
\* provers.
Over(f, g) == [x \in DOMAIN f \cup DOMAIN g |-> IF x \in DOMAIN f THEN f[x] ELSE g[x]]

\* A write that fails is counted.
Fault == spent.faults < MaxFaults /\ spent' = [spent EXCEPT !.faults = @ + 1]

-----------------------------------------------------------------------------
(* Open and Close.                                                         *)

\* readMeta: the record; a new database has none, which is written as an empty
\* one.
readMeta == badger.meta

\* Open and initMeta: the record is read and a lease of the sequence is taken.
\* An error closes Badger again.
Open ==
    /\ ~bow.open /\ ~dirLock /\ spent.calls < MaxBowCalls
    /\ \/ /\ bow' = [open |-> TRUE, buckets |-> readMeta, next |-> badger.seq, leased |-> badger.seq + Lease]
          /\ dirLock' = TRUE
          /\ badger' = [badger EXCEPT !.seq = @ + Lease]
          /\ UNCHANGED spent
       \/ Fault /\ UNCHANGED <<badger, bow, dirLock>>
    /\ UNCHANGED <<usr, owner, may, unsaved>>

\* Close gives the rest of the lease back and closes Badger; if the release
\* fails, Badger stays open and the directory locked.
CloseDB ==
    /\ bow.open /\ \A u \in Users : usr[u].pc = "idle"
    /\ spent.reopens < MaxReopens
    /\ bow' = Closed
    /\ \/ /\ badger' = [badger EXCEPT !.seq = bow.next] /\ dirLock' = FALSE
          /\ spent' = [spent EXCEPT !.reopens = @ + 1]
       \/ Fault /\ UNCHANGED <<badger, dirLock>>
    /\ unsaved' = {}
    /\ may' = [x \in DOMAIN may |-> IF x[1] \in unsaved THEN may[x] \cup {Absent} ELSE may[x]]
    /\ UNCHANGED <<usr, owner>>

\* The process ends anywhere; its directory lock ends with it.
Crash ==
    /\ dirLock /\ spent.reopens < MaxReopens
    /\ bow' = Closed /\ dirLock' = FALSE
    /\ usr' = [u \in Users |-> Idler]
    /\ unsaved' = {}
    /\ may' = [x \in DOMAIN may |-> IF x[1] \in unsaved THEN may[x] \cup {Absent} ELSE may[x]]
    /\ spent' = [spent EXCEPT !.reopens = @ + 1]
    /\ UNCHANGED <<badger, owner>>

-----------------------------------------------------------------------------
(* Buckets.                                                                *)

\* Bucket: the call op begins with the look for its bucket.
Bucket(u, op) ==
    /\ bow.open /\ usr[u].pc = "idle" /\ spent.calls < MaxBowCalls
    /\ spent' = [spent EXCEPT !.calls = @ + 1]
    /\ usr' = [usr EXCEPT ![u] =
           IF op.name \in DOMAIN bow.buckets
           THEN [Idler EXCEPT !.pc = op.kind, !.op = op, !.id = bow.buckets[op.name], !.rest = op.rows]
           ELSE [Idler EXCEPT !.pc = "create", !.op = op, !.rest = op.rows]]
    /\ UNCHANGED <<badger, dirLock, bow, owner, may, unsaved>>

\* The bucket is there; or it carries an error: reads return it, writes read
\* b.db.readOnly first and panic on the nil db.  Both end the call.
Has(u, id) == usr' = [usr EXCEPT ![u].pc = usr[u].op.kind, ![u].id = id]
Failed(u)  == usr' = [usr EXCEPT ![u] = Idler]

\* Sequence.Next, which takes a new lease when the old one is used up.
SequenceNext ==
    IF bow.next < bow.leased THEN bow.leased ELSE badger.seq + Lease

\* Mutant: the id is the number of buckets.
createBucket_Count(u) ==
    /\ usr[u].pc = "create"
    /\ LET name == usr[u].op.name
           id   == FirstId + Cardinality(DOMAIN bow.buckets)
           made == Over([n \in {name} |-> id], bow.buckets)
       IN  IF name \in DOMAIN bow.buckets
           THEN Has(u, bow.buckets[name]) /\ UNCHANGED <<badger, bow, owner, unsaved, spent>>
           ELSE /\ owner' = owner \cup {<<id, name>>}
                /\ bow' = [bow EXCEPT !.buckets = made]
                /\ \/ badger' = [badger EXCEPT !.meta = made] /\ Has(u, id) /\ unsaved' = {} /\ UNCHANGED spent
                   \/ Fault /\ Failed(u) /\ unsaved' = unsaved \cup {name} /\ UNCHANGED badger
    /\ UNCHANGED <<dirLock, may>>

\* createBucket, under metaMu: somebody else may have made it; the sequence may
\* fail; the ids may be used up; and the record may not be written, with an
\* error of Commit, or without one when Set fails (its error is overwritten).
\* The bucket stays in bow.buckets then.
createBucket(u) ==
    /\ usr[u].pc = "create"
    /\ LET name == usr[u].op.name
           id   == FirstId + bow.next
           made == Over([n \in {name} |-> id], bow.buckets)
           seq  == [badger EXCEPT !.seq = SequenceNext]
           next == [bow EXCEPT !.next = @ + 1, !.leased = SequenceNext]
       IN  \/ /\ name \in DOMAIN bow.buckets
              /\ Has(u, bow.buckets[name]) /\ UNCHANGED <<badger, bow, owner, unsaved, spent>>
           \/ /\ name \notin DOMAIN bow.buckets
              /\ bow.next = bow.leased /\ Fault
              /\ Failed(u) /\ UNCHANGED <<badger, bow, owner, unsaved>>
           \/ /\ name \notin DOMAIN bow.buckets /\ id > MaxBuckets
              /\ badger' = seq /\ bow' = next
              /\ Failed(u) /\ UNCHANGED <<owner, unsaved, spent>>
           \/ /\ name \notin DOMAIN bow.buckets /\ id <= MaxBuckets
              /\ bow' = [next EXCEPT !.buckets = made]
              /\ owner' = owner \cup {<<id, name>>}
              /\ \/ badger' = [seq EXCEPT !.meta = made] /\ Has(u, id) /\ unsaved' = {} /\ UNCHANGED spent
                 \/ badger' = seq /\ Fault /\ (Has(u, id) \/ Failed(u)) /\ unsaved' = unsaved \cup {name}
    /\ UNCHANGED <<dirLock, may>>

internalKey(id, key) == <<id>> \o key

-----------------------------------------------------------------------------
(* Writes.                                                                 *)

\* The values of the rows rs (a sequence of [key, val]), a later one wins.
Written(id, rs) ==
    [ik \in {internalKey(id, rs[i].key) : i \in DOMAIN rs} |->
        rs[CHOOSE i \in DOMAIN rs : /\ internalKey(id, rs[i].key) = ik
                                    /\ \A j \in DOMAIN rs : j > i => rs[j].key # rs[i].key].val]

\* What a read may return of the rows rs: their values if they are written, and
\* also the old ones if the flush failed.
MayBe(name, rs, failed) ==
    may' = Over([x \in {<<name, r.key>> : r \in Range(rs)} |->
                    {r.val : r \in {s \in Range(rs) : s.key = x[2]}}
                    \cup (IF failed THEN IF x \in DOMAIN may THEN may[x] ELSE {Absent} ELSE {})], may)

\* Mutant: the rows after the last full flush are not flushed.
PutBatch_Rest(u) ==
    /\ usr[u].pc = "batch" /\ usr[u].rest # <<>>
    /\ LET n     == IF Len(usr[u].rest) < FlushEvery THEN Len(usr[u].rest) ELSE FlushEvery
           chunk == SubSeq(usr[u].rest, 1, n)
           rest  == SubSeq(usr[u].rest, n + 1, Len(usr[u].rest))
       IN  /\ badger' = IF n < FlushEvery THEN badger
                        ELSE [badger EXCEPT !.rows = Over(Written(usr[u].id, chunk), @)]
           /\ usr' = [usr EXCEPT ![u] = IF rest = <<>> THEN Idler ELSE [@ EXCEPT !.rest = rest]]
           /\ MayBe(usr[u].op.name, chunk, FALSE)
    /\ UNCHANGED <<dirLock, bow, owner, unsaved, spent>>

\* Put and PutBytes: one record in a transaction, which is written or not.
Put(u) ==
    /\ usr[u].pc = "put"
    /\ \/ /\ badger' = [badger EXCEPT !.rows = Over(Written(usr[u].id, usr[u].rest), @)]
          /\ MayBe(usr[u].op.name, usr[u].rest, FALSE) /\ UNCHANGED spent
       \/ Fault /\ MayBe(usr[u].op.name, usr[u].rest, TRUE) /\ UNCHANGED badger
    /\ Failed(u)
    /\ UNCHANGED <<dirLock, bow, owner, unsaved>>

\* PutBatch: flush by flush; a flush that fails may have written a part of its
\* rows and ends the call.
PutBatch(u) ==
    /\ usr[u].pc = "batch" /\ usr[u].rest # <<>>
    /\ LET n     == IF Len(usr[u].rest) < FlushEvery THEN Len(usr[u].rest) ELSE FlushEvery
           chunk == SubSeq(usr[u].rest, 1, n)
           rest  == SubSeq(usr[u].rest, n + 1, Len(usr[u].rest))
       IN  \/ /\ badger' = [badger EXCEPT !.rows = Over(Written(usr[u].id, chunk), @)]
              /\ usr' = [usr EXCEPT ![u] = IF rest = <<>> THEN Idler ELSE [@ EXCEPT !.rest = rest]]
              /\ MayBe(usr[u].op.name, chunk, FALSE) /\ UNCHANGED spent
           \/ /\ Fault /\ Failed(u)
              /\ \E m \in 0 .. n - 1 :
                    badger' = [badger EXCEPT !.rows = Over(Written(usr[u].id, SubSeq(chunk, 1, m)), @)]
              /\ MayBe(usr[u].op.name, chunk, TRUE)
    /\ UNCHANGED <<dirLock, bow, owner, unsaved>>

\* Delete removes the record, or fails.
Delete(u) ==
    /\ usr[u].pc = "delete"
    /\ LET ik == internalKey(usr[u].id, usr[u].op.key) IN
       \/ /\ badger' = [badger EXCEPT !.rows = [k \in DOMAIN badger.rows \ {ik} |-> badger.rows[k]]]
          /\ may' = Over([x \in {<<usr[u].op.name, usr[u].op.key>>} |-> {Absent}], may) /\ UNCHANGED spent
       \/ Fault /\ UNCHANGED <<badger, may>>
    /\ Failed(u)
    /\ UNCHANGED <<dirLock, bow, owner, unsaved>>

-----------------------------------------------------------------------------
(* Reads.                                                                  *)

Value(key, rows, id) ==
    LET ik == internalKey(id, key) IN IF ik \in DOMAIN rows THEN rows[ik] ELSE Absent

\* k begins with p: ValidForPrefix.
HasPrefix(k, p) == Len(p) <= Len(k) /\ \A i \in 1 .. Len(p) : k[i] = p[i]

\* The order of keys: bytes.Compare.
Before(a, b) ==
    \/ HasPrefix(b, a) /\ a # b
    \/ \E i \in DOMAIN a \cap DOMAIN b : a[i] < b[i] /\ \A j \in 1 .. i - 1 : a[j] = b[j]

\* The records that Badger's iterator of u has not passed, from the key it seeks
\* on, and the one it stands at.
Ahead(u) ==
    {k \in DOMAIN usr[u].snap : ~Before(k, internalKey(usr[u].id, usr[u].op.key))} \ Range(usr[u].got)
Item(u) == CHOOSE k \in Ahead(u) : \A l \in Ahead(u) \ {k} : Before(k, l)

\* Get: the record, ErrNotFound (nothing got), or the error of its decoding.
Get(u) ==
    /\ usr[u].pc = "get"
    /\ LET ik == internalKey(usr[u].id, usr[u].op.key)
           v  == Value(usr[u].op.key, badger.rows, usr[u].id)
       IN  usr' = [usr EXCEPT ![u].snap = badger.rows,
                              ![u].pc = IF v = Junk THEN "error" ELSE "end",
                              ![u].got = IF v \in {Absent, Junk} THEN <<>> ELSE <<ik>>]
    /\ UNCHANGED <<badger, dirLock, bow, owner, may, unsaved, spent>>

\* Iter, Prefix (newIter) and Range (newRange) open a transaction, which sees
\* the records as they are now, and seek.
newIter(u) ==
    /\ usr[u].pc \in {"iter", "range"}
    /\ usr' = [usr EXCEPT ![u].pc = "next", ![u].snap = badger.rows]
    /\ UNCHANGED <<badger, dirLock, bow, owner, may, unsaved, spent>>

\* Whether Next finds the iterator at its end: Iter at the first key without the
\* prefix, Range at the first key behind until or shorter than it.
AtEnd(u) ==
    LET op    == usr[u].op
        ik    == Item(u)
        until == internalKey(usr[u].id, op.until)
    IN  \/ Ahead(u) = {}
        \/ op.kind = "iter" /\ ~HasPrefix(ik, internalKey(usr[u].id, op.key))
        \/ op.kind = "range" /\ (Len(ik) < Len(until) \/ Before(until, SubSeq(ik, 1, Len(until))))

\* Mutant: a record that cannot be decoded is the end of the data.
Next_Undecodable(u) ==
    /\ usr[u].pc = "next"
    /\ usr' = [usr EXCEPT ![u] =
           IF AtEnd(u) \/ usr[u].snap[Item(u)] = Junk THEN [@ EXCEPT !.pc = "end"]
           ELSE [@ EXCEPT !.got = Append(usr[u].got, Item(u))]]
    /\ UNCHANGED <<badger, dirLock, bow, owner, may, unsaved, spent>>

\* decodeItem: whether the record can be read.
decodeItem(u) == usr[u].snap[Item(u)] # Junk

\* Next: the next record; false at the end; false with Err() set
\* at a record that cannot be decoded.
Next(u) ==
    /\ usr[u].pc = "next"
    /\ usr' = [usr EXCEPT ![u] =
           IF AtEnd(u) THEN [@ EXCEPT !.pc = "end"]
           ELSE IF ~decodeItem(u) THEN [@ EXCEPT !.pc = "error"]
           ELSE [@ EXCEPT !.got = Append(usr[u].got, Item(u))]]
    /\ UNCHANGED <<badger, dirLock, bow, owner, may, unsaved, spent>>

\* Close of the iterator, also by a caller that stops early.
CloseIter(u) ==
    /\ usr[u].pc \in {"next", "end", "error"}
    /\ Failed(u)
    /\ UNCHANGED <<badger, dirLock, bow, owner, may, unsaved, spent>>

BowNext ==
    \/ Open \/ CloseDB \/ Crash
    \/ \E u \in Users, op \in BowOps : Bucket(u, op)
    \/ \E u \in Users : \/ createBucket(u) \/ Put(u) \/ PutBatch(u) \/ Delete(u)
                        \/ Get(u) \/ newIter(u) \/ Next(u) \/ CloseIter(u)

BowSpec(calls) == BowInit(calls) /\ [][BowNext]_bvars

-----------------------------------------------------------------------------
(* Properties.                                                             *)

\* An id is never given to two names, over crashes with a lease outstanding,
\* releases, failed records and concurrent creations (createBucket, Sequence);
\* and no id lies in the reserved range or beyond MaxBuckets.
BucketsApart ==
    /\ \A o, p \in owner : o[1] = p[1] => o[2] = p[2]
    /\ \A o \in owner : o[1] \in FirstId .. MaxBuckets
    /\ \A n \in DOMAIN bow.buckets : <<bow.buckets[n], n>> \in owner

\* What a call has put is on disk under the bucket that the record on disk names
\* (Put, PutBatch: "persists a record into the bucket"): a crash, a close or a
\* failing write of somebody else takes nothing of it away.  Left out are the
\* buckets whose own record failed to be written: createBucket hands them out
\* to the next caller all the same, and they are lost with the process.
AckedSurvive ==
    \A x \in DOMAIN may : x[1] \notin unsaved =>
        IF x[1] \in DOMAIN readMeta
        THEN Value(x[2], badger.rows, readMeta[x[1]]) \in may[x]
        ELSE Absent \in may[x]

\* A Get, or a loop over Next, that ends without an error has seen exactly the records of its
\* bucket with the key, the prefix, or from seek to until, as they were when it began,
\* in order: no record of another bucket, none twice, none that was written
\* meanwhile, and no unreadable one passed over (#31).  For Range this needs
\* keys no shorter than until, as the keys of "rawdata" are.
IterationExact ==
    \A u \in Users : usr[u].pc = "end" =>
        LET op   == usr[u].op
            from == internalKey(usr[u].id, op.key)
            upto == internalKey(usr[u].id, op.until)
            own  == {k \in DOMAIN usr[u].snap :
                        CASE op.kind = "get"  -> k = from
                          [] op.kind = "iter" -> HasPrefix(k, from)
                          [] OTHER -> ~Before(k, from) /\ (Before(k, upto) \/ HasPrefix(k, upto))}
        IN  /\ Range(usr[u].got) = own /\ Len(usr[u].got) = Cardinality(own)
            /\ \A k \in own : usr[u].snap[k] # Junk
            /\ \A i \in 1 .. Len(usr[u].got) - 1 : Before(usr[u].got[i], usr[u].got[i + 1])

=============================================================================
