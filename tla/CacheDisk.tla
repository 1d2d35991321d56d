----------------------------- MODULE CacheDisk -----------------------------
(***************************************************************************)
(* The disk tier of the HTTP cache (src/src/cache.odin): an SQLite table   *)
(* of entries beside body files whose names are a hash of the cache key.   *)
(* Several processes may share one profile.  Each SQL statement is atomic; *)
(* nothing joins a statement to the file operation next to it, so every    *)
(* handler is a sequence of steps and other processes, failures and a      *)
(* crash may come between any two of them.                                 *)
(***************************************************************************)
EXTENDS Integers, Sequences, FiniteSets, SequencesExt

CONSTANTS DiskKey,  \* cache keys
          Body,     \* response bodies; of a body this module reads .size
          Proc,     \* processes that share the profile
          DiskMax,  \* DISK_CACHE_MAX
          Batch,    \* rows selected per eviction round (LIMIT 8)
          MaxDiskClock,  \* bound on the clock, in seconds
          Faults    \* the faults that may happen, among FaultKinds

FaultKinds == {"crash",    \* the process dies between two steps
               "io",       \* writing a body file fails part-way
               "busy",     \* a writing statement fails: another holds the lock
               "prepare"}  \* store_prepare returns nil

ASSUME DiskBoundAssumption ==
  /\ DiskMax \in Nat
  /\ Batch \in Nat \ {0}
  /\ MaxDiskClock \in Nat
  /\ \A b \in Body : b.size \in Nat
  /\ Faults \subseteq FaultKinds
ASSUME ProcAssumption == Proc # {}

VARIABLES row,       \* key -> the body its row was inserted with
          accessed,  \* key -> the row's access time
          file,      \* key -> [body, whole]: the body file of the key
          job,       \* process -> what it is doing, and its locals
          now        \* seconds

dvars == <<row, accessed, file, job, now>>

(* A function with one more, or one replaced, value. *)
With(f, k, v) == [x \in DOMAIN f \cup {k} |-> IF x = k THEN v ELSE f[x]]
Without(f, K) == Restrict(f, DOMAIN f \ K)

(* COALESCE(SUM(size), 0). *)
SumSizes(f) == IF DOMAIN f = {} THEN 0 ELSE MapThenSumSet(LAMBDA k : f[k].size, DOMAIN f)
RowBytes == SumSizes(row)

At(p, step) == job[p].at = step
Go(p, j) == job' = [job EXCEPT ![p] = j]
Finish(p) == Go(p, [at |-> "idle"])
Enforce(p) == Go(p, [at |-> "cap"])

DeleteRow(k) == /\ row' = Without(row, {k})
                /\ accessed' = Without(accessed, {k})

----------------------------------------------------------------------------
(* cache_open: every row is looked at, the rows without a body file are    *)
(* deleted, and the cap is enforced.                                       *)
Open(p) ==
  /\ At(p, "down")
  /\ \/ Go(p, [at |-> "stat", todo |-> DOMAIN row, missing |-> {}])
     \/ "prepare" \in Faults /\ Enforce(p)
  /\ UNCHANGED <<row, accessed, file, now>>

Stat(p) ==
  /\ At(p, "stat")
  /\ IF job[p].todo = {}
       THEN Go(p, [at |-> "sweep", missing |-> job[p].missing])
       ELSE \E k \in job[p].todo :
              Go(p, [at |-> "stat", todo |-> job[p].todo \ {k},
                     missing |-> job[p].missing \cup ({k} \ DOMAIN file)])
  /\ UNCHANGED <<row, accessed, file, now>>

(* Fault of a sweep: the rows of vanished bodies stay. *)
SweepNothing(p) ==
  /\ At(p, "sweep")
  /\ Enforce(p)
  /\ UNCHANGED <<row, accessed, file, now>>

Sweep(p) ==
  /\ At(p, "sweep")
  /\ IF job[p].missing = {}
       THEN Enforce(p) /\ UNCHANGED <<row, accessed>>
       ELSE \E k \in job[p].missing :
              /\ Go(p, [at |-> "sweep", missing |-> job[p].missing \ {k}])
              /\ \/ DeleteRow(k)
                 \/ Faults \cap {"busy", "prepare"} # {} /\ UNCHANGED <<row, accessed>>
  /\ UNCHANGED <<file, now>>

----------------------------------------------------------------------------
(* cache_enforce_disk_cap: while the sizes sum to more than the cap, take  *)
(* the Batch rows accessed longest ago and remove each body, then its row. *)

CapCheck(p) ==
  /\ At(p, "cap")
  /\ \/ RowBytes <= DiskMax /\ Finish(p)
     \/ ~ (RowBytes <= DiskMax) /\ Go(p, [at |-> "select"])
     \/ "prepare" \in Faults /\ Finish(p)
  /\ UNCHANGED <<row, accessed, file, now>>

(* The orders in which n rows accessed longest ago may be listed: rows     *)
(* accessed in the same second come in any order.                          *)
OldestFirst(n) ==
  {s \in [1..n -> DOMAIN row] :
     /\ IsInjective(s)
     /\ \A i, j \in 1..n : i < j => accessed[s[i]] <= accessed[s[j]]
     /\ \A i \in 1..n : \A k \in DOMAIN row \ Range(s) : accessed[s[i]] <= accessed[k]}

SelectCount == IF Cardinality(DOMAIN row) < Batch THEN Cardinality(DOMAIN row) ELSE Batch


CapSelect(p) ==
  /\ At(p, "select")
  /\ \/ DOMAIN row = {} /\ Finish(p)
     \/ /\ DOMAIN row # {}
        /\ \E s \in OldestFirst(SelectCount) : Go(p, [at |-> "unlink", victims |-> s])
     \/ "prepare" \in Faults /\ Finish(p)
  /\ UNCHANGED <<row, accessed, file, now>>

EvictBody(p) ==
  /\ At(p, "unlink")
  /\ file' = Without(file, {Head(job[p].victims)})
  /\ Go(p, [at |-> "delete", victims |-> job[p].victims])
  /\ UNCHANGED <<row, accessed, now>>

AfterVictim(p) ==
  IF Len(job[p].victims) = 1
    THEN Enforce(p)
    ELSE Go(p, [at |-> "unlink", victims |-> Tail(job[p].victims)])

(* Fault of the DELETE: it matches no row. *)
EvictNoRow(p) ==
  /\ At(p, "delete")
  /\ AfterVictim(p)
  /\ UNCHANGED <<row, accessed, file, now>>

EvictRow(p) ==
  /\ At(p, "delete")
  /\ DeleteRow(Head(job[p].victims))
  /\ AfterVictim(p)
  /\ UNCHANGED <<file, now>>

(* The result of the DELETE is not looked at. *)
EvictRowFails(p) ==
  /\ At(p, "delete")
  /\ Faults \cap {"busy", "prepare"} # {}
  /\ AfterVictim(p)
  /\ UNCHANGED <<row, accessed, file, now>>

----------------------------------------------------------------------------
(* cache_disk_store: the body file is truncated and written in place, the  *)
(* row is inserted or replaced, the cap is enforced.  The access time is   *)
(* the caller's, read when the fetch began.                                *)
StoreBegin(p, k, b) ==
  /\ At(p, "idle")
  /\ file' = With(file, k, [body |-> b, whole |-> FALSE])
  /\ Go(p, [at |-> "write", key |-> k, body |-> b, time |-> now])
  /\ UNCHANGED <<row, accessed, now>>

(* A file another process has removed meanwhile stays removed, and the     *)
(* bytes of two writers of one file may mix.                               *)
StoreWritten(p) ==
  /\ At(p, "write")
  /\ LET k == job[p].key
         b == job[p].body
     IN /\ \/ k \notin DOMAIN file /\ file' = file
           \/ k \in DOMAIN file /\ file' = With(file, k, [body |-> b, whole |-> TRUE])
           \/ /\ k \in DOMAIN file /\ file[k].body # b
              /\ file' = With(file, k, [body |-> b, whole |-> FALSE])
        /\ Go(p, [at |-> "insert", key |-> k, body |-> b, time |-> job[p].time])
  /\ UNCHANGED <<row, accessed, now>>

StoreWriteFails(p) ==
  /\ At(p, "write")
  /\ "io" \in Faults
  /\ Finish(p)
  /\ UNCHANGED <<row, accessed, file, now>>

(* Fault of the insert: the store returns without enforcing the cap. *)
InsertNoCap(p) ==
  /\ At(p, "insert")
  /\ row' = With(row, job[p].key, job[p].body)
  /\ accessed' = With(accessed, job[p].key, job[p].time)
  /\ Finish(p)
  /\ UNCHANGED <<file, now>>

StoreInsert(p) ==
  /\ At(p, "insert")
  /\ row' = With(row, job[p].key, job[p].body)
  /\ accessed' = With(accessed, job[p].key, job[p].time)
  /\ Enforce(p)
  /\ UNCHANGED <<file, now>>

(* A failed statement is not noticed; a failed prepare returns at once. *)
StoreInsertFails(p) ==
  /\ At(p, "insert")
  /\ \/ "busy" \in Faults /\ Enforce(p)
     \/ "prepare" \in Faults /\ Finish(p)
  /\ UNCHANGED <<row, accessed, file, now>>

----------------------------------------------------------------------------
(* cache_disk_load: the row, then its body file, then the access time.     *)
LoadRow(p, k) ==
  /\ At(p, "idle")
  /\ k \in DOMAIN row
  /\ Go(p, [at |-> "read", key |-> k, body |-> row[k], time |-> now])
  /\ UNCHANGED <<row, accessed, file, now>>

(* A body file that is gone makes the load a miss. *)
LoadBody(p) ==
  /\ At(p, "read")
  /\ LET k == job[p].key
     IN IF k \in DOMAIN file
          THEN Go(p, [at |-> "touch", key |-> k, body |-> job[p].body,
                      file |-> file[k], time |-> job[p].time])
          ELSE Finish(p)
  /\ UNCHANGED <<row, accessed, file, now>>

LoadTouch(p) ==
  /\ At(p, "touch")
  /\ LET k == job[p].key
     IN \/ accessed' = IF k \in DOMAIN row THEN With(accessed, k, job[p].time) ELSE accessed
        \/ Faults \cap {"busy", "prepare"} # {} /\ accessed' = accessed
  /\ Finish(p)
  /\ UNCHANGED <<row, file, now>>

----------------------------------------------------------------------------
(* A process ends between operations, or dies in the middle of one. *)
Close(p) ==
  /\ At(p, "idle")
  /\ Go(p, [at |-> "down"])
  /\ UNCHANGED <<row, accessed, file, now>>

Crash(p) ==
  /\ "crash" \in Faults
  /\ job[p].at \notin {"down", "idle"}
  /\ Go(p, [at |-> "down"])
  /\ UNCHANGED <<row, accessed, file, now>>

DiskTick ==
  /\ now < MaxDiskClock
  /\ now' = now + 1
  /\ UNCHANGED <<row, accessed, file, job>>

----------------------------------------------------------------------------
DiskInit ==
  /\ row = <<>>
  /\ accessed = <<>>
  /\ file = <<>>
  /\ job = [p \in Proc |-> [at |-> "down"]]
  /\ now = 0

(* What a process does next on its own, once an operation has begun. *)
Step(p) ==
  \/ Stat(p) \/ Sweep(p)
  \/ CapCheck(p) \/ CapSelect(p) \/ EvictBody(p) \/ EvictRow(p) \/ EvictRowFails(p)
  \/ StoreWritten(p) \/ StoreWriteFails(p) \/ StoreInsert(p) \/ StoreInsertFails(p)
  \/ LoadBody(p) \/ LoadTouch(p)

DiskNext ==
  \/ DiskTick
  \/ \E p \in Proc :
       \/ Open(p) \/ Close(p) \/ Crash(p) \/ Step(p)
       \/ \E k \in DiskKey : LoadRow(p, k) \/ \E b \in Body : StoreBegin(p, k, b)

DiskSpec == DiskInit /\ [][DiskNext]_dvars

(* A process runs to the end of its handler, and the lock another process  *)
(* holds is free again and again.                                          *)
DiskFairSpec ==
  /\ DiskSpec
  /\ \A p \in Proc : WF_dvars(Step(p)) /\ SF_dvars(EvictRow(p))

----------------------------------------------------------------------------

(* Once every process is between operations the rows are within the cap,   *)
(* however the processes' stores, loads, crashes and restarts interleave:  *)
(* whoever adds a row sums after adding it.                                *)
CapHolds == (\A p \in Proc : At(p, "idle")) => RowBytes <= DiskMax

(* A single process that is between operations has a body file for every   *)
(* row, even after crashes between an unlink and its DELETE: the startup   *)
(* sweep drops what the crash left.                                        *)
RowsHaveBodies == (\A p \in Proc : At(p, "idle")) => DOMAIN row \subseteq DOMAIN file

(* A load hands out the body its row was stored with, in full. *)
LoadIntact ==
  \A p \in Proc : At(p, "touch") =>
    job[p].file = [body |-> job[p].body, whole |-> TRUE]


(* An operation that has begun ends, or its process does. *)
OperationsEnd == \A p \in Proc : (~ At(p, "down")) ~> job[p].at \in {"idle", "down"}
=============================================================================
