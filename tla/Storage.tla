------------------------------- MODULE Storage -------------------------------
(***************************************************************************)
(* Files on the local disk: what src/storage.ts does to them, the sweep of *)
(* src/jobs/cleanup.ts that the worker's maintenance queue runs, and time. *)
(*                                                                         *)
(* Time is counted in ticks, one sweep being asked for in each.  A file's  *)
(* age is the number of ticks since it was last written (its mtime); it    *)
(* stops growing where the sweep would take the file.  A sweep is shorter  *)
(* than a tick.                                                            *)
(***************************************************************************)
EXTENDS Naturals, FiniteSets

CONSTANTS Key,        \* the files, the staging files of uploads included
          Staging,    \* those outside the storage root
          Retention,  \* FILE_RETENTION_HOURS, in ticks
          MaxFaults   \* bound: errors of disk or Redis, and processes that die

ASSUME StorageAssumption == /\ IsFiniteSet(Key)
                            /\ Staging \subseteq Key
                            /\ Retention \in Nat \ {0}
                            /\ MaxFaults \in Nat

VARIABLES
  bytes,    \* each file: "none" yet, "partial", "whole", or "gone"
  age,      \* ticks since it was last written
  stalled,  \* the files whose write once stopped for longer than the retention
  sweeper,  \* the maintenance job: "idle", "due" or "sweeping"
  listed,   \* the files the running sweep has still to visit
  condemned, \* the one it has found old and is removing, if any
  deleted,  \* how many it has removed
  stats,    \* the counters of metrics.ts that are about files
  faults    \* errors and deaths so far

sweepVars == <<sweeper, listed, condemned, deleted>>
storageVars == <<bytes, age, stalled, sweepVars, stats, faults>>

StorageTypeOK ==
    /\ bytes \in [Key -> {"none", "partial", "whole", "gone"}]
    /\ age \in [Key -> 0..(Retention + 1)]
    /\ sweeper \in {"idle", "due", "sweeping"}
    /\ listed \subseteq Key \ Staging
    /\ condemned \subseteq Key \ Staging
    /\ stalled \subseteq Key \ Staging
    /\ deleted \in Nat
    /\ stats \in [{"uploads", "queued", "cleaned"} -> Nat]
    /\ faults \in 0..MaxFaults

StorageInit == /\ bytes = [k \in Key |-> "none"]
               /\ age = [k \in Key |-> 0]
               /\ sweeper = "idle"
               /\ listed = {}
               /\ condemned = {}
               /\ stalled = {}
               /\ deleted = 0
               /\ stats = [name \in {"uploads", "queued", "cleaned"} |-> 0]
               /\ faults = 0

Fault == faults < MaxFaults /\ faults' = faults + 1

\* incrementCounter is best effort: an error is no error to its caller.  When
\* the connection is lost, INCRBY was not executed, or it was and its answer is
\* lost, or it was and ioredis sends it again.
IncrementCounter(name, by) ==
    \/ stats' = [stats EXCEPT ![name] = @ + by] /\ UNCHANGED faults
    \/ Fault /\ \E counted \in {0, by, by + by} :
                  stats' = [stats EXCEPT ![name] = @ + counted]

-----------------------------------------------------------------------------
(* The operations of LocalStorage.                                         *)

\* stat() finds the file.
Exists(k) == bytes[k] \in {"partial", "whole"}

\* A write stream is opened, which truncates what is there ...
BeginWrite(k) == /\ bytes' = [bytes EXCEPT ![k] = "partial"]
                 /\ age' = [age EXCEPT ![k] = 0]

\* ... and its last byte is written: a file unlinked meanwhile stays unlinked.
Written(files, k) == [files EXCEPT ![k] = IF Exists(k) THEN "whole" ELSE @]
EndWrite(k) == /\ bytes' = Written(bytes, k)
               /\ age' = [age EXCEPT ![k] = IF Exists(k) THEN 0 ELSE @]

\* rm with force: a file that is not there is no error.
Removed(files, k) == [files EXCEPT ![k] = IF Exists(k) THEN "gone" ELSE @]
Remove(k) == bytes' = Removed(bytes, k) /\ UNCHANGED age

\* rename: the file keeps its mtime.
Rename(from, to) == /\ bytes' = [Removed(bytes, from) EXCEPT ![to] = bytes[from]]
                    /\ age' = [age EXCEPT ![to] = age[from]]

-----------------------------------------------------------------------------
(* The sweep and the clock.                                                *)

\* Mutants: a file that is just as old as it may be is taken; and none ever is,
\* the cutoff being computed in another unit.
ExpiredAtOnce(k) == age[k] >= Retention
ExpiredNever(k) == age[k] > 60 * Retention

\* mtime < cutoff.
Expired(k) == age[k] > Retention

\* The maintenance worker takes the scheduled job and lists the directories.
SweepStart == /\ sweeper = "due"
              /\ sweeper' = "sweeping"
              /\ listed' = {k \in Key \ Staging : Exists(k)}
              /\ UNCHANGED <<bytes, age, stalled, condemned, deleted, stats, faults>>

\* The file at hand is looked at.
Look(k) == /\ k \in listed
           /\ condemned = {}
           /\ listed' = listed \ {k}
           /\ condemned' = IF Exists(k) /\ Expired(k) THEN {k} ELSE {}

\* Mutant: what is scanned is counted.
SweepLookCounting(k) == /\ Look(k)
                        /\ deleted' = deleted + 1
                        /\ UNCHANGED <<bytes, age, stalled, sweeper, stats, faults>>

\* The next file: a young one or a missing one is left, an old one is to go ...
SweepLook(k) == /\ Look(k)
                /\ UNCHANGED <<bytes, age, stalled, sweeper, deleted, stats, faults>>

\* ... whatever has become of it since.
SweepRemove(k) == /\ k \in condemned
                  /\ condemned' = {}
                  /\ Remove(k)
                  /\ deleted' = deleted + 1
                  /\ UNCHANGED <<stalled, sweeper, listed, stats, faults>>

\* A file that cannot be looked at or removed is left to the next sweep.
SweepError(k) == /\ \/ k \in listed /\ condemned = {} /\ listed' = listed \ {k} /\ UNCHANGED condemned
                    \/ k \in condemned /\ condemned' = {} /\ UNCHANGED listed
                 /\ Fault
                 /\ UNCHANGED <<bytes, age, stalled, sweeper, deleted, stats>>

SweepEnd == /\ sweeper = "sweeping"
            /\ listed = {} /\ condemned = {}
            /\ sweeper' = "idle"
            /\ deleted' = 0
            /\ IncrementCounter("cleaned", deleted)
            /\ UNCHANGED <<bytes, age, stalled, listed, condemned>>

\* The process dies: the queue gives the job to another.
SweepDies == /\ sweeper = "sweeping"
             /\ Fault
             /\ sweeper' = "due"
             /\ listed' = {} /\ condemned' = {}
             /\ deleted' = 0
             /\ UNCHANGED <<bytes, age, stalled, stats>>

Sweep == \/ SweepStart \/ SweepEnd
         \/ \E k \in Key : SweepLook(k) \/ SweepRemove(k)

SweepFails == SweepDies \/ \E k \in Key : SweepError(k)

StorageTick ==
    /\ sweeper # "sweeping"
    /\ sweeper' = "due"
    /\ age' = [k \in Key |-> IF Exists(k) /\ age[k] <= Retention THEN age[k] + 1
                             ELSE age[k]]
    /\ stalled' = stalled \cup {k \in Key \ Staging : bytes[k] = "partial" /\ age[k] >= Retention}
    /\ UNCHANGED <<bytes, listed, condemned, deleted, stats, faults>>
=============================================================================
