-------------------------------- MODULE Files --------------------------------
(***************************************************************************)
(* The life of a file, from its upload to the sweep that removes it:       *)
(* Uploads, Processors and Downloads over one Storage, in an API process   *)
(* and worker processes that know nothing of each other's steps.           *)
(***************************************************************************)
EXTENDS Processors, Downloads

ASSUME FilesAssumption == Public = {Output[a] : a \in DOMAIN Output}

vars == <<storageVars, uploadVars, processorVars, downloadVars>>

FilesTypeOK == StorageTypeOK /\ UploadTypeOK /\ ProcessorTypeOK /\ DownloadTypeOK

Init == StorageInit /\ UploadInit /\ ProcessorInit /\ DownloadInit

\* A client learns the key of an output from the result of the job.
Known(k) == \E u \in Upload : job[u] = "completed" /\ k = outputKey(u)

\* The API process dies, with every request it was at: it is stopped, or a
\* download's stream fails and nobody handles its error.
ApiDies == /\ \/ Fault
              \/ \E d \in Download : StreamBreaks(d)
           /\ UploadsDie
           /\ GetsDie
           /\ UNCHANGED <<bytes, age, stalled, sweepVars, stats, ttl, processorVars, link>>

Tick == StorageTick /\ RecordTick /\ LinkTick /\ UNCHANGED <<request, processorVars, get>>

Uploading(u) == (Receive(u) \/ UploadStep(u)) /\ UNCHANGED <<processorVars, downloadVars>>
UploadFails(u) == HandlerFails(u) /\ UNCHANGED <<processorVars, downloadVars>>
Processing(u) == JobStepOf(u) /\ UNCHANGED downloadVars
JobArrives(u) == Submit(u) /\ UNCHANGED downloadVars
JobFaults(u) == (DiskFails(u) \/ RunDies(u)) /\ UNCHANGED downloadVars
Requests == \E k \in Public : /\ Known(k)
                              /\ MintLink(k) \/ \E d \in Download : Get(d, k)
                              /\ UNCHANGED <<uploadVars, processorVars>>
Downloading(d) == GetStep(d) /\ UNCHANGED <<uploadVars, processorVars>>
Sweeping == Sweep /\ UNCHANGED <<uploadVars, processorVars, downloadVars>>
SweepFaults == SweepFails /\ UNCHANGED <<uploadVars, processorVars, downloadVars>>

Next == \/ Tick \/ ApiDies \/ Requests \/ Sweeping \/ SweepFaults
        \/ \E u \in Upload : \/ Uploading(u) \/ UploadFails(u)
                             \/ JobArrives(u) \/ Processing(u) \/ JobFaults(u)
        \/ \E d \in Download : Downloading(d)

Spec == Init /\ [][Next]_vars

\* Time passes, the scheduled sweep is run, and so is every run of a job.
\* Nothing is assumed of clients.
Fairness == /\ WF_vars(Tick)
            /\ WF_vars(Sweeping)
            /\ \A u \in Upload : WF_vars(Processing(u))

FairSpec == Spec /\ Fairness

-----------------------------------------------------------------------------
\* The sweep may take the file: it is older than the retention, or once was when
\* its write had stopped for that long, and may have been condemned then.
MayBeSwept(k) == age[k] > Retention \/ k \in stalled

\* While a record can be read and the sweep may not take its file, the bytes it
\* names are in storage, and all of them: the record is saved after the bytes
\* (routes.ts), and the sweep keeps what is young (cleanup.ts).
RecordHasBytes == \A u \in Upload : Live(u) /\ ~MayBeSwept(u) => bytes[u] = "whole"

\* A request that was answered leaves no staging file (upload.ts:11), unless the
\* file could not be removed; a process that dies may.
AnsweredLeavesNoStaging ==
    \A u \in Upload : request[u] \in Answered \ {"stranded"} => ~Exists(Temp[u])

\* A completed job's output was written to its end: it is whole until swept.
ResultIsWhole == \A u \in Upload : job[u] = "completed" =>
                     \/ bytes[outputKey(u)] = "whole"
                     \/ bytes[outputKey(u)] = "gone" /\ MayBeSwept(outputKey(u))

\* A download that comes to its end was announced as long as the whole file.
ServedIsWhole == \A d \in Download : get[d].at \in {"body", "served"} => get[d].size = "whole"

\* The uploads that were counted are those whose record was saved and whose
\* handler came past it, answered or not.  Every error makes the counter miss
\* one or count one twice; no removal is counted more than twice; and while
\* nothing fails, everything is counted once.
FileCountersHold ==
    LET counted == Cardinality({u \in Upload : request[u] \in {"counted", "created", "unanswered"}})
        gone == Cardinality({k \in Key \ Staging : bytes[k] = "gone"})
    IN  /\ stats["uploads"] - counted \in -faults .. faults
        /\ stats["cleaned"] + 2 * deleted <= 2 * gone
        /\ faults = 0 => stats["cleaned"] + deleted = gone

\* With signing on, a file is only looked up for a link that was minted for
\* that very file and has not lapsed.
OnlyGranted == [][\A d \in Download :
                    /\ Signing
                    /\ get[d].at \in Outcomes
                    /\ get'[d].at = "exists"
                    => link[get'[d].key] >= 0]_vars

\* A file is written once and never comes back: retries write files of their
\* own (outputKey), and an upload has a key of its own.
Rank(b) == CASE b = "none" -> 0 [] b = "partial" -> 1 [] b = "whole" -> 2 [] OTHER -> 3
WrittenOnce == [][\A k \in Key : Rank(bytes[k]) <= Rank(bytes'[k])]_vars

\* What is in storage is swept in the end, whatever became of the request, the
\* run or the process that wrote it (cleanup.ts).
StoredIsSwept == \A k \in Key \ Staging : Exists(k) ~> ~Exists(k)

\* A job that was accepted completes or fails, however its input, its options
\* and the disk behave: no stage waits for what cannot come.
JobIsDecided == \A u \in Upload : job[u] = "queued" ~> job[u] \in {"completed", "failed"}

-----------------------------------------------------------------------------
(* Why it holds: what every step relies on.                                *)

\* Only the sweep takes what is in storage, and it takes what it found old: a
\* file that is young again was being written then, and is known to have stalled.
GoneIsOld == \A k \in Key \ Staging :
    /\ bytes[k] = "gone" => MayBeSwept(k)
    /\ k \in condemned => Exists(k) /\ MayBeSwept(k)
    /\ bytes[k] = "partial" /\ age[k] > Retention => k \in stalled

\* How far a request has come says where its bytes are.
UploadAt(u) ==
    /\ request[u] = "idle" => bytes[Temp[u]] = "none"
    /\ request[u] = "receiving" => bytes[Temp[u]] = "partial"
    /\ request[u] \in {"staged", "copying"} => bytes[Temp[u]] = "whole"
    /\ request[u] \in {"adopted", "saved", "counted", "created"} => bytes[Temp[u]] = "gone"
    /\ request[u] \in {"idle", "receiving", "staged", "refused"} => bytes[u] = "none"
    /\ request[u] = "copying" => bytes[u] \in {"partial", "gone"}
    /\ request[u] \in {"adopted", "saved", "counted", "created"} => bytes[u] \in {"whole", "gone"}
UploadIsWhere == \A u \in Upload : UploadAt(u)

\* A record is saved when the bytes have been.
RecordAt(u) == Live(u) => /\ request[u] \in {"saved", "counted"} \cup Dead
                                          \cup {"failing", "failed", "stranded", "created"}
                          /\ bytes[u] \in {"whole", "gone"}
RecordIsLast == \A u \in Upload : RecordAt(u)

\* The stages the run of a job has behind it.
Past(u, what) == \E i \in 1..(stage[u] - 1) : Stages(task[u].op)[i].does = what

\* How far a job has come says where its outputs are.
JobAt(u) ==
    /\ job[u] = "none" => run[u] = 0 /\ stage[u] = 1
    /\ job[u] = "queued" => run[u] < MaxRuns
    /\ job[u] \in {"running", "completed"} => run[u] > 0
    /\ \A n \in 1..MaxRuns : n > run[u] => bytes[Output[<<u, n>>]] = "none"
    /\ job[u] = "running" =>
         bytes[outputKey(u)] \in IF Past(u, "write") THEN {"whole", "gone"}
                                 ELSE IF Past(u, "create") THEN {"partial", "gone"}
                                 ELSE {"none"}
    /\ job[u] = "completed" => bytes[outputKey(u)] \in {"whole", "gone"}
OutputIsWhere == \A u \in Upload : JobAt(u)

\* A download is of the output of a completed job, and has seen all of it.
DownloadIsOfResult ==
    \A d \in Download :
      /\ get[d].at \in Awaits => Known(get[d].key)
      /\ get[d].at \in {"open", "fd", "body", "served"} => get[d].size = "whole"

JobsAreCounted == stats["queued"] <= Cardinality({u \in Upload : job[u] # "none"}) + faults

FilesInv == /\ FilesTypeOK
            /\ GoneIsOld /\ UploadIsWhere /\ RecordIsLast /\ OutputIsWhere
            /\ AnsweredLeavesNoStaging /\ DownloadIsOfResult
            /\ FileCountersHold /\ JobsAreCounted

-----------------------------------------------------------------------------
(* What the comments say.                                                  *)

\* queue.ts:49: failures worth retrying are transient, a momentary disk
\* hiccup; what is given up without a retry is what no retry could mend.
PermanentIsHopeless ==
    \A u \in Upload : job[u] = "failed" /\ error[u] \in PermanentErrors =>
        \/ ~task[u].valid
        \/ ~Live(u)
        \/ ~Exists(u)
        \/ ~Fits(task[u].op, content[u])
=============================================================================
