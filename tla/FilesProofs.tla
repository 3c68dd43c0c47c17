----------------------------- MODULE FilesProofs -----------------------------
(***************************************************************************)
(* Proofs about Files, for every set of files, uploads and downloads, and  *)
(* every retention, lifetime and number of runs and faults.                *)
(***************************************************************************)
EXTENDS Files, FiniteSetTheorems, TLAPS

Bytes == {"none", "partial", "whole", "gone"}
Ages == 0..(Retention + 1)
Counters == {"uploads", "queued", "cleaned"}

\* Storage keys, staging files and outputs are different files.
LEMMA KeysDiffer ==
  /\ \A u \in Upload : /\ u \in Key \ Staging /\ Temp[u] \in Staging /\ Temp[u] \in Key
                       /\ Temp[u] # u
                       /\ \A v \in Upload : v # u => Temp[u] # Temp[v] /\ Temp[u] # v
  /\ \A u \in Upload, n \in 1..MaxRuns :
       /\ Output[<<u, n>>] \in Key \ Staging /\ Output[<<u, n>>] \in Public
       /\ \A v \in Upload : Output[<<u, n>>] # v /\ Output[<<u, n>>] # Temp[v]
       /\ \A v \in Upload, m \in 1..MaxRuns : Output[<<u, n>>] = Output[<<v, m>>] => u = v /\ n = m
<1>1. ASSUME NEW u \in Upload
      PROVE  /\ u \in Key \ Staging /\ Temp[u] \in Staging /\ Temp[u] \in Key
             /\ Temp[u] # u
             /\ \A v \in Upload : v # u => Temp[u] # Temp[v] /\ Temp[u] # v
  BY UploadAssumption, StorageAssumption
<1>2. ASSUME NEW u \in Upload, NEW n \in 1..MaxRuns
      PROVE  /\ Output[<<u, n>>] \in Key \ Staging /\ Output[<<u, n>>] \in Public
             /\ \A v \in Upload : Output[<<u, n>>] # v /\ Output[<<u, n>>] # Temp[v]
             /\ \A v \in Upload, m \in 1..MaxRuns : Output[<<u, n>>] = Output[<<v, m>>] => u = v /\ n = m
  <2>1. /\ <<u, n>> \in DOMAIN Output
        /\ Output[<<u, n>>] \in Key \ (Staging \cup Upload)
    BY ProcessorAssumption
  <2>2. Output[<<u, n>>] \in Public
    BY <2>1, FilesAssumption
  <2>3. \A v \in Upload, m \in 1..MaxRuns : Output[<<u, n>>] = Output[<<v, m>>] => <<u, n>> = <<v, m>>
    BY ProcessorAssumption
  <2> QED BY <1>1, <2>1, <2>2, <2>3
<1> QED BY <1>1, <1>2

\* Every operation creates its output in one stage, writes it in the next, and
\* reports every failure as one of the errors there are.
LEMMA TableShape ==
  ASSUME NEW op \in Operation
  PROVE  /\ Len(Stages(op)) \in Nat /\ Len(Stages(op)) > 0
         /\ \A i \in 1..Len(Stages(op)) : Stages(op)[i].fails \in PermanentErrors \cup {"Error"}
         /\ \E c \in 1..(Len(Stages(op)) - 1) :
              \A i \in 1..Len(Stages(op)) :
                /\ Stages(op)[i].does = "create" <=> i = c
                /\ Stages(op)[i].does = "write" <=> i = c + 1
<1> DEFINE Shape(s, n, c) ==
      /\ Len(s) = n
      /\ \A i \in 1..n : /\ s[i].fails \in PermanentErrors \cup {"Error"}
                         /\ s[i].does = "create" <=> i = c
                         /\ s[i].does = "write" <=> i = c + 1
<1>1. Shape(ImageStages, 10, 9)
  BY DEF ImageStages, Stage, PermanentErrors
<1>2. Shape(ResizeStages, 12, 9)
  BY DEF ResizeStages, ImageStages, Stage, PermanentErrors
<1>3. Shape(OtherImageStages, 11, 9)
  BY DEF OtherImageStages, ImageStages, Stage, PermanentErrors
<1>4. Shape(ValidateStages, 7, 6)
  BY DEF ValidateStages, Stage, PermanentErrors
<1>5. Shape(TransformStages, 6, 5)
  BY DEF TransformStages, Stage, PermanentErrors
<1>6. \/ Stages(op) = ResizeStages \/ Stages(op) = OtherImageStages
      \/ Stages(op) = ValidateStages \/ Stages(op) = TransformStages
  BY DEF Stages
<1>7. \E n \in 2..12 : \E c \in 1..(n - 1) : Shape(Stages(op), n, c)
  <2>1. /\ \E c \in 1..(12 - 1) : Shape(ResizeStages, 12, c) /\ 12 \in 2..12
        /\ \E c \in 1..(11 - 1) : Shape(OtherImageStages, 11, c) /\ 11 \in 2..12
        /\ \E c \in 1..(7 - 1) : Shape(ValidateStages, 7, c) /\ 7 \in 2..12
        /\ \E c \in 1..(6 - 1) : Shape(TransformStages, 6, c) /\ 6 \in 2..12
    <3> HIDE DEF Shape
    <3> QED BY <1>2, <1>3, <1>4, <1>5
  <2> HIDE DEF Shape
  <2> QED BY <1>6, <2>1
<1>8. PICK n \in 2..12 : \E c \in 1..(n - 1) : Shape(Stages(op), n, c)
  BY <1>7
<1>9. PICK c \in 1..(n - 1) : Shape(Stages(op), n, c)
  BY <1>8
<1>10. Len(Stages(op)) = n /\ n \in Nat /\ n > 0 /\ c \in 1..(Len(Stages(op)) - 1)
  BY <1>9
<1>11. \A i \in 1..Len(Stages(op)) :
         /\ Stages(op)[i].fails \in PermanentErrors \cup {"Error"}
         /\ Stages(op)[i].does = "create" <=> i = c
         /\ Stages(op)[i].does = "write" <=> i = c + 1
  BY <1>9, <1>10
<1> HIDE DEF Shape
<1> QED BY <1>10, <1>11

-----------------------------------------------------------------------------
(* Counting.                                                               *)

Made == {"counted", "created", "unanswered"}
UploadsMade == {u \in Upload : request[u] \in Made}
FilesGone == {k \in Key \ Staging : bytes[k] = "gone"}
JobsAsked == {u \in Upload : job[u] # "none"}

\* Sets of files are finite, and no larger than that of all files.
LEMMA FilesAreFinite ==
  ASSUME NEW S \in SUBSET Key
  PROVE  IsFiniteSet(S) /\ Cardinality(S) \in Nat /\ Cardinality(S) <= Cardinality(Key)
         /\ Cardinality(Key) \in Nat
BY StorageAssumption, FS_Subset, FS_CardinalityType

\* One more file, one more in the count.
LEMMA OneMore ==
  ASSUME NEW S \in SUBSET Key, NEW k \in Key, k \notin S
  PROVE  Cardinality(S \cup {k}) = Cardinality(S) + 1
BY FilesAreFinite, FS_AddElement

\* The counters in words of the sets they count.
LEMMA CountersInWords ==
  /\ FileCountersHold <=>
       /\ stats["uploads"] - Cardinality(UploadsMade) \in -faults .. faults
       /\ stats["cleaned"] + 2 * deleted <= 2 * Cardinality(FilesGone)
       /\ faults = 0 => stats["cleaned"] + deleted = Cardinality(FilesGone)
  /\ JobsAreCounted <=> stats["queued"] <= Cardinality(JobsAsked) + faults
BY DEF FileCountersHold, JobsAreCounted, UploadsMade, FilesGone, JobsAsked, Made

\* What the counters say is kept by a step that counts as many as it makes, give
\* or take its errors.
LEMMA CountersKept ==
  ASSUME FilesInv, faults' \in Nat, stats' \in [Counters -> Nat], deleted' = deleted,
         FilesGone' = FilesGone,
         NEW more \in {0, 1}, Cardinality(UploadsMade') = Cardinality(UploadsMade) + more,
         stats'["uploads"] - stats["uploads"] - more \in -(faults' - faults) .. (faults' - faults),
         faults' >= faults, stats'["cleaned"] = stats["cleaned"]
  PROVE  FileCountersHold'
<1>1. /\ stats \in [Counters -> Nat] /\ deleted \in Nat /\ faults \in Nat
  BY StorageAssumption DEF FilesInv, FilesTypeOK, StorageTypeOK, Counters
<1>2. /\ stats["uploads"] \in Nat /\ stats'["uploads"] \in Nat
      /\ UploadsMade \in SUBSET Key /\ Cardinality(UploadsMade) \in Nat
  <2>1. UploadsMade \in SUBSET Key
    BY KeysDiffer DEF UploadsMade
  <2> QED BY <1>1, <2>1, FilesAreFinite DEF Counters
<1>3. /\ stats["uploads"] - Cardinality(UploadsMade) \in -faults .. faults
      /\ stats["cleaned"] + 2 * deleted <= 2 * Cardinality(FilesGone)
      /\ faults = 0 => stats["cleaned"] + deleted = Cardinality(FilesGone)
  BY CountersInWords DEF FilesInv
<1>4. stats'["uploads"] - Cardinality(UploadsMade') \in -faults' .. faults'
  BY <1>1, <1>2, <1>3
<1>5. /\ stats'["cleaned"] + 2 * deleted' <= 2 * Cardinality(FilesGone')
      /\ faults' = 0 => stats'["cleaned"] + deleted' = Cardinality(FilesGone')
  BY <1>1, <1>3
<1> QED BY <1>4, <1>5 DEF FileCountersHold, UploadsMade, FilesGone, Made

-----------------------------------------------------------------------------
(* The steps of an upload touch its bytes, its staging file and its record. *)

\* No file comes back, or loses what was written.
Grows(b, c) == c = b \/ c = "gone" \/ b = "none" \/ (b = "partial" /\ c = "whole")
Grown == \A k \in Key : Grows(bytes[k], bytes'[k])

\* A write never moves a file that was found old out of the sweep's reach.
Moved(k) ==
  /\ bytes'[k] = "gone" <=> bytes[k] = "gone"
  /\ bytes[k] \in {"partial", "whole"} => bytes'[k] \in {"partial", "whole"}
  /\ \/ age'[k] = age[k] /\ (bytes'[k] = "partial" => bytes[k] = "partial")
     \/ bytes[k] = "none" /\ (bytes'[k] = "partial" => age'[k] = 0)
     \/ bytes[k] = "partial" /\ bytes'[k] = "whole"

LEMMA MovesKeepOld ==
  ASSUME FilesInv, \A k \in Key \ Staging : Moved(k), UNCHANGED <<stalled, condemned>>
  PROVE  GoneIsOld'
<1>1. Retention \in Nat
  BY StorageAssumption
<1> QED BY <1>1 DEF FilesInv, GoneIsOld, MayBeSwept, Moved, Exists

UploadMoves(u) ==
  /\ UNCHANGED <<sweepVars, stalled, processorVars, downloadVars>>
  /\ bytes' \in [Key -> Bytes] /\ age' \in [Key -> Ages]
  /\ \A k \in Key \ {u, Temp[u]} : bytes'[k] = bytes[k] /\ age'[k] = age[k]
  /\ Grows(bytes[u], bytes'[u]) /\ Grows(bytes[Temp[u]], bytes'[Temp[u]])
  /\ Moved(u)
  /\ ttl' \in [Upload -> 0..RecordTtl]
  /\ \A v \in Upload \ {u} : ttl'[v] = ttl[v]
  /\ request' \in [Upload -> {"idle"} \cup Dead \cup Active \cup Answered]
  /\ \A v \in Upload \ {u} : request'[v] = request[v]
  /\ faults' \in 0..MaxFaults /\ faults' >= faults
  /\ \/ stats' = stats /\ (request'[u] \in Made <=> request[u] \in Made)
     \/ /\ request'[u] \in Made /\ request[u] \notin Made
        /\ \/ stats' = [stats EXCEPT !["uploads"] = @ + 1]
           \/ faults' = faults + 1 /\ \E n \in {0, 1, 2} : stats' = [stats EXCEPT !["uploads"] = @ + n]

\* What every step of an upload leaves alone stays as the invariant says; what
\* remains to be shown is where the upload has come to.
LEMMA UploadStepKeeps ==
  ASSUME FilesInv, NEW u \in Upload, UploadMoves(u),
         UploadAt(u)', RecordAt(u)', (request[u] \in Answered \ {"stranded"} => ~Exists(Temp[u]))'
  PROVE  FilesInv'
<1>1. /\ \A v \in Upload \ {u} : /\ request'[v] = request[v] /\ ttl'[v] = ttl[v]
                                 /\ bytes'[v] = bytes[v] /\ bytes'[Temp[v]] = bytes[Temp[v]]
      /\ \A v \in Upload, n \in 1..MaxRuns : bytes'[Output[<<v, n>>]] = bytes[Output[<<v, n>>]]
  <2>1. \A k \in Key \ {u, Temp[u]} : bytes'[k] = bytes[k]
    BY DEF UploadMoves
  <2>2. \A v \in Upload \ {u} : v \in Key \ {u, Temp[u]} /\ Temp[v] \in Key \ {u, Temp[u]}
    BY KeysDiffer
  <2>3. \A v \in Upload, n \in 1..MaxRuns : Output[<<v, n>>] \in Key \ {u, Temp[u]}
    BY KeysDiffer
  <2>4. \A v \in Upload \ {u} : request'[v] = request[v] /\ ttl'[v] = ttl[v]
    BY DEF UploadMoves
  <2> QED BY <2>1, <2>2, <2>3, <2>4
<1>2. UploadIsWhere' /\ RecordIsLast' /\ AnsweredLeavesNoStaging'
  BY <1>1 DEF FilesInv, UploadIsWhere, RecordIsLast, AnsweredLeavesNoStaging,
              UploadAt, RecordAt, Live, Exists
<1>3. GoneIsOld'
  <2>1. \A k \in Key \ Staging : k # u => k \in Key \ {u, Temp[u]}
    BY KeysDiffer
  <2>2. \A k \in Key \ Staging : Moved(k)
    BY <2>1 DEF UploadMoves, Moved
  <2> QED BY <2>2, MovesKeepOld DEF UploadMoves, sweepVars
<1>4. OutputIsWhere'
  <2> SUFFICES ASSUME NEW v \in Upload PROVE JobAt(v)'
    BY DEF OutputIsWhere
  <2>1. /\ JobAt(v) /\ run[v] \in 0..MaxRuns
        /\ job' = job /\ run' = run /\ stage' = stage /\ task' = task
    BY DEF FilesInv, OutputIsWhere, FilesTypeOK, ProcessorTypeOK, UploadMoves, processorVars
  <2>2. /\ Past(v, "write")' = Past(v, "write") /\ Past(v, "create")' = Past(v, "create")
        /\ outputKey(v)' = outputKey(v)
    BY <2>1 DEF Past, outputKey
  <2>3. run[v] > 0 => bytes'[outputKey(v)] = bytes[outputKey(v)]
    BY <1>1, <2>1 DEF outputKey
  <2> QED BY <1>1, <2>1, <2>2, <2>3 DEF JobAt
<1>5. DownloadIsOfResult'
  BY DEF FilesInv, DownloadIsOfResult, UploadMoves, downloadVars, processorVars, Known, outputKey
<1>6. FileCountersHold' /\ JobsAreCounted'
  <2>1. FilesGone' = FilesGone /\ JobsAsked' = JobsAsked
    BY KeysDiffer DEF FilesGone, JobsAsked, UploadMoves, Moved, processorVars
  <2>2. UploadsMade' = IF request'[u] \in Made THEN UploadsMade \cup {u} ELSE UploadsMade \ {u}
    BY DEF UploadsMade, UploadMoves
  <2>3. UploadsMade \in SUBSET Key /\ u \in Key /\ (u \in UploadsMade <=> request[u] \in Made)
    BY KeysDiffer DEF UploadsMade
  <2>4. PICK more \in {0, 1} : /\ more = 1 <=> request'[u] \in Made /\ request[u] \notin Made
    OBVIOUS
  <2>5. more = 0 => UploadsMade' = UploadsMade
    BY <2>2, <2>3, <2>4 DEF UploadMoves
  <2>6. Cardinality(UploadsMade') = Cardinality(UploadsMade) + more /\ Cardinality(UploadsMade) \in Nat
    <3>1. more = 1 => UploadsMade' = UploadsMade \cup {u} /\ u \notin UploadsMade
      BY <2>2, <2>3, <2>4
    <3>2. Cardinality(UploadsMade) \in Nat
      BY <2>3, FilesAreFinite
    <3>3. more = 1 => Cardinality(UploadsMade') = Cardinality(UploadsMade) + 1
      BY <2>3, <3>1, OneMore
    <3> QED BY <2>5, <3>2, <3>3
  <2>7. /\ stats \in [Counters -> Nat] /\ faults \in Nat /\ faults' \in Nat /\ faults' >= faults
        /\ deleted' = deleted
    BY StorageAssumption DEF FilesInv, FilesTypeOK, StorageTypeOK, Counters, UploadMoves, sweepVars
  <2>8. \/ stats' = stats /\ more = 0
        \/ stats' = [stats EXCEPT !["uploads"] = @ + 1] /\ more = 1
        \/ /\ more = 1 /\ faults' = faults + 1
           /\ \E n \in {0, 1, 2} : stats' = [stats EXCEPT !["uploads"] = @ + n]
    BY <2>4 DEF UploadMoves
  <2>9. /\ stats' \in [Counters -> Nat] /\ stats'["cleaned"] = stats["cleaned"]
        /\ stats'["queued"] = stats["queued"]
        /\ stats'["uploads"] - stats["uploads"] - more \in -(faults' - faults) .. (faults' - faults)
    BY <2>7, <2>8 DEF Counters
  <2>10. FileCountersHold'
    BY <2>1, <2>4, <2>6, <2>7, <2>9, CountersKept
  <2>11. JobsAreCounted'
    <3>1. stats["queued"] <= Cardinality(JobsAsked) + faults
      BY CountersInWords DEF FilesInv
    <3>2. JobsAsked \in SUBSET Key /\ Cardinality(JobsAsked) \in Nat /\ stats["queued"] \in Nat
      BY <2>7, KeysDiffer, FilesAreFinite DEF JobsAsked, Counters
    <3>3. stats'["queued"] <= Cardinality(JobsAsked') + faults'
      BY <2>1, <2>7, <2>9, <3>1, <3>2
    <3> QED BY <3>3 DEF JobsAreCounted, JobsAsked
  <2> QED BY <2>9, <2>10, <2>11
<1>7. FilesTypeOK'
  <2>1. stats' \in [Counters -> Nat]
    BY DEF UploadMoves, FilesInv, FilesTypeOK, StorageTypeOK, Counters
  <2>2. StorageTypeOK'
    BY <2>1 DEF UploadMoves, FilesInv, FilesTypeOK, StorageTypeOK, sweepVars, Counters, Bytes, Ages
  <2>3. UploadTypeOK'
    BY DEF UploadMoves, UploadTypeOK
  <2>4. ProcessorTypeOK' /\ DownloadTypeOK'
    BY DEF UploadMoves, processorVars, downloadVars, FilesInv, FilesTypeOK,
           ProcessorTypeOK, DownloadTypeOK
  <2> QED BY <2>2, <2>3, <2>4 DEF FilesTypeOK
<1> QED BY <1>2, <1>3, <1>4, <1>5, <1>6, <1>7 DEF FilesInv

LEMMA UploadSteps ==
  ASSUME FilesInv, NEW u \in Upload, Uploading(u) \/ UploadFails(u)
  PROVE  FilesInv' /\ Grown
<1> DEFINE Answer == request[u] \in Answered \ {"stranded"} => ~Exists(Temp[u])
           Goal == UploadMoves(u) /\ UploadAt(u)' /\ RecordAt(u)' /\ Answer'
<1>1. /\ bytes \in [Key -> Bytes] /\ age \in [Key -> Ages]
      /\ request \in [Upload -> {"idle"} \cup Dead \cup Active \cup Answered]
      /\ ttl \in [Upload -> 0..RecordTtl]
      /\ faults \in 0..MaxFaults /\ MaxFaults \in Nat
      /\ RecordTtl \in 0..RecordTtl /\ RecordTtl > 0
      /\ stats \in [Counters -> Nat]
  BY StorageAssumption, UploadAssumption
     DEF FilesInv, FilesTypeOK, StorageTypeOK, UploadTypeOK, Bytes, Ages, Counters
<1>2. UploadAt(u) /\ RecordAt(u) /\ Answer
  BY DEF FilesInv, UploadIsWhere, RecordIsLast, AnsweredLeavesNoStaging
<1>3. u \in Key /\ Temp[u] \in Key /\ Temp[u] # u
  BY KeysDiffer
<1>4. 0 \in Ages
  BY StorageAssumption DEF Ages
<1> USE <1>1, <1>2, <1>3, <1>4 DEF UploadMoves, Moved, Made, Dead, Grows, UploadAt, RecordAt, Live, Exists, At, Goes, Quiet
<1>5. ASSUME Receive(u) /\ UNCHANGED <<processorVars, downloadVars>> PROVE Goal
  BY <1>5 DEF Receive, BeginWrite, Bytes, Active, Answered
<1>6. ASSUME Staged(u) /\ UNCHANGED <<processorVars, downloadVars>> PROVE Goal
  BY <1>6 DEF Staged, EndWrite, Written, Remove, Removed, Bytes, Active, Answered
<1>7. ASSUME Adopt(u) /\ UNCHANGED <<processorVars, downloadVars>> PROVE Goal
  BY <1>7 DEF Adopt, Rename, BeginWrite, Removed, Bytes, Active, Answered
<1>8. ASSUME Copied(u) /\ UNCHANGED <<processorVars, downloadVars>> PROVE Goal
  BY <1>8 DEF Copied, Written, Removed, Bytes, Active, Answered
<1>9. ASSUME SaveRecord(u) /\ UNCHANGED <<processorVars, downloadVars>> PROVE Goal
  BY <1>9 DEF SaveRecord, Active, Answered, Bytes
<1>10. ASSUME Created(u) \/ CountUpload(u), UNCHANGED <<processorVars, downloadVars>> PROVE Goal
  BY <1>10 DEF Created, CountUpload, IncrementCounter, Fault, Active, Answered, Bytes
<1>11. ASSUME UploadFails(u) PROVE Goal
  BY <1>11 DEF UploadFails, HandlerFails, Fault, Active, Answered, Bytes
<1>14. ASSUME CatchRemoves(u) /\ UNCHANGED <<processorVars, downloadVars>> PROVE Goal
  BY <1>14 DEF CatchRemoves, Remove, Removed, Active, Answered, Bytes
<1> HIDE DEF Goal
<1>12. Goal
  BY <1>5, <1>6, <1>7, <1>8, <1>9, <1>10, <1>11, <1>14 DEF Uploading, UploadStep
<1>13. Grown
  <2>1. /\ \A k \in Key \ {u, Temp[u]} : bytes'[k] = bytes[k]
        /\ Grows(bytes[u], bytes'[u]) /\ Grows(bytes[Temp[u]], bytes'[Temp[u]])
    BY <1>12 DEF Goal, UploadMoves
  <2> QED BY <2>1 DEF Grown, Grows
<1> QED BY <1>12, <1>13, UploadStepKeeps DEF Goal

-----------------------------------------------------------------------------
(* The steps of a job touch the job, its outputs and the disk's errors.    *)

JobMoves(u) ==
  /\ UNCHANGED <<sweepVars, stalled, uploadVars, downloadVars>>
  /\ bytes' \in [Key -> Bytes] /\ age' \in [Key -> Ages]
  /\ \A k \in Key : (\A n \in 1..MaxRuns : k # Output[<<u, n>>]) => bytes'[k] = bytes[k]
  /\ \A k \in Key : Moved(k)
  /\ Grown
  /\ ProcessorTypeOK'
  /\ \A v \in Upload \ {u} : /\ job'[v] = job[v] /\ run'[v] = run[v]
                             /\ stage'[v] = stage[v] /\ task'[v] = task[v]
  /\ job[u] # "completed" /\ job'[u] # "none"
  /\ faults' \in 0..MaxFaults /\ faults' >= faults
  /\ \/ stats' = stats
     \/ job[u] = "none" /\ stats' = [stats EXCEPT !["queued"] = @ + 1]
     \/ /\ job[u] = "none" /\ faults' = faults + 1
        /\ \E n \in {0, 1, 2} : stats' = [stats EXCEPT !["queued"] = @ + n]

\* What every step of a job leaves alone stays as the invariant says; what
\* remains to be shown is where the job has come to.
LEMMA JobStepKeeps ==
  ASSUME FilesInv, NEW u \in Upload, JobMoves(u), JobAt(u)'
  PROVE  FilesInv'
<1>1. /\ \A v \in Upload : bytes'[v] = bytes[v] /\ bytes'[Temp[v]] = bytes[Temp[v]]
      /\ \A v \in Upload \ {u}, n \in 1..MaxRuns : bytes'[Output[<<v, n>>]] = bytes[Output[<<v, n>>]]
  <2>1. \A k \in Key : (\A n \in 1..MaxRuns : k # Output[<<u, n>>]) => bytes'[k] = bytes[k]
    BY DEF JobMoves
  <2>2. \A v \in Upload : /\ v \in Key /\ Temp[v] \in Key
                          /\ \A n \in 1..MaxRuns : v # Output[<<u, n>>] /\ Temp[v] # Output[<<u, n>>]
    BY KeysDiffer
  <2>3. \A v \in Upload \ {u}, m \in 1..MaxRuns :
          /\ Output[<<v, m>>] \in Key
          /\ \A n \in 1..MaxRuns : Output[<<v, m>>] # Output[<<u, n>>]
    BY KeysDiffer
  <2> QED BY <2>1, <2>2, <2>3
<1>2. request' = request /\ ttl' = ttl /\ link' = link /\ get' = get
  BY DEF JobMoves, uploadVars, downloadVars
<1>3. UploadIsWhere' /\ RecordIsLast' /\ AnsweredLeavesNoStaging'
  BY <1>1, <1>2 DEF FilesInv, UploadIsWhere, RecordIsLast, AnsweredLeavesNoStaging,
              UploadAt, RecordAt, Live, Exists
<1>4. GoneIsOld'
  BY MovesKeepOld DEF JobMoves, sweepVars
<1>5. ASSUME NEW v \in Upload \ {u}
      PROVE  JobAt(v)' /\ outputKey(v)' = outputKey(v) /\ job'[v] = job[v]
  <2>1. /\ JobAt(v) /\ run[v] \in 0..MaxRuns
        /\ job'[v] = job[v] /\ run'[v] = run[v] /\ stage'[v] = stage[v] /\ task'[v] = task[v]
    BY DEF FilesInv, OutputIsWhere, FilesTypeOK, ProcessorTypeOK, JobMoves
  <2>2. /\ Past(v, "write")' = Past(v, "write") /\ Past(v, "create")' = Past(v, "create")
        /\ outputKey(v)' = outputKey(v)
    BY <2>1 DEF Past, outputKey
  <2>3. run[v] > 0 => bytes'[outputKey(v)] = bytes[outputKey(v)]
    BY <1>1, <2>1 DEF outputKey
  <2> QED BY <1>1, <2>1, <2>2, <2>3 DEF JobAt
<1>6. OutputIsWhere'
  BY <1>5 DEF OutputIsWhere
<1>7. DownloadIsOfResult'
  <2>1. ASSUME NEW k, Known(k) PROVE Known(k)'
    BY <1>5, <2>1 DEF Known, JobMoves
  <2> QED BY <1>2, <2>1 DEF FilesInv, DownloadIsOfResult
<1>8. /\ FilesGone' = FilesGone /\ UploadsMade' = UploadsMade
      /\ JobsAsked' = JobsAsked \cup {u}
      /\ UploadsMade \in SUBSET Key /\ FilesGone \in SUBSET Key /\ JobsAsked \in SUBSET Key
      /\ u \in Key
  BY <1>2, KeysDiffer DEF FilesGone, UploadsMade, JobsAsked, JobMoves, Moved
<1>9. /\ Cardinality(JobsAsked) \in Nat
      /\ job[u] = "none" => Cardinality(JobsAsked') = Cardinality(JobsAsked) + 1
      /\ job[u] # "none" => JobsAsked' = JobsAsked
      /\ Cardinality(FilesGone) \in Nat /\ Cardinality(UploadsMade) \in Nat
  BY <1>8, OneMore, FilesAreFinite DEF JobsAsked
<1>10. /\ stats \in [Counters -> Nat] /\ deleted' = deleted
       /\ faults \in Nat /\ faults' \in Nat /\ faults' >= faults
  BY StorageAssumption DEF FilesInv, FilesTypeOK, StorageTypeOK, Counters, JobMoves, sweepVars
<1>11. FileCountersHold' /\ JobsAreCounted'
  <2>1. \/ stats' = stats
        \/ job[u] = "none" /\ stats' = [stats EXCEPT !["queued"] = @ + 1]
        \/ /\ job[u] = "none" /\ faults' = faults + 1
           /\ \E n \in {0, 1, 2} : stats' = [stats EXCEPT !["queued"] = @ + n]
    BY DEF JobMoves
  <2>2. /\ stats' \in [Counters -> Nat]
        /\ stats'["uploads"] = stats["uploads"] /\ stats'["cleaned"] = stats["cleaned"]
        /\ stats["uploads"] \in Nat /\ stats["queued"] \in Nat
        /\ \/ stats'["queued"] = stats["queued"]
           \/ job[u] = "none" /\ stats'["queued"] <= stats["queued"] + 1 + (faults' - faults)
    BY <1>10, <2>1 DEF Counters
  <2>3. /\ stats'["uploads"] - stats["uploads"] - 0 \in -(faults' - faults) .. (faults' - faults)
        /\ Cardinality(UploadsMade') = Cardinality(UploadsMade) + 0
    BY <1>8, <1>9, <1>10, <2>2
  <2>4. FileCountersHold'
    BY <1>8, <1>10, <2>2, <2>3, CountersKept
  <2>5. stats["queued"] <= Cardinality(JobsAsked) + faults
    BY CountersInWords DEF FilesInv
  <2>6. stats'["queued"] <= Cardinality(JobsAsked') + faults'
    <3>1. CASE stats'["queued"] = stats["queued"]
      <4>1. Cardinality(JobsAsked') \in Nat /\ Cardinality(JobsAsked') >= Cardinality(JobsAsked)
        BY <1>9
      <4> QED BY <1>9, <1>10, <2>2, <2>5, <3>1, <4>1
    <3>2. CASE job[u] = "none" /\ stats'["queued"] <= stats["queued"] + 1 + (faults' - faults)
      <4>1. stats'["queued"] \in Nat /\ Cardinality(JobsAsked') = Cardinality(JobsAsked) + 1
        BY <1>9, <2>2, <3>2 DEF Counters
      <4> QED BY <1>9, <1>10, <2>2, <2>5, <3>2, <4>1
    <3> QED BY <2>2, <3>1, <3>2
  <2>7. JobsAreCounted'
    BY <2>6 DEF JobsAreCounted, JobsAsked
  <2> QED BY <2>4, <2>7
<1>12. FilesTypeOK'
  <2>1. stats' \in [Counters -> Nat]
    BY <1>10 DEF JobMoves, Counters
  <2>2. StorageTypeOK'
    BY <2>1 DEF JobMoves, FilesInv, FilesTypeOK, StorageTypeOK, sweepVars, Counters, Bytes, Ages
  <2>3. UploadTypeOK' /\ DownloadTypeOK'
    BY <1>2 DEF FilesInv, FilesTypeOK, UploadTypeOK, DownloadTypeOK
  <2> QED BY <2>2, <2>3 DEF FilesTypeOK, JobMoves
<1> QED BY <1>3, <1>4, <1>6, <1>7, <1>11, <1>12 DEF FilesInv

\* A stage that is done puts itself behind the run, and nothing else; the last
\* one comes after the output was written, or is that itself.
LEMMA DoneMoves ==
  ASSUME FilesInv, NEW u \in Upload, job[u] = "running", Done(u), UNCHANGED <<content, task, run>>
  PROVE  /\ ProcessorTypeOK'
         /\ \A v \in Upload \ {u} : /\ job'[v] = job[v] /\ run'[v] = run[v]
                                    /\ stage'[v] = stage[v] /\ task'[v] = task[v]
         /\ job'[u] \in {"running", "completed"} /\ outputKey(u)' = outputKey(u)
         /\ job'[u] = "running" =>
              /\ Past(u, "create")' <=> Past(u, "create") \/ Now(u).does = "create"
              /\ Past(u, "write")' <=> Past(u, "write") \/ Now(u).does = "write"
         /\ job'[u] = "completed" => Past(u, "write") \/ Now(u).does = "write"
         /\ Past(u, "write") => Past(u, "create")
         /\ Now(u).does = "create" => ~Past(u, "create") /\ ~Past(u, "write")
         /\ Now(u).does = "write" => Past(u, "create") /\ ~Past(u, "write")
<1>1. /\ task[u].op \in Operation /\ stage \in [Upload -> Nat]
      /\ \A v \in Upload : stage[v] \in 1..Len(Stages(task[v].op))
      /\ job \in [Upload -> {"none", "queued", "running", "completed", "failed"}]
      /\ ProcessorTypeOK
  BY DEF FilesInv, FilesTypeOK, ProcessorTypeOK
<1> DEFINE T == Stages(task[u].op)
<1>2. PICK c \in 1..(Len(T) - 1) : \A i \in 1..Len(T) : /\ T[i].does = "create" <=> i = c
                                                        /\ T[i].does = "write" <=> i = c + 1
  BY <1>1, TableShape
<1>3. Len(T) \in Nat
  BY <1>1, TableShape
<1> HIDE DEF T
<1>4. /\ \/ /\ stage[u] < Len(T) /\ stage' = [stage EXCEPT ![u] = @ + 1] /\ job' = job
         \/ stage[u] >= Len(T) /\ job' = [job EXCEPT ![u] = "completed"] /\ stage' = stage
      /\ error' = error /\ content' = content /\ task' = task /\ run' = run
  BY <1>1, <1>3 DEF Done, T
<1>5. stage[u] \in 1..Len(T)
  BY <1>1 DEF T
<1>6. /\ stage' \in [Upload -> Nat] /\ stage'[u] \in 1..Len(T)
      /\ \A v \in Upload \ {u} : stage'[v] = stage[v] /\ job'[v] = job[v]
      /\ job' \in [Upload -> {"none", "queued", "running", "completed", "failed"}]
      /\ job'[u] = "running" => stage'[u] = stage[u] + 1
      /\ job'[u] = "completed" => stage[u] = Len(T)
      /\ job'[u] \in {"running", "completed"}
  BY <1>1, <1>3, <1>4, <1>5
<1>7. ProcessorTypeOK'
  BY <1>1, <1>4, <1>6 DEF ProcessorTypeOK, T
<1>8. \A s \in 1..(Len(T) + 1) :
        /\ (\E i \in 1..(s - 1) : T[i].does = "create") <=> s > c
        /\ (\E i \in 1..(s - 1) : T[i].does = "write") <=> s > c + 1
  BY <1>2, <1>3
<1>9. /\ T[stage[u]].does = "create" <=> stage[u] = c
      /\ T[stage[u]].does = "write" <=> stage[u] = c + 1
  BY <1>2, <1>5
<1>10. /\ Past(u, "create") <=> stage[u] > c
       /\ Past(u, "write") <=> stage[u] > c + 1
       /\ Past(u, "create")' <=> stage'[u] > c
       /\ Past(u, "write")' <=> stage'[u] > c + 1
       /\ Now(u) = T[stage[u]]
  BY <1>3, <1>4, <1>5, <1>6, <1>8 DEF Past, Now, T
<1>11. outputKey(u)' = outputKey(u)
  BY <1>4 DEF outputKey
<1> QED BY <1>2, <1>3, <1>4, <1>5, <1>6, <1>7, <1>9, <1>10, <1>11

\* A run that ends without a result leaves its job queued again or failed.
LEMMA RejectMoves ==
  ASSUME FilesInv, NEW u \in Upload, job[u] = "running",
         \/ Rejects(u, Now(u).fails)
         \/ RunEnds(u, FALSE) /\ UNCHANGED <<stage, error>>,
         UNCHANGED <<bytes, age, stats>>, Rest, UNCHANGED downloadVars,
         UNCHANGED faults \/ Fault
  PROVE  JobMoves(u) /\ JobAt(u)'
<1>1. /\ task[u].op \in Operation /\ stage[u] \in 1..Len(Stages(task[u].op))
      /\ ProcessorTypeOK /\ StorageTypeOK /\ JobAt(u)
  BY DEF FilesInv, FilesTypeOK, ProcessorTypeOK, OutputIsWhere
<1>2. Now(u).fails \in PermanentErrors \cup {"Error"}
  BY <1>1, TableShape DEF Now
<1>3. /\ \E j \in {"failed", "queued"} :
           /\ job' = [job EXCEPT ![u] = j]
           /\ j = "queued" => run[u] # MaxRuns
      /\ error' \in [Upload -> PermanentErrors \cup {"none", "Error"}]
      /\ stage' = stage
  BY <1>1, <1>2 DEF Rejects, RunEnds, ProcessorTypeOK
<1>4. /\ content' = content /\ task' = task /\ run' = run
      /\ UNCHANGED <<uploadVars, sweepVars, stalled>>
  BY DEF Rest
<1>5. PICK j \in {"failed", "queued"} : job' = [job EXCEPT ![u] = j] /\ (j = "queued" => run[u] # MaxRuns)
  BY <1>3
<1>6. /\ \A v \in Upload \ {u} : job'[v] = job[v]
      /\ job'[u] = j /\ run[u] \in 0..MaxRuns /\ MaxRuns \in Nat
      /\ job' \in [Upload -> {"none", "queued", "running", "completed", "failed"}]
  BY <1>1, <1>5, ProcessorAssumption DEF ProcessorTypeOK
<1>7. ProcessorTypeOK'
  BY <1>1, <1>3, <1>4, <1>6 DEF ProcessorTypeOK
<1>8. faults' \in 0..MaxFaults /\ faults' >= faults
  BY <1>1, StorageAssumption DEF StorageTypeOK, Fault
<1>9. JobMoves(u)
  <2>1. bytes \in [Key -> Bytes] /\ age \in [Key -> Ages] /\ bytes' = bytes /\ age' = age /\ stats' = stats
    BY <1>1 DEF StorageTypeOK, Bytes, Ages
  <2> QED BY <1>3, <1>4, <1>5, <1>6, <1>7, <1>8, <2>1 DEF JobMoves, Moved, Grown, Grows
<1>10. JobAt(u)'
  BY <1>1, <1>4, <1>5, <1>6 DEF JobAt
<1> QED BY <1>9, <1>10

\* A stage that neither creates nor writes the output.
LEMMA PassMoves ==
  ASSUME FilesInv, NEW u \in Upload, job[u] = "running", Done(u),
         Now(u).does \notin {"create", "write"},
         FilesStay, Rest, UNCHANGED downloadVars
  PROVE  JobMoves(u) /\ JobAt(u)'
<1>1. /\ bytes \in [Key -> Bytes] /\ age \in [Key -> Ages] /\ faults \in 0..MaxFaults
      /\ MaxFaults \in Nat /\ JobAt(u)
      /\ ProcessorTypeOK
  BY StorageAssumption DEF FilesInv, FilesTypeOK, StorageTypeOK, Bytes, Ages, OutputIsWhere
<1>2. /\ content' = content /\ task' = task /\ run' = run
      /\ bytes' = bytes /\ age' = age /\ stats' = stats /\ faults' = faults
      /\ UNCHANGED <<uploadVars, sweepVars, stalled>>
  BY DEF Rest, FilesStay
<1>3. /\ ProcessorTypeOK'
      /\ \A v \in Upload \ {u} : /\ job'[v] = job[v] /\ run'[v] = run[v]
                                 /\ stage'[v] = stage[v] /\ task'[v] = task[v]
      /\ job'[u] \in {"running", "completed"} /\ outputKey(u)' = outputKey(u)
      /\ job'[u] = "running" => /\ Past(u, "create")' <=> Past(u, "create")
                                /\ Past(u, "write")' <=> Past(u, "write")
      /\ job'[u] = "completed" => Past(u, "write")
  BY <1>2, DoneMoves
<1>4. JobMoves(u)
  BY <1>1, <1>2, <1>3 DEF JobMoves, Moved, Grown, Grows
<1>5. JobAt(u)'
  BY <1>1, <1>2, <1>3 DEF JobAt
<1> QED BY <1>4, <1>5

\* The output of the run at hand is one of the outputs of its job.
LEMMA RunHasOutput ==
  ASSUME FilesInv, NEW u \in Upload, run[u] > 0
  PROVE  /\ run[u] \in 1..MaxRuns /\ outputKey(u) \in Key
         /\ \A n \in 1..MaxRuns : n # run[u] => Output[<<u, n>>] # outputKey(u) /\ Output[<<u, n>>] \in Key
  BY KeysDiffer, ProcessorAssumption DEF FilesInv, FilesTypeOK, ProcessorTypeOK, outputKey

\* The stages that do: the output is partial, then whole.
LEMMA OutputMoves ==
  ASSUME FilesInv, NEW u \in Upload, job[u] = "running", Done(u),
         \/ Now(u).does = "create" /\ BeginWrite(outputKey(u))
         \/ Now(u).does = "write" /\ EndWrite(outputKey(u)),
         UNCHANGED <<stats, faults>>, Rest, UNCHANGED downloadVars
  PROVE  JobMoves(u) /\ JobAt(u)'
<1> DEFINE k == outputKey(u)
<1>1. /\ bytes \in [Key -> Bytes] /\ age \in [Key -> Ages] /\ faults \in 0..MaxFaults
      /\ MaxFaults \in Nat /\ JobAt(u) /\ 0 \in Ages
      /\ ProcessorTypeOK
  BY StorageAssumption DEF FilesInv, FilesTypeOK, StorageTypeOK, Bytes, Ages, OutputIsWhere
<1>2. /\ content' = content /\ task' = task /\ run' = run /\ stats' = stats /\ faults' = faults
      /\ UNCHANGED <<uploadVars, sweepVars, stalled>>
  BY DEF Rest
<1>3. run[u] > 0
  BY <1>1 DEF JobAt
<1>4. /\ run[u] \in 1..MaxRuns /\ k \in Key /\ k = Output[<<u, run[u]>>]
      /\ \A n \in 1..MaxRuns : n # run[u] => Output[<<u, n>>] # k /\ Output[<<u, n>>] \in Key
  BY <1>3, RunHasOutput DEF outputKey
<1>5. /\ ProcessorTypeOK'
      /\ \A v \in Upload \ {u} : /\ job'[v] = job[v] /\ run'[v] = run[v]
                                 /\ stage'[v] = stage[v] /\ task'[v] = task[v]
      /\ job'[u] \in {"running", "completed"} /\ outputKey(u)' = k
      /\ job'[u] = "running" =>
              /\ Past(u, "create")' <=> Past(u, "create") \/ Now(u).does = "create"
              /\ Past(u, "write")' <=> Past(u, "write") \/ Now(u).does = "write"
      /\ job'[u] = "completed" => Past(u, "write") \/ Now(u).does = "write"
      /\ Now(u).does = "create" => ~Past(u, "create") /\ ~Past(u, "write")
      /\ Now(u).does = "write" => Past(u, "create") /\ ~Past(u, "write")
  BY <1>2, DoneMoves
<1>6. /\ Now(u).does = "create" => bytes[k] = "none"
      /\ Now(u).does = "write" => bytes[k] \in {"partial", "gone"}
  BY <1>1, <1>5 DEF JobAt
<1> HIDE DEF k
<1>7. /\ bytes' \in [Key -> Bytes] /\ age' \in [Key -> Ages]
      /\ \A x \in Key \ {k} : bytes'[x] = bytes[x] /\ age'[x] = age[x]
      /\ Moved(k)
      /\ Grows(bytes[k], bytes'[k])
      /\ Now(u).does = "create" => bytes'[k] = "partial"
      /\ Now(u).does = "write" => bytes'[k] \in {"whole", "gone"}
  <2>1. CASE Now(u).does = "create" /\ BeginWrite(k)
    BY <1>1, <1>4, <1>6, <2>1 DEF BeginWrite, Bytes, Grows, Moved
  <2>2. CASE Now(u).does = "write" /\ EndWrite(k)
    BY <1>1, <1>4, <1>6, <2>2 DEF EndWrite, Written, Exists, Bytes, Grows, Moved
  <2> QED BY <2>1, <2>2 DEF k
<1>8. JobMoves(u)
  <2>1. Grown
    BY <1>7 DEF Grown, Grows
  <2> QED BY <1>1, <1>2, <1>4, <1>5, <1>7, <2>1 DEF JobMoves, Moved
<1>9. JobAt(u)'
  <2>1. \A n \in 1..MaxRuns : n > run'[u] => bytes'[Output[<<u, n>>]] = "none"
    BY <1>1, <1>2, <1>4, <1>7 DEF JobAt
  <2>2. job'[u] = "running" =>
         bytes'[outputKey(u)'] \in IF Past(u, "write")' THEN {"whole", "gone"}
                                 ELSE IF Past(u, "create")' THEN {"partial", "gone"}
                                 ELSE {"none"}
    BY <1>5, <1>7
  <2>3. job'[u] = "completed" => bytes'[outputKey(u)'] \in {"whole", "gone"}
    BY <1>5, <1>7
  <2> QED BY <1>2, <1>3, <1>5, <2>1, <2>2, <2>3 DEF JobAt
<1> QED BY <1>8, <1>9

LEMMA JobSteps ==
  ASSUME FilesInv, NEW u \in Upload, JobArrives(u) \/ Processing(u) \/ JobFaults(u)
  PROVE  FilesInv' /\ Grown
<1> DEFINE Goal == JobMoves(u) /\ JobAt(u)'
<1>1. /\ bytes \in [Key -> Bytes] /\ age \in [Key -> Ages] /\ faults \in 0..MaxFaults
      /\ MaxFaults \in Nat /\ JobAt(u)
      /\ ProcessorTypeOK /\ run[u] \in 0..MaxRuns /\ MaxRuns \in Nat
  BY StorageAssumption, ProcessorAssumption
     DEF FilesInv, FilesTypeOK, StorageTypeOK, Bytes, Ages, OutputIsWhere, ProcessorTypeOK
<1>2. ASSUME Submit(u), UNCHANGED downloadVars PROVE Goal
  <2>1. PICK op \in Operation, valid \in BOOLEAN : task' = [task EXCEPT ![u] = [op |-> op, valid |-> valid]]
    BY <1>2 DEF Submit
  <2>2. /\ job[u] = "none" /\ job' = [job EXCEPT ![u] = "queued"] /\ run' = run /\ stage' = stage
        /\ run[u] = 0 /\ error' = error /\ content' = content
        /\ bytes' = bytes /\ age' = age /\ UNCHANGED <<uploadVars, sweepVars, stalled>>
        /\ faults' \in 0..MaxFaults /\ faults' >= faults
        /\ \/ stats' = [stats EXCEPT !["queued"] = @ + 1]
           \/ /\ faults' = faults + 1
              /\ \E n \in {0, 1, 2} : stats' = [stats EXCEPT !["queued"] = @ + n]
    BY <1>1, <1>2 DEF Submit, JobAt, IncrementCounter, Fault
  <2>3. ProcessorTypeOK'
    <3>1. stage[u] = 1 /\ 1 \in 1..Len(Stages(op))
      BY <1>1, <2>2, TableShape DEF JobAt
    <3>2. /\ task' \in [Upload -> [op : Operation, valid : BOOLEAN]] /\ task'[u].op = op
          /\ \A v \in Upload \ {u} : task'[v] = task[v]
          /\ job' \in [Upload -> {"none", "queued", "running", "completed", "failed"}]
      BY <1>1, <2>1, <2>2 DEF ProcessorTypeOK
    <3>3. \A v \in Upload : stage'[v] \in 1..Len(Stages(task'[v].op))
      BY <1>1, <2>2, <3>1, <3>2 DEF ProcessorTypeOK
    <3> QED BY <1>1, <2>2, <3>2, <3>3 DEF ProcessorTypeOK
  <2>4. JobMoves(u)
    BY <1>1, <1>2, <2>1, <2>2, <2>3 DEF JobMoves, Moved, Grown, Grows, ProcessorTypeOK
  <2>5. JobAt(u)'
    BY <1>1, <2>2, ProcessorAssumption DEF JobAt, ProcessorTypeOK
  <2> QED BY <2>4, <2>5
<1>3. ASSUME Take(u), UNCHANGED downloadVars PROVE Goal
  <2>1. /\ job[u] = "queued" /\ job' = [job EXCEPT ![u] = "running"]
        /\ run' = [run EXCEPT ![u] = @ + 1] /\ stage' = [stage EXCEPT ![u] = 1]
        /\ UNCHANGED <<storageVars, uploadVars, content, task, error>>
        /\ run[u] < MaxRuns /\ run[u] \in Nat
        /\ \A n \in 1..MaxRuns : n > run[u] => bytes[Output[<<u, n>>]] = "none"
    BY <1>1, <1>3 DEF Take, JobAt
  <2>2. /\ \A v \in Upload \ {u} : job'[v] = job[v] /\ run'[v] = run[v] /\ stage'[v] = stage[v]
        /\ job'[u] = "running" /\ run'[u] = run[u] + 1 /\ stage'[u] = 1
        /\ run'[u] \in 1..MaxRuns
    BY <1>1, <2>1 DEF ProcessorTypeOK
  <2>3. ProcessorTypeOK'
    <3>1. /\ job' \in [Upload -> {"none", "queued", "running", "completed", "failed"}]
          /\ run' \in [Upload -> 0..MaxRuns]
          /\ stage' \in [Upload -> Nat]
      BY <1>1, <2>1, <2>2 DEF ProcessorTypeOK
    <3>2. 1 \in 1..Len(Stages(task[u].op))
      BY <1>1, TableShape DEF ProcessorTypeOK
    <3> QED BY <1>1, <2>1, <2>2, <3>1, <3>2 DEF ProcessorTypeOK
  <2>4. JobMoves(u)
    BY <1>1, <1>3, <2>1, <2>2, <2>3 DEF JobMoves, Moved, Grown, Grows, storageVars
  <2>5. ~Past(u, "create")' /\ ~Past(u, "write")' /\ outputKey(u)' = Output[<<u, run'[u]>>]
    BY <2>2 DEF Past, outputKey
  <2>6. /\ bytes'[Output[<<u, run'[u]>>]] = "none"
        /\ \A n \in 1..MaxRuns : n > run'[u] => bytes'[Output[<<u, n>>]] = "none"
    BY <2>1, <2>2 DEF storageVars
  <2>7. JobAt(u)'
    BY <2>2, <2>5, <2>6 DEF JobAt
  <2> QED BY <2>4, <2>7
<1>4. ASSUME ParseOptions(u) \/ ReadRecord(u) \/ OpenInput(u) \/ StreamOpens(u) \/ StreamBroken(u)
             \/ ReadInput(u) \/ ReadBack(u) \/ Return(u),
             UNCHANGED downloadVars
      PROVE  Goal
  <2>1. /\ job[u] = "running" /\ Now(u).does \notin {"create", "write"}
        /\ \/ Done(u) \/ Rejects(u, Now(u).fails)
           \/ RunEnds(u, FALSE) /\ UNCHANGED <<stage, error>>
        /\ FilesStay /\ Rest
    BY <1>4 DEF ParseOptions, ReadRecord, OpenInput, StreamOpens, StreamBroken, ReadInput, ReadBack, Return, Does, DoneIf
  <2>2. UNCHANGED <<bytes, age, stats, faults>>
    BY <2>1 DEF FilesStay
  <2>3. CASE Done(u)
    BY <1>4, <2>1, <2>3, PassMoves
  <2>4. CASE Rejects(u, Now(u).fails) \/ (RunEnds(u, FALSE) /\ UNCHANGED <<stage, error>>)
    BY <1>4, <2>1, <2>2, <2>4, RejectMoves
  <2> QED BY <2>1, <2>3, <2>4
<1>5. ASSUME CreateOutput(u) \/ WriteOutput(u), UNCHANGED downloadVars PROVE Goal
  <2>1. /\ job[u] = "running" /\ Rest /\ UNCHANGED <<stats, faults>>
        /\ \/ Done(u) /\ Now(u).does = "create" /\ BeginWrite(outputKey(u))
           \/ Done(u) /\ Now(u).does = "write" /\ EndWrite(outputKey(u))
           \/ Rejects(u, Now(u).fails) /\ UNCHANGED <<bytes, age>>
    BY <1>5 DEF CreateOutput, WriteOutput, Does
  <2>2. CASE Rejects(u, Now(u).fails) /\ UNCHANGED <<bytes, age>>
    BY <1>5, <2>1, <2>2, RejectMoves
  <2> QED BY <1>5, <2>1, <2>2, OutputMoves
<1>6. ASSUME JobFaults(u) PROVE Goal
  <2>1. /\ job[u] = "running" /\ Fault /\ UNCHANGED <<bytes, age, stats>> /\ Rest
        /\ \/ Rejects(u, Now(u).fails)
           \/ RunEnds(u, FALSE) /\ UNCHANGED <<stage, error>>
        /\ UNCHANGED downloadVars
    BY <1>6 DEF JobFaults, DiskFails, RunDies, Does
  <2> QED BY <2>1, RejectMoves
<1> HIDE DEF Goal
<1>7. Goal
  BY <1>2, <1>3, <1>4, <1>5, <1>6 DEF JobArrives, Processing, JobStepOf
<1> QED BY <1>7, JobStepKeeps DEF Goal, JobMoves

-----------------------------------------------------------------------------
(* The steps of downloads, of the sweep, of the clock, and the API's end.  *)

LEMMA DownloadSteps ==
  ASSUME FilesInv, Requests \/ \E d \in Download : Downloading(d)
  PROVE  FilesInv'
<1>1. UNCHANGED <<storageVars, uploadVars, processorVars>>
  BY DEF Requests, Downloading, MintLink, Get, GetStep, CheckExists, ReadSize, Open, Opened, Served
<1>2. /\ DownloadTypeOK /\ DownloadIsOfResult /\ bytes \in [Key -> Bytes]
      /\ \A k : Known(k)' <=> Known(k)
      /\ LinkTtl \in Nat
  BY <1>1, DownloadAssumption
     DEF FilesInv, FilesTypeOK, StorageTypeOK, Bytes, Known, outputKey, processorVars
<1>3. DownloadTypeOK' /\ DownloadIsOfResult'
  <2>1. ASSUME NEW k \in Public, MintLink(k) PROVE DownloadTypeOK' /\ DownloadIsOfResult'
    BY <1>2, <2>1 DEF MintLink, DownloadTypeOK, DownloadIsOfResult
  <2>2. ASSUME NEW k \in Public, NEW d \in Download, Get(d, k), Known(k)
        PROVE  DownloadTypeOK' /\ DownloadIsOfResult'
    <3>1. /\ link' = link
          /\ \E at \in {"exists", "refused"} :
               get' = [get EXCEPT ![d] = [at |-> at, key |-> k, size |-> "none"]]
      BY <2>2 DEF Get, NoGet
    <3> QED BY <1>2, <2>2, <3>1 DEF DownloadTypeOK, DownloadIsOfResult, Awaits, Outcomes
  <2>3. ASSUME NEW d \in Download, GetStep(d) PROVE DownloadTypeOK' /\ DownloadIsOfResult'
    <3> DEFINE k == get[d].key
    <3>1. link' = link /\ get \in [Download -> [at : Awaits \cup Outcomes, key : Public,
                                               size : {"none", "partial", "whole"}]]
      BY <1>2, <2>3 DEF DownloadTypeOK, GetStep, CheckExists, ReadSize, Open, Opened, Served
    <3>2. CASE ReadSize(d) /\ Exists(k)
      <4>1. Known(k)
        BY <1>2, <3>1, <3>2 DEF ReadSize, DownloadIsOfResult, Awaits
      <4>2. bytes[k] \in {"whole", "gone"}
        BY <4>1 DEF Known, FilesInv, OutputIsWhere, JobAt
      <4>3. bytes[k] = "whole"
        BY <3>2, <4>2 DEF Exists
      <4>4. /\ get' = [get EXCEPT ![d] = [at |-> "open", key |-> k, size |-> "whole"]]
        BY <3>1, <3>2, <4>3 DEF ReadSize
      <4> HIDE DEF k
      <4> QED BY <1>2, <3>1, <4>1, <4>4 DEF DownloadTypeOK, DownloadIsOfResult, Awaits, Outcomes, k
    <3>3. CASE ReadSize(d) /\ ~Exists(k)
      BY <1>2, <3>1, <3>3 DEF ReadSize, Moves, DownloadTypeOK, DownloadIsOfResult, Awaits, Outcomes
    <3>4. CASE CheckExists(d)
      BY <1>2, <3>1, <3>4 DEF CheckExists, Moves, DownloadTypeOK, DownloadIsOfResult, Awaits, Outcomes
    <3>5. CASE Open(d)
      BY <1>2, <3>1, <3>5 DEF Open, Moves, DownloadTypeOK, DownloadIsOfResult, Awaits, Outcomes
    <3>6. CASE Opened(d)
      BY <1>2, <3>1, <3>6 DEF Opened, Moves, DownloadTypeOK, DownloadIsOfResult, Awaits, Outcomes
    <3>7. CASE Served(d)
      BY <1>2, <3>1, <3>7 DEF Served, Moves, DownloadTypeOK, DownloadIsOfResult, Awaits, Outcomes
    <3> QED BY <2>3, <3>2, <3>3, <3>4, <3>5, <3>6, <3>7 DEF GetStep
  <2> QED BY <2>1, <2>2, <2>3 DEF Requests, Downloading
<1>4. FilesTypeOK'
  BY <1>1, <1>3 DEF FilesInv, FilesTypeOK, StorageTypeOK, UploadTypeOK, ProcessorTypeOK,
                    storageVars, sweepVars, uploadVars, processorVars
<1>5. /\ GoneIsOld' /\ UploadIsWhere' /\ RecordIsLast' /\ AnsweredLeavesNoStaging'
      /\ FileCountersHold' /\ JobsAreCounted'
  BY <1>1 DEF FilesInv, GoneIsOld, MayBeSwept, sweepVars, UploadIsWhere, UploadAt, RecordIsLast, RecordAt, Live,
              AnsweredLeavesNoStaging, Exists, FileCountersHold, JobsAreCounted,
              storageVars, uploadVars, processorVars
<1>6. OutputIsWhere'
  BY <1>1 DEF FilesInv, OutputIsWhere, JobAt, Past, outputKey, storageVars, processorVars
<1> QED BY <1>3, <1>4, <1>5, <1>6 DEF FilesInv

LEMMA TickStep == FilesInv /\ Tick => FilesInv'
<1> SUFFICES ASSUME FilesInv, Tick PROVE FilesInv'
  OBVIOUS
<1>1. /\ UNCHANGED <<bytes, listed, condemned, deleted, stats, faults, request, processorVars, get>>
      /\ stalled' = stalled \cup {k \in Key \ Staging : bytes[k] = "partial" /\ age[k] >= Retention}
      /\ sweeper' = "due"
      /\ age' = [k \in Key |-> IF Exists(k) /\ age[k] <= Retention THEN age[k] + 1 ELSE age[k]]
      /\ ttl' = [u \in Upload |-> IF ttl[u] > 0 THEN ttl[u] - 1 ELSE 0]
      /\ link' = [k \in Public |-> IF link[k] >= 0 THEN link[k] - 1 ELSE link[k]]
  BY DEF Tick, StorageTick, RecordTick, LinkTick
<1>2. /\ age \in [Key -> 0..(Retention + 1)] /\ Retention \in Nat
      /\ ttl \in [Upload -> 0..RecordTtl] /\ RecordTtl \in Nat
      /\ link \in [Public -> {NoLink, Lapsed} \cup 0..LinkTtl] /\ LinkTtl \in Nat
  BY StorageAssumption, UploadAssumption, DownloadAssumption
     DEF FilesInv, FilesTypeOK, StorageTypeOK, UploadTypeOK, DownloadTypeOK
<1>3. /\ age' \in [Key -> 0..(Retention + 1)]
      /\ ttl' \in [Upload -> 0..RecordTtl]
      /\ link' \in [Public -> {NoLink, Lapsed} \cup 0..LinkTtl]
  <2>1. age' \in [Key -> 0..(Retention + 1)]
    BY <1>1, <1>2
  <2>2. ttl' \in [Upload -> 0..RecordTtl]
    BY <1>1, <1>2
  <2>3. link' \in [Public -> {NoLink, Lapsed} \cup 0..LinkTtl]
    BY <1>1, <1>2 DEF NoLink, Lapsed
  <2> QED BY <2>1, <2>2, <2>3
<1>4. FilesTypeOK'
  BY <1>1, <1>3 DEF FilesInv, FilesTypeOK, StorageTypeOK, UploadTypeOK, ProcessorTypeOK,
                    DownloadTypeOK, processorVars
<1>5. GoneIsOld'
  <2>1. ASSUME NEW k \in Key \ Staging
        PROVE  /\ MayBeSwept(k) => MayBeSwept(k)'
               /\ bytes[k] = "partial" /\ age'[k] > Retention => k \in stalled'
    BY <1>1, <1>2 DEF MayBeSwept
  <2> QED BY <1>1, <2>1 DEF FilesInv, GoneIsOld, Exists
<1>6. RecordIsLast'
  BY <1>1, <1>2 DEF FilesInv, RecordIsLast, RecordAt, Live
<1>7. /\ UploadIsWhere' /\ AnsweredLeavesNoStaging' /\ FileCountersHold' /\ JobsAreCounted'
  BY <1>1 DEF FilesInv, UploadIsWhere, UploadAt, AnsweredLeavesNoStaging, Exists,
              FileCountersHold, JobsAreCounted, processorVars
<1>8. OutputIsWhere' /\ DownloadIsOfResult'
  <2>1. bytes' = bytes /\ get' = get /\ UNCHANGED processorVars
    BY <1>1
  <2>2. OutputIsWhere'
    BY <2>1 DEF FilesInv, OutputIsWhere, JobAt, Past, outputKey, processorVars
  <2>3. DownloadIsOfResult'
    BY <2>1 DEF FilesInv, outputKey, DownloadIsOfResult, Known, processorVars
  <2> QED BY <2>2, <2>3
<1> QED BY <1>4, <1>5, <1>6, <1>7, <1>8 DEF FilesInv

LEMMA ApiDiesStep == FilesInv /\ ApiDies => FilesInv'
<1> SUFFICES ASSUME FilesInv, ApiDies PROVE FilesInv'
  OBVIOUS
<1>1. /\ UNCHANGED <<bytes, age, sweepVars, stalled, stats, ttl, processorVars, link>>
      /\ request' = [u \in Upload |-> IF request[u] = "counted" THEN "unanswered"
                                      ELSE IF request[u] \in Active THEN "dead" ELSE request[u]]
      /\ get' = [d \in Download |-> NoGet(get[d].key)]
      /\ faults' = faults \/ Fault
  BY DEF ApiDies, UploadsDie, GetsDie, StreamBreaks
<1>2. /\ request \in [Upload -> {"idle"} \cup Dead \cup Active \cup Answered]
      /\ get \in [Download -> [at : Awaits \cup Outcomes, key : Public,
                               size : {"none", "partial", "whole"}]]
      /\ faults \in 0..MaxFaults /\ MaxFaults \in Nat
  BY StorageAssumption DEF FilesInv, FilesTypeOK, StorageTypeOK, UploadTypeOK, DownloadTypeOK
<1>3. faults' \in 0..MaxFaults /\ faults' >= faults
  BY <1>1, <1>2 DEF Fault
<1>4. request' \in [Upload -> {"idle"} \cup Dead \cup Active \cup Answered]
  BY <1>1, <1>2 DEF Dead
<1>5. DownloadTypeOK' /\ DownloadIsOfResult'
  BY <1>1, <1>2 DEF FilesInv, FilesTypeOK, DownloadTypeOK, DownloadIsOfResult, NoGet, Awaits, Outcomes
<1>6. FilesTypeOK'
  BY <1>1, <1>3, <1>4, <1>5 DEF FilesInv, FilesTypeOK, StorageTypeOK, UploadTypeOK,
                               ProcessorTypeOK, processorVars, sweepVars
<1>7. GoneIsOld'
  BY <1>1 DEF FilesInv, GoneIsOld, MayBeSwept, Exists, sweepVars
<1>8. \A u \in Upload : \/ request'[u] = request[u] /\ request[u] \notin Active
                        \/ request'[u] = "dead" /\ request[u] \in Active \ {"counted"}
                        \/ request'[u] = "unanswered" /\ request[u] = "counted"
  BY <1>1 DEF Active
<1>9. UploadIsWhere' /\ RecordIsLast' /\ AnsweredLeavesNoStaging'
  BY <1>1, <1>8 DEF FilesInv, UploadIsWhere, UploadAt, RecordIsLast, RecordAt, Live,
                    AnsweredLeavesNoStaging, Exists, Active, Answered, Dead
<1>10. FileCountersHold' /\ JobsAreCounted'
  <2>1. UploadsMade' = UploadsMade /\ JobsAsked' = JobsAsked
    BY <1>1, <1>8 DEF UploadsMade, Made, Active, JobsAsked, processorVars
  <2>2. FilesGone' = FilesGone
    BY <1>1 DEF FilesGone
  <2>3. /\ stats \in [Counters -> Nat] /\ stats' = stats /\ deleted' = deleted
        /\ faults \in Nat /\ faults' \in Nat
    BY <1>1, <1>2, <1>3 DEF FilesInv, FilesTypeOK, StorageTypeOK, Counters, sweepVars
  <2>4. UploadsMade \in SUBSET Key /\ JobsAsked \in SUBSET Key
    BY KeysDiffer DEF UploadsMade, JobsAsked
  <2>5. Cardinality(UploadsMade) \in Nat /\ Cardinality(JobsAsked) \in Nat
    BY <2>4, FilesAreFinite
  <2>6. /\ Cardinality(UploadsMade') = Cardinality(UploadsMade) + 0
        /\ stats["uploads"] \in Nat /\ stats["queued"] \in Nat
    BY <2>1, <2>3, <2>5 DEF Counters
  <2>7. stats'["uploads"] - stats["uploads"] - 0 \in -(faults' - faults) .. (faults' - faults)
    BY <1>3, <2>3, <2>6
  <2>8. FileCountersHold'
    BY <1>3, <2>2, <2>3, <2>6, <2>7, CountersKept
  <2>9. stats["queued"] <= Cardinality(JobsAsked) + faults
    BY CountersInWords DEF FilesInv
  <2>10. stats'["queued"] <= Cardinality(JobsAsked') + faults'
    BY <1>3, <2>1, <2>3, <2>5, <2>6, <2>9
  <2> QED BY <2>8, <2>10 DEF JobsAreCounted, JobsAsked
<1>11. OutputIsWhere'
  BY <1>1 DEF FilesInv, OutputIsWhere, JobAt, Past, outputKey, processorVars
<1> QED BY <1>5, <1>6, <1>7, <1>9, <1>10, <1>11 DEF FilesInv

SweepMoves ==
  /\ UNCHANGED <<age, stalled, uploadVars, processorVars, downloadVars>>
  /\ sweeper' \in {"idle", "due", "sweeping"} /\ listed' \subseteq Key \ Staging
  /\ condemned' \subseteq Key \ Staging
  /\ \A k \in condemned' : bytes'[k] = bytes[k] /\ Exists(k) /\ MayBeSwept(k)
  /\ bytes' \in [Key -> Bytes]
  /\ \A k \in Key : \/ bytes'[k] = bytes[k]
                    \/ k \notin Staging /\ Exists(k) /\ MayBeSwept(k) /\ bytes'[k] = "gone"
  /\ faults' \in 0..MaxFaults /\ faults' >= faults

\* What is swept is old, and whatever was partial or whole is gone.
LEMMA SweepStepKeeps ==
  ASSUME FilesInv, SweepMoves, FileCountersHold',
         stats' \in [Counters -> Nat], stats'["queued"] = stats["queued"], deleted' \in Nat
  PROVE  FilesInv'
<1>1. /\ \A k \in Key : \/ bytes'[k] = bytes[k]
                        \/ k \notin Staging /\ Exists(k) /\ MayBeSwept(k) /\ bytes'[k] = "gone"
      /\ age' = age /\ stalled' = stalled /\ request' = request /\ ttl' = ttl
      /\ UNCHANGED <<processorVars, downloadVars>>
  BY DEF SweepMoves, uploadVars
<1>2. /\ \A v \in Upload : /\ bytes'[Temp[v]] = bytes[Temp[v]]
                           /\ \/ bytes'[v] = bytes[v]
                              \/ bytes[v] \in {"partial", "whole"} /\ bytes'[v] = "gone"
  BY <1>1, KeysDiffer DEF Exists
<1>3. UploadIsWhere' /\ RecordIsLast' /\ AnsweredLeavesNoStaging'
  BY <1>1, <1>2 DEF FilesInv, UploadIsWhere, UploadAt, RecordIsLast, RecordAt, Live,
                    AnsweredLeavesNoStaging, Exists
<1>4. GoneIsOld'
  <2>1. \A k \in condemned' : bytes'[k] = bytes[k] /\ Exists(k) /\ MayBeSwept(k)
    BY DEF SweepMoves
  <2> QED BY <1>1, <2>1 DEF FilesInv, GoneIsOld, MayBeSwept, Exists
<1>5. OutputIsWhere'
  <2> SUFFICES ASSUME NEW u \in Upload PROVE JobAt(u)'
    BY DEF OutputIsWhere
  <2>1. /\ JobAt(u) /\ run[u] \in 0..MaxRuns
        /\ job' = job /\ run' = run /\ stage' = stage /\ task' = task
    BY <1>1 DEF FilesInv, OutputIsWhere, FilesTypeOK, ProcessorTypeOK, processorVars
  <2>2. /\ Past(u, "write")' = Past(u, "write") /\ Past(u, "create")' = Past(u, "create")
        /\ outputKey(u)' = outputKey(u)
    BY <2>1 DEF Past, outputKey
  <2>3. \A n \in 1..MaxRuns :
          \/ bytes'[Output[<<u, n>>]] = bytes[Output[<<u, n>>]]
          \/ bytes[Output[<<u, n>>]] \in {"partial", "whole"} /\ bytes'[Output[<<u, n>>]] = "gone"
    BY <1>1, KeysDiffer DEF Exists
  <2>4. run[u] > 0 =>
          \/ bytes'[outputKey(u)] = bytes[outputKey(u)]
          \/ bytes[outputKey(u)] \in {"partial", "whole"} /\ bytes'[outputKey(u)] = "gone"
    BY <2>1, <2>3 DEF outputKey
  <2> QED BY <2>1, <2>2, <2>3, <2>4 DEF JobAt
<1>6. DownloadIsOfResult'
  BY <1>1 DEF FilesInv, DownloadIsOfResult, Known, outputKey, processorVars, downloadVars
<1>7. JobsAreCounted'
  <2>1. stats["queued"] <= Cardinality(JobsAsked) + faults
    BY CountersInWords DEF FilesInv
  <2>2. JobsAsked' = JobsAsked /\ JobsAsked \in SUBSET Key /\ faults \in Nat
    BY <1>1, KeysDiffer, StorageAssumption
       DEF JobsAsked, processorVars, FilesInv, FilesTypeOK, StorageTypeOK
  <2>3. Cardinality(JobsAsked) \in Nat /\ stats["queued"] \in Nat
    BY <2>2, FilesAreFinite DEF FilesInv, FilesTypeOK, StorageTypeOK
  <2>4. faults' \in Nat /\ faults' >= faults
    BY StorageAssumption DEF SweepMoves
  <2>5. stats'["queued"] <= Cardinality(JobsAsked') + faults'
    BY <2>1, <2>2, <2>3, <2>4
  <2> QED BY <2>5 DEF JobsAreCounted, JobsAsked
<1>8. FilesTypeOK'
  <2>4. StorageTypeOK'
    BY <1>1 DEF SweepMoves, FilesInv, FilesTypeOK, StorageTypeOK, Counters, Bytes
  <2> QED BY <1>1, <2>4 DEF FilesInv, FilesTypeOK, UploadTypeOK, ProcessorTypeOK, DownloadTypeOK,
                            processorVars, downloadVars
<1> QED BY <1>3, <1>4, <1>5, <1>6, <1>7, <1>8 DEF FilesInv

LEMMA SweepSteps == FilesInv /\ (Sweeping \/ SweepFaults) => FilesInv'
<1> SUFFICES ASSUME FilesInv, Sweeping \/ SweepFaults PROVE FilesInv'
  OBVIOUS
<1>1. /\ bytes \in [Key -> Bytes] /\ faults \in 0..MaxFaults /\ MaxFaults \in Nat
      /\ stats \in [Counters -> Nat] /\ deleted \in Nat /\ sweeper \in {"idle", "due", "sweeping"}
      /\ listed \subseteq Key \ Staging /\ condemned \subseteq Key \ Staging
      /\ UNCHANGED <<uploadVars, processorVars, downloadVars>>
  BY StorageAssumption
     DEF FilesInv, FilesTypeOK, StorageTypeOK, Bytes, Counters, Sweeping, SweepFaults
<1>2. UploadsMade' = UploadsMade
  BY <1>1 DEF UploadsMade, uploadVars
<1>3. /\ stats["uploads"] - Cardinality(UploadsMade) \in -faults .. faults
      /\ stats["cleaned"] + 2 * deleted <= 2 * Cardinality(FilesGone)
      /\ faults = 0 => stats["cleaned"] + deleted = Cardinality(FilesGone)
      /\ \A k \in condemned : Exists(k) /\ MayBeSwept(k)
  BY <1>1, CountersInWords DEF FilesInv, GoneIsOld
<1>4. /\ UploadsMade \in SUBSET Key /\ FilesGone \in SUBSET Key
      /\ Cardinality(UploadsMade) \in Nat /\ Cardinality(FilesGone) \in Nat
  <2>1. UploadsMade \in SUBSET Key /\ FilesGone \in SUBSET Key
    BY KeysDiffer DEF UploadsMade, FilesGone
  <2> QED BY <2>1, FilesAreFinite
<1>5. /\ stats["uploads"] \in Nat /\ stats["cleaned"] \in Nat /\ faults \in Nat
  BY <1>1 DEF Counters
<1>6. ASSUME stats'["uploads"] = stats["uploads"], faults' \in Nat, faults' >= faults,
             stats'["cleaned"] + 2 * deleted' <= 2 * Cardinality(FilesGone'),
             faults' = 0 => stats'["cleaned"] + deleted' = Cardinality(FilesGone')
      PROVE  FileCountersHold'
  <2>1. stats'["uploads"] - Cardinality(UploadsMade') \in -faults' .. faults'
    BY <1>2, <1>3, <1>4, <1>5, <1>6
  <2> QED BY <1>6, <2>1 DEF FileCountersHold, UploadsMade, Made, FilesGone
<1>7. ASSUME SweepStart PROVE FilesInv'
  <2>1. UNCHANGED <<bytes, age, stalled, condemned, deleted, stats, faults>>
    BY <1>7 DEF SweepStart
  <2>2. SweepMoves
    BY <1>1, <1>3, <1>7, <2>1 DEF SweepStart, SweepMoves
  <2>3. FilesGone' = FilesGone
    BY <2>1 DEF FilesGone
  <2>4. FileCountersHold'
    BY <1>3, <1>5, <1>6, <2>1, <2>3
  <2> QED BY <1>1, <2>1, <2>2, <2>4, SweepStepKeeps
<1>8. ASSUME SweepEnd PROVE FilesInv'
  <2>1. /\ UNCHANGED <<bytes, age, stalled, listed, condemned>> /\ sweeper' = "idle" /\ deleted' = 0
        /\ \/ stats' = [stats EXCEPT !["cleaned"] = @ + deleted] /\ faults' = faults
           \/ /\ faults' = faults + 1 /\ faults < MaxFaults
              /\ \E n \in {0, deleted, deleted + deleted} : stats' = [stats EXCEPT !["cleaned"] = @ + n]
    BY <1>8 DEF SweepEnd, IncrementCounter, Fault
  <2>2. SweepMoves
    BY <1>1, <1>3, <2>1 DEF SweepMoves
  <2>3. /\ stats' \in [Counters -> Nat] /\ stats'["queued"] = stats["queued"]
        /\ stats'["uploads"] = stats["uploads"]
        /\ stats'["cleaned"] <= stats["cleaned"] + 2 * deleted
        /\ faults' = 0 => faults = 0 /\ stats'["cleaned"] = stats["cleaned"] + deleted
        /\ stats'["cleaned"] \in Nat
        /\ faults' \in Nat /\ faults' >= faults
    BY <1>1, <2>1 DEF Counters
  <2>4. FilesGone' = FilesGone
    BY <2>1 DEF FilesGone
  <2>5. FileCountersHold'
    BY <1>1, <1>3, <1>4, <1>5, <1>6, <2>1, <2>3, <2>4
  <2> QED BY <2>1, <2>2, <2>3, <2>5, SweepStepKeeps
<1>9. ASSUME NEW k \in Key, SweepLook(k) PROVE FilesInv'
  <2>1. /\ k \in listed /\ k \in Key \ Staging /\ listed' = listed \ {k}
        /\ UNCHANGED <<bytes, age, stalled, sweeper, deleted, stats, faults>>
        /\ condemned' = IF Exists(k) /\ age[k] > Retention THEN {k} ELSE {}
    BY <1>1, <1>9 DEF SweepLook, Look, Expired
  <2>2. SweepMoves
    BY <1>1, <2>1 DEF SweepMoves, MayBeSwept
  <2>3. FilesGone' = FilesGone
    BY <2>1 DEF FilesGone
  <2>4. FileCountersHold'
    BY <1>3, <1>5, <1>6, <2>1, <2>3
  <2> QED BY <1>1, <2>1, <2>2, <2>4, SweepStepKeeps
<1>10. ASSUME NEW k \in Key, SweepRemove(k) PROVE FilesInv'
  <2>1. /\ k \in condemned /\ k \in Key \ Staging /\ condemned' = {}
        /\ UNCHANGED <<stalled, sweeper, listed, stats, faults>>
        /\ Exists(k) /\ MayBeSwept(k)
    BY <1>1, <1>3, <1>10 DEF SweepRemove
  <2>2. /\ bytes' = [bytes EXCEPT ![k] = "gone"] /\ age' = age /\ deleted' = deleted + 1
        /\ bytes[k] # "gone"
    BY <1>10, <2>1 DEF SweepRemove, Remove, Removed, Exists
  <2>3. SweepMoves
    BY <1>1, <2>1, <2>2 DEF SweepMoves, Bytes
  <2>4. FilesGone' = FilesGone \cup {k} /\ k \notin FilesGone
    BY <1>1, <2>1, <2>2 DEF FilesGone
  <2>5. Cardinality(FilesGone') = Cardinality(FilesGone) + 1
    BY <1>4, <2>4, OneMore
  <2>6. FileCountersHold'
    BY <1>1, <1>3, <1>4, <1>5, <1>6, <2>1, <2>2, <2>5
  <2> QED BY <1>1, <2>1, <2>2, <2>3, <2>6, SweepStepKeeps
<1>11. ASSUME SweepFails PROVE FilesInv'
  <2>1. /\ UNCHANGED <<bytes, age, stalled, stats>> /\ faults' = faults + 1 /\ faults < MaxFaults
        /\ listed' \subseteq listed /\ condemned' \subseteq condemned /\ sweeper' \in {sweeper, "due"}
        /\ deleted' = deleted \/ deleted' = 0
    BY <1>11 DEF SweepFails, SweepDies, SweepError, Fault
  <2>2. SweepMoves
    BY <1>1, <1>3, <2>1 DEF SweepMoves
  <2>3. FilesGone' = FilesGone
    BY <2>1 DEF FilesGone
  <2>4. FileCountersHold'
    BY <1>1, <1>3, <1>4, <1>5, <1>6, <2>1, <2>3
  <2> QED BY <1>1, <2>1, <2>2, <2>4, SweepStepKeeps
<1> QED BY <1>7, <1>8, <1>9, <1>10, <1>11 DEF Sweeping, SweepFaults, Sweep

-----------------------------------------------------------------------------
(* What is known of the life of a file.                                    *)

LEMMA FilesInvHoldsFirst == Init => FilesInv
<1> SUFFICES ASSUME Init PROVE FilesInv
  OBVIOUS
<1>1. /\ bytes = [k \in Key |-> "none"] /\ age = [k \in Key |-> 0]
      /\ sweeper = "idle" /\ listed = {} /\ condemned = {} /\ stalled = {} /\ deleted = 0
      /\ stats = [name \in {"uploads", "queued", "cleaned"} |-> 0] /\ faults = 0
      /\ request = [u \in Upload |-> "idle"] /\ ttl = [u \in Upload |-> 0]
  BY DEF Init, StorageInit, UploadInit
<1>2. /\ content \in [Upload -> {"image", "csv"}]
      /\ task = [u \in Upload |-> [op |-> CHOOSE op \in Operation : TRUE, valid |-> TRUE]]
      /\ job = [u \in Upload |-> "none"] /\ run = [u \in Upload |-> 0]
      /\ stage = [u \in Upload |-> 1] /\ error = [u \in Upload |-> "none"]
      /\ link = [k \in Public |-> NoLink]
      /\ get = [d \in Download |-> NoGet(CHOOSE k \in Public : TRUE)]
  BY DEF Init, ProcessorInit, DownloadInit
<1>3. /\ Cardinality(Key) \in Nat /\ 0 \in 0..Cardinality(Key) /\ 0 \in 0..MaxFaults
      /\ 0 \in 0..(Retention + 1) /\ 0 \in 0..RecordTtl /\ 0 \in 0..MaxRuns
  <2>1. Cardinality(Key) \in Nat
    BY FilesAreFinite
  <2> QED BY <2>1, StorageAssumption, UploadAssumption, ProcessorAssumption
<1>4. StorageTypeOK /\ UploadTypeOK
  BY <1>1, <1>3 DEF StorageTypeOK, UploadTypeOK
<1>5. ProcessorTypeOK
  <2> DEFINE first == CHOOSE op \in Operation : TRUE
  <2>1. first \in Operation
    BY ProcessorAssumption
  <2>2. TRUE \in BOOLEAN /\ task = [u \in Upload |-> [op |-> first, valid |-> TRUE]]
    BY <1>2
  <2>3. PICK valid \in BOOLEAN : task = [u \in Upload |-> [op |-> first, valid |-> valid]]
    BY <2>2, Zenon
  <2>4. 1 \in 1..Len(Stages(first))
    BY <2>1, TableShape
  <2> HIDE DEF first
  <2>5. [op |-> first, valid |-> valid] \in [op : Operation, valid : BOOLEAN]
    BY <2>1
  <2>6. task \in [Upload -> [op : Operation, valid : BOOLEAN]]
    BY <2>3, <2>5
  <2>7. \A u \in Upload : task[u].op = first
    BY <2>3
  <2>8. \A u \in Upload : stage[u] = 1
    BY <1>2
  <2> QED BY <1>2, <1>3, <2>4, <2>6, <2>7, <2>8 DEF ProcessorTypeOK
<1>6. DownloadTypeOK
  <2>1. PICK k \in Public : get = [d \in Download |-> NoGet(k)]
    BY <1>2, DownloadAssumption
  <2> QED BY <1>2, <2>1 DEF DownloadTypeOK, NoGet, Outcomes
<1>7. GoneIsOld /\ UploadIsWhere /\ RecordIsLast /\ AnsweredLeavesNoStaging
  BY <1>1, KeysDiffer DEF GoneIsOld, MayBeSwept, UploadIsWhere, UploadAt, RecordIsLast, RecordAt, Live,
                          AnsweredLeavesNoStaging, Answered
<1>8. OutputIsWhere
  <2>1. \A u \in Upload, n \in 1..MaxRuns : bytes[Output[<<u, n>>]] = "none"
    BY <1>1, KeysDiffer
  <2> QED BY <1>2, <2>1 DEF OutputIsWhere, JobAt
<1>9. DownloadIsOfResult
  BY <1>2 DEF DownloadIsOfResult, NoGet, Awaits
<1>10. FileCountersHold /\ JobsAreCounted
  <2>1. UploadsMade = {} /\ FilesGone = {} /\ JobsAsked = {}
    BY <1>1, <1>2 DEF UploadsMade, Made, FilesGone, JobsAsked
  <2>2. Cardinality({}) = 0
    BY FS_EmptySet
  <2>3. stats["uploads"] = 0 /\ stats["cleaned"] = 0 /\ stats["queued"] = 0
    BY <1>1
  <2> QED BY <1>1, <2>1, <2>2, <2>3, CountersInWords
<1> QED BY <1>4, <1>5, <1>6, <1>7, <1>8, <1>9, <1>10 DEF FilesInv, FilesTypeOK

LEMMA FilesInvStutters == FilesInv /\ UNCHANGED vars => FilesInv'
<1> SUFFICES ASSUME FilesInv, UNCHANGED vars PROVE FilesInv'
  OBVIOUS
<1>1. UNCHANGED <<storageVars, uploadVars, processorVars, downloadVars>>
  BY DEF vars
<1>2. FilesTypeOK' /\ DownloadIsOfResult'
  BY <1>1 DEF FilesInv, FilesTypeOK, StorageTypeOK, UploadTypeOK, ProcessorTypeOK, DownloadTypeOK,
              DownloadIsOfResult, Known, outputKey,
              storageVars, sweepVars, uploadVars, processorVars, downloadVars
<1>3. /\ GoneIsOld' /\ UploadIsWhere' /\ RecordIsLast' /\ AnsweredLeavesNoStaging'
      /\ FileCountersHold' /\ JobsAreCounted'
  BY <1>1 DEF FilesInv, GoneIsOld, MayBeSwept, sweepVars, UploadIsWhere, UploadAt, RecordIsLast, RecordAt, Live,
              AnsweredLeavesNoStaging, Exists, FileCountersHold, JobsAreCounted,
              storageVars, uploadVars, processorVars
<1>4. OutputIsWhere'
  BY <1>1 DEF FilesInv, OutputIsWhere, JobAt, Past, outputKey, storageVars, processorVars
<1> QED BY <1>2, <1>3, <1>4 DEF FilesInv

\* The invariant is inductive: whatever the uploads, jobs, downloads and sweeps
\* that interleave, the bytes are where each of them has left them.
THEOREM FilesInvHolds == Spec => []FilesInv
<1>1. FilesInv /\ [Next]_vars => FilesInv'
  BY UploadSteps, JobSteps, DownloadSteps, SweepSteps, TickStep, ApiDiesStep, FilesInvStutters
     DEF Next
<1> QED BY <1>1, FilesInvHoldsFirst, PTL DEF Spec

\* Every file, counter, request, job and link is what the code can hold.
THEOREM FilesTypes == Spec => []FilesTypeOK
<1>1. FilesInv => FilesTypeOK
  BY DEF FilesInv
<1> QED BY <1>1, FilesInvHolds, PTL

\* While a record can be read and its file is within its retention, its bytes
\* are there, whole: saved last (routes.ts), swept when found old (cleanup.ts),
\* which only a file whose write once stopped for that long was before.
THEOREM RecordsHaveBytes == Spec => []RecordHasBytes
<1>1. FilesInv => RecordHasBytes
  BY KeysDiffer, UploadAssumption, StorageAssumption
     DEF FilesInv, RecordHasBytes, RecordIsLast, RecordAt, GoneIsOld, FilesTypeOK, StorageTypeOK
<1> QED BY <1>1, FilesInvHolds, PTL

\* No path of an answered request leaves its staging file behind, but for the
\* one on which the catch could not remove it (upload.ts, the catch of routes.ts).
THEOREM AnsweredLeaveNoStaging == Spec => []AnsweredLeavesNoStaging
<1>1. FilesInv => AnsweredLeavesNoStaging
  BY DEF FilesInv
<1> QED BY <1>1, FilesInvHolds, PTL

\* The output of a completed job is whole, until the sweep takes it for its age
\* or for the age it had when its write had stopped (image.ts, csv.ts, cleanup.ts).
THEOREM ResultsAreWhole == Spec => []ResultIsWhole
<1>1. FilesInv => ResultIsWhole
  <2> SUFFICES ASSUME FilesInv, NEW u \in Upload, job[u] = "completed"
               PROVE  \/ bytes[outputKey(u)] = "whole"
                      \/ bytes[outputKey(u)] = "gone" /\ MayBeSwept(outputKey(u))
    BY DEF ResultIsWhole
  <2>1. bytes[outputKey(u)] \in {"whole", "gone"} /\ run[u] \in 1..MaxRuns
    <3>1. JobAt(u) /\ run[u] \in 0..MaxRuns /\ MaxRuns \in Nat
      BY ProcessorAssumption DEF FilesInv, OutputIsWhere, FilesTypeOK, ProcessorTypeOK
    <3> QED BY <3>1 DEF JobAt
  <2>2. outputKey(u) \in Key \ Staging
    BY <2>1, KeysDiffer DEF outputKey
  <2> QED BY <2>1, <2>2 DEF FilesInv, GoneIsOld
<1> QED BY <1>1, FilesInvHolds, PTL

\* Whatever the sweep does between the stats of a download, what is announced
\* and sent is the whole of a result (download.ts).
THEOREM ServedAreWhole == Spec => []ServedIsWhole
<1>1. FilesInv => ServedIsWhole
  BY DEF FilesInv, DownloadIsOfResult, ServedIsWhole
<1> QED BY <1>1, FilesInvHolds, PTL

\* Every error makes the counter of uploads miss one or count one twice, at most;
\* no removal is counted more than twice; and unless something failed both
\* counters are exact (metrics.ts).
THEOREM FileCountersAreRight == Spec => []FileCountersHold
<1>1. FilesInv => FileCountersHold
  BY DEF FilesInv
<1> QED BY <1>1, FilesInvHolds, PTL

\* No step of any of them rewrites a file or brings it back (storage.ts).
THEOREM FilesAreWrittenOnce == Spec => WrittenOnce
<1>1. ASSUME FilesInv, [Next]_vars PROVE Grown
  <2>1. CASE \E u \in Upload : Uploading(u) \/ UploadFails(u)
    BY <1>1, <2>1, UploadSteps
  <2>2. CASE \E u \in Upload : JobArrives(u) \/ Processing(u) \/ JobFaults(u)
    BY <1>1, <2>2, JobSteps
  <2>3. CASE Sweeping \/ SweepFaults
    <3>1. bytes \in [Key -> Bytes]
      BY <1>1 DEF FilesInv, FilesTypeOK, StorageTypeOK, Bytes
    <3> QED BY <2>3, <3>1 DEF Sweeping, SweepFaults, Sweep, SweepStart, SweepEnd, SweepLook, SweepRemove,
                              SweepFails, SweepDies, SweepError, Remove, Removed, Grown, Grows
  <2>4. CASE Tick \/ ApiDies \/ Requests \/ (\E d \in Download : Downloading(d)) \/ UNCHANGED vars
    <3>1. bytes' = bytes
      BY <2>4 DEF Tick, StorageTick, ApiDies, Requests, MintLink, Get, Downloading, GetStep,
                  CheckExists, ReadSize, Open, Opened, Served, storageVars, vars
    <3> QED BY <3>1 DEF Grown, Grows
  <2> QED BY <1>1, <2>1, <2>2, <2>3, <2>4 DEF Next
<1>2. FilesInv /\ Grown => \A k \in Key : Rank(bytes[k]) <= Rank(bytes'[k])
  BY DEF FilesInv, FilesTypeOK, StorageTypeOK, Grown, Grows, Rank
<1>3. FilesInv /\ [Next]_vars => [\A k \in Key : Rank(bytes[k]) <= Rank(bytes'[k])]_vars
  BY <1>1, <1>2
<1> QED BY <1>3, FilesInvHolds, PTL DEF Spec, WrittenOnce

\* With signing on, a file is looked up only for a link minted for that very
\* file that has not lapsed (signing.ts, download.ts).
THEOREM OnlyGrantedAreServed == Spec => OnlyGranted
<1> DEFINE Granted == \A d \in Download :
                        /\ Signing
                        /\ get[d].at \in Outcomes
                        /\ get'[d].at = "exists"
                        => link[get'[d].key] >= 0
<1>1. ASSUME FilesInv, [Next]_vars PROVE Granted
  <2> SUFFICES ASSUME NEW d \in Download, Signing, get[d].at \in Outcomes, get'[d].at = "exists"
               PROVE  link[get'[d].key] >= 0
    OBVIOUS
  <2>1. /\ get \in [Download -> [at : Awaits \cup Outcomes, key : Public,
                                 size : {"none", "partial", "whole"}]]
        /\ link \in [Public -> {NoLink, Lapsed} \cup 0..LinkTtl]
    BY <1>1 DEF FilesInv, FilesTypeOK, DownloadTypeOK
  <2>2. get[d].at # "exists"
    BY DEF Outcomes
  <2>3. get' # get
    BY <2>2
  <2>4. \/ \E k \in Public, e \in Download : Get(e, k)
        \/ \E e \in Download : GetStep(e)
        \/ get' = [e \in Download |-> NoGet(get[e].key)]
    BY <1>1, <2>3 DEF Next, Tick, ApiDies, GetsDie, Requests, MintLink, Sweeping, SweepFaults,
       Uploading, UploadFails, JobArrives, Processing, JobFaults, Downloading, downloadVars, vars
  <2>5. PICK k \in Public, e \in Download : Get(e, k)
    <3>1. ~(get' = [e \in Download |-> NoGet(get[e].key)])
      BY DEF NoGet
    <3>2. ASSUME NEW e \in Download, GetStep(e) PROVE FALSE
      BY <2>1, <2>2, <3>2 DEF GetStep, CheckExists, ReadSize, Open, Opened, Served, Moves, Outcomes
    <3> QED BY <2>4, <3>1, <3>2
  <2>6. PICK m \in Minted : \E expires \in {link[m], LinkTtl} :
          get' = [get EXCEPT ![e] = [NoGet(k) EXCEPT !.at =
                        IF Verified(k, expires, sign(m, link[m])) = "ok" THEN "exists" ELSE "refused"]]
    BY <2>1, <2>2, <2>5 DEF Get, NoGet
  <2>7. PICK expires \in {link[m], LinkTtl} :
          get' = [get EXCEPT ![e] = [NoGet(k) EXCEPT !.at =
                        IF Verified(k, expires, sign(m, link[m])) = "ok" THEN "exists" ELSE "refused"]]
    BY <2>6
  <2>8. e = d /\ Verified(k, expires, sign(m, link[m])) = "ok" /\ get'[d].key = k
    BY <2>1, <2>2, <2>7 DEF NoGet
  <2>9. k = m /\ expires = link[m] /\ link[m] # Lapsed
    BY <2>8 DEF Verified, sign
  <2> QED BY <2>1, <2>8, <2>9, DownloadAssumption DEF Minted, NoLink
<1>2. FilesInv /\ [Next]_vars => [Granted]_vars
  BY <1>1
<1> QED BY <1>2, FilesInvHolds, PTL DEF Spec, OnlyGranted
=============================================================================
