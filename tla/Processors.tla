----------------------------- MODULE Processors -----------------------------
(***************************************************************************)
(* The five operations (src/jobs/image.ts, src/jobs/csv.ts) as a job of    *)
(* theirs goes through them, over the files of Storage and the records of  *)
(* Uploads.                                                                *)
(*                                                                         *)
(* An operation is a table of stages; every stage is an await, with the    *)
(* error its failure is reported as and the percentage the job is given    *)
(* once it is done.  The queue is reduced to what a job sees of it: how    *)
(* often it is run, and whether an error is permanent (JobWorker has the   *)
(* whole of it).  Each upload is given one job.                            *)
(***************************************************************************)
EXTENDS Uploads, Sequences

CONSTANTS Operation,  \* the operations a client may ask for
          MaxRuns,    \* how often a job can be run, stalls included
          Output      \* the file each run of each job writes

ImageOps == {"image.resize", "image.convert", "image.thumbnail"}
CsvOps == {"csv.validate", "csv.transform"}

ASSUME ProcessorAssumption ==
    /\ Operation # {} /\ Operation \subseteq ImageOps \cup CsvOps
    /\ MaxRuns \in Nat \ {0}
    /\ Output \in [Upload \X (1..MaxRuns) -> Key \ (Staging \cup Upload)]
    /\ \A a, b \in Upload \X (1..MaxRuns) : Output[a] = Output[b] => a = b

VARIABLES
  content,  \* what each uploaded file is: "image" or "csv"
  task,     \* what its job was asked for
  job,      \* where the job is
  run,      \* how many runs it has had
  stage,    \* the stage its run is at
  error     \* the error its last run ended with

processorVars == <<content, task, job, run, stage, error>>

PermanentErrors == {"MissingFileError", "InvalidImageError",
                    "InvalidCsvError", "InvalidOptionsError"}

-----------------------------------------------------------------------------
(* The tables.                                                             *)

Stage(does, fails, mark) == [does |-> does, fails |-> fails, mark |-> mark]

\* openImage and runPipeline: the record is read in both.
ImageStages == << Stage("options", "InvalidOptionsError", 0),
                  Stage("record", "MissingFileError", 0),
                  Stage("open", "InvalidImageError", 0),
                  Stage("stream", "Error", 0),
                  Stage("probe", "InvalidImageError", 20),
                  Stage("record", "MissingFileError", 0),
                  Stage("open", "Error", 40),
                  Stage("stream", "Error", 0),
                  Stage("create", "Error", 0),
                  Stage("write", "Error", 90) >>

OtherImageStages == ImageStages \o << Stage("return", "Error", 100) >>
ResizeStages == ImageStages \o << Stage("readBack", "Error", 0), Stage("return", "Error", 100) >>

ValidateStages == << Stage("options", "InvalidOptionsError", 0),
                     Stage("record", "MissingFileError", 10),
                     Stage("open", "InvalidCsvError", 0),
                     Stage("stream", "InvalidCsvError", 0),
                     Stage("inspect", "InvalidCsvError", 80),
                     Stage("create", "Error", 0),
                     Stage("write", "Error", 100) >>

TransformStages == << Stage("options", "InvalidOptionsError", 0),
                      Stage("record", "MissingFileError", 10),
                      Stage("open", "InvalidCsvError", 0),
                      Stage("stream", "InvalidCsvError", 0),
                      Stage("create", "InvalidCsvError", 0),
                      Stage("write", "InvalidCsvError", 100) >>

Stages(op) == CASE op = "image.resize" -> ResizeStages
                [] op = "csv.validate" -> ValidateStages
                [] op = "csv.transform" -> TransformStages
                [] OTHER -> OtherImageStages

\* What JobWorker assumes of the percentages of a run.
ASSUME MarksAscend ==
    \A op \in ImageOps \cup CsvOps : \A i, j \in 1..Len(Stages(op)) :
      i < j /\ Stages(op)[j].mark > 0 => Stages(op)[i].mark <= Stages(op)[j].mark

\* Can the operation make sense of the file?
Fits(op, kind) == \/ op \in ImageOps /\ kind = "image"
                  \/ op \in CsvOps /\ kind = "csv"

-----------------------------------------------------------------------------
ProcessorTypeOK ==
    /\ content \in [Upload -> {"image", "csv"}]
    /\ task \in [Upload -> [op : Operation, valid : BOOLEAN]]
    /\ job \in [Upload -> {"none", "queued", "running", "completed", "failed"}]
    /\ run \in [Upload -> 0..MaxRuns]
    /\ stage \in [Upload -> Nat]
    /\ \A u \in Upload : stage[u] \in 1..Len(Stages(task[u].op))
    /\ error \in [Upload -> PermanentErrors \cup {"none", "Error"}]

ProcessorInit ==
    /\ content \in [Upload -> {"image", "csv"}]
    /\ task = [u \in Upload |-> [op |-> CHOOSE op \in Operation : TRUE, valid |-> TRUE]]
    /\ job = [u \in Upload |-> "none"]
    /\ run = [u \in Upload |-> 0]
    /\ stage = [u \in Upload |-> 1]
    /\ error = [u \in Upload |-> "none"]

Now(u) == Stages(task[u].op)[stage[u]]
Does(u, what) == job[u] = "running" /\ Now(u).does \in what

\* Mutant: the key has no random part, so every run writes the same file.
outputKeyFixed(u) == Output[<<u, 1>>]

\* outputKey: a fresh random suffix for each run.
outputKey(u) == Output[<<u, run[u]>>]

\* A new run starts at the beginning, or the job is given up.
RunEnds(u, permanent) ==
    job' = [job EXCEPT ![u] = IF permanent \/ run[u] = MaxRuns THEN "failed" ELSE "queued"]

\* Mutant: the run waits for a stream that has ended in an error.
RejectsNever(u, e) == error' = [error EXCEPT ![u] = e] /\ UNCHANGED <<job, stage>>

\* The run rejects; a permanent error is never retried.
Rejects(u, e) == /\ RunEnds(u, e \in PermanentErrors)
                 /\ error' = [error EXCEPT ![u] = e]
                 /\ UNCHANGED stage

\* Mutant: one stage too many.
DonePastTheEnd(u) == /\ stage' = [stage EXCEPT ![u] = @ + 1]
                     /\ UNCHANGED <<job, error>>

\* The stage is done; the last one completes the job.
Done(u) == /\ IF stage[u] < Len(Stages(task[u].op))
                THEN stage' = [stage EXCEPT ![u] = @ + 1] /\ UNCHANGED job
                ELSE job' = [job EXCEPT ![u] = "completed"] /\ UNCHANGED stage
           /\ UNCHANGED error

DoneIf(u, condition) == IF condition THEN Done(u) ELSE Rejects(u, Now(u).fails)

FilesStay == UNCHANGED <<bytes, age, stats, faults>>
Rest == UNCHANGED <<uploadVars, sweepVars, stalled, content, task, run>>

-----------------------------------------------------------------------------
\* POST /jobs: the record must be there, now.
Submit(u) == /\ At(u, "created")
             /\ job[u] = "none"
             /\ Live(u)
             /\ job' = [job EXCEPT ![u] = "queued"]
             /\ \E op \in Operation, valid \in BOOLEAN :
                  task' = [task EXCEPT ![u] = [op |-> op, valid |-> valid]]
             /\ IncrementCounter("queued", 1)
             /\ UNCHANGED <<bytes, age, uploadVars, sweepVars, stalled,
                            content, run, stage, error>>

\* A worker takes the job.
Take(u) == /\ job[u] = "queued"
           /\ job' = [job EXCEPT ![u] = "running"]
           /\ run' = [run EXCEPT ![u] = @ + 1]
           /\ stage' = [stage EXCEPT ![u] = 1]
           /\ UNCHANGED <<storageVars, uploadVars, content, task, error>>

ParseOptions(u) == Does(u, {"options"}) /\ DoneIf(u, task[u].valid) /\ FilesStay /\ Rest

ReadRecord(u) == Does(u, {"record"}) /\ DoneIf(u, Live(u)) /\ FilesStay /\ Rest

\* storage.open: a stat, and a stream that opens the file by itself.
OpenInput(u) == Does(u, {"open"}) /\ DoneIf(u, Exists(u)) /\ FilesStay /\ Rest

\* The stream opens the file: from here its bytes stay readable, swept or not.
StreamOpens(u) == /\ Does(u, {"stream"})
                  /\ Exists(u)
                  /\ Done(u)
                  /\ FilesStay /\ Rest

\* The input was swept in between.  A pipeline rejects; where sharp is piped by
\* hand, or mkdir is still awaited, nobody listens and the process dies.
StreamBroken(u) == /\ Does(u, {"stream"})
                   /\ ~Exists(u)
                   /\ \/ task[u].op \in CsvOps /\ Rejects(u, Now(u).fails)
                      \/ task[u].op # "csv.validate" /\ RunEnds(u, FALSE) /\ UNCHANGED <<stage, error>>
                   /\ FilesStay /\ Rest

\* The input is read to decode its header, or to inspect its rows.
ReadInput(u) == /\ Does(u, {"probe", "inspect"})
                /\ DoneIf(u, Fits(task[u].op, content[u]))
                /\ FilesStay /\ Rest

\* The output file is opened ...
CreateOutput(u) == /\ Does(u, {"create"})
                   /\ Done(u)
                   /\ BeginWrite(outputKey(u))
                   /\ UNCHANGED <<stats, faults>> /\ Rest

\* Mutant: the write is not awaited.
WriteOutputUnawaited(u) == Does(u, {"write"}) /\ Done(u) /\ FilesStay /\ Rest

\* ... and written to its end, unless the input turns out to be unreadable or
\* the file is no longer there for the last stat.
WriteOutput(u) == /\ Does(u, {"write"})
                  /\ IF Exists(outputKey(u)) /\ Fits(task[u].op, content[u])
                       THEN Done(u) /\ EndWrite(outputKey(u))
                       ELSE Rejects(u, Now(u).fails) /\ UNCHANGED <<bytes, age>>
                  /\ UNCHANGED <<stats, faults>> /\ Rest

\* The output is read back, by resize only.
ReadBack(u) == Does(u, {"readBack"}) /\ DoneIf(u, Exists(outputKey(u))) /\ FilesStay /\ Rest

Return(u) == Does(u, {"return"}) /\ Done(u) /\ FilesStay /\ Rest

JobStepOf(u) == \/ Take(u) \/ ParseOptions(u) \/ ReadRecord(u) \/ OpenInput(u)
                \/ StreamOpens(u) \/ StreamBroken(u) \/ ReadInput(u) \/ CreateOutput(u) \/ WriteOutput(u)
                \/ ReadBack(u) \/ Return(u)

\* The disk fails for a moment: the stage rejects, with the error it has for
\* everything that goes wrong in it.
DiskFails(u) == /\ Does(u, {"open", "inspect", "create", "write", "readBack"})
                /\ Fault
                /\ Rejects(u, Now(u).fails)
                /\ UNCHANGED <<bytes, age, stats>> /\ Rest

\* The process dies: by itself, or because the disk fails under a stream
\* piped into sharp, whose errors nobody listens to.  The queue gives the job
\* to another, as a stalled one.
RunDies(u) == /\ job[u] = "running"
              /\ Fault
              /\ RunEnds(u, FALSE)
              /\ UNCHANGED <<bytes, age, stats, stage, error>> /\ Rest
=============================================================================
