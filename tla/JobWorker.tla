------------------------------ MODULE JobWorker ------------------------------
(***************************************************************************)
(* The worker processes of file-forge (src/jobs/worker.ts), the queue they *)
(* share (BullMQ in Redis, external) and what they tell the rest of the    *)
(* system: events on the job's channel and counters for /metrics.          *)
(*                                                                         *)
(* A worker process has Concurrency slots; a slot runs one job at a time   *)
(* through the handler of worker.ts, each await being a step of its own.   *)
(* The queue keeps a job's state, its attempts, and a lock that names the  *)
(* slot running it.  A process may stop at any step; the queue notices     *)
(* that the lock lapsed and hands the job to a live process again, at most *)
(* MaxStalls times.  With LocksCanLapse, a lock may also lapse while its   *)
(* slot is still at work, so that two slots run one job.                   *)
(***************************************************************************)
EXTENDS Naturals, Sequences, FiniteSets

CONSTANTS Worker,         \* the worker processes
          Concurrency,    \* CONCURRENCY: jobs a process runs at once
          Job,            \* the jobs a client may submit
          MaxAttempts,    \* DEFAULT_JOB_OPTIONS.attempts
          MaxStalls,      \* stalls BullMQ forgives a job (maxStalledCount)
          Marks,          \* the percentages a processor reports, in order
          Faults,         \* the errors a processor may raise
          LocksCanLapse,  \* may a live slot lose its lock?
          NoJob, NoSlot   \* model values: no job, no slot

Slot == Worker \X (1..Concurrency)
Process(s) == s[1]

\* The error classes of errors.ts, and "Error" for every other exception.
PermanentErrors == {"MissingFileError", "InvalidImageError",
                    "InvalidCsvError", "InvalidOptionsError"}
Errors == PermanentErrors \cup {"Error"}

ASSUME WorkerAssumption ==
    /\ Concurrency \in Nat \ {0}
    /\ MaxAttempts \in Nat \ {0}
    /\ MaxStalls \in Nat
    /\ Marks \in Seq(1..100)
    /\ \A m, n \in 1..Len(Marks) : m <= n => Marks[m] <= Marks[n]
    /\ Faults \subseteq Errors
    /\ LocksCanLapse \in BOOLEAN
    /\ NoJob \notin Job
    /\ NoSlot \notin Slot

VARIABLES
  \* Redis
  state,         \* BullMQ's state of each job
  attemptsMade,  \* runs of each job that ended in a result or an error
  stalls,        \* runs of each job that ended with their process or lock
  lock,          \* the slot that holds each job's lock
  progress,      \* the percentage in each job's record
  counters,      \* the job counters of metrics.ts
  \* pub/sub: what a subscriber to the job's channel saw last
  event,         \* the last event published for each job
  said,          \* what was announced since the job was last taken up
  failureTold,   \* was a 'failed' event ever published for the job?
  \* each process
  mode,          \* "up", "closing" (SIGTERM received) or "down"
  highWater,     \* the clamp map of the 'progress' listener; 0 = absent
  run            \* what each slot is doing

queueVars == <<state, attemptsMade, stalls, lock>>
toldVars == <<event, said, failureTold>>
processVars == <<mode, highWater>>
vars == <<queueVars, progress, counters, toldVars, processVars, run>>

JobStates == {"new", "waiting", "active", "delayed",
              "completed", "failed", "removed"}
Settled == {"completed", "failed"}
Words == {"nothing", "started"} \cup Settled

\* The steps of the handler: one per await of worker.ts, in order.
Steps == {"idle", "announceStart", "process", "forward",
          "publishCompleted", "countCompleted", "return",
          "publishFailed", "countFailed", "throw"}

Idle == [step |-> "idle", job |-> NoJob, made |-> 0, mark |-> 0, error |-> "none"]
Runs == [step : Steps, job : Job \cup {NoJob}, made : Nat,
         mark : 0..Len(Marks), error : Errors \cup {"none", "UnrecoverableError"}]

Percent == {Marks[i] : i \in 1..Len(Marks)}
Processing(p) == [state |-> "processing", progress |-> p]
Final(verdict) == [state |-> verdict,
                   progress |-> IF verdict = "completed" THEN 100 ELSE 0]
NoEvent == [state |-> "none", progress |-> 0]
Events == {NoEvent} \cup {Processing(p) : p \in Percent \cup {0}}
                    \cup {Final(v) : v \in Settled}

TypeOK == /\ state \in [Job -> JobStates]
          /\ attemptsMade \in [Job -> Nat]
          /\ stalls \in [Job -> Nat]
          /\ lock \in [Job -> Slot \cup {NoSlot}]
          /\ progress \in [Job -> Percent \cup {0}]
          /\ counters \in [{"queued", "completed", "failed"} -> Nat]
          /\ event \in [Job -> Events]
          /\ said \in [Job -> Words]
          /\ failureTold \in [Job -> BOOLEAN]
          /\ mode \in [Worker -> {"up", "closing", "down"}]
          /\ highWater \in [Worker -> [Job -> Percent \cup {0}]]
          /\ run \in [Slot -> Runs]

Init == /\ state = [j \in Job |-> "new"]
        /\ attemptsMade = [j \in Job |-> 0]
        /\ stalls = [j \in Job |-> 0]
        /\ lock = [j \in Job |-> NoSlot]
        /\ progress = [j \in Job |-> 0]
        /\ counters = [c \in {"queued", "completed", "failed"} |-> 0]
        /\ event = [j \in Job |-> NoEvent]
        /\ said = [j \in Job |-> "nothing"]
        /\ failureTold = [j \in Job |-> FALSE]
        /\ mode = [w \in Worker |-> "down"]
        /\ highWater = [w \in Worker |-> [j \in Job |-> 0]]
        /\ run = [s \in Slot |-> Idle]

-----------------------------------------------------------------------------
(* The vocabulary of the actions.                                          *)

At(s, step) == run[s].step = step
JobOf(s) == run[s].job
Goto(s, step) == run' = [run EXCEPT ![s].step = step]
Become(j, st) == state' = [state EXCEPT ![j] = st]
Unlock(j) == lock' = [lock EXCEPT ![j] = NoSlot]
SomeWorkerUp == \E w \in Worker : mode[w] = "up"

\* publishJobEvent.
Publish(j, e) == event' = [event EXCEPT ![j] = e]

\* incrementCounter.
IncrementCounter(c) == counters' = [counters EXCEPT ![c] = @ + 1]

IsPermanentFailure(error) == error \in PermanentErrors

\* runJobWithRetryPolicy: a failure no retry can fix becomes unrecoverable.
Rethrown(error) == IF IsPermanentFailure(error) THEN "UnrecoverableError" ELSE error

\* Is this the failure of an attempt that will not be retried?
Permanent(error) == error = "UnrecoverableError"

\* Mutant: off by one, an attempt that will be retried counts as the last.
LastAttemptTooSoon(s) == run[s].made + 2 >= MaxAttempts

\* attemptsMade + 1 >= attempts.
LastAttempt(s) == run[s].made + 1 >= MaxAttempts

-----------------------------------------------------------------------------
(* The queue (external) and the API that fills it.                         *)

\* POST /jobs: queue.add, then the counter.
Enqueue(j) == /\ state[j] = "new"
              /\ Become(j, "waiting")
              /\ IncrementCounter("queued")
              /\ UNCHANGED <<attemptsMade, stalls, lock, progress,
                             toldVars, processVars, run>>

\* A free slot takes a waiting job and its lock; the handler begins.
Taken(j) == [step |-> "announceStart", job |-> j, made |-> attemptsMade[j],
             mark |-> 0, error |-> "none"]

Fetch(s, j) == /\ mode[Process(s)] = "up"
               /\ At(s, "idle")
               /\ state[j] = "waiting"
               /\ Become(j, "active")
               /\ lock' = [lock EXCEPT ![j] = s]
               /\ run' = [run EXCEPT ![s] = Taken(j)]
               /\ said' = [said EXCEPT ![j] = "nothing"]
               /\ UNCHANGED <<attemptsMade, stalls, progress, counters, event,
                              failureTold, processVars>>

\* The backoff of a failed attempt is over.
Promote(j) == /\ state[j] = "delayed"
              /\ SomeWorkerUp
              /\ Become(j, "waiting")
              /\ UNCHANGED <<attemptsMade, stalls, lock, progress, counters,
                             toldVars, processVars, run>>

\* Is a slot working on the job whose lock it was given?
Held(j) == lock[j] # NoSlot /\ JobOf(lock[j]) = j

\* A live worker's stalled-job check finds an active job whose lock lapsed.
Stall(j) == /\ state[j] = "active"
            /\ Held(j) => LocksCanLapse
            /\ SomeWorkerUp
            /\ stalls' = [stalls EXCEPT ![j] = @ + 1]
            /\ Become(j, IF stalls[j] < MaxStalls THEN "waiting" ELSE "failed")
            /\ Unlock(j)
            /\ UNCHANGED <<attemptsMade, progress, counters, toldVars,
                           processVars, run>>

\* removeOnComplete, removeOnFail: a job is kept for longer than any run of it.
Remove(j) == /\ state[j] \in Settled
             /\ \A s \in Slot : JobOf(s) # j
             /\ Become(j, "removed")
             /\ UNCHANGED <<attemptsMade, stalls, lock, progress, counters,
                            toldVars, processVars, run>>

-----------------------------------------------------------------------------
(* The handler of worker.ts.                                               *)

\* Mutant: a run begins without saying so.
AnnounceStartSilently(s) == /\ At(s, "announceStart")
                            /\ said' = [said EXCEPT ![JobOf(s)] = "started"]
                            /\ Goto(s, "process")
                            /\ UNCHANGED <<queueVars, progress, counters, event,
                                           failureTold, processVars>>

\* publishJobEvent(processing, 0), before the processor runs.
AnnounceStart(s) == /\ At(s, "announceStart")
                    /\ Publish(JobOf(s), Processing(0))
                    /\ said' = [said EXCEPT ![JobOf(s)] = "started"]
                    /\ Goto(s, "process")
                    /\ UNCHANGED <<queueVars, progress, counters,
                                   failureTold, processVars>>

\* job.updateProgress writes the record; the 'progress' listener comes next.
Reporting(r) == [r EXCEPT !.step = "forward", !.mark = @ + 1]

\* Mutant: the number of the report is written, not its percentage.
UpdateProgressByNumber(s) == /\ At(s, "process")
                             /\ run[s].mark < Len(Marks)
                             /\ progress' = [progress EXCEPT ![JobOf(s)] = run[s].mark + 1]
                             /\ run' = [run EXCEPT ![s] = Reporting(@)]
                             /\ UNCHANGED <<queueVars, counters, toldVars, processVars>>

UpdateProgress(s) == /\ At(s, "process")
                     /\ run[s].mark < Len(Marks)
                     /\ progress' = [progress EXCEPT ![JobOf(s)] = Marks[run[s].mark + 1]]
                     /\ run' = [run EXCEPT ![s] = Reporting(@)]
                     /\ UNCHANGED <<queueVars, counters, toldVars, processVars>>

\* The 'progress' listener: forward the percentage unless it is below the
\* highest one this process has forwarded for the job.
Forwards(s) == Marks[run[s].mark] >= highWater[Process(s)][JobOf(s)]

ForwardProgress(s) ==
    /\ At(s, "forward")
    /\ IF Forwards(s)
         THEN /\ highWater' = [highWater EXCEPT
                                 ![Process(s)][JobOf(s)] = Marks[run[s].mark]]
              /\ Publish(JobOf(s), Processing(Marks[run[s].mark]))
         ELSE UNCHANGED <<highWater, event>>
    /\ Goto(s, "process")
    /\ UNCHANGED <<queueVars, progress, counters, said, failureTold, mode>>

\* Mutant: the handler returns without announcing the result.
SucceedSilently(s) == /\ At(s, "process")
                      /\ run[s].mark = Len(Marks)
                      /\ Goto(s, "return")
                      /\ UNCHANGED <<queueVars, progress, counters, toldVars, processVars>>

\* The processor returns: every percentage has been reported.
Succeed(s) == /\ At(s, "process")
              /\ run[s].mark = Len(Marks)
              /\ Goto(s, "publishCompleted")
              /\ UNCHANGED <<queueVars, progress, counters, toldVars, processVars>>

PublishCompleted(s) == /\ At(s, "publishCompleted")
                       /\ Publish(JobOf(s), Final("completed"))
                       /\ said' = [said EXCEPT ![JobOf(s)] = "completed"]
                       /\ Goto(s, "countCompleted")
                       /\ UNCHANGED <<queueVars, progress, counters,
                                      failureTold, processVars>>

CountCompleted(s) == /\ At(s, "countCompleted")
                     /\ IncrementCounter("completed")
                     /\ Goto(s, "return")
                     /\ UNCHANGED <<queueVars, progress, toldVars, processVars>>

\* Mutants: a permanent failure is not announced, or every failure is.
AnnouncesLastOnly(s, error) == LastAttempt(s)
AnnouncesAlways(s, error) == TRUE

\* The processor throws.  Only a failure that is final is announced.
Announces(s, error) == Permanent(error) \/ LastAttempt(s)

Failing(s, error) ==
    [run[s] EXCEPT !.error = error,
                   !.step = IF Announces(s, error) THEN "publishFailed" ELSE "throw"]

\* Mutant: the handler starts the processor over instead of rethrowing.
FailInPlace(s, fault) ==
    /\ At(s, "process")
    /\ run' = [run EXCEPT ![s].mark = 0]
    /\ UNCHANGED <<queueVars, progress, counters, toldVars, processVars>>

\* The catch block: the error is classified and rethrown.
Fail(s, fault) ==
    /\ At(s, "process")
    /\ run' = [run EXCEPT ![s] = Failing(s, Rethrown(fault))]
    /\ UNCHANGED <<queueVars, progress, counters, toldVars, processVars>>

\* Mutant: an announced failure is not counted.
PublishFailedOnly(s) == /\ At(s, "publishFailed")
                        /\ Publish(JobOf(s), Final("failed"))
                        /\ said' = [said EXCEPT ![JobOf(s)] = "failed"]
                        /\ failureTold' = [failureTold EXCEPT ![JobOf(s)] = TRUE]
                        /\ Goto(s, "throw")
                        /\ UNCHANGED <<queueVars, progress, counters, processVars>>

\* publishJobEvent(failed), then the counter.
PublishFailed(s) == /\ At(s, "publishFailed")
                    /\ Publish(JobOf(s), Final("failed"))
                    /\ said' = [said EXCEPT ![JobOf(s)] = "failed"]
                    /\ failureTold' = [failureTold EXCEPT ![JobOf(s)] = TRUE]
                    /\ Goto(s, "countFailed")
                    /\ UNCHANGED <<queueVars, progress, counters, processVars>>

CountFailed(s) == /\ At(s, "countFailed")
                  /\ IncrementCounter("failed")
                  /\ Goto(s, "throw")
                  /\ UNCHANGED <<queueVars, progress, toldVars, processVars>>

-----------------------------------------------------------------------------
(* BullMQ takes the handler's outcome, if the slot still holds the lock.   *)

HoldsLock(s) == lock[JobOf(s)] = s
Release(s) == run' = [run EXCEPT ![s] = Idle]
CountAttempt(j) == attemptsMade' = [attemptsMade EXCEPT ![j] = @ + 1]

\* The result is recorded; the 'completed' listener forgets the high water.
Complete(s) == /\ At(s, "return")
               /\ HoldsLock(s)
               /\ Become(JobOf(s), "completed")
               /\ CountAttempt(JobOf(s))
               /\ Unlock(JobOf(s))
               /\ highWater' = [highWater EXCEPT ![Process(s)][JobOf(s)] = 0]
               /\ Release(s)
               /\ UNCHANGED <<stalls, progress, counters, toldVars, mode>>

\* Mutant: off by one, the attempt that just failed is not counted.
RetriesOnceMore(s) == run[s].error # "UnrecoverableError" /\ run[s].made < MaxAttempts

\* The error is recorded, for good or with a retry after a backoff.
Retries(s) == run[s].error # "UnrecoverableError" /\ run[s].made + 1 < MaxAttempts
Outcome(s) == IF Retries(s) THEN "delayed" ELSE "failed"

RecordFailure(s) == /\ At(s, "throw")
                    /\ HoldsLock(s)
                    /\ Become(JobOf(s), Outcome(s))
                    /\ CountAttempt(JobOf(s))
                    /\ Unlock(JobOf(s))
                    /\ Release(s)
                    /\ UNCHANGED <<stalls, progress, counters, toldVars, processVars>>

\* The lock is another's: the outcome is rejected.
Reject(s) == /\ run[s].step \in {"return", "throw"}
             /\ ~HoldsLock(s)
             /\ Release(s)
             /\ UNCHANGED <<queueVars, progress, counters, toldVars, processVars>>

-----------------------------------------------------------------------------
(* The life of a process.                                                  *)

Busy(w) == \E s \in Slot : Process(s) = w /\ ~At(s, "idle")

StartWorker(w) == /\ mode[w] = "down"
                  /\ mode' = [mode EXCEPT ![w] = "up"]
                  /\ UNCHANGED <<queueVars, progress, counters, toldVars,
                                 highWater, run>>

\* SIGTERM: worker.close() takes no more jobs and waits for those in flight.
Shutdown(w) == /\ mode[w] = "up"
               /\ mode' = [mode EXCEPT ![w] = "closing"]
               /\ UNCHANGED <<queueVars, progress, counters, toldVars,
                              highWater, run>>

\* The memory of a process goes with it.
Gone(w) == /\ mode' = [mode EXCEPT ![w] = "down"]
           /\ highWater' = [highWater EXCEPT ![w] = [j \in Job |-> 0]]
           /\ run' = [s \in Slot |-> IF Process(s) = w THEN Idle ELSE run[s]]
           /\ UNCHANGED <<queueVars, progress, counters, toldVars>>

CloseDone(w) == mode[w] = "closing" /\ ~Busy(w) /\ Gone(w)

\* A crash, or the forced exit of a shutdown that takes too long.
Crash(w) == mode[w] # "down" /\ Gone(w)

-----------------------------------------------------------------------------
JobStep(j) == Enqueue(j) \/ Promote(j) \/ Stall(j) \/ Remove(j)

SlotStep(s) == \/ AnnounceStart(s) \/ UpdateProgress(s) \/ ForwardProgress(s)
               \/ Succeed(s) \/ PublishCompleted(s) \/ CountCompleted(s)
               \/ \E fault \in Faults : Fail(s, fault)
               \/ PublishFailed(s) \/ CountFailed(s)
               \/ Complete(s) \/ RecordFailure(s) \/ Reject(s)

WorkerStep(w) == StartWorker(w) \/ Shutdown(w) \/ CloseDone(w) \/ Crash(w)

Next == \/ \E j \in Job : JobStep(j)
        \/ \E s \in Slot, j \in Job : Fetch(s, j)
        \/ \E s \in Slot : SlotStep(s)
        \/ \E w \in Worker : WorkerStep(w)

Spec == Init /\ [][Next]_vars

(***************************************************************************)
(* Every await of a handler in a live process resolves, a closing process  *)
(* exits (on its own or by force), and the orchestrator restarts a process *)
(* that is down (docker-compose: restart unless-stopped).  Processes may   *)
(* come and go for ever, so what needs a live one is only enabled again    *)
(* and again: strong fairness.  A lock whose slot is gone lapses for good; *)
(* that a live slot loses its lock is never required.                      *)
(***************************************************************************)
Fairness == /\ \A s \in Slot : WF_vars(SlotStep(s))
            /\ \A w \in Worker : /\ WF_vars(StartWorker(w))
                                 /\ WF_vars(CloseDone(w) \/ (mode[w] = "closing" /\ Crash(w)))
            /\ \A j \in Job : /\ SF_vars(\E s \in Slot : Fetch(s, j))
                              /\ SF_vars(Promote(j))
                              /\ SF_vars(~Held(j) /\ Stall(j))

FairSpec == Spec /\ Fairness

-----------------------------------------------------------------------------
(* What a run of the handler owes to those outside.                        *)

\* No live slot ever lost the lock of the job while it was running it.
Exclusive(j) == LocksCanLapse => stalls[j] = 0

\* A settled job's verdict was announced before it was recorded, so a watcher
\* hears it from the channel; only a job given up for its stalls is silent.
SettledIsAnnounced ==
    \A j \in Job : Exclusive(j)
      => /\ state[j] = "completed" => said[j] = "completed"
         /\ state[j] = "failed" => said[j] = "failed" \/ stalls[j] > MaxStalls

\* While no process or lock is lost, an announced failure is the end of the
\* job: the handler's guess of the last attempt agrees with the queue's.
FailureIsFinal ==
    \A j \in Job : failureTold[j] /\ stalls[j] = 0
                     => said[j] = "failed" /\ state[j] \in {"active", "failed", "removed"}

\* Whatever crashes and faults come, a job is started only so many times.
RunsAreBounded ==
    \A j \in Job : attemptsMade[j] + stalls[j] <= MaxAttempts + MaxStalls

\* No run of any job has been lost with its process or lock so far.
NothingLost == \A j \in Job : /\ stalls[j] = 0
                              /\ state[j] = "active" => Held(j)
NothingRemoved == \A j \in Job : state[j] # "removed"

\* With no run lost, the counters of /metrics are the settled jobs plus those
\* whose verdict is counted and on its way to the queue: nothing counts twice.
CountersAreExact ==
    NothingLost /\ NothingRemoved =>
      /\ counters["completed"] = Cardinality({j \in Job : state[j] = "completed"})
                                 + Cardinality({s \in Slot : At(s, "return")})
      /\ counters["failed"] = Cardinality({j \in Job : state[j] = "failed"})
                              + Cardinality({s \in Slot : /\ At(s, "throw")
                                                          /\ ~Retries(s)})

\* Even when runs are lost and jobs removed, no verdict the queue records goes
\* uncounted, except that of a job given up for its stalls.
VerdictsAreCounted ==
    /\ Cardinality({j \in Job : state[j] = "completed"}) <= counters["completed"]
    /\ Cardinality({j \in Job : state[j] = "failed" /\ stalls[j] <= MaxStalls})
         <= counters["failed"]

\* The percentage a watcher sees goes back only where a run begins or fails:
\* one run's reports are never mixed up with the clamp of an earlier one.
ProgressRestartsOnly ==
    [][\A j \in Job : event'[j].progress < event[j].progress
                        => event'[j] \in {Processing(0), Final("failed")}]_vars

\* A submitted job settles, however often processes and locks are lost.
EverySubmissionSettles ==
    \A j \in Job : state[j] = "waiting" ~> state[j] \in Settled \cup {"removed"}

-----------------------------------------------------------------------------
(* The inductive invariant behind these properties.                        *)

\* A slot has a job exactly while its handler is at work.
BusyHasJob == \A s \in Slot : At(s, "idle") <=> JobOf(s) = NoJob

\* The listener is called with a percentage the run has reported.
ForwardsAMark == \A s \in Slot : At(s, "forward") => run[s].mark \in 1..Len(Marks)

\* A lock is held by a slot that was given the job and its attempts so far.
LocksAreCurrent ==
    \A j \in Job : lock[j] # NoSlot
      => /\ state[j] = "active"
         /\ Held(j) => run[lock[j]].made = attemptsMade[j]

\* An exclusive job is run by the slot that holds its lock and by no other.
RunnerHoldsLock ==
    \A s \in Slot, j \in Job : JobOf(s) = j /\ Exclusive(j)
                                 => state[j] = "active" /\ lock[j] = s

\* A job that is not settled has an attempt left and may still stall.
RunsAreLeft ==
    \A j \in Job : state[j] \in {"new", "waiting", "active", "delayed"}
                     => attemptsMade[j] < MaxAttempts /\ stalls[j] <= MaxStalls

\* A run that announces a failure is one the queue will not retry.
AnnouncedIsLast ==
    \A s \in Slot : run[s].step \in {"publishFailed", "countFailed"} => ~Retries(s)

\* What the runner of an exclusive job has announced so far.
RunnerHasSaid ==
    \A s \in Slot, j \in Job : JobOf(s) = j /\ Exclusive(j)
      => /\ run[s].step \in {"countCompleted", "return"} => said[j] = "completed"
         /\ run[s].step = "countFailed" => said[j] = "failed"
         /\ run[s].step = "throw" /\ ~Retries(s) => said[j] = "failed"
         /\ failureTold[j] /\ stalls[j] = 0
              => run[s].step \in {"countFailed", "throw"} /\ ~Retries(s)

\* The highest percentage a run has reported.
Reported(s) == IF run[s].mark = 0 THEN 0 ELSE Marks[run[s].mark]

\* What the runner of an exclusive job has yet to announce, and that nothing
\* above its own reports is on the channel.
RunnerIsHeard ==
    \A s \in Slot, j \in Job : JobOf(s) = j /\ Exclusive(j)
      => /\ run[s].step = "announceStart" => said[j] = "nothing"
         /\ run[s].step \in {"process", "forward", "publishCompleted", "publishFailed"}
              => said[j] = "started"
         /\ run[s].step = "throw" /\ Retries(s) => said[j] = "started"
         /\ run[s].step \in {"process", "forward"} => event[j].progress <= Reported(s)

\* All of it together.
WorkerInv == /\ TypeOK
             /\ BusyHasJob
             /\ ForwardsAMark
             /\ LocksAreCurrent
             /\ RunnerHoldsLock
             /\ RunsAreLeft
             /\ RunsAreBounded
             /\ AnnouncedIsLast
             /\ RunnerHasSaid
             /\ RunnerIsHeard
             /\ FailureIsFinal
             /\ SettledIsAnnounced

-----------------------------------------------------------------------------
(* The worker implements the lifecycle, as long as a lock names the slot   *)
(* that runs the job (LocksCanLapse = FALSE).                              *)

\* publicState of routes.ts; "new" and "removed" are a job nobody can fetch.
PublicState(st) == CASE st = "active" -> "processing"
                     [] st = "delayed" -> "retrying"
                     [] st = "waiting" -> "queued"
                     [] OTHER -> st

RunsLeft(j) == (MaxAttempts + MaxStalls)
                 - (attemptsMade[j] + stalls[j] + IF state[j] = "active" THEN 1 ELSE 0)

Lifecycle == INSTANCE JobLifecycle WITH
               MaxRuns <- MaxAttempts + MaxStalls,
               phase <- [j \in Job |-> PublicState(state[j])],
               runsLeft <- [j \in Job |-> RunsLeft(j)],
               lost <- [j \in Job |-> stalls[j] > 0]

\* Every step of the workers is a step, or no step, of the jobs' lifecycle.
ImplementsLifecycle == Lifecycle!JobSpec
=============================================================================
