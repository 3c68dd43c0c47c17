--------------------------- MODULE JobWorkerProofs ---------------------------
(***************************************************************************)
(* Proofs about JobWorker, for every set of processes and jobs, every      *)
(* number of slots, attempts and stalls, and every list of percentages.    *)
(***************************************************************************)
EXTENDS JobWorker, TLAPS

\* The processor's percentages are percentages a record can hold.
LEMMA MarksArePercent ==
  /\ Len(Marks) \in Nat
  /\ \A n \in 1..Len(Marks) : Marks[n] \in Percent
BY WorkerAssumption DEF Percent

\* They are percentages.
LEMMA PercentTypes == Percent \subseteq 1..100 /\ Percent \subseteq Nat
<1>1. \A n \in 1..Len(Marks) : Marks[n] \in 1..100
  <2> DEFINE S == 1..100
  <2>1. Marks \in Seq(S)
    BY WorkerAssumption
  <2> HIDE DEF S
  <2>2. \A n \in 1..Len(Marks) : Marks[n] \in S
    BY <2>1
  <2> QED BY <2>2 DEF S
<1>2. Percent \subseteq 1..100
  BY <1>1 DEF Percent
<1>3. \A n \in 1..100 : n \in Nat
  OBVIOUS
<1> QED BY <1>2, <1>3

\* A slot that is at work satisfies the types of what it holds.
LEMMA RunTypes ==
  ASSUME TypeOK, NEW s \in Slot
  PROVE  /\ run[s] \in Runs
         /\ run[s].mark \in 0..Len(Marks)
         /\ run[s].made \in Nat
         /\ JobOf(s) \in Job \cup {NoJob}
BY DEF TypeOK, Runs, JobOf

\* Moving a slot to another step keeps the type of what it does.
LEMMA GotoTypes ==
  ASSUME TypeOK, NEW s \in Slot, NEW step \in Steps, Goto(s, step)
  PROVE  run' \in [Slot -> Runs]
BY DEF TypeOK, Goto, Runs

\* Counting an attempt keeps the type of the attempts.
LEMMA AttemptTypes ==
  ASSUME TypeOK, NEW j, CountAttempt(j)
  PROVE  attemptsMade' \in [Job -> Nat]
<1>1. attemptsMade \in [Job -> Nat]
  BY DEF TypeOK
<1>2. CASE j \in Job
  BY <1>1, <1>2 DEF CountAttempt
<1>3. CASE j \notin Job
  BY <1>1, <1>3 DEF CountAttempt
<1> QED BY <1>2, <1>3

\* What the handler publishes are events.
LEMMA EventTypes ==
  /\ \A p \in Percent \cup {0} : Processing(p) \in Events
  /\ \A v \in Settled : Final(v) \in Events
  /\ Settled \subseteq Words
BY DEF Events, Words

\* The percentage of an event is one.
LEMMA EventPercentages == \A e \in Events : e.progress \in Nat /\ e.progress <= 100
<1> SUFFICES ASSUME NEW e \in Events PROVE e.progress \in Nat /\ e.progress <= 100
  OBVIOUS
<1>1. CASE e = NoEvent
  BY <1>1 DEF NoEvent
<1>2. ASSUME NEW p \in Percent \cup {0}, e = Processing(p)
      PROVE  e.progress \in Nat /\ e.progress <= 100
  <2>1. p \in Nat /\ p <= 100
    BY PercentTypes
  <2> QED BY <1>2, <2>1 DEF Processing
<1>3. ASSUME NEW v \in Settled, e = Final(v) PROVE e.progress \in Nat /\ e.progress <= 100
  BY <1>3 DEF Final
<1> QED BY <1>1, <1>2, <1>3 DEF Events

\* TypeOK: the state of queue, channel, counters and processes keeps its types
\* through every step of worker.ts and of the queue.
LEMMA TypeOKStep == TypeOK /\ ForwardsAMark /\ [Next]_vars => TypeOK'
<1> SUFFICES ASSUME TypeOK, ForwardsAMark, [Next]_vars PROVE TypeOK'
  OBVIOUS
<1>1. ASSUME NEW j \in Job, JobStep(j) PROVE TypeOK'
  <2>1. CASE Enqueue(j)
    BY <2>1 DEF TypeOK, Enqueue, Become, IncrementCounter, JobStates, toldVars, processVars
  <2>2. CASE Promote(j)
    BY <2>2 DEF TypeOK, Promote, Become, JobStates, toldVars, processVars
  <2>3. CASE Stall(j)
    BY <2>3 DEF TypeOK, Stall, Become, Unlock, JobStates, toldVars, processVars
  <2>4. CASE Remove(j)
    BY <2>4 DEF TypeOK, Remove, Become, JobStates, toldVars, processVars
  <2> QED BY <1>1, <2>1, <2>2, <2>3, <2>4 DEF JobStep
<1>2. ASSUME NEW s \in Slot, NEW j \in Job, Fetch(s, j) PROVE TypeOK'
  <2>1. Taken(j) \in Runs
    BY MarksArePercent DEF TypeOK, Taken, Runs, Steps
  <2>2. run' \in [Slot -> Runs]
    BY <1>2, <2>1 DEF Fetch, TypeOK
  <2> QED BY <1>2, <2>2 DEF TypeOK, Fetch, Become, JobStates, Words, processVars
<1>3. ASSUME NEW s \in Slot, SlotStep(s) PROVE TypeOK'
  <2>0. /\ run[s] \in Runs
        /\ run[s].mark \in 0..Len(Marks)
    BY RunTypes
  <2>1. CASE AnnounceStart(s)
    <3>1. run' \in [Slot -> Runs]
      BY <2>1, GotoTypes DEF AnnounceStart, Steps
    <3> QED BY <2>1, <3>1, EventTypes DEF TypeOK, AnnounceStart, Publish, Words,
               queueVars, processVars
  <2>2. CASE UpdateProgress(s)
    <3>1. run[s].mark + 1 \in 1..Len(Marks)
      BY <2>0, <2>2, MarksArePercent DEF UpdateProgress
    <3>2. Marks[run[s].mark + 1] \in Percent
      BY <3>1, MarksArePercent
    <3>3. progress' \in [Job -> Percent \cup {0}]
      BY <2>2, <3>2 DEF UpdateProgress, TypeOK
    <3>4. Reporting(run[s]) \in Runs
      <4>1. run[s].mark + 1 \in 0..Len(Marks)
        BY <3>1, MarksArePercent
      <4>2. ASSUME NEW r \in Runs, r.mark + 1 \in 0..Len(Marks)
            PROVE  Reporting(r) \in Runs
        BY <4>2 DEF Reporting, Runs, Steps
      <4> QED BY <2>0, <4>1, <4>2
    <3>5. run' \in [Slot -> Runs]
      BY <2>2, <3>4 DEF UpdateProgress, TypeOK
    <3> QED BY <2>2, <3>3, <3>5 DEF TypeOK, UpdateProgress, queueVars, toldVars, processVars
  <2>3. CASE ForwardProgress(s)
    <3>1. run' \in [Slot -> Runs]
      BY <2>0, <2>3 DEF ForwardProgress, Goto, TypeOK, Runs, Steps
    <3>2. Marks[run[s].mark] \in Percent
      BY <2>3, MarksArePercent DEF ForwardProgress, ForwardsAMark
    <3>3. highWater' \in [Worker -> [Job -> Percent \cup {0}]]
      <4> DEFINE m == Marks[run[s].mark]
                 row == [highWater[Process(s)] EXCEPT ![JobOf(s)] = m]
      <4>1. Process(s) \in Worker
        BY DEF Slot, Process
      <4>2. row \in [Job -> Percent \cup {0}]
        BY <3>2, <4>1 DEF TypeOK
      <4>3. \/ highWater' = [highWater EXCEPT ![Process(s)] = row]
            \/ highWater' = highWater
        BY <2>3 DEF ForwardProgress
      <4> HIDE DEF row
      <4> QED BY <4>2, <4>3 DEF TypeOK
    <3>4. event' \in [Job -> Events]
      BY <2>3, <3>2, EventTypes DEF ForwardProgress, TypeOK, Publish
    <3> QED BY <2>3, <3>1, <3>3, <3>4 DEF TypeOK, ForwardProgress, queueVars
  <2>4. CASE Succeed(s)
    BY <2>0, <2>4 DEF TypeOK, Succeed, Goto, Runs, Steps, queueVars, toldVars, processVars
  <2>5. CASE PublishCompleted(s)
    <3>1. run' \in [Slot -> Runs]
      BY <2>5, GotoTypes DEF PublishCompleted, Steps
    <3>2. Final("completed") \in Events /\ "completed" \in Words
      BY EventTypes DEF Settled
    <3> QED BY <2>5, <3>1, <3>2 DEF TypeOK, PublishCompleted, Publish, queueVars, processVars
  <2>6. CASE CountCompleted(s)
    <3>1. run' \in [Slot -> Runs]
      BY <2>6, GotoTypes DEF CountCompleted, Steps
    <3> QED BY <2>6, <3>1 DEF TypeOK, CountCompleted, IncrementCounter,
               queueVars, toldVars, processVars
  <2>7. ASSUME NEW fault \in Faults, Fail(s, fault) PROVE TypeOK'
    <3>1. Rethrown(fault) \in Errors \cup {"UnrecoverableError"}
      BY WorkerAssumption DEF Rethrown
    <3>3. Failing(s, Rethrown(fault)) \in Runs
      BY <2>0, <3>1 DEF Failing, Runs, Steps
    <3>4. run' \in [Slot -> Runs]
      BY <2>7, <3>3 DEF Fail, TypeOK
    <3> QED BY <2>7, <3>4 DEF TypeOK, Fail, queueVars, toldVars, processVars
  <2>8. CASE PublishFailed(s)
    <3>1. run' \in [Slot -> Runs]
      BY <2>8, GotoTypes DEF PublishFailed, Steps
    <3>2. Final("failed") \in Events /\ "failed" \in Words
      BY EventTypes DEF Settled
    <3> QED BY <2>8, <3>1, <3>2 DEF TypeOK, PublishFailed, Publish, queueVars, processVars
  <2>9. CASE CountFailed(s)
    <3>1. run' \in [Slot -> Runs]
      BY <2>9, GotoTypes DEF CountFailed, Steps
    <3> QED BY <2>9, <3>1 DEF TypeOK, CountFailed, IncrementCounter,
               queueVars, toldVars, processVars
  <2>10. Idle \in Runs
    BY MarksArePercent DEF Idle, Runs, Steps
  <2>11. CASE Complete(s)
    <3>1. highWater' \in [Worker -> [Job -> Percent \cup {0}]]
      BY <2>11 DEF Complete, TypeOK
    <3> QED
      BY <2>10, <2>11, <3>1 DEF TypeOK, Complete, Become, CountAttempt, Unlock, Release,
         JobStates, toldVars
  <2>12. CASE RecordFailure(s)
    <3>1. run' \in [Slot -> Runs]
      BY <2>10, <2>12 DEF RecordFailure, Release, TypeOK
    <3>2. Outcome(s) \in JobStates
      BY DEF Outcome, JobStates
    <3>3. /\ attemptsMade' \in [Job -> Nat]
          /\ lock' \in [Job -> Slot \cup {NoSlot}]
      <4>1. CountAttempt(JobOf(s)) /\ Unlock(JobOf(s))
        BY <2>12 DEF RecordFailure
      <4>2. attemptsMade' \in [Job -> Nat]
        BY <4>1, AttemptTypes
      <4>3. lock' \in [Job -> Slot \cup {NoSlot}]
        BY <4>1 DEF Unlock, TypeOK
      <4> QED BY <4>2, <4>3
    <3>4. state' \in [Job -> JobStates]
      BY <2>12, <3>2 DEF RecordFailure, Become, TypeOK
    <3> QED BY <2>12, <3>1, <3>3, <3>4 DEF TypeOK, RecordFailure, toldVars, processVars
  <2>13. CASE Reject(s)
    BY <2>10, <2>13 DEF TypeOK, Reject, Release, queueVars, toldVars, processVars
  <2> QED
    BY <1>3, <2>1, <2>2, <2>3, <2>4, <2>5, <2>6, <2>7, <2>8, <2>9, <2>11, <2>12, <2>13
       DEF SlotStep
<1>4. ASSUME NEW w \in Worker, WorkerStep(w) PROVE TypeOK'
  <2>1. Idle \in Runs
    BY MarksArePercent DEF Idle, Runs, Steps
  <2>2. CASE StartWorker(w)
    BY <2>2 DEF TypeOK, StartWorker, queueVars, toldVars
  <2>3. CASE Shutdown(w)
    BY <2>3 DEF TypeOK, Shutdown, queueVars, toldVars
  <2>4. CASE Gone(w)
    BY <2>1, <2>4 DEF TypeOK, Gone, queueVars, toldVars
  <2> QED BY <1>4, <2>2, <2>3, <2>4 DEF WorkerStep, CloseDone, Crash
<1>5. CASE UNCHANGED vars
  BY <1>5 DEF TypeOK, vars, queueVars, toldVars, processVars
<1> QED BY <1>1, <1>2, <1>3, <1>4, <1>5 DEF Next

-----------------------------------------------------------------------------
(* The steps of a handler between taking a job and releasing it.           *)

Inner(s) == \/ AnnounceStart(s) \/ UpdateProgress(s) \/ ForwardProgress(s)
            \/ Succeed(s) \/ PublishCompleted(s) \/ CountCompleted(s)
            \/ \E fault \in Faults : Fail(s, fault)
            \/ PublishFailed(s) \/ CountFailed(s)

\* Such a step leaves the queue and the other slots alone, and goes on with
\* the same job and attempt.
LEMMA InnerEffect ==
  ASSUME TypeOK, NEW s \in Slot, Inner(s)
  PROVE  /\ UNCHANGED queueVars
         /\ run[s].step # "idle" /\ run'[s].step # "idle"
         /\ \A t \in Slot : run'[t].job = run[t].job /\ run'[t].made = run[t].made
         /\ \A t \in Slot : t # s => run'[t] = run[t]
<1> DEFINE Effect == /\ run[s].step # "idle" /\ run'[s].step # "idle"
                     /\ \A t \in Slot : run'[t].job = run[t].job /\ run'[t].made = run[t].made
                     /\ \A t \in Slot : t # s => run'[t] = run[t]
<1>1. UNCHANGED queueVars
  BY DEF Inner, AnnounceStart, UpdateProgress, ForwardProgress, Succeed, PublishCompleted,
         CountCompleted, Fail, PublishFailed, CountFailed
<1>2. ASSUME NEW step, step # "idle", Goto(s, step), run[s].step # "idle" PROVE Effect
  BY <1>2 DEF Goto, TypeOK, Runs
<1>3. CASE UpdateProgress(s)
  <2>1. ASSUME NEW r \in Runs PROVE /\ Reporting(r).job = r.job /\ Reporting(r).made = r.made
                                    /\ Reporting(r).step = "forward"
    BY DEF Reporting, Runs
  <2> QED BY <1>3, <2>1 DEF UpdateProgress, TypeOK, At
<1>4. ASSUME NEW fault \in Faults, Fail(s, fault) PROVE Effect
  <2> DEFINE r == Failing(s, Rethrown(fault))
  <2>1. r.job = run[s].job /\ r.made = run[s].made /\ r.step # "idle"
    BY DEF Failing, TypeOK, Runs
  <2> QED BY <1>4, <2>1 DEF Fail, TypeOK, At
<1>5. CASE \/ AnnounceStart(s) \/ ForwardProgress(s) \/ Succeed(s) \/ PublishCompleted(s)
           \/ CountCompleted(s) \/ PublishFailed(s) \/ CountFailed(s)
  BY <1>2, <1>5 DEF AnnounceStart, ForwardProgress, Succeed, PublishCompleted,
         CountCompleted, PublishFailed, CountFailed, At
<1> QED BY <1>1, <1>3, <1>4, <1>5 DEF Inner

\* A slot that releases its job is idle afterwards; the others go on.
LEMMA ReleaseEffect ==
  ASSUME TypeOK, NEW s \in Slot, Release(s)
  PROVE  /\ run'[s] = Idle
         /\ \A t \in Slot : t # s => run'[t] = run[t]
BY DEF Release, TypeOK

\* The steps of the system by their effect on slots and queue.
LEMMA NextCases ==
  ASSUME [Next]_vars
  PROVE  \/ \E j \in Job : Enqueue(j) \/ Promote(j) \/ Stall(j) \/ Remove(j)
         \/ \E s \in Slot, j \in Job : Fetch(s, j)
         \/ \E s \in Slot : Inner(s)
         \/ \E s \in Slot : Complete(s) \/ RecordFailure(s) \/ Reject(s)
         \/ \E w \in Worker : StartWorker(w) \/ Shutdown(w) \/ Gone(w)
         \/ UNCHANGED vars
BY DEF Next, JobStep, SlotStep, WorkerStep, Inner, CloseDone, Crash

-----------------------------------------------------------------------------
(* Each part of the invariant is preserved.                                *)

LEMMA BusyHasJobStep == TypeOK /\ BusyHasJob /\ [Next]_vars => BusyHasJob'
<1> SUFFICES ASSUME TypeOK, BusyHasJob, [Next]_vars, NEW t \in Slot
             PROVE  (At(t, "idle") <=> JobOf(t) = NoJob)'
  BY DEF BusyHasJob
<1>1. ASSUME NEW s \in Slot, Inner(s) PROVE (At(t, "idle") <=> JobOf(t) = NoJob)'
  BY <1>1, InnerEffect DEF BusyHasJob, At, JobOf
<1>2. ASSUME NEW s \in Slot, Release(s) PROVE (At(t, "idle") <=> JobOf(t) = NoJob)'
  BY <1>2, ReleaseEffect DEF BusyHasJob, At, JobOf, Idle
<1>3. ASSUME NEW s \in Slot, NEW j \in Job, Fetch(s, j)
      PROVE  (At(t, "idle") <=> JobOf(t) = NoJob)'
  BY <1>3, WorkerAssumption DEF Fetch, Taken, BusyHasJob, At, JobOf, TypeOK
<1>4. ASSUME NEW w \in Worker, Gone(w) PROVE (At(t, "idle") <=> JobOf(t) = NoJob)'
  BY <1>4 DEF Gone, Idle, BusyHasJob, At, JobOf
<1>5. CASE UNCHANGED run
  BY <1>5 DEF BusyHasJob, At, JobOf
<1> QED
  BY <1>1, <1>2, <1>3, <1>4, <1>5, NextCases
     DEF Enqueue, Promote, Stall, Remove, Complete, RecordFailure, Reject,
         StartWorker, Shutdown, vars

LEMMA ForwardsAMarkStep ==
  TypeOK /\ ForwardsAMark /\ [Next]_vars => ForwardsAMark'
<1> SUFFICES ASSUME TypeOK, ForwardsAMark, [Next]_vars, NEW t \in Slot
             PROVE  (At(t, "forward") => run[t].mark \in 1..Len(Marks))'
  BY DEF ForwardsAMark
<1> DEFINE Goal == (At(t, "forward") => run[t].mark \in 1..Len(Marks))'
<1>1. ASSUME NEW s \in Slot, NEW step, Goto(s, step), step # "forward" PROVE Goal
  BY <1>1 DEF Goto, ForwardsAMark, At, TypeOK, Runs
<1>2. ASSUME NEW s \in Slot, UpdateProgress(s) PROVE Goal
  <2>1. ASSUME NEW r \in Runs PROVE Reporting(r).mark = r.mark + 1
    BY DEF Reporting, Runs
  <2>2. run'[s].mark = run[s].mark + 1 /\ \A u \in Slot : u # s => run'[u] = run[u]
    BY <1>2, <2>1 DEF UpdateProgress, TypeOK
  <2>3. run[s].mark + 1 \in 1..Len(Marks)
    BY <1>2, RunTypes, MarksArePercent DEF UpdateProgress
  <2> QED BY <2>2, <2>3 DEF ForwardsAMark, At
<1>3. ASSUME NEW s \in Slot, NEW fault \in Faults, Fail(s, fault) PROVE Goal
  <2>1. Failing(s, Rethrown(fault)).step # "forward"
    BY DEF Failing, TypeOK, Runs
  <2> QED BY <1>3, <2>1 DEF Fail, ForwardsAMark, At, TypeOK
<1>4. ASSUME NEW s \in Slot, Release(s) PROVE Goal
  BY <1>4, ReleaseEffect DEF ForwardsAMark, At, Idle
<1>5. ASSUME NEW s \in Slot, NEW j \in Job, Fetch(s, j) PROVE Goal
  BY <1>5 DEF Fetch, Taken, ForwardsAMark, At, TypeOK
<1>6. ASSUME NEW w \in Worker, Gone(w) PROVE Goal
  BY <1>6 DEF Gone, Idle, ForwardsAMark, At
<1>7. CASE UNCHANGED run
  BY <1>7 DEF ForwardsAMark, At
<1>8. ASSUME NEW s \in Slot, Inner(s) PROVE Goal
  BY <1>1, <1>2, <1>3, <1>8
     DEF Inner, AnnounceStart, ForwardProgress, Succeed, PublishCompleted,
         CountCompleted, PublishFailed, CountFailed
<1> QED
  BY <1>4, <1>5, <1>6, <1>7, <1>8, NextCases
     DEF Enqueue, Promote, Stall, Remove, Complete, RecordFailure, Reject,
         StartWorker, Shutdown, vars

LEMMA LocksAreCurrentStep ==
  TypeOK /\ LocksAreCurrent /\ [Next]_vars => LocksAreCurrent'
<1> SUFFICES ASSUME TypeOK, LocksAreCurrent, [Next]_vars, NEW j \in Job, lock'[j] # NoSlot
             PROVE  /\ state'[j] = "active"
                    /\ Held(j)' => run'[lock'[j]].made = attemptsMade'[j]
  BY DEF LocksAreCurrent
<1> DEFINE Goal == /\ state'[j] = "active"
                   /\ Held(j)' => run'[lock'[j]].made = attemptsMade'[j]
<1>0. /\ lock[j] # NoSlot => state[j] = "active" /\ lock[j] \in Slot
      /\ Held(j) => run[lock[j]].made = attemptsMade[j]
      /\ NoJob \notin Job
  BY WorkerAssumption DEF LocksAreCurrent, TypeOK, Held
<1>1. ASSUME NEW k \in Job, Enqueue(k) \/ Promote(k) \/ Stall(k) \/ Remove(k) PROVE Goal
  BY <1>0, <1>1 DEF Enqueue, Promote, Stall, Remove, Become, Unlock, Held, JobOf, TypeOK, Settled
<1>2. ASSUME NEW s \in Slot, NEW k \in Job, Fetch(s, k) PROVE Goal
  <2>1. /\ run'[s].job = k /\ run'[s].made = attemptsMade[k]
        /\ \A t \in Slot : t # s => run'[t] = run[t]
    BY <1>2 DEF Fetch, Taken, TypeOK
  <2> QED BY <1>0, <1>2, <2>1 DEF Fetch, Become, Held, JobOf, TypeOK
<1>3. ASSUME NEW s \in Slot, Inner(s) PROVE Goal
  BY <1>0, <1>3, InnerEffect DEF queueVars, Held, JobOf
<1>4. ASSUME NEW s \in Slot, Release(s),
             \/ UNCHANGED queueVars
             \/ /\ \E st : Become(JobOf(s), st)
                /\ Unlock(JobOf(s)) /\ CountAttempt(JobOf(s))
      PROVE  Goal
  <2>1. run'[s].job = NoJob /\ \A t \in Slot : t # s => run'[t] = run[t]
    BY <1>4, ReleaseEffect DEF Idle
  <2>2. /\ lock[j] = lock'[j] /\ state'[j] = state[j] /\ attemptsMade'[j] = attemptsMade[j]
    BY <1>4 DEF queueVars, Become, Unlock, CountAttempt, TypeOK
  <2> QED BY <1>0, <2>1, <2>2 DEF Held, JobOf
<1>5. ASSUME NEW w \in Worker, Gone(w) PROVE Goal
  BY <1>0, <1>5 DEF Gone, Idle, queueVars, Held, JobOf
<1>6. CASE UNCHANGED <<queueVars, run>>
  BY <1>0, <1>6 DEF queueVars, Held, JobOf
<1> QED
  BY <1>1, <1>2, <1>3, <1>4, <1>5, <1>6, NextCases
     DEF Complete, RecordFailure, Reject, StartWorker, Shutdown, vars

\* Only a stall counts one, and only of its own job.
LEMMA StallsEffect ==
  ASSUME TypeOK, [Next]_vars, NEW j \in Job
  PROVE  /\ stalls'[j] = stalls[j] \/ (Stall(j) /\ stalls'[j] = stalls[j] + 1)
         /\ Exclusive(j)' => Exclusive(j)
<1>1. stalls'[j] = stalls[j] \/ (Stall(j) /\ stalls'[j] = stalls[j] + 1)
  BY NextCases, InnerEffect
     DEF Enqueue, Promote, Stall, Remove, Fetch, queueVars, Complete, RecordFailure, Reject,
         StartWorker, Shutdown, Gone, vars, TypeOK
<1> QED BY <1>1, WorkerAssumption DEF Exclusive, TypeOK

\* While an exclusive job has a runner, it does not stall.
LEMMA ExclusiveStall ==
  ASSUME TypeOK, RunnerHoldsLock, [Next]_vars, NEW j \in Job, Stall(j), Exclusive(j)',
         NEW s \in Slot
  PROVE  JobOf(s) # j
<1>1. stalls'[j] = stalls[j] + 1 /\ Exclusive(j)
  BY StallsEffect DEF Stall, TypeOK
<1>2. ~LocksCanLapse
  BY <1>1 DEF Exclusive, TypeOK
<1>3. ~Held(j)
  BY <1>2 DEF Stall
<1> QED BY <1>1, <1>3, WorkerAssumption DEF RunnerHoldsLock, Held

LEMMA RunnerHoldsLockStep ==
  TypeOK /\ RunnerHoldsLock /\ [Next]_vars => RunnerHoldsLock'
<1> SUFFICES ASSUME TypeOK, RunnerHoldsLock, [Next]_vars, NEW t \in Slot, NEW j \in Job,
                    JobOf(t)' = j, Exclusive(j)'
             PROVE  state'[j] = "active" /\ lock'[j] = t
  BY DEF RunnerHoldsLock
<1> DEFINE Goal == state'[j] = "active" /\ lock'[j] = t
<1>0. /\ Exclusive(j)
      /\ \A s \in Slot : JobOf(s) = j => state[j] = "active" /\ lock[j] = s
      /\ NoJob \notin Job
  BY StallsEffect, WorkerAssumption DEF RunnerHoldsLock
<1>1. ASSUME NEW k \in Job, Enqueue(k) \/ Promote(k) \/ Remove(k) PROVE Goal
  BY <1>0, <1>1 DEF Enqueue, Promote, Remove, Become, JobOf, TypeOK, Settled
<1>2. ASSUME NEW k \in Job, Stall(k) PROVE Goal
  <2>1. JobOf(t) = j
    BY <1>2 DEF Stall, JobOf
  <2>2. k # j
    BY <1>2, <2>1, ExclusiveStall
  <2> QED BY <1>0, <1>2, <2>1, <2>2 DEF Stall, Become, Unlock, TypeOK
<1>3. ASSUME NEW s \in Slot, NEW k \in Job, Fetch(s, k) PROVE Goal
  <2>1. run'[s].job = k /\ \A u \in Slot : u # s => run'[u] = run[u]
    BY <1>3 DEF Fetch, Taken, TypeOK
  <2> QED BY <1>0, <1>3, <2>1 DEF Fetch, Become, JobOf, TypeOK
<1>4. ASSUME NEW s \in Slot, Inner(s) PROVE Goal
  BY <1>0, <1>4, InnerEffect DEF queueVars, JobOf
<1>5. ASSUME NEW s \in Slot, Complete(s) \/ RecordFailure(s) \/ Reject(s) PROVE Goal
  <2>1. run'[s].job = NoJob /\ \A u \in Slot : u # s => run'[u] = run[u]
    BY <1>5, ReleaseEffect DEF Idle, Complete, RecordFailure, Reject
  <2>2. t # s /\ JobOf(t) = j
    BY <1>0, <2>1 DEF JobOf
  <2>3. CASE Reject(s)
    BY <1>0, <2>2, <2>3 DEF Reject, queueVars
  <2>4. CASE HoldsLock(s)
    <3>1. JobOf(s) # j
      BY <1>0, <2>2, <2>4 DEF HoldsLock
    <3> QED BY <1>0, <1>5, <2>2, <2>3, <3>1
            DEF Complete, RecordFailure, Become, Unlock, TypeOK
  <2> QED BY <1>5, <2>3, <2>4 DEF Complete, RecordFailure
<1>6. ASSUME NEW w \in Worker, Gone(w) PROVE Goal
  BY <1>0, <1>6 DEF Gone, Idle, queueVars, JobOf
<1>7. CASE UNCHANGED <<queueVars, run>>
  BY <1>0, <1>7 DEF queueVars, JobOf
<1> QED
  BY <1>1, <1>2, <1>3, <1>4, <1>5, <1>6, <1>7, NextCases DEF StartWorker, Shutdown, vars

\* The attempts and stalls left to a job, and their bound.
LEMMA RunsStep ==
  TypeOK /\ LocksAreCurrent /\ RunsAreLeft /\ RunsAreBounded /\ [Next]_vars
    => RunsAreLeft' /\ RunsAreBounded'
<1> SUFFICES ASSUME TypeOK, LocksAreCurrent, RunsAreLeft, RunsAreBounded, [Next]_vars,
                    NEW j \in Job
             PROVE  /\ state'[j] \in {"new", "waiting", "active", "delayed"}
                         => attemptsMade'[j] < MaxAttempts /\ stalls'[j] <= MaxStalls
                    /\ attemptsMade'[j] + stalls'[j] <= MaxAttempts + MaxStalls
  BY DEF RunsAreLeft, RunsAreBounded
<1> DEFINE Goal == /\ state'[j] \in {"new", "waiting", "active", "delayed"}
                        => attemptsMade'[j] < MaxAttempts /\ stalls'[j] <= MaxStalls
                   /\ attemptsMade'[j] + stalls'[j] <= MaxAttempts + MaxStalls
<1>0. /\ state[j] \in {"new", "waiting", "active", "delayed"}
           => attemptsMade[j] < MaxAttempts /\ stalls[j] <= MaxStalls
      /\ attemptsMade[j] + stalls[j] <= MaxAttempts + MaxStalls
      /\ attemptsMade[j] \in Nat /\ stalls[j] \in Nat
      /\ MaxAttempts \in Nat /\ MaxStalls \in Nat
  BY WorkerAssumption DEF RunsAreLeft, RunsAreBounded, TypeOK
<1>1. ASSUME NEW k \in Job, Enqueue(k) \/ Promote(k) \/ Remove(k) PROVE Goal
  BY <1>0, <1>1 DEF Enqueue, Promote, Remove, Become, TypeOK
<1>2. ASSUME NEW k \in Job, Stall(k) PROVE Goal
  BY <1>0, <1>2 DEF Stall, Become, TypeOK
<1>3. ASSUME NEW s \in Slot, NEW k \in Job, Fetch(s, k) PROVE Goal
  BY <1>0, <1>3 DEF Fetch, Become, TypeOK
<1>4. ASSUME NEW s \in Slot, HoldsLock(s), CountAttempt(JobOf(s)), UNCHANGED stalls,
             NEW st, Become(JobOf(s), st), st = "delayed" => Retries(s),
             st \in {"completed", "delayed", "failed"}
      PROVE  Goal
  <2>1. CASE JobOf(s) = j
    <3>1. lock[j] = s /\ lock[j] # NoSlot
      BY <1>4, <2>1, WorkerAssumption DEF HoldsLock
    <3>2. state[j] = "active" /\ run[s].made = attemptsMade[j]
      BY <2>1, <3>1 DEF LocksAreCurrent, Held
    <3>3. attemptsMade'[j] = attemptsMade[j] + 1 /\ state'[j] = st /\ stalls'[j] = stalls[j]
      BY <1>4, <2>1 DEF CountAttempt, Become, TypeOK
    <3> QED BY <1>0, <1>4, <3>2, <3>3 DEF Retries
  <2>2. CASE JobOf(s) # j
    BY <1>0, <1>4, <2>2 DEF CountAttempt, Become, TypeOK
  <2> QED BY <2>1, <2>2
<1>5. ASSUME NEW s \in Slot, RecordFailure(s) PROVE Goal
  BY <1>4, <1>5 DEF RecordFailure, Outcome
<1>6. ASSUME NEW s \in Slot, Complete(s) PROVE Goal
  BY <1>4, <1>6 DEF Complete
<1>7. CASE UNCHANGED queueVars
  BY <1>0, <1>7 DEF queueVars
<1> QED
  BY <1>1, <1>2, <1>3, <1>5, <1>6, <1>7, NextCases, InnerEffect
     DEF Reject, StartWorker, Shutdown, Gone, vars

LEMMA AnnouncedIsLastStep ==
  TypeOK /\ AnnouncedIsLast /\ [Next]_vars => AnnouncedIsLast'
<1> SUFFICES ASSUME TypeOK, AnnouncedIsLast, [Next]_vars, NEW t \in Slot,
                    run'[t].step \in {"publishFailed", "countFailed"}
             PROVE  ~Retries(t)'
  BY DEF AnnouncedIsLast
<1>0. run[t].step \in {"publishFailed", "countFailed"} => ~Retries(t)
  BY DEF AnnouncedIsLast
<1>1. ASSUME NEW s \in Slot, NEW step, Goto(s, step), step # "publishFailed",
             step = "countFailed" => At(s, "publishFailed")
      PROVE  ~Retries(t)'
  <2>1. CASE s = t
    BY <1>0, <1>1, <2>1 DEF Goto, At, Retries, TypeOK, Runs
  <2>2. CASE s # t
    BY <1>0, <1>1, <2>2 DEF Goto, Retries, TypeOK
  <2> QED BY <2>1, <2>2
<1>2. ASSUME NEW s \in Slot, UpdateProgress(s) PROVE ~Retries(t)'
  <2>1. ASSUME NEW r \in Runs PROVE Reporting(r).step = "forward"
    BY DEF Reporting, Runs
  <2>2. run'[s].step = "forward" /\ \A u \in Slot : u # s => run'[u] = run[u]
    BY <1>2, <2>1 DEF UpdateProgress, TypeOK
  <2> QED BY <1>0, <2>2 DEF Retries
<1>3. ASSUME NEW s \in Slot, NEW fault \in Faults, Fail(s, fault) PROVE ~Retries(t)'
  <2> DEFINE error == Rethrown(fault)
  <2>1. /\ run'[s].error = error /\ run'[s].made = run[s].made
        /\ run'[s].step = IF Announces(s, error) THEN "publishFailed" ELSE "throw"
        /\ \A u \in Slot : u # s => run'[u] = run[u]
    <3>1. /\ Failing(s, error).error = error /\ Failing(s, error).made = run[s].made
          /\ Failing(s, error).step = IF Announces(s, error) THEN "publishFailed" ELSE "throw"
      BY DEF Failing, TypeOK, Runs
    <3> QED BY <1>3, <3>1 DEF Fail, TypeOK
  <2>2. run[s].made \in Nat /\ MaxAttempts \in Nat
    BY RunTypes, WorkerAssumption
  <2> QED BY <1>0, <2>1, <2>2 DEF Announces, Permanent, LastAttempt, Retries
<1>4. ASSUME NEW s \in Slot, Release(s) PROVE ~Retries(t)'
  BY <1>0, <1>4, ReleaseEffect DEF Idle, Retries
<1>5. ASSUME NEW s \in Slot, NEW j \in Job, Fetch(s, j) PROVE ~Retries(t)'
  BY <1>0, <1>5 DEF Fetch, Taken, Retries, TypeOK
<1>6. ASSUME NEW w \in Worker, Gone(w) PROVE ~Retries(t)'
  BY <1>0, <1>6 DEF Gone, Idle, Retries
<1>7. CASE UNCHANGED run
  BY <1>0, <1>7 DEF Retries
<1>8. ASSUME NEW s \in Slot, Inner(s) PROVE ~Retries(t)'
  BY <1>1, <1>2, <1>3, <1>8
     DEF Inner, AnnounceStart, ForwardProgress, Succeed, PublishCompleted,
         CountCompleted, PublishFailed, CountFailed
<1> QED
  BY <1>4, <1>5, <1>6, <1>7, <1>8, NextCases
     DEF Enqueue, Promote, Stall, Remove, Complete, RecordFailure, Reject,
         StartWorker, Shutdown, vars

\* The processor's failure, and whether the handler will announce it.
LEMMA FailEffect ==
  ASSUME TypeOK, NEW s \in Slot, NEW fault \in Faults, Fail(s, fault)
  PROVE  /\ run[s].step = "process"
         /\ run'[s].step = "publishFailed" \/ (run'[s].step = "throw" /\ Retries(s)')
<1> DEFINE error == Rethrown(fault)
<1>1. /\ Failing(s, error).error = error /\ Failing(s, error).made = run[s].made
      /\ Failing(s, error).step = IF Announces(s, error) THEN "publishFailed" ELSE "throw"
  BY DEF Failing, TypeOK, Runs
<1>2. /\ run'[s].error = error /\ run'[s].made = run[s].made
      /\ run'[s].step = IF Announces(s, error) THEN "publishFailed" ELSE "throw"
  BY <1>1 DEF Fail, TypeOK
<1>3. run[s].made \in Nat /\ MaxAttempts \in Nat
  BY RunTypes, WorkerAssumption
<1> QED BY <1>2, <1>3 DEF Fail, At, Announces, Permanent, LastAttempt, Retries

\* What a handler says, it says of its own job.
LEMMA InnerSays ==
  ASSUME TypeOK, NEW s \in Slot, Inner(s), NEW j \in Job, JobOf(s) # j
  PROVE  said'[j] = said[j] /\ failureTold'[j] = failureTold[j]
BY DEF Inner, AnnounceStart, UpdateProgress, ForwardProgress, Succeed, PublishCompleted,
       CountCompleted, Fail, PublishFailed, CountFailed, toldVars, TypeOK

\* What the runner of job j owes: a conjunct of RunnerHasSaid.
Owes(s, j) ==
  /\ run[s].step \in {"countCompleted", "return"} => said[j] = "completed"
  /\ run[s].step = "countFailed" => said[j] = "failed"
  /\ run[s].step = "throw" /\ ~Retries(s) => said[j] = "failed"
  /\ failureTold[j] /\ stalls[j] = 0
       => run[s].step \in {"countFailed", "throw"} /\ ~Retries(s)

LEMMA InnerOwes ==
  ASSUME TypeOK, AnnouncedIsLast, NEW s \in Slot, Inner(s), NEW j \in Job, JobOf(s) = j,
         Owes(s, j)
  PROVE  Owes(s, j)'
<1>0. stalls'[j] = stalls[j]
  BY InnerEffect DEF queueVars
<1>1. ASSUME NEW step, Goto(s, step)
      PROVE  run'[s].step = step /\ Retries(s)' = Retries(s)
  BY <1>1 DEF Goto, Retries, TypeOK, Runs
<1>2. CASE AnnounceStart(s)
  BY <1>0, <1>1, <1>2 DEF AnnounceStart, At, Owes
<1>3. CASE UpdateProgress(s)
  <2>1. ASSUME NEW r \in Runs PROVE Reporting(r).step = "forward"
    BY DEF Reporting, Runs
  <2>2. run'[s].step = "forward"
    BY <1>3, <2>1 DEF UpdateProgress, TypeOK
  <2> QED BY <1>0, <1>3, <2>2 DEF UpdateProgress, At, Owes, toldVars
<1>4. CASE ForwardProgress(s)
  BY <1>0, <1>1, <1>4 DEF ForwardProgress, At, Owes
<1>5. CASE Succeed(s)
  BY <1>0, <1>1, <1>5 DEF Succeed, At, Owes, toldVars
<1>6. CASE PublishCompleted(s)
  BY <1>0, <1>1, <1>6 DEF PublishCompleted, At, Owes, TypeOK
<1>7. CASE CountCompleted(s)
  BY <1>0, <1>1, <1>7 DEF CountCompleted, At, Owes, toldVars
<1>8. ASSUME NEW fault \in Faults, Fail(s, fault) PROVE Owes(s, j)'
  BY <1>0, <1>8, FailEffect DEF Fail, Owes, toldVars
<1>9. CASE PublishFailed(s)
  BY <1>0, <1>1, <1>9 DEF PublishFailed, At, AnnouncedIsLast, Owes, TypeOK
<1>10. CASE CountFailed(s)
  BY <1>0, <1>1, <1>10 DEF CountFailed, At, AnnouncedIsLast, Owes, toldVars
<1> QED BY <1>2, <1>3, <1>4, <1>5, <1>6, <1>7, <1>8, <1>9, <1>10 DEF Inner

LEMMA RunnerHasSaidStep ==
  /\ TypeOK /\ RunnerHoldsLock /\ AnnouncedIsLast /\ RunnerHasSaid /\ FailureIsFinal
  /\ [Next]_vars
  => RunnerHasSaid'
<1> SUFFICES ASSUME TypeOK, RunnerHoldsLock, AnnouncedIsLast, RunnerHasSaid, FailureIsFinal,
                    [Next]_vars, NEW t \in Slot, NEW j \in Job, JobOf(t)' = j, Exclusive(j)'
             PROVE  Owes(t, j)'
  BY DEF RunnerHasSaid, Owes
<1>0. /\ Exclusive(j) /\ NoJob \notin Job
      /\ JobOf(t) = j => Owes(t, j)
      /\ \A s \in Slot : JobOf(s) = j => state[j] = "active" /\ lock[j] = s
  BY StallsEffect, WorkerAssumption DEF RunnerHasSaid, RunnerHoldsLock, Owes
<1>1. ASSUME UNCHANGED <<said, failureTold>>, run'[t] = run[t], stalls'[j] = stalls[j]
      PROVE  Owes(t, j)'
  BY <1>0, <1>1 DEF Owes, Retries, JobOf
<1>2. ASSUME NEW k \in Job, Stall(k) PROVE Owes(t, j)'
  <2>1. JobOf(t) = j
    BY <1>2 DEF Stall, JobOf
  <2>2. k # j
    BY <1>2, <2>1, ExclusiveStall
  <2> QED BY <1>1, <1>2, <2>2 DEF Stall, toldVars, TypeOK
<1>3. ASSUME NEW s \in Slot, NEW k \in Job, Fetch(s, k) PROVE Owes(t, j)'
  <2>1. run'[s].job = k /\ run'[s].step = "announceStart"
        /\ \A u \in Slot : u # s => run'[u] = run[u]
    BY <1>3 DEF Fetch, Taken, TypeOK
  <2>2. CASE t = s
    <3>1. j = k /\ state[j] = "waiting"
      BY <1>3, <2>1, <2>2 DEF Fetch, JobOf
    <3>2. ~(failureTold[j] /\ stalls[j] = 0)
      BY <3>1 DEF FailureIsFinal
    <3> QED BY <1>3, <2>1, <2>2, <3>2 DEF Fetch, Owes
  <2>3. CASE t # s
    <3>1. k # j
      BY <1>0, <1>3, <2>1, <2>3 DEF Fetch, JobOf
    <3> QED BY <1>0, <1>3, <2>1, <2>3, <3>1 DEF Fetch, Owes, Retries, JobOf
  <2> QED BY <2>2, <2>3
<1>4. ASSUME NEW s \in Slot, Inner(s) PROVE Owes(t, j)'
  <2>1. JobOf(t) = j
    BY <1>4, InnerEffect DEF JobOf
  <2>2. CASE t = s
    BY <1>0, <1>4, <2>1, <2>2, InnerOwes
  <2>3. CASE t # s
    <3>1. JobOf(s) # j
      BY <1>0, <2>1, <2>3
    <3> QED BY <1>0, <1>4, <2>1, <2>3, <3>1, InnerSays, InnerEffect DEF Owes, Retries, queueVars
  <2> QED BY <2>2, <2>3
<1>5. ASSUME NEW s \in Slot, Complete(s) \/ RecordFailure(s) \/ Reject(s) PROVE Owes(t, j)'
  <2>1. run'[s].job = NoJob /\ \A u \in Slot : u # s => run'[u] = run[u]
    BY <1>5, ReleaseEffect DEF Idle, Complete, RecordFailure, Reject
  <2>2. t # s
    BY <1>0, <2>1 DEF JobOf
  <2> QED BY <1>1, <1>5, <2>1, <2>2 DEF Complete, RecordFailure, Reject, toldVars, queueVars
<1>6. ASSUME NEW w \in Worker, Gone(w) PROVE Owes(t, j)'
  <2>1. run'[t] = run[t]
    BY <1>0, <1>6 DEF Gone, Idle, JobOf
  <2> QED BY <1>1, <1>6, <2>1 DEF Gone, toldVars, queueVars
<1>7. CASE UNCHANGED <<stalls, toldVars, run>>
  BY <1>1, <1>7 DEF toldVars
<1> QED
  BY <1>2, <1>3, <1>4, <1>5, <1>6, <1>7, NextCases
     DEF Enqueue, Promote, Remove, StartWorker, Shutdown, vars, queueVars

\* What the runner of job j has yet to say: a conjunct of RunnerIsHeard.
Heard(s, j) ==
  /\ run[s].step = "announceStart" => said[j] = "nothing"
  /\ run[s].step \in {"process", "forward", "publishCompleted", "publishFailed"}
       => said[j] = "started"
  /\ run[s].step = "throw" /\ Retries(s) => said[j] = "started"
  /\ run[s].step \in {"process", "forward"} => event[j].progress <= Reported(s)

\* What a run has reported is a percentage, and grows with its reports.
LEMMA ReportedGrows ==
  ASSUME TypeOK, NEW s \in Slot
  PROVE  /\ Reported(s) \in Nat
         /\ run[s].mark < Len(Marks) => Reported(s) <= Marks[run[s].mark + 1]
<1>1. run[s].mark \in 0..Len(Marks) /\ Len(Marks) \in Nat
  BY RunTypes, MarksArePercent
<1>2. \A n \in 1..Len(Marks) : Marks[n] \in Nat
  BY PercentTypes, MarksArePercent
<1>3. \A m, n \in 1..Len(Marks) : m <= n => Marks[m] <= Marks[n]
  BY WorkerAssumption
<1> DEFINE m == run[s].mark
<1>4. m \in 0..Len(Marks)
  BY <1>1
<1>5. Reported(s) = IF m = 0 THEN 0 ELSE Marks[m]
  BY DEF Reported
<1> HIDE DEF m
<1>6. Reported(s) \in Nat /\ (m < Len(Marks) => Reported(s) <= Marks[m + 1])
  <2>1. CASE m = 0
    BY <1>1, <1>2, <1>5, <2>1
  <2>2. CASE m # 0
    BY <1>1, <1>2, <1>3, <1>4, <1>5, <2>2
  <2> QED BY <2>1, <2>2
<1> QED BY <1>6 DEF m

\* What a handler publishes, it publishes about its own job.
LEMMA InnerPublishes ==
  ASSUME TypeOK, NEW s \in Slot, Inner(s), NEW j \in Job, JobOf(s) # j
  PROVE  event'[j] = event[j]
BY DEF Inner, AnnounceStart, UpdateProgress, ForwardProgress, Succeed, PublishCompleted,
       CountCompleted, Fail, PublishFailed, CountFailed, Publish, toldVars, TypeOK

LEMMA InnerHeard ==
  ASSUME TypeOK, AnnouncedIsLast, ForwardsAMark, NEW s \in Slot, Inner(s),
         NEW j \in Job, JobOf(s) = j, Heard(s, j)
  PROVE  Heard(s, j)'
<1>1. ASSUME NEW step, Goto(s, step)
      PROVE  /\ run'[s].step = step /\ Retries(s)' = Retries(s) /\ Reported(s)' = Reported(s)
  BY <1>1 DEF Goto, Retries, Reported, TypeOK, Runs
<1>2. CASE AnnounceStart(s)
  <2>1. event'[j].progress = 0
    BY <1>2 DEF AnnounceStart, Publish, Processing, TypeOK
  <2> QED BY <1>1, <1>2, <2>1, ReportedGrows DEF AnnounceStart, At, Heard, TypeOK
<1>3. CASE UpdateProgress(s)
  <2>1. ASSUME NEW r \in Runs PROVE Reporting(r).step = "forward" /\ Reporting(r).mark = r.mark + 1
    BY DEF Reporting, Runs
  <2>2. run'[s].step = "forward" /\ run'[s].mark = run[s].mark + 1
    BY <1>3, <2>1 DEF UpdateProgress, TypeOK
  <2>3. Reported(s)' = Marks[run[s].mark + 1] /\ Reported(s) <= Marks[run[s].mark + 1]
    BY <1>3, <2>2, RunTypes, ReportedGrows DEF UpdateProgress, Reported
  <2>4. event'[j] = event[j] /\ said'[j] = said[j]
    BY <1>3 DEF UpdateProgress, toldVars
  <2>5. /\ event[j].progress <= Reported(s) /\ said[j] = "started"
    BY <1>3 DEF UpdateProgress, At, Heard
  <2>6. event[j].progress \in Nat /\ Reported(s) \in Nat /\ Marks[run[s].mark + 1] \in Nat
    <3>1. event[j] \in Events /\ run[s].mark + 1 \in 1..Len(Marks)
      BY <1>3, RunTypes, MarksArePercent DEF TypeOK, UpdateProgress
    <3>2. Marks[run[s].mark + 1] \in Nat
      BY <3>1, MarksArePercent, PercentTypes
    <3> QED BY <3>1, <3>2, ReportedGrows, EventPercentages
  <2> QED BY <2>2, <2>3, <2>4, <2>5, <2>6 DEF Heard
<1>4. CASE ForwardProgress(s)
  <2>1. run[s].mark \in 1..Len(Marks)
    BY <1>4 DEF ForwardProgress, ForwardsAMark
  <2>2. Reported(s) = Marks[run[s].mark]
    BY <2>1, MarksArePercent DEF Reported
  <2>3. event'[j].progress = Marks[run[s].mark] \/ event'[j] = event[j]
    BY <1>4 DEF ForwardProgress, Publish, Processing, TypeOK
  <2>4. event'[j].progress <= Reported(s)
    BY <1>4, <2>2, <2>3, ReportedGrows DEF ForwardProgress, At, Heard
  <2> QED BY <1>1, <1>4, <2>4 DEF ForwardProgress, At, Heard
<1>5. CASE Succeed(s)
  BY <1>1, <1>5 DEF Succeed, At, Heard, toldVars
<1>6. CASE PublishCompleted(s)
  BY <1>1, <1>6 DEF PublishCompleted, At, Heard
<1>7. CASE CountCompleted(s)
  BY <1>1, <1>7 DEF CountCompleted, At, Heard
<1>8. ASSUME NEW fault \in Faults, Fail(s, fault) PROVE Heard(s, j)'
  BY <1>8, FailEffect DEF Fail, Heard, toldVars
<1>9. CASE PublishFailed(s)
  BY <1>1, <1>9 DEF PublishFailed, At, Heard
<1>10. CASE CountFailed(s)
  BY <1>1, <1>10 DEF CountFailed, At, AnnouncedIsLast, Heard
<1> QED BY <1>2, <1>3, <1>4, <1>5, <1>6, <1>7, <1>8, <1>9, <1>10 DEF Inner

LEMMA RunnerIsHeardStep ==
  /\ TypeOK /\ RunnerHoldsLock /\ AnnouncedIsLast /\ ForwardsAMark /\ RunnerIsHeard
  /\ [Next]_vars
  => RunnerIsHeard'
<1> SUFFICES ASSUME TypeOK, RunnerHoldsLock, AnnouncedIsLast, ForwardsAMark, RunnerIsHeard,
                    [Next]_vars, NEW t \in Slot, NEW j \in Job, JobOf(t)' = j, Exclusive(j)'
             PROVE  Heard(t, j)'
  BY DEF RunnerIsHeard, Heard
<1>0. /\ Exclusive(j) /\ NoJob \notin Job
      /\ JobOf(t) = j => Heard(t, j)
      /\ \A s \in Slot : JobOf(s) = j => state[j] = "active" /\ lock[j] = s
  BY StallsEffect, WorkerAssumption DEF RunnerIsHeard, RunnerHoldsLock, Heard
<1>1. ASSUME said'[j] = said[j], event'[j] = event[j], run'[t] = run[t]
      PROVE  Heard(t, j)'
  BY <1>0, <1>1 DEF Heard, Retries, Reported, JobOf
<1>2. ASSUME NEW k \in Job, Enqueue(k) \/ Promote(k) \/ Stall(k) \/ Remove(k) PROVE Heard(t, j)'
  BY <1>1, <1>2 DEF Enqueue, Promote, Stall, Remove, toldVars
<1>3. ASSUME NEW s \in Slot, NEW k \in Job, Fetch(s, k) PROVE Heard(t, j)'
  <2>1. /\ run'[s].job = k /\ run'[s].step = "announceStart"
        /\ \A u \in Slot : u # s => run'[u] = run[u]
    BY <1>3 DEF Fetch, Taken, TypeOK
  <2>2. CASE t = s
    BY <1>3, <2>1, <2>2 DEF Fetch, JobOf, Heard, TypeOK
  <2>3. CASE t # s
    <3>1. k # j
      BY <1>0, <1>3, <2>1, <2>3 DEF Fetch, JobOf
    <3> QED BY <1>1, <1>3, <2>1, <2>3, <3>1 DEF Fetch, TypeOK
  <2> QED BY <2>2, <2>3
<1>4. ASSUME NEW s \in Slot, Inner(s) PROVE Heard(t, j)'
  <2>1. JobOf(t) = j
    BY <1>4, InnerEffect DEF JobOf
  <2>2. CASE t = s
    BY <1>0, <1>4, <2>1, <2>2, InnerHeard
  <2>3. CASE t # s
    <3>1. JobOf(s) # j
      BY <1>0, <2>1, <2>3
    <3> QED BY <1>1, <1>4, <2>3, <3>1, InnerSays, InnerPublishes, InnerEffect
  <2> QED BY <2>2, <2>3
<1>5. ASSUME NEW s \in Slot, Complete(s) \/ RecordFailure(s) \/ Reject(s) PROVE Heard(t, j)'
  <2>1. run'[s].job = NoJob /\ \A u \in Slot : u # s => run'[u] = run[u]
    BY <1>5, ReleaseEffect DEF Idle, Complete, RecordFailure, Reject
  <2>2. t # s
    BY <1>0, <2>1 DEF JobOf
  <2> QED BY <1>1, <1>5, <2>1, <2>2 DEF Complete, RecordFailure, Reject, toldVars
<1>6. ASSUME NEW w \in Worker, Gone(w) PROVE Heard(t, j)'
  <2>1. run'[t] = run[t]
    BY <1>0, <1>6 DEF Gone, Idle, JobOf
  <2> QED BY <1>1, <1>6, <2>1 DEF Gone, toldVars
<1>7. CASE UNCHANGED <<toldVars, run>>
  BY <1>1, <1>7 DEF toldVars
<1> QED
  BY <1>2, <1>3, <1>4, <1>5, <1>6, <1>7, NextCases
     DEF StartWorker, Shutdown, vars

LEMMA FailureIsFinalStep ==
  /\ TypeOK /\ RunnerHoldsLock /\ RunnerHasSaid /\ BusyHasJob /\ FailureIsFinal
  /\ [Next]_vars
  => FailureIsFinal'
<1> SUFFICES ASSUME TypeOK, RunnerHoldsLock, RunnerHasSaid, BusyHasJob, FailureIsFinal,
                    [Next]_vars, NEW j \in Job, failureTold'[j], stalls'[j] = 0
             PROVE  said'[j] = "failed" /\ state'[j] \in {"active", "failed", "removed"}
  BY DEF FailureIsFinal
<1> DEFINE Goal == said'[j] = "failed" /\ state'[j] \in {"active", "failed", "removed"}
<1>0. /\ stalls[j] = 0 /\ Exclusive(j)
      /\ failureTold[j] => said[j] = "failed" /\ state[j] \in {"active", "failed", "removed"}
      /\ \A s \in Slot : JobOf(s) = j => Owes(s, j) /\ state[j] = "active"
  BY StallsEffect DEF FailureIsFinal, RunnerHasSaid, RunnerHoldsLock, Owes, Exclusive, TypeOK
<1>1. ASSUME NEW k \in Job, Enqueue(k) \/ Promote(k) \/ Remove(k) PROVE Goal
  BY <1>0, <1>1 DEF Enqueue, Promote, Remove, Become, toldVars, TypeOK
<1>2. ASSUME NEW k \in Job, Stall(k) PROVE Goal
  BY <1>0, <1>2, StallsEffect DEF Stall, Become, toldVars, TypeOK
<1>3. ASSUME NEW s \in Slot, NEW k \in Job, Fetch(s, k) PROVE Goal
  BY <1>0, <1>3 DEF Fetch, Become, TypeOK
<1>4. ASSUME NEW s \in Slot, Inner(s) PROVE Goal
  <2>1. CASE JobOf(s) # j
    BY <1>0, <1>4, <2>1, InnerSays, InnerEffect DEF queueVars
  <2>2. CASE JobOf(s) = j
    <3>1. state'[j] = "active"
      BY <1>0, <1>4, <2>2, InnerEffect DEF queueVars
    <3>2. failureTold[j] \/ said'[j] = "failed"
      BY <1>4, <2>2 DEF Inner, AnnounceStart, UpdateProgress, ForwardProgress, Succeed,
         PublishCompleted, CountCompleted, Fail, PublishFailed, CountFailed, toldVars, TypeOK
    <3>3. failureTold[j] => run[s].step \in {"countFailed", "throw"}
      BY <1>0, <2>2 DEF Owes
    <3>4. failureTold[j] => said'[j] = said[j]
      BY <1>4, <3>3, FailEffect DEF Inner, AnnounceStart, UpdateProgress, ForwardProgress,
         Succeed, PublishCompleted, CountCompleted, PublishFailed, CountFailed, At, toldVars
    <3> QED BY <1>0, <3>1, <3>2, <3>4
  <2> QED BY <2>1, <2>2
<1>5. ASSUME NEW s \in Slot, Complete(s) \/ RecordFailure(s) PROVE Goal
  <2>1. CASE JobOf(s) # j
    BY <1>0, <1>5, <2>1 DEF Complete, RecordFailure, Become, toldVars, TypeOK
  <2>2. CASE JobOf(s) = j
    <3>1. failureTold[j] /\ said'[j] = "failed"
      BY <1>0, <1>5 DEF Complete, RecordFailure, toldVars
    <3>2. run[s].step \in {"countFailed", "throw"} /\ ~Retries(s)
      BY <1>0, <2>2, <3>1 DEF Owes
    <3>3. RecordFailure(s)
      BY <1>5, <3>2 DEF Complete, At
    <3>4. state'[j] = "failed"
      BY <2>2, <3>2, <3>3 DEF RecordFailure, Outcome, Become, TypeOK
    <3> QED BY <3>1, <3>4
  <2> QED BY <2>1, <2>2
<1>6. CASE UNCHANGED <<state, toldVars>>
  BY <1>0, <1>6 DEF toldVars
<1> QED
  BY <1>1, <1>2, <1>3, <1>4, <1>5, <1>6, NextCases
     DEF Reject, StartWorker, Shutdown, Gone, vars, queueVars

LEMMA SettledIsAnnouncedStep ==
  /\ TypeOK /\ RunnerHoldsLock /\ RunnerHasSaid /\ SettledIsAnnounced
  /\ [Next]_vars
  => SettledIsAnnounced'
<1> SUFFICES ASSUME TypeOK, RunnerHoldsLock, RunnerHasSaid, SettledIsAnnounced, [Next]_vars,
                    NEW j \in Job, Exclusive(j)'
             PROVE  /\ state'[j] = "completed" => said'[j] = "completed"
                    /\ state'[j] = "failed" => said'[j] = "failed" \/ stalls'[j] > MaxStalls
  BY DEF SettledIsAnnounced
<1> DEFINE Goal == /\ state'[j] = "completed" => said'[j] = "completed"
                   /\ state'[j] = "failed" => said'[j] = "failed" \/ stalls'[j] > MaxStalls
<1>0. /\ Exclusive(j)
      /\ state[j] = "completed" => said[j] = "completed"
      /\ state[j] = "failed" => said[j] = "failed" \/ stalls[j] > MaxStalls
      /\ \A s \in Slot : JobOf(s) = j => Owes(s, j) /\ state[j] = "active"
      /\ MaxStalls \in Nat /\ stalls[j] \in Nat
  BY StallsEffect, WorkerAssumption
     DEF SettledIsAnnounced, RunnerHasSaid, RunnerHoldsLock, Owes, TypeOK
<1>1. ASSUME NEW k \in Job, Enqueue(k) \/ Promote(k) \/ Remove(k) PROVE Goal
  BY <1>0, <1>1 DEF Enqueue, Promote, Remove, Become, toldVars, TypeOK
<1>2. ASSUME NEW k \in Job, Stall(k) PROVE Goal
  BY <1>0, <1>2 DEF Stall, Become, toldVars, TypeOK
<1>3. ASSUME NEW s \in Slot, NEW k \in Job, Fetch(s, k) PROVE Goal
  BY <1>0, <1>3 DEF Fetch, Become, TypeOK
<1>4. ASSUME NEW s \in Slot, Inner(s) PROVE Goal
  BY <1>0, <1>4, InnerSays, InnerEffect DEF queueVars
<1>5. ASSUME NEW s \in Slot, Complete(s) \/ RecordFailure(s) PROVE Goal
  <2>1. CASE JobOf(s) # j
    BY <1>0, <1>5, <2>1 DEF Complete, RecordFailure, Become, toldVars, TypeOK
  <2>2. CASE JobOf(s) = j
    <3>1. said'[j] = said[j] /\ Owes(s, j)
      BY <1>0, <1>5, <2>2 DEF Complete, RecordFailure, toldVars
    <3>2. CASE Complete(s)
      BY <2>2, <3>1, <3>2 DEF Complete, At, Become, Owes, TypeOK
    <3>3. CASE RecordFailure(s)
      BY <2>2, <3>1, <3>3 DEF RecordFailure, At, Outcome, Become, Owes, TypeOK
    <3> QED BY <1>5, <3>2, <3>3
  <2> QED BY <2>1, <2>2
<1>6. CASE UNCHANGED <<state, stalls, toldVars>>
  BY <1>0, <1>6 DEF toldVars
<1> QED
  BY <1>1, <1>2, <1>3, <1>4, <1>5, <1>6, NextCases
     DEF Reject, StartWorker, Shutdown, Gone, vars, queueVars

-----------------------------------------------------------------------------
(* The theorems.                                                           *)

\* Before any job is submitted every part of the invariant holds.
LEMMA InitInv == Init => WorkerInv
<1> SUFFICES ASSUME Init PROVE WorkerInv
  OBVIOUS
<1>1. TypeOK
  <2>1. Idle \in Runs
    BY MarksArePercent DEF Idle, Runs, Steps
  <2> QED BY <2>1 DEF Init, TypeOK, JobStates, Words, Events
<1>2. BusyHasJob /\ ForwardsAMark /\ AnnouncedIsLast
  BY DEF Init, BusyHasJob, ForwardsAMark, AnnouncedIsLast, At, JobOf, Idle
<1>3. LocksAreCurrent /\ RunnerHoldsLock /\ RunnerHasSaid /\ RunnerIsHeard
  BY WorkerAssumption DEF Init, LocksAreCurrent, RunnerHoldsLock, RunnerHasSaid, RunnerIsHeard,
                          JobOf, Idle
<1>4. RunsAreLeft /\ RunsAreBounded
  BY WorkerAssumption DEF Init, RunsAreLeft, RunsAreBounded
<1>5. FailureIsFinal /\ SettledIsAnnounced
  BY DEF Init, FailureIsFinal, SettledIsAnnounced
<1> QED BY <1>1, <1>2, <1>3, <1>4, <1>5 DEF WorkerInv

\* WorkerInv is inductive: every step of the handlers, of the queue and of the
\* processes (crashes, stalls and lapsed locks included) preserves it.
THEOREM WorkerInvInductive == Spec => []WorkerInv
<1>1. WorkerInv /\ [Next]_vars => WorkerInv'
  BY TypeOKStep, BusyHasJobStep, ForwardsAMarkStep, LocksAreCurrentStep,
     RunnerHoldsLockStep, RunsStep, AnnouncedIsLastStep, RunnerHasSaidStep,
     RunnerIsHeardStep, FailureIsFinalStep, SettledIsAnnouncedStep
     DEF WorkerInv
<1> QED BY <1>1, InitInv, PTL DEF Spec

\* Type correctness: what the workers keep in Redis and in memory, and every
\* event they publish, has its type.
THEOREM TypeCorrect == Spec => []TypeOK
<1>1. WorkerInv => TypeOK
  BY DEF WorkerInv
<1> QED BY <1>1, WorkerInvInductive, PTL

\* worker.ts announces a failure only when, while no process or lock is lost,
\* the queue makes no other attempt: its guess of the last attempt is right.
THEOREM AnnouncedFailureIsFinal == Spec => []FailureIsFinal
<1>1. WorkerInv => FailureIsFinal
  BY DEF WorkerInv
<1> QED BY <1>1, WorkerInvInductive, PTL

\* The queue records a verdict only after the worker announced that verdict,
\* for any run that did not lose its lock to another slot.
THEOREM VerdictsAreAnnounced == Spec => []SettledIsAnnounced
<1>1. WorkerInv => SettledIsAnnounced
  BY DEF WorkerInv
<1> QED BY <1>1, WorkerInvInductive, PTL

\* Retries and stalls together start a job a bounded number of times, even when
\* locks lapse under slots still at work.
THEOREM RunsBounded == Spec => []RunsAreBounded
<1>1. WorkerInv => RunsAreBounded
  BY DEF WorkerInv
<1> QED BY <1>1, WorkerInvInductive, PTL
=============================================================================
