------------------------- MODULE JobWorkerRefinement -------------------------
(***************************************************************************)
(* The worker implements the lifecycle of its jobs, for every set of       *)
(* processes and jobs and all the limits there are: proofs about JobWorker *)
(* and the instance of JobLifecycle it has.  Both assume that a lock names *)
(* the slot that runs the job (~LocksCanLapse).                            *)
(***************************************************************************)
EXTENDS JobWorkerProofs

\* What the lifecycle sees of the queue.
PhaseOf == [j \in Job |-> PublicState(state[j])]
LeftOf == [j \in Job |-> RunsLeft(j)]
LostOf == [j \in Job |-> stalls[j] > 0]

\* A step that concerns one job changes what is seen of that job.
LEMMA SeenOfOne ==
  ASSUME NEW k \in Job,
         \A j \in Job \ {k} : /\ state'[j] = state[j] /\ stalls'[j] = stalls[j]
                              /\ attemptsMade'[j] = attemptsMade[j]
  PROVE  /\ PhaseOf' = [PhaseOf EXCEPT ![k] = PublicState(state'[k])]
         /\ LeftOf' = [LeftOf EXCEPT ![k] = RunsLeft(k)']
         /\ LostOf' = [LostOf EXCEPT ![k] = stalls'[k] > 0]
         /\ RunsLeft(k)' = RunsLeft(k) => LeftOf' = LeftOf
         /\ stalls'[k] = stalls[k] => LostOf' = LostOf
<1>1. \A j \in Job \ {k} : /\ PublicState(state'[j]) = PublicState(state[j])
                           /\ RunsLeft(j)' = RunsLeft(j)
                           /\ (stalls'[j] > 0) = (stalls[j] > 0)
  BY DEF RunsLeft
<1>2. /\ PhaseOf' = [j \in Job |-> PublicState(state'[j])]
      /\ LeftOf' = [j \in Job |-> RunsLeft(j)']
      /\ LostOf' = [j \in Job |-> stalls'[j] > 0]
  BY DEF PhaseOf, LeftOf, LostOf
<1>3. PhaseOf' = [PhaseOf EXCEPT ![k] = PublicState(state'[k])]
  BY <1>1, <1>2 DEF PhaseOf
<1>4. LeftOf' = [LeftOf EXCEPT ![k] = RunsLeft(k)']
  BY <1>1, <1>2 DEF LeftOf
<1>5. LostOf' = [LostOf EXCEPT ![k] = stalls'[k] > 0]
  BY <1>1, <1>2, Zenon DEF LostOf
<1>6. RunsLeft(k)' = RunsLeft(k) => LeftOf' = LeftOf
  BY <1>1, <1>2 DEF LeftOf
<1>7. stalls'[k] = stalls[k] => LostOf' = LostOf
  BY <1>1, <1>2, Zenon DEF LostOf
<1> QED BY <1>3, <1>4, <1>5, <1>6, <1>7

\* The steps of the queue and of the slots, each as a step of the lifecycle.
LEMMA QueueSteps ==
  ASSUME WorkerInv, NEW k \in Job, Enqueue(k) \/ Promote(k) \/ Stall(k) \/ Remove(k)
  PROVE  Lifecycle!JobStep(k)
<1>1. /\ \A j \in Job \ {k} : /\ state'[j] = state[j] /\ stalls'[j] = stalls[j]
                              /\ attemptsMade'[j] = attemptsMade[j]
      /\ attemptsMade' = attemptsMade /\ stalls \in [Job -> Nat] /\ attemptsMade \in [Job -> Nat]
      /\ state \in [Job -> JobStates]
      /\ MaxAttempts \in Nat /\ MaxStalls \in Nat
      /\ UNCHANGED <<progress, said, event>>
  BY WorkerAssumption DEF WorkerInv, TypeOK, Enqueue, Promote, Stall, Remove, Become, toldVars
<1>2. /\ PhaseOf[k] = PublicState(state[k]) /\ LeftOf[k] = RunsLeft(k)
      /\ PhaseOf' = [PhaseOf EXCEPT ![k] = PublicState(state'[k])]
      /\ LostOf' = [LostOf EXCEPT ![k] = stalls'[k] > 0]
      /\ RunsLeft(k)' = RunsLeft(k) => LeftOf' = LeftOf
      /\ stalls'[k] = stalls[k] => LostOf' = LostOf
  BY <1>1, SeenOfOne DEF PhaseOf, LeftOf
<1>3. CASE Enqueue(k)
  <2>1. /\ state[k] = "new" /\ state'[k] = "waiting" /\ stalls'[k] = stalls[k]
        /\ RunsLeft(k)' = RunsLeft(k)
    BY <1>1, <1>3 DEF Enqueue, Become, RunsLeft
  <2>2. /\ PhaseOf[k] = "new" /\ PhaseOf' = [PhaseOf EXCEPT ![k] = "queued"]
        /\ LeftOf' = LeftOf /\ LostOf' = LostOf
    BY <1>2, <2>1 DEF PublicState
  <2>3. Lifecycle!Enqueue(k)
    BY <1>1, <2>2 DEF Lifecycle!Enqueue, Lifecycle!Become, PhaseOf, LeftOf, LostOf
  <2> QED BY <2>3 DEF Lifecycle!JobStep, Lifecycle!SilentStep
<1>4. CASE Promote(k)
  <2>1. /\ state[k] = "delayed" /\ state'[k] = "waiting" /\ stalls'[k] = stalls[k]
        /\ RunsLeft(k)' = RunsLeft(k)
    BY <1>1, <1>4 DEF Promote, Become, RunsLeft
  <2>2. /\ PhaseOf[k] = "retrying" /\ PhaseOf' = [PhaseOf EXCEPT ![k] = "queued"]
        /\ LeftOf' = LeftOf /\ LostOf' = LostOf
    BY <1>2, <2>1 DEF PublicState
  <2>3. Lifecycle!Requeue(k)
    BY <1>1, <2>2 DEF Lifecycle!Requeue, Lifecycle!Become, PhaseOf, LeftOf, LostOf
  <2> QED BY <2>3 DEF Lifecycle!JobStep, Lifecycle!SilentStep
<1>5. CASE Stall(k)
  <2>1. /\ state[k] = "active" /\ stalls'[k] = stalls[k] + 1 /\ stalls'[k] > 0
        /\ state'[k] = IF stalls[k] < MaxStalls THEN "waiting" ELSE "failed"
        /\ RunsLeft(k)' = RunsLeft(k)
    BY <1>1, <1>5 DEF Stall, Become, RunsLeft
  <2>2. /\ PhaseOf[k] = "processing" /\ LeftOf' = LeftOf
        /\ LostOf' = [LostOf EXCEPT ![k] = TRUE]
        /\ PhaseOf' = [PhaseOf EXCEPT ![k] = IF stalls[k] < MaxStalls THEN "queued" ELSE "failed"]
    BY <1>2, <2>1 DEF PublicState
  <2>3. stalls[k] < MaxStalls => LeftOf[k] > 0
    BY <1>1, <1>2, <2>1 DEF RunsLeft, WorkerInv, RunsAreLeft
  <2>4. CASE stalls[k] < MaxStalls
    <3>1. Lifecycle!Lose(k)
      BY <1>1, <2>2, <2>3, <2>4 DEF Lifecycle!Lose, Lifecycle!Become, PhaseOf, LeftOf, LostOf
    <3> QED BY <3>1 DEF Lifecycle!JobStep, Lifecycle!SilentStep
  <2>5. CASE ~(stalls[k] < MaxStalls)
    <3>1. Lifecycle!GiveUp(k)
      BY <1>1, <2>2, <2>5 DEF Lifecycle!GiveUp, Lifecycle!Become, PhaseOf, LeftOf, LostOf
    <3> QED BY <3>1 DEF Lifecycle!JobStep, Lifecycle!SilentStep
  <2> QED BY <2>4, <2>5
<1>6. CASE Remove(k)
  <2>1. /\ state[k] \in Settled /\ state'[k] = "removed" /\ stalls'[k] = stalls[k]
        /\ RunsLeft(k)' = RunsLeft(k)
    BY <1>1, <1>6 DEF Remove, Become, RunsLeft, Settled
  <2>2. /\ PhaseOf[k] \in Settled /\ PhaseOf' = [PhaseOf EXCEPT ![k] = "removed"]
        /\ LeftOf' = LeftOf /\ LostOf' = LostOf
    BY <1>2, <2>1 DEF PublicState, Settled
  <2>3. Lifecycle!Forget(k)
    BY <1>1, <2>2 DEF Lifecycle!Forget, Lifecycle!Become, Lifecycle!Settled, Settled,
                      PhaseOf, LeftOf, LostOf
  <2> QED BY <2>3 DEF Lifecycle!JobStep, Lifecycle!SilentStep
<1> QED BY <1>3, <1>4, <1>5, <1>6

LEMMA FetchStep ==
  ASSUME WorkerInv, NEW s \in Slot, NEW k \in Job, Fetch(s, k)
  PROVE  Lifecycle!Begin(k)
<1>1. /\ \A j \in Job \ {k} : /\ state'[j] = state[j] /\ stalls'[j] = stalls[j]
                              /\ attemptsMade'[j] = attemptsMade[j]
      /\ stalls \in [Job -> Nat] /\ attemptsMade \in [Job -> Nat]
      /\ state[k] = "waiting" /\ state'[k] = "active"
      /\ stalls'[k] = stalls[k] /\ attemptsMade'[k] = attemptsMade[k]
      /\ said' = [said EXCEPT ![k] = "nothing"]
      /\ UNCHANGED <<progress, event>>
  BY DEF WorkerInv, TypeOK, Fetch, Become
<1>2. /\ RunsLeft(k) > 0 /\ RunsLeft(k)' = RunsLeft(k) - 1
  BY <1>1, WorkerAssumption DEF RunsLeft, WorkerInv, RunsAreLeft
<1>3. /\ PhaseOf[k] = "queued" /\ PhaseOf' = [PhaseOf EXCEPT ![k] = "processing"]
      /\ LeftOf[k] = RunsLeft(k) /\ LeftOf' = [LeftOf EXCEPT ![k] = RunsLeft(k) - 1]
      /\ LostOf' = LostOf
  <2>1. /\ PhaseOf' = [PhaseOf EXCEPT ![k] = PublicState(state'[k])]
        /\ LeftOf' = [LeftOf EXCEPT ![k] = RunsLeft(k)']
        /\ LostOf' = LostOf
    BY <1>1, SeenOfOne
  <2> QED BY <1>1, <1>2, <2>1 DEF PhaseOf, LeftOf, PublicState
<1> QED BY <1>1, <1>2, <1>3 DEF Lifecycle!Begin, Lifecycle!Become, PhaseOf, LeftOf, LostOf

-----------------------------------------------------------------------------
(* The steps of the handlers.                                              *)

\* A slot at work runs an active job, holds its lock, and has announced what
\* its step says.
LEMMA SlotAtWork ==
  ASSUME WorkerInv, ~LocksCanLapse, NEW s \in Slot, run[s].step # "idle"
  PROVE  /\ JobOf(s) \in Job
         /\ state[JobOf(s)] = "active" /\ lock[JobOf(s)] = s
         /\ PhaseOf[JobOf(s)] = "processing"
         /\ run[s].made = attemptsMade[JobOf(s)]
         /\ Owes(s, JobOf(s)) /\ Heard(s, JobOf(s))
<1>1. JobOf(s) \in Job
  BY RunTypes DEF WorkerInv, BusyHasJob, At
<1>2. Exclusive(JobOf(s))
  BY DEF Exclusive
<1>3. state[JobOf(s)] = "active" /\ lock[JobOf(s)] = s
  BY <1>1, <1>2 DEF WorkerInv, RunnerHoldsLock
<1>4. Owes(s, JobOf(s)) /\ Heard(s, JobOf(s))
  BY <1>1, <1>2 DEF WorkerInv, RunnerHasSaid, RunnerIsHeard, Owes, Heard
<1>5. run[s].made = attemptsMade[JobOf(s)]
  BY <1>1, <1>3, WorkerAssumption DEF WorkerInv, LocksAreCurrent, Held
<1> QED BY <1>1, <1>3, <1>4, <1>5 DEF PhaseOf, PublicState

\* What leaves the queue alone leaves what the lifecycle sees of it alone.
LEMMA SeenOfNone ==
  ASSUME UNCHANGED queueVars
  PROVE  PhaseOf' = PhaseOf /\ LeftOf' = LeftOf /\ LostOf' = LostOf
<1>1. LostOf' = LostOf
  BY Zenon DEF LostOf, queueVars
<1> QED BY <1>1 DEF PhaseOf, LeftOf, RunsLeft, queueVars

LEMMA UnseenStep ==
  ASSUME UNCHANGED <<queueVars, progress, said, event>>
  PROVE  UNCHANGED Lifecycle!jobVars
BY SeenOfNone DEF Lifecycle!jobVars, PhaseOf, LeftOf, LostOf

LEMMA HandlerSteps ==
  ASSUME WorkerInv, ~LocksCanLapse, NEW s \in Slot, Inner(s)
  PROVE  (\E k \in Job : Lifecycle!JobStep(k)) \/ UNCHANGED Lifecycle!jobVars
<1> PICK k \in Job : k = JobOf(s)
  BY InnerEffect, SlotAtWork DEF WorkerInv
<1>1. /\ PhaseOf[k] = "processing" /\ Heard(s, k)
      /\ TypeOK /\ ForwardsAMark
  BY InnerEffect, SlotAtWork DEF WorkerInv
<1>2. PhaseOf' = PhaseOf /\ LeftOf' = LeftOf /\ LostOf' = LostOf
  BY <1>1, InnerEffect, SeenOfNone
<1>3. CASE AnnounceStart(s)
  <2>1. said[k] = "nothing"
    BY <1>1, <1>3 DEF AnnounceStart, At, Heard
  <2>2. Lifecycle!AnnounceBegin(k)
    BY <1>1, <1>2, <1>3, <2>1
       DEF AnnounceStart, Publish, Processing, Lifecycle!AnnounceBegin, Lifecycle!Publish,
           Lifecycle!Processing, PhaseOf, LeftOf, LostOf
  <2> QED BY <1>1, <2>2 DEF Lifecycle!JobStep, Lifecycle!Publication
<1>4. CASE UpdateProgress(s)
  <2>1. said[k] = "started"
    BY <1>1, <1>4 DEF UpdateProgress, At, Heard
  <2>2. Marks[run[s].mark + 1] \in Percent
    BY <1>1, <1>4, RunTypes, MarksArePercent DEF UpdateProgress
  <2>3. Lifecycle!Record(k, Marks[run[s].mark + 1])
    BY <1>1, <1>2, <1>4, <2>1
       DEF UpdateProgress, toldVars, Lifecycle!Record, PhaseOf, LeftOf, LostOf
  <2> QED BY <1>1, <2>2, <2>3 DEF Lifecycle!JobStep, Lifecycle!SilentStep
<1>5. CASE ForwardProgress(s)
  <2>1. /\ said[k] = "started" /\ event[k].progress <= Reported(s)
    BY <1>1, <1>5 DEF ForwardProgress, At, Heard
  <2>2. run[s].mark \in 1..Len(Marks)
    BY <1>1, <1>5 DEF ForwardProgress, ForwardsAMark
  <2>3. Reported(s) = Marks[run[s].mark] /\ Marks[run[s].mark] \in Percent
    BY <2>2, MarksArePercent DEF Reported
  <2>4. event[k].progress \in Nat /\ Marks[run[s].mark] \in Nat
    BY <1>1, <2>3, PercentTypes, EventPercentages DEF TypeOK
  <2>5. CASE Forwards(s)
    <3>1. Lifecycle!Report(k, Marks[run[s].mark])
      BY <1>1, <1>2, <1>5, <2>1, <2>3, <2>4, <2>5
         DEF ForwardProgress, Publish, Processing, Lifecycle!Report, Lifecycle!Publish,
             Lifecycle!Processing, PhaseOf, LeftOf, LostOf
    <3> QED BY <1>1, <2>3, <3>1 DEF Lifecycle!JobStep, Lifecycle!Publication
  <2>6. CASE ~Forwards(s)
    BY <1>5, <2>6, UnseenStep DEF ForwardProgress
  <2> QED BY <2>5, <2>6
<1>6. CASE PublishCompleted(s)
  <2>1. said[k] = "started"
    BY <1>1, <1>6 DEF PublishCompleted, At, Heard
  <2>2. Lifecycle!Announce(k, "completed")
    BY <1>1, <1>2, <1>6, <2>1
       DEF PublishCompleted, Publish, Final, Lifecycle!Announce, Lifecycle!Publish,
           Lifecycle!Final, PhaseOf, LeftOf, LostOf
  <2> QED BY <1>1, <2>2 DEF Lifecycle!JobStep, Lifecycle!Publication, Lifecycle!Settled
<1>7. CASE PublishFailed(s)
  <2>1. said[k] = "started"
    BY <1>1, <1>7 DEF PublishFailed, At, Heard
  <2>2. Lifecycle!Announce(k, "failed")
    BY <1>1, <1>2, <1>7, <2>1
       DEF PublishFailed, Publish, Final, Lifecycle!Announce, Lifecycle!Publish,
           Lifecycle!Final, PhaseOf, LeftOf, LostOf
  <2> QED BY <1>1, <2>2 DEF Lifecycle!JobStep, Lifecycle!Publication, Lifecycle!Settled
<1>8. CASE Succeed(s) \/ CountCompleted(s) \/ CountFailed(s)
  BY <1>8, UnseenStep DEF Succeed, CountCompleted, CountFailed, toldVars
<1>9. CASE \E fault \in Faults : Fail(s, fault)
  BY <1>9, UnseenStep DEF Fail, toldVars
<1> QED BY <1>3, <1>4, <1>5, <1>6, <1>7, <1>8, <1>9 DEF Inner

\* The queue takes the outcome: a verdict that was announced, or a retry.
LEMMA OutcomeSteps ==
  ASSUME WorkerInv, ~LocksCanLapse, NEW s \in Slot, Complete(s) \/ RecordFailure(s)
  PROVE  \E k \in Job : Lifecycle!JobStep(k)
<1>0. run[s].step # "idle"
  BY DEF Complete, RecordFailure, At
<1> PICK k \in Job : k = JobOf(s)
  BY <1>0, SlotAtWork
<1>1. /\ PhaseOf[k] = "processing" /\ state[k] = "active"
      /\ run[s].made = attemptsMade[k] /\ Heard(s, k) /\ Owes(s, k)
  BY <1>0, SlotAtWork
<1>2. /\ \A j \in Job \ {k} : /\ state'[j] = state[j] /\ stalls'[j] = stalls[j]
                              /\ attemptsMade'[j] = attemptsMade[j]
      /\ attemptsMade'[k] = attemptsMade[k] + 1 /\ stalls'[k] = stalls[k]
      /\ state'[k] = IF Complete(s) THEN "completed" ELSE Outcome(s)
      /\ attemptsMade[k] \in Nat /\ stalls[k] \in Nat
      /\ UNCHANGED <<progress, said, event>>
  BY <1>1 DEF WorkerInv, TypeOK, Complete, RecordFailure, Become, CountAttempt, toldVars
<1>3. RunsLeft(k)' = RunsLeft(k)
  <2>1. state'[k] # "active"
    BY <1>2 DEF Outcome
  <2> QED BY <1>1, <1>2, <2>1, WorkerAssumption DEF RunsLeft
<1>4. /\ PhaseOf' = [PhaseOf EXCEPT ![k] = PublicState(state'[k])]
      /\ LeftOf' = LeftOf /\ LostOf' = LostOf
  BY <1>1, <1>2, <1>3, SeenOfOne
<1>5. CASE state'[k] \in Settled
  <2>1. said[k] = state'[k]
    <3>1. CASE Complete(s)
      BY <1>1, <1>2, <3>1 DEF Complete, At, Owes
    <3>2. CASE ~Complete(s)
      BY <1>1, <1>2, <1>5, <3>2 DEF RecordFailure, At, Owes, Outcome, Settled
    <3> QED BY <3>1, <3>2
  <2>2. PhaseOf' = [PhaseOf EXCEPT ![k] = said[k]] /\ said[k] \in Settled
    BY <1>4, <1>5, <2>1 DEF PublicState, Settled
  <2>3. Lifecycle!Settle(k)
    BY <1>1, <1>2, <1>4, <2>2
       DEF Lifecycle!Settle, Lifecycle!Become, Lifecycle!Settled, Settled, PhaseOf, LeftOf, LostOf
  <2> QED BY <1>1, <2>3 DEF Lifecycle!JobStep, Lifecycle!SilentStep
<1>6. CASE state'[k] \notin Settled
  <2>1. state'[k] = "delayed" /\ ~Complete(s) /\ Retries(s) /\ run[s].step = "throw"
    BY <1>2, <1>6 DEF Outcome, Settled, RecordFailure, At
  <2>2. said[k] = "started"
    BY <1>1, <2>1 DEF Heard
  <2>3. LeftOf[k] > 0
    <3>1. attemptsMade[k] + 1 < MaxAttempts /\ stalls[k] <= MaxStalls
      BY <1>1, <2>1 DEF Retries, WorkerInv, RunsAreLeft
    <3>2. RunsLeft(k) > 0
      BY <1>1, <1>2, <3>1, WorkerAssumption DEF RunsLeft
    <3> QED BY <1>1, <3>2 DEF LeftOf
  <2>4. PhaseOf' = [PhaseOf EXCEPT ![k] = "retrying"]
    BY <1>4, <2>1 DEF PublicState
  <2>5. Lifecycle!Retry(k)
    BY <1>1, <1>2, <1>4, <2>2, <2>3, <2>4
       DEF Lifecycle!Retry, Lifecycle!Become, PhaseOf, LeftOf, LostOf
  <2> QED BY <1>1, <2>5 DEF Lifecycle!JobStep, Lifecycle!SilentStep
<1> QED BY <1>5, <1>6

-----------------------------------------------------------------------------
(* The theorems.                                                           *)

LEMMA InitImplements == Init => Lifecycle!JobInit
<1> SUFFICES ASSUME Init PROVE Lifecycle!JobInit
  OBVIOUS
<1>1. PhaseOf = [j \in Job |-> "new"]
  BY DEF Init, PhaseOf, PublicState
<1>2. LeftOf = [j \in Job |-> MaxAttempts + MaxStalls]
  BY WorkerAssumption DEF Init, LeftOf, RunsLeft
<1>3. LostOf = [j \in Job |-> FALSE]
  <2>1. \A j \in Job : (stalls[j] > 0) = FALSE
    BY DEF Init
  <2> QED BY <2>1, Zenon DEF LostOf
<1> QED BY <1>1, <1>2, <1>3
        DEF Init, NoEvent, Lifecycle!JobInit, Lifecycle!NoEvent, PhaseOf, LeftOf, LostOf

\* Every step of the workers and of the queue is a step of one job's
\* lifecycle, or one that nobody outside can see.
LEMMA StepImplements ==
  ~LocksCanLapse /\ WorkerInv /\ [Next]_vars => [Lifecycle!JobNext]_(Lifecycle!jobVars)
<1> SUFFICES ASSUME ~LocksCanLapse, WorkerInv, [Next]_vars
             PROVE  Lifecycle!JobNext \/ UNCHANGED Lifecycle!jobVars
  OBVIOUS
<1>1. ASSUME NEW j \in Job, Lifecycle!JobStep(j) PROVE Lifecycle!JobNext
  BY <1>1 DEF Lifecycle!JobNext
<1>2. ASSUME NEW j \in Job, Enqueue(j) \/ Promote(j) \/ Stall(j) \/ Remove(j)
      PROVE  Lifecycle!JobNext
  BY <1>1, <1>2, QueueSteps
<1>3. ASSUME NEW s \in Slot, NEW j \in Job, Fetch(s, j) PROVE Lifecycle!JobNext
  BY <1>1, <1>3, FetchStep DEF Lifecycle!JobStep, Lifecycle!SilentStep
<1>4. ASSUME NEW s \in Slot, Inner(s)
      PROVE  Lifecycle!JobNext \/ UNCHANGED Lifecycle!jobVars
  BY <1>4, HandlerSteps DEF Lifecycle!JobNext
<1>5. ASSUME NEW s \in Slot, Complete(s) \/ RecordFailure(s) PROVE Lifecycle!JobNext
  BY <1>5, OutcomeSteps DEF Lifecycle!JobNext
<1>6. CASE UNCHANGED <<queueVars, progress, toldVars>>
  BY <1>6, UnseenStep DEF toldVars
<1> QED
  BY <1>2, <1>3, <1>4, <1>5, <1>6, NextCases DEF Reject, StartWorker, Shutdown, Gone, vars

\* The handlers of worker.ts, the queue and their failures implement the life
\* of a job that routes.ts and sse.ts rely on, as long as no live slot loses
\* the lock of the job it runs.
THEOREM WorkerImplementsLifecycle == ~LocksCanLapse => (Spec => ImplementsLifecycle)
<1> SUFFICES ASSUME ~LocksCanLapse PROVE Spec => ImplementsLifecycle
  OBVIOUS
<1>1. WorkerInv /\ [Next]_vars => [Lifecycle!JobNext]_(Lifecycle!jobVars)
  BY StepImplements
<1> QED BY <1>1, InitImplements, WorkerInvInductive, PTL
        DEF Spec, ImplementsLifecycle, Lifecycle!JobSpec

\* A watcher of worker.ts's events sees the percentage of a job go back only
\* when a run of the job begins or a failure is announced.
THEOREM PercentagesGoOn == ~LocksCanLapse => (Spec => ProgressRestartsOnly)
<1> DEFINE Restarts(j) == event'[j].progress < event[j].progress
                            => event'[j] \in {Processing(0), Final("failed")}
<1>1. ASSUME ~LocksCanLapse, WorkerInv, [Next]_vars, NEW j \in Job PROVE Restarts(j)
  <2>1. event[j].progress \in Nat /\ event[j].progress <= 100 /\ TypeOK
    BY <1>1, EventPercentages DEF WorkerInv, TypeOK
  <2>2. CASE event'[j] = event[j]
    BY <2>1, <2>2
  <2>3. ASSUME NEW s \in Slot, Inner(s) PROVE Restarts(j)
    <3>1. CASE JobOf(s) # j
      BY <2>1, <2>2, <2>3, <3>1, InnerPublishes
    <3>2. CASE JobOf(s) = j
      <4>1. CASE AnnounceStart(s)
        BY <2>1, <3>2, <4>1 DEF AnnounceStart, Publish, TypeOK
      <4>2. CASE PublishFailed(s)
        BY <2>1, <3>2, <4>2 DEF PublishFailed, Publish, TypeOK
      <4>3. CASE PublishCompleted(s)
        <5>1. event'[j].progress = 100
          BY <2>1, <3>2, <4>3 DEF PublishCompleted, Publish, Final, TypeOK
        <5> QED BY <2>1, <5>1
      <4>4. CASE ForwardProgress(s)
        <5>1. event[j].progress <= Reported(s)
          <6>1. run[s].step = "forward" /\ Heard(s, JobOf(s))
            <7>1. run[s].step = "forward"
              BY <4>4 DEF ForwardProgress, At
            <7> QED BY <1>1, <7>1, SlotAtWork
          <6> QED BY <3>2, <6>1 DEF Heard
        <5>2. run[s].mark \in 1..Len(Marks)
          BY <1>1, <4>4 DEF WorkerInv, ForwardsAMark, ForwardProgress
        <5>3. Reported(s) = Marks[run[s].mark] /\ Marks[run[s].mark] \in Nat
          <6>1. Marks[run[s].mark] \in Percent
            BY <5>2, MarksArePercent
          <6>2. Marks[run[s].mark] \in Nat
            BY <6>1, PercentTypes
          <6> QED BY <5>2, <6>2, MarksArePercent DEF Reported
        <5>4. event'[j].progress = Marks[run[s].mark] \/ event'[j] = event[j]
          BY <2>1, <3>2, <4>4 DEF ForwardProgress, Publish, Processing, TypeOK
        <5> QED BY <2>1, <5>1, <5>3, <5>4
      <4>5. CASE event' = event
        BY <2>2, <4>5
      <4> QED
        BY <2>3, <4>1, <4>2, <4>3, <4>4, <4>5
           DEF Inner, UpdateProgress, Succeed, CountCompleted, Fail, CountFailed, toldVars
    <3> QED BY <3>1, <3>2
  <2> QED
    BY <1>1, <2>2, <2>3, NextCases
       DEF Enqueue, Promote, Stall, Remove, Fetch, Complete, RecordFailure, Reject,
           StartWorker, Shutdown, Gone, toldVars, vars
<1>2. SUFFICES ASSUME ~LocksCanLapse PROVE Spec => ProgressRestartsOnly
  OBVIOUS
<1>3. WorkerInv /\ [Next]_vars => [\A j \in Job : Restarts(j)]_vars
  BY <1>1, <1>2
<1> QED BY <1>3, WorkerInvInductive, PTL DEF Spec, ProgressRestartsOnly
=============================================================================
