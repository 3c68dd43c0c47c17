-------------------------- MODULE JobWorkerCounters --------------------------
(***************************************************************************)
(* Proofs about JobWorker: the job counters of /metrics agree with the     *)
(* verdicts the queue records.  They count jobs and slots, so each step is *)
(* described by what it does to four finite sets.                          *)
(***************************************************************************)
EXTENDS JobWorkerProofs, FiniteSetTheorems

\* The verdicts the queue has recorded, and those counted and on their way.
Completed == {j \in Job : state[j] = "completed"}
Returning == {s \in Slot : At(s, "return")}
Failed == {j \in Job : state[j] = "failed" /\ stalls[j] <= MaxStalls}
Throwing == {s \in Slot : At(s, "throw") /\ ~Retries(s)}

\* At least as many verdicts are counted as recorded or on their way.
Counted(S, T, c) == /\ IsFiniteSet(S) /\ IsFiniteSet(T)
                    /\ Cardinality(S) + Cardinality(T) <= c

\* As long as nothing was lost or removed, exactly as many.
Balanced(S, T, c) == Cardinality(S) + Cardinality(T) = c

Untouched == NothingLost /\ NothingRemoved

CountInv == /\ Counted(Completed, Returning, counters["completed"])
            /\ Counted(Failed, Throwing, counters["failed"])
            /\ Untouched => /\ Balanced(Completed, Returning, counters["completed"])
                            /\ Balanced(Failed, Throwing, counters["failed"])

-----------------------------------------------------------------------------
(* A verdict is counted, then recorded; or something is lost.              *)

Counts(S, T, c, S1, T1, c1) == /\ S1 = S /\ c1 = c + 1
                               /\ \E s : s \notin T /\ T1 = T \cup {s}

Records(S, T, c, S1, T1, c1) == /\ c1 = c
                                /\ \E j : j \notin S /\ S1 = S \cup {j}
                                /\ \E s : s \in T /\ T1 = T \ {s}

Keeps(S, T, c, S1, T1, c1) == S1 = S /\ T1 = T /\ c1 = c

Loses(S, T, c, S1, T1, c1) == S1 \subseteq S /\ T1 \subseteq T /\ c1 = c

Moves(S, T, c, S1, T1, c1) == \/ Counts(S, T, c, S1, T1, c1)
                              \/ Records(S, T, c, S1, T1, c1)
                              \/ Keeps(S, T, c, S1, T1, c1)

LEMMA MovesCount ==
  ASSUME NEW S, NEW T, NEW c \in Nat, NEW S1, NEW T1, NEW c1,
         Counted(S, T, c), Moves(S, T, c, S1, T1, c1)
  PROVE  Counted(S1, T1, c1) /\ (Balanced(S, T, c) => Balanced(S1, T1, c1))
<1>0. /\ IsFiniteSet(S) /\ IsFiniteSet(T)
      /\ Cardinality(S) \in Nat /\ Cardinality(T) \in Nat
  BY FS_CardinalityType DEF Counted
<1>1. CASE Counts(S, T, c, S1, T1, c1)
  <2>1. PICK s : s \notin T /\ T1 = T \cup {s}
    BY <1>1 DEF Counts
  <2>2. IsFiniteSet(T1) /\ Cardinality(T1) = Cardinality(T) + 1
    BY <1>0, <2>1, FS_AddElement
  <2> QED BY <1>0, <1>1, <2>2 DEF Counts, Counted, Balanced
<1>2. CASE Records(S, T, c, S1, T1, c1)
  <2>1. PICK j : j \notin S /\ S1 = S \cup {j}
    BY <1>2 DEF Records
  <2>2. PICK s : s \in T /\ T1 = T \ {s}
    BY <1>2 DEF Records
  <2>3. IsFiniteSet(S1) /\ Cardinality(S1) = Cardinality(S) + 1
    BY <1>0, <2>1, FS_AddElement
  <2>4. IsFiniteSet(T1) /\ Cardinality(T1) = Cardinality(T) - 1
    BY <1>0, <2>2, FS_RemoveElement
  <2> QED BY <1>0, <1>2, <2>3, <2>4 DEF Records, Counted, Balanced
<1>3. CASE Keeps(S, T, c, S1, T1, c1)
  BY <1>3 DEF Keeps, Counted
<1> QED BY <1>1, <1>2, <1>3 DEF Moves

LEMMA LosesCount ==
  ASSUME NEW S, NEW T, NEW c \in Nat, NEW S1, NEW T1, NEW c1,
         Counted(S, T, c), Loses(S, T, c, S1, T1, c1)
  PROVE  Counted(S1, T1, c1)
<1>1. IsFiniteSet(S) /\ IsFiniteSet(T) /\ S1 \in SUBSET S /\ T1 \in SUBSET T /\ c1 = c
  BY DEF Counted, Loses
<1>2. IsFiniteSet(S1) /\ Cardinality(S1) <= Cardinality(S)
  BY <1>1, FS_Subset
<1>3. IsFiniteSet(T1) /\ Cardinality(T1) <= Cardinality(T)
  BY <1>1, FS_Subset
<1>4. /\ Cardinality(S) \in Nat /\ Cardinality(S1) \in Nat
      /\ Cardinality(T) \in Nat /\ Cardinality(T1) \in Nat
  BY <1>1, <1>2, <1>3, FS_CardinalityType
<1> QED BY <1>1, <1>2, <1>3, <1>4 DEF Counted

-----------------------------------------------------------------------------
(* What each step does to the two accounts.                                *)

CompletedMoves == Moves(Completed, Returning, counters["completed"],
                        Completed', Returning', counters'["completed"])
FailedMoves == Moves(Failed, Throwing, counters["failed"],
                     Failed', Throwing', counters'["failed"])
CompletedLoses == Loses(Completed, Returning, counters["completed"],
                        Completed', Returning', counters'["completed"])
FailedLoses == Loses(Failed, Throwing, counters["failed"],
                     Failed', Throwing', counters'["failed"])

\* What leaves the verdicts alone.
LEMMA SameVerdicts ==
  ASSUME UNCHANGED <<state, stalls>>
  PROVE  Completed' = Completed /\ Failed' = Failed
BY DEF Completed, Failed

\* Slots other than s do what they did: a verdict on its way comes or goes at s.
LEMMA OneSlot ==
  ASSUME NEW s \in Slot, \A t \in Slot : t # s => run'[t] = run[t]
  PROVE  /\ Returning' = IF At(s, "return")' THEN Returning \cup {s} ELSE Returning \ {s}
         /\ Throwing' = IF (At(s, "throw") /\ ~Retries(s))' THEN Throwing \cup {s}
                                                            ELSE Throwing \ {s}
<1>1. \A t \in Slot \ {s} : /\ At(t, "return")' = At(t, "return")
                            /\ At(t, "throw")' = At(t, "throw")
                            /\ Retries(t)' = Retries(t)
  BY DEF At, Retries
<1>2. Returning' = {t \in Slot : At(t, "return")'}
  BY DEF Returning
<1>3. Throwing' = {t \in Slot : At(t, "throw")' /\ ~(Retries(t)')}
  BY DEF Throwing
<1>4. Returning' = IF At(s, "return")' THEN Returning \cup {s} ELSE Returning \ {s}
  BY <1>1, <1>2, Zenon DEF Returning
<1>5. Throwing' = IF (At(s, "throw") /\ ~Retries(s))' THEN Throwing \cup {s}
                                                     ELSE Throwing \ {s}
  BY <1>1, <1>3, Zenon DEF Throwing
<1> QED BY <1>4, <1>5

LEMMA KeepsMove ==
  ASSUME Completed' = Completed, Failed' = Failed, Returning' = Returning, Throwing' = Throwing,
         counters'["completed"] = counters["completed"], counters'["failed"] = counters["failed"]
  PROVE  CompletedMoves /\ FailedMoves
BY DEF CompletedMoves, FailedMoves, Moves, Keeps

LEMMA QueueMoves ==
  ASSUME TypeOK, NEW k \in Job, Enqueue(k) \/ Promote(k) \/ Stall(k)
  PROVE  CompletedMoves /\ FailedMoves
<1>1. /\ Returning' = Returning /\ Throwing' = Throwing
      /\ counters'["completed"] = counters["completed"]
      /\ counters'["failed"] = counters["failed"]
  BY DEF Enqueue, Promote, Stall, IncrementCounter, Returning, Throwing, At, Retries, TypeOK
<1>2. /\ \A j \in Job \ {k} : state'[j] = state[j] /\ stalls'[j] = stalls[j]
      /\ state[k] \notin {"completed", "failed"} /\ state'[k] # "completed"
      /\ state'[k] = "failed" => ~(stalls'[k] <= MaxStalls)
  BY WorkerAssumption DEF Enqueue, Promote, Stall, Become, TypeOK
<1>3. Completed' = Completed /\ Failed' = Failed
  BY <1>2 DEF Completed, Failed
<1> QED BY <1>1, <1>3, KeepsMove

LEMMA FetchMoves ==
  ASSUME TypeOK, NEW s \in Slot, NEW k \in Job, Fetch(s, k)
  PROVE  CompletedMoves /\ FailedMoves
<1>1. /\ ~At(s, "return") /\ ~At(s, "throw") /\ ~At(s, "return")' /\ ~At(s, "throw")'
      /\ \A t \in Slot : t # s => run'[t] = run[t]
  BY DEF Fetch, Taken, At, TypeOK
<1>2. s \notin Returning /\ s \notin Throwing
  BY <1>1 DEF Returning, Throwing
<1>3. Returning' = Returning /\ Throwing' = Throwing
  BY <1>1, <1>2, OneSlot
<1>4. Completed' = Completed /\ Failed' = Failed
  BY DEF Fetch, Become, Completed, Failed, TypeOK
<1> QED BY <1>3, <1>4, KeepsMove DEF Fetch

LEMMA InnerMoves ==
  ASSUME TypeOK, AnnouncedIsLast, NEW s \in Slot, Inner(s)
  PROVE  CompletedMoves /\ FailedMoves
<1>1. /\ Completed' = Completed /\ Failed' = Failed
      /\ \A t \in Slot : t # s => run'[t] = run[t]
  BY InnerEffect, SameVerdicts DEF queueVars
<1>2. run[s].step \notin {"return", "throw"}
  BY DEF Inner, AnnounceStart, UpdateProgress, ForwardProgress, Succeed, PublishCompleted,
         CountCompleted, Fail, PublishFailed, CountFailed, At
<1>3. s \notin Returning /\ s \notin Throwing
  BY <1>2 DEF Returning, Throwing, At
<1>4. ASSUME NEW step, Goto(s, step) PROVE run'[s].step = step /\ Retries(s)' = Retries(s)
  BY <1>4 DEF Goto, Retries, TypeOK, Runs
<1>5. CASE CountCompleted(s)
  <2>1. run'[s].step = "return"
    BY <1>4, <1>5 DEF CountCompleted
  <2>2. Returning' = Returning \cup {s} /\ Throwing' = Throwing
    BY <1>1, <1>3, <2>1, OneSlot DEF At
  <2>3. /\ counters'["completed"] = counters["completed"] + 1
        /\ counters'["failed"] = counters["failed"]
    BY <1>5 DEF CountCompleted, IncrementCounter, TypeOK
  <2> QED BY <1>1, <1>3, <2>2, <2>3 DEF CompletedMoves, FailedMoves, Moves, Counts, Keeps
<1>6. CASE CountFailed(s)
  <2>1. run'[s].step = "throw" /\ ~Retries(s)'
    BY <1>4, <1>6 DEF CountFailed, At, AnnouncedIsLast
  <2>2. Returning' = Returning /\ Throwing' = Throwing \cup {s}
    BY <1>1, <1>3, <2>1, OneSlot DEF At
  <2>3. /\ counters'["failed"] = counters["failed"] + 1
        /\ counters'["completed"] = counters["completed"]
    BY <1>6 DEF CountFailed, IncrementCounter, TypeOK
  <2> QED BY <1>1, <1>3, <2>2, <2>3 DEF CompletedMoves, FailedMoves, Moves, Counts, Keeps
<1>7. ASSUME counters' = counters, run'[s].step # "return",
             run'[s].step # "throw" \/ Retries(s)'
      PROVE  CompletedMoves /\ FailedMoves
  <2>1. Returning' = Returning /\ Throwing' = Throwing
    BY <1>1, <1>3, <1>7, OneSlot DEF At
  <2> QED BY <1>1, <1>7, <2>1, KeepsMove
<1>8. CASE UpdateProgress(s)
  <2>1. ASSUME NEW r \in Runs PROVE Reporting(r).step = "forward"
    BY DEF Reporting, Runs
  <2>2. run'[s].step = "forward"
    BY <1>8, <2>1 DEF UpdateProgress, TypeOK
  <2> QED BY <1>7, <1>8, <2>2 DEF UpdateProgress
<1>9. ASSUME NEW fault \in Faults, Fail(s, fault) PROVE CompletedMoves /\ FailedMoves
  BY <1>7, <1>9, FailEffect DEF Fail
<1>10. CASE \/ AnnounceStart(s) \/ ForwardProgress(s) \/ Succeed(s)
            \/ PublishCompleted(s) \/ PublishFailed(s)
  BY <1>4, <1>7, <1>10
     DEF AnnounceStart, ForwardProgress, Succeed, PublishCompleted, PublishFailed
<1> QED BY <1>5, <1>6, <1>8, <1>9, <1>10 DEF Inner

LEMMA OutcomeMoves ==
  ASSUME WorkerInv, NEW s \in Slot, Complete(s) \/ RecordFailure(s)
  PROVE  CompletedMoves /\ FailedMoves
<1>0. TypeOK /\ run[s].step \in {"return", "throw"}
  BY DEF WorkerInv, Complete, RecordFailure, At
<1> PICK k \in Job : k = JobOf(s)
  BY <1>0, RunTypes DEF WorkerInv, BusyHasJob, At
<1>1. /\ state[k] = "active" /\ stalls[k] <= MaxStalls /\ stalls' = stalls
      /\ \A j \in Job \ {k} : state'[j] = state[j]
      /\ counters' = counters
  BY <1>0, WorkerAssumption
     DEF WorkerInv, LocksAreCurrent, RunsAreLeft, Complete, RecordFailure, HoldsLock, Become,
         TypeOK
<1>2. k \notin Completed /\ k \notin Failed
  BY <1>1 DEF Completed, Failed
<1>3. Returning' = Returning \ {s} /\ Throwing' = Throwing \ {s}
  <2>1. /\ run'[s].step = "idle"
        /\ \A t \in Slot : t # s => run'[t] = run[t]
    BY <1>0, ReleaseEffect DEF Complete, RecordFailure, Idle
  <2> QED BY <2>1, OneSlot DEF At
<1>4. CASE Complete(s)
  <2>1. state'[k] = "completed" /\ run[s].step = "return"
    BY <1>0, <1>4 DEF Complete, At, Become, TypeOK
  <2>2. Completed' = Completed \cup {k} /\ Failed' = Failed
    BY <1>1, <2>1 DEF Completed, Failed
  <2>3. s \in Returning /\ s \notin Throwing
    BY <2>1 DEF Returning, Throwing, At
  <2> QED BY <1>1, <1>2, <1>3, <2>2, <2>3 DEF CompletedMoves, FailedMoves, Moves, Records, Keeps
<1>5. CASE RecordFailure(s)
  <2>1. state'[k] = Outcome(s) /\ run[s].step = "throw"
    BY <1>0, <1>5 DEF RecordFailure, At, Become, TypeOK
  <2>2. s \notin Returning /\ (s \in Throwing <=> ~Retries(s))
    BY <2>1 DEF Returning, Throwing, At
  <2>3. Completed' = Completed
    BY <1>1, <2>1 DEF Completed, Outcome
  <2>4. CASE Retries(s)
    <3>1. Failed' = Failed
      BY <1>1, <2>1, <2>4 DEF Failed, Outcome
    <3> QED BY <1>1, <1>3, <2>2, <2>3, <2>4, <3>1, KeepsMove
  <2>5. CASE ~Retries(s)
    <3>1. Failed' = Failed \cup {k}
      BY <1>1, <2>1, <2>5 DEF Failed, Outcome
    <3> QED BY <1>1, <1>2, <1>3, <2>2, <2>3, <2>5, <3>1
            DEF CompletedMoves, FailedMoves, Moves, Records, Keeps
  <2> QED BY <2>4, <2>5
<1> QED BY <1>4, <1>5

\* A run rejected, a process gone, a job removed: what is on its way, or what
\* was recorded, becomes less.
LEMMA LossMoves ==
  ASSUME TypeOK,
         \/ \E s \in Slot : Reject(s)
         \/ \E w \in Worker : Gone(w)
         \/ \E k \in Job : Remove(k)
  PROVE  CompletedLoses /\ FailedLoses
<1>1. ASSUME NEW s \in Slot, Reject(s) PROVE CompletedLoses /\ FailedLoses
  <2>1. Completed' = Completed /\ Failed' = Failed
    BY <1>1, SameVerdicts DEF Reject, queueVars
  <2>2. Returning' = Returning \ {s} /\ Throwing' = Throwing \ {s}
    BY <1>1, ReleaseEffect, OneSlot DEF Reject, At, Idle
  <2> QED BY <1>1, <2>1, <2>2 DEF Reject, CompletedLoses, FailedLoses, Loses
<1>2. ASSUME NEW w \in Worker, Gone(w) PROVE CompletedLoses /\ FailedLoses
  <2>1. Completed' = Completed /\ Failed' = Failed
    BY <1>2, SameVerdicts DEF Gone, queueVars
  <2>2. \A t \in Slot : run'[t] = run[t] \/ run'[t].step = "idle"
    BY <1>2 DEF Gone, Idle
  <2>3. Returning' \subseteq Returning
    BY <2>2 DEF Returning, At
  <2>4. Throwing' \subseteq Throwing
    BY <2>2 DEF Throwing, At, Retries
  <2> QED BY <1>2, <2>1, <2>3, <2>4 DEF Gone, CompletedLoses, FailedLoses, Loses
<1>3. ASSUME NEW k \in Job, Remove(k) PROVE CompletedLoses /\ FailedLoses
  <2>1. Returning' = Returning /\ Throwing' = Throwing
    BY <1>3 DEF Remove, Returning, Throwing, At, Retries
  <2>2. Completed' \subseteq Completed /\ Failed' \subseteq Failed
    BY <1>3 DEF Remove, Become, Completed, Failed, TypeOK
  <2> QED BY <1>3, <2>1, <2>2 DEF Remove, CompletedLoses, FailedLoses, Loses
<1> QED BY <1>1, <1>2, <1>3

-----------------------------------------------------------------------------
(* While nothing is lost or removed, every step balances the accounts.     *)

\* What has been lost or removed stays so.
LEMMA UntouchedBefore ==
  ASSUME WorkerInv, [Next]_vars, Untouched'
  PROVE  Untouched
<1>1. TypeOK /\ LocksAreCurrent
  BY DEF WorkerInv
<1>2. ASSUME NEW j \in Job PROVE stalls[j] = 0 /\ stalls'[j] = stalls[j]
  BY <1>1, StallsEffect DEF Untouched, NothingLost, TypeOK
<1>3. ASSUME NEW j \in Job PROVE state[j] # "removed"
  <2>1. state'[j] # "removed"
    BY DEF Untouched, NothingRemoved
  <2>2. state[j] = "removed" => state'[j] = "removed"
    <3>1. ASSUME NEW s \in Slot, Complete(s) \/ RecordFailure(s), state[j] = "removed"
          PROVE  state'[j] = "removed"
      <4>1. JobOf(s) # j
        BY <1>1, <3>1, WorkerAssumption
           DEF Complete, RecordFailure, HoldsLock, LocksAreCurrent
      <4> QED BY <1>1, <3>1, <4>1 DEF Complete, RecordFailure, Become, TypeOK
    <3>2. ASSUME NEW k \in Job, Enqueue(k) \/ Promote(k) \/ Stall(k) \/ Remove(k)
          PROVE  state[j] = "removed" => state'[j] = "removed"
      BY <1>1, <3>2 DEF Enqueue, Promote, Stall, Remove, Become, TypeOK
    <3>3. ASSUME NEW s \in Slot, NEW k \in Job, Fetch(s, k)
          PROVE  state[j] = "removed" => state'[j] = "removed"
      BY <1>1, <3>3 DEF Fetch, Become, TypeOK
    <3> QED
      BY <1>1, <3>1, <3>2, <3>3, NextCases, InnerEffect
         DEF Reject, StartWorker, Shutdown, Gone, vars, queueVars
  <2> QED BY <2>1, <2>2
<1>4. ASSUME NEW j \in Job, state[j] = "active" PROVE Held(j)
  <2> SUFFICES ASSUME ~Held(j) PROVE FALSE
    OBVIOUS
  <2>1. state'[j] = "active" => Held(j)'
    BY DEF Untouched, NothingLost
  <2>2. ASSUME state'[j] = "active", lock'[j] = lock[j],
               \A s \in Slot : s = lock[j] => run'[s].job # j
        PROVE  FALSE
    <3>1. lock[j] \in Slot \cup {NoSlot}
      BY <1>1 DEF TypeOK
    <3> QED BY <2>1, <2>2, <3>1 DEF Held, JobOf
  <2>3. \A s \in Slot : s = lock[j] => run[s].job # j
    BY WorkerAssumption DEF Held, JobOf
  <2>4. ASSUME NEW k \in Job, Enqueue(k) \/ Promote(k) \/ Remove(k) PROVE FALSE
    BY <1>1, <1>4, <2>2, <2>3, <2>4 DEF Enqueue, Promote, Remove, Become, Settled, TypeOK
  <2>5. ASSUME NEW k \in Job, Stall(k) PROVE FALSE
    BY <1>1, <1>2, <2>5 DEF Stall, TypeOK
  <2>6. ASSUME NEW s \in Slot, NEW k \in Job, Fetch(s, k) PROVE FALSE
    <3>1. /\ k # j /\ state'[j] = "active" /\ lock'[j] = lock[j]
          /\ \A t \in Slot : run'[t] = IF t = s THEN Taken(k) ELSE run[t]
      BY <1>1, <1>4, <2>6 DEF Fetch, Become, TypeOK
    <3> QED BY <2>2, <2>3, <3>1 DEF Taken
  <2>7. ASSUME NEW s \in Slot, Inner(s) PROVE FALSE
    BY <1>1, <1>4, <2>2, <2>3, <2>7, InnerEffect DEF queueVars
  <2>8. ASSUME NEW s \in Slot, Complete(s) \/ RecordFailure(s) PROVE FALSE
    <3>1. lock[JobOf(s)] = s
      BY <2>8 DEF Complete, RecordFailure, HoldsLock
    <3>2. JobOf(s) # j
      BY <2>3, <3>1 DEF JobOf
    <3>3. state'[j] = "active" /\ lock'[j] = lock[j]
      BY <1>1, <1>4, <2>8, <3>2 DEF Complete, RecordFailure, Become, Unlock, TypeOK
    <3>4. \A t \in Slot : run'[t] = run[t] \/ run'[t].job = NoJob
      BY <1>1, <2>8, ReleaseEffect DEF Complete, RecordFailure, Idle
    <3> QED BY <2>2, <2>3, <3>3, <3>4, WorkerAssumption
  <2>9. ASSUME NEW s \in Slot, Reject(s) PROVE FALSE
    <3>1. \A t \in Slot : run'[t] = run[t] \/ run'[t].job = NoJob
      BY <1>1, <2>9, ReleaseEffect DEF Reject, Idle
    <3> QED BY <1>4, <2>2, <2>3, <2>9, <3>1, WorkerAssumption DEF Reject, queueVars
  <2>10. ASSUME NEW w \in Worker, Gone(w) PROVE FALSE
    <3>1. \A t \in Slot : run'[t] = run[t] \/ run'[t].job = NoJob
      BY <2>10 DEF Gone, Idle
    <3> QED BY <1>4, <2>2, <2>3, <2>10, <3>1, WorkerAssumption DEF Gone, queueVars
  <2>11. CASE UNCHANGED <<queueVars, run>>
    BY <1>4, <2>2, <2>3, <2>11 DEF queueVars
  <2> QED
    BY <2>4, <2>5, <2>6, <2>7, <2>8, <2>9, <2>10, <2>11, NextCases
       DEF StartWorker, Shutdown, vars
<1> QED BY <1>2, <1>3, <1>4 DEF Untouched, NothingLost, NothingRemoved

\* So nothing is rejected, and only idle processes go.
LEMMA UntouchedMoves ==
  ASSUME WorkerInv, [Next]_vars, Untouched',
         \/ \E s \in Slot : Reject(s)
         \/ \E w \in Worker : Gone(w)
         \/ \E k \in Job : Remove(k)
  PROVE  CompletedMoves /\ FailedMoves
<1>1. TypeOK /\ NothingLost
  BY UntouchedBefore DEF WorkerInv, Untouched
<1>2. ASSUME NEW s \in Slot, JobOf(s) # NoJob
      PROVE  JobOf(s) \in Job /\ state[JobOf(s)] = "active" /\ lock[JobOf(s)] = s
  BY <1>1, <1>2, RunTypes DEF WorkerInv, RunnerHoldsLock, Exclusive, NothingLost
<1>3. ASSUME NEW s \in Slot, Reject(s) PROVE FALSE
  <2>1. JobOf(s) # NoJob
    BY <1>3 DEF WorkerInv, BusyHasJob, Reject, At
  <2> QED BY <1>2, <1>3, <2>1 DEF Reject, HoldsLock
<1>4. ASSUME NEW w \in Worker, Gone(w) PROVE CompletedMoves /\ FailedMoves
  <2>1. ASSUME NEW t \in Slot, ~(run'[t].step = run[t].step /\ Retries(t)' = Retries(t))
        PROVE  run[t].step \notin {"return", "throw"}
    <3> SUFFICES ASSUME run[t].step \in {"return", "throw"} PROVE FALSE
      OBVIOUS
    <3> PICK k \in Job : k = JobOf(t)
      BY <1>2 DEF WorkerInv, BusyHasJob, At
    <3>1. state[k] = "active" /\ lock[k] = t
      BY <1>2, WorkerAssumption
    <3>2. run'[t] = Idle
      BY <1>4, <2>1 DEF Gone, Retries
    <3>3. state'[k] = "active" /\ lock'[k] = t
      BY <1>4, <3>1 DEF Gone, queueVars
    <3>4. Held(k)'
      BY <3>3 DEF Untouched, NothingLost
    <3> QED BY <3>2, <3>3, <3>4, WorkerAssumption DEF Held, JobOf, Idle
  <2>2. \A t \in Slot : run'[t] = run[t] \/ run'[t].step = "idle"
    BY <1>4 DEF Gone, Idle
  <2>3. Returning' = Returning
    BY <2>1, <2>2 DEF Returning, At
  <2>4. Throwing' = Throwing
    BY <2>1, <2>2 DEF Throwing, At
  <2> QED BY <1>4, <2>3, <2>4, KeepsMove, SameVerdicts DEF Gone, queueVars
<1>5. ASSUME NEW k \in Job, Remove(k) PROVE FALSE
  BY <1>1, <1>5 DEF Remove, Become, Untouched, NothingRemoved, TypeOK
<1> QED BY <1>3, <1>4, <1>5

-----------------------------------------------------------------------------
(* The theorems.                                                           *)

LEMMA CountInvInit == Init => CountInv
<1> SUFFICES ASSUME Init PROVE CountInv
  OBVIOUS
<1>1. Completed = {} /\ Failed = {} /\ Returning = {} /\ Throwing = {}
  BY DEF Init, Completed, Failed, Returning, Throwing, At, Idle
<1>2. counters["completed"] = 0 /\ counters["failed"] = 0
  BY DEF Init
<1>3. IsFiniteSet({}) /\ Cardinality({}) = 0
  BY FS_EmptySet
<1> QED BY <1>1, <1>2, <1>3 DEF CountInv, Counted, Balanced

LEMMA CountInvStep == WorkerInv /\ CountInv /\ [Next]_vars => CountInv'
<1> SUFFICES ASSUME WorkerInv, CountInv, [Next]_vars PROVE CountInv'
  OBVIOUS
<1>1. counters["completed"] \in Nat /\ counters["failed"] \in Nat /\ TypeOK /\ AnnouncedIsLast
  BY DEF WorkerInv, TypeOK
<1> DEFINE Loss == \/ \E s \in Slot : Reject(s)
                   \/ \E w \in Worker : Gone(w)
                   \/ \E k \in Job : Remove(k)
<1>2. (CompletedMoves /\ FailedMoves) \/ Loss
  <2>1. CASE \E k \in Job : Enqueue(k) \/ Promote(k) \/ Stall(k)
    BY <1>1, <2>1, QueueMoves
  <2>2. CASE \E s \in Slot, k \in Job : Fetch(s, k)
    BY <1>1, <2>2, FetchMoves
  <2>3. CASE \E s \in Slot : Inner(s)
    BY <1>1, <2>3, InnerMoves
  <2>4. CASE \E s \in Slot : Complete(s) \/ RecordFailure(s)
    BY <2>4, OutcomeMoves
  <2>5. CASE UNCHANGED <<state, stalls, run, counters>>
    BY <2>5, SameVerdicts, KeepsMove DEF Returning, Throwing, At, Retries
  <2> QED
    BY <2>1, <2>2, <2>3, <2>4, <2>5, NextCases DEF StartWorker, Shutdown, vars, queueVars
<1>3. ASSUME CompletedMoves, FailedMoves
      PROVE  /\ Counted(Completed, Returning, counters["completed"])'
             /\ Counted(Failed, Throwing, counters["failed"])'
             /\ Untouched => /\ Balanced(Completed, Returning, counters["completed"])'
                             /\ Balanced(Failed, Throwing, counters["failed"])'
  BY <1>1, <1>3, MovesCount DEF CountInv, CompletedMoves, FailedMoves
<1>4. CASE CompletedMoves /\ FailedMoves
  BY <1>3, <1>4, UntouchedBefore DEF CountInv
<1>5. CASE Loss
  <2>1. CompletedLoses /\ FailedLoses
    BY <1>1, <1>5, LossMoves
  <2>2. /\ Counted(Completed, Returning, counters["completed"])'
        /\ Counted(Failed, Throwing, counters["failed"])'
    BY <1>1, <2>1, LosesCount DEF CountInv, CompletedLoses, FailedLoses
  <2>3. Untouched' => CompletedMoves /\ FailedMoves
    BY <1>5, UntouchedMoves
  <2> QED BY <1>3, <2>2, <2>3, UntouchedBefore DEF CountInv
<1> QED BY <1>2, <1>4, <1>5

\* The counters are sound whatever is lost: an inductive invariant of its own,
\* on top of what WorkerInv says of slots and locks.
THEOREM CountInvHolds == Spec => []CountInv
BY CountInvInit, CountInvStep, WorkerInvInductive, PTL DEF Spec

\* No verdict the queue records goes uncounted in /metrics, whatever crashes,
\* lapsed locks and retention do; only a job given up for its stalls fails
\* without worker.ts having counted it.
THEOREM RecordedIsCounted == Spec => []VerdictsAreCounted
<1>1. CountInv /\ TypeOK => VerdictsAreCounted
  <2> SUFFICES ASSUME CountInv, TypeOK PROVE VerdictsAreCounted
    OBVIOUS
  <2>1. /\ Cardinality(Completed) \in Nat /\ Cardinality(Returning) \in Nat
        /\ Cardinality(Failed) \in Nat /\ Cardinality(Throwing) \in Nat
        /\ counters["completed"] \in Nat /\ counters["failed"] \in Nat
    BY FS_CardinalityType DEF CountInv, Counted, TypeOK
  <2>2. /\ Cardinality(Completed) <= counters["completed"]
        /\ Cardinality(Failed) <= counters["failed"]
    BY <2>1 DEF CountInv, Counted
  <2> QED BY <2>2 DEF VerdictsAreCounted, Completed, Failed
<1> QED BY <1>1, CountInvHolds, TypeCorrect, PTL

\* While no run is lost and no job removed, worker.ts counts every verdict once:
\* the counters are the settled jobs and those about to settle.
THEOREM NothingCountsTwice == Spec => []CountersAreExact
<1>1. CountInv /\ TypeOK => CountersAreExact
  <2> SUFFICES ASSUME CountInv, TypeOK, NothingLost, NothingRemoved
               PROVE  /\ counters["completed"] = Cardinality(Completed) + Cardinality(Returning)
                      /\ counters["failed"] = Cardinality({j \in Job : state[j] = "failed"})
                                              + Cardinality(Throwing)
    BY DEF CountersAreExact, Completed, Returning, Throwing
  <2>1. Failed = {j \in Job : state[j] = "failed"}
    BY WorkerAssumption DEF NothingLost, Failed
  <2> QED BY <2>1 DEF CountInv, Untouched, Balanced
<1> QED BY <1>1, CountInvHolds, TypeCorrect, PTL
=============================================================================
