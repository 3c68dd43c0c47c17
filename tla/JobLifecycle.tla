---------------------------- MODULE JobLifecycle ----------------------------
(***************************************************************************)
(* What a job promises to everyone outside the worker: the status endpoint *)
(* (routes.ts), the event stream (sse.ts) and the browser.                 *)
(*                                                                         *)
(* A job is a phase, in the vocabulary of publicState, a percentage in the *)
(* job record, and the events its runs publish on the job's channel.  The  *)
(* worker that produces all this is JobWorker, which implements this       *)
(* module; the event stream is specified over it.                          *)
(***************************************************************************)
EXTENDS Naturals

CONSTANTS Job,        \* the jobs
          MaxRuns,    \* how often a job can be run at most
          Percent     \* the percentages a run reports

ASSUME LifecycleAssumption == /\ MaxRuns \in Nat \ {0}
                              /\ Percent \subseteq 0..100

VARIABLES phase,      \* the public state of each job
          progress,   \* the percentage in each job's record
          runsLeft,   \* how many more times each job can be started
          said,       \* what the job's latest run has announced
          lost,       \* was a run of the job ever lost with its process?
          event       \* the last event published on the job's channel

jobVars == <<phase, progress, runsLeft, said, lost, event>>

Settled == {"completed", "failed"}
Phases == {"new", "queued", "processing", "retrying", "removed"} \cup Settled
Words == {"nothing", "started"} \cup Settled
Processing(p) == [state |-> "processing", progress |-> p]
Final(verdict) == [state |-> verdict,
                   progress |-> IF verdict = "completed" THEN 100 ELSE 0]
NoEvent == [state |-> "none", progress |-> 0]
Events == {NoEvent} \cup {Processing(p) : p \in Percent \cup {0}}
                    \cup {Final(v) : v \in Settled}

JobTypeOK == /\ phase \in [Job -> Phases]
             /\ progress \in [Job -> Percent \cup {0}]
             /\ runsLeft \in [Job -> 0..MaxRuns]
             /\ said \in [Job -> Words]
             /\ lost \in [Job -> BOOLEAN]
             /\ event \in [Job -> Events]

JobInit == /\ phase = [j \in Job |-> "new"]
           /\ progress = [j \in Job |-> 0]
           /\ runsLeft = [j \in Job |-> MaxRuns]
           /\ said = [j \in Job |-> "nothing"]
           /\ lost = [j \in Job |-> FALSE]
           /\ event = [j \in Job |-> NoEvent]

Become(j, p) == phase' = [phase EXCEPT ![j] = p]
Publish(j, e) == event' = [event EXCEPT ![j] = e]

\* POST /jobs accepts the job.
Enqueue(j) == /\ phase[j] = "new"
              /\ Become(j, "queued")
              /\ UNCHANGED <<progress, runsLeft, said, lost, event>>

\* A worker takes the job up: one of its runs is spent.
Begin(j) == /\ phase[j] = "queued"
            /\ runsLeft[j] > 0
            /\ Become(j, "processing")
            /\ runsLeft' = [runsLeft EXCEPT ![j] = @ - 1]
            /\ said' = [said EXCEPT ![j] = "nothing"]
            /\ UNCHANGED <<progress, lost, event>>

\* The run announces itself on the channel.
AnnounceBegin(j) == /\ phase[j] = "processing"
                    /\ said[j] = "nothing"
                    /\ said' = [said EXCEPT ![j] = "started"]
                    /\ Publish(j, Processing(0))
                    /\ UNCHANGED <<phase, progress, runsLeft, lost>>

\* The run records a percentage in the job.
Record(j, p) == /\ phase[j] = "processing"
                /\ said[j] = "started"
                /\ progress' = [progress EXCEPT ![j] = p]
                /\ UNCHANGED <<phase, runsLeft, said, lost, event>>

\* The run publishes a percentage, never below what it has published.
Report(j, p) == /\ phase[j] = "processing"
                /\ said[j] = "started"
                /\ p >= event[j].progress
                /\ Publish(j, Processing(p))
                /\ UNCHANGED <<phase, progress, runsLeft, said, lost>>

\* The run announces its verdict, before the queue records it.
Announce(j, v) == /\ phase[j] = "processing"
                  /\ said[j] = "started"
                  /\ said' = [said EXCEPT ![j] = v]
                  /\ Publish(j, Final(v))
                  /\ UNCHANGED <<phase, progress, runsLeft, lost>>

\* The queue records the verdict the run has announced.
Settle(j) == /\ phase[j] = "processing"
             /\ said[j] \in Settled
             /\ Become(j, said[j])
             /\ UNCHANGED <<progress, runsLeft, said, lost, event>>

\* A run that failed without announcing it is given another chance.
Retry(j) == /\ phase[j] = "processing"
            /\ said[j] = "started"
            /\ runsLeft[j] > 0
            /\ Become(j, "retrying")
            /\ UNCHANGED <<progress, runsLeft, said, lost, event>>

\* The backoff is over.
Requeue(j) == /\ phase[j] = "retrying"
              /\ Become(j, "queued")
              /\ UNCHANGED <<progress, runsLeft, said, lost, event>>

\* The process running the job is gone; the job is queued again ...
Lose(j) == /\ phase[j] = "processing"
           /\ runsLeft[j] > 0
           /\ Become(j, "queued")
           /\ lost' = [lost EXCEPT ![j] = TRUE]
           /\ UNCHANGED <<progress, runsLeft, said, event>>

\* ... or given up, whatever its last run had announced.
GiveUp(j) == /\ phase[j] = "processing"
             /\ Become(j, "failed")
             /\ lost' = [lost EXCEPT ![j] = TRUE]
             /\ UNCHANGED <<progress, runsLeft, said, event>>

\* Retention forgets a settled job.
Forget(j) == /\ phase[j] \in Settled
             /\ Become(j, "removed")
             /\ UNCHANGED <<progress, runsLeft, said, lost, event>>

\* The steps a subscriber to the job's channel can hear, and the others.
Publication(j) == \/ AnnounceBegin(j)
                  \/ \E p \in Percent : Report(j, p)
                  \/ \E v \in Settled : Announce(j, v)

SilentStep(j) == \/ Enqueue(j) \/ Begin(j) \/ Settle(j) \/ Retry(j)
                 \/ Requeue(j) \/ Lose(j) \/ GiveUp(j) \/ Forget(j)
                 \/ \E p \in Percent : Record(j, p)

JobStep(j) == Publication(j) \/ SilentStep(j)

JobNext == \E j \in Job : JobStep(j)

JobSpec == JobInit /\ [][JobNext]_jobVars
=============================================================================
