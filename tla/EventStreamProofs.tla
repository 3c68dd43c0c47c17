-------------------------- MODULE EventStreamProofs --------------------------
(***************************************************************************)
(* Proofs about EventStream, for every set of jobs, pages and percentages, *)
(* any number of requests in flight at once, whoever makes them, and any   *)
(* number of messages, dropped connections and restarts.                   *)
(***************************************************************************)
EXTENDS EventStream, SequenceTheorems, FiniteSetTheorems, TLAPS

-----------------------------------------------------------------------------
(* The jobs that are watched.                                              *)

LEMMA JobTypesStep == JobTypeOK /\ (\E j \in Job : JobStep(j)) => JobTypeOK'
<1> SUFFICES ASSUME JobTypeOK, NEW j \in Job, JobStep(j) PROVE JobTypeOK'
  OBVIOUS
<1>1. CASE Enqueue(j) \/ Settle(j) \/ Retry(j) \/ Requeue(j) \/ Forget(j)
  BY <1>1 DEF JobTypeOK, Enqueue, Settle, Retry, Requeue, Forget, Become, Phases, Settled
<1>2. CASE Begin(j)
  BY <1>2, LifecycleAssumption DEF JobTypeOK, Begin, Become, Phases, Words
<1>3. CASE Lose(j) \/ GiveUp(j)
  BY <1>3, Zenon DEF JobTypeOK, Lose, GiveUp, Become, Phases, Settled
<1>4. ASSUME NEW p \in Percent, Record(j, p) PROVE JobTypeOK'
  BY <1>4 DEF JobTypeOK, Record
<1>5. ASSUME NEW e \in Events, NEW word \in Words, Publish(j, e),
             said' = [said EXCEPT ![j] = word] \/ said' = said,
             UNCHANGED <<phase, progress, runsLeft, lost>>
      PROVE  JobTypeOK'
  BY <1>5 DEF JobTypeOK, Publish
<1>6. CASE AnnounceBegin(j)
  BY <1>5, <1>6 DEF AnnounceBegin, Events, Words
<1>7. ASSUME NEW p \in Percent, Report(j, p) PROVE JobTypeOK'
  BY <1>5, <1>7 DEF Report, Events, Words
<1>8. ASSUME NEW v \in Settled, Announce(j, v) PROVE JobTypeOK'
  BY <1>5, <1>8 DEF Announce, Events, Words
<1> QED
  BY <1>1, <1>2, <1>3, <1>4, <1>6, <1>7, <1>8 DEF JobStep, Publication, SilentStep

\* A step of one job leaves the others alone.
LEMMA OtherJobs ==
  ASSUME JobTypeOK, NEW j \in Job, JobStep(j), NEW k \in Job, k # j
  PROVE  /\ phase'[k] = phase[k] /\ said'[k] = said[k] /\ lost'[k] = lost[k]
BY DEF JobTypeOK, JobStep, Publication, SilentStep, Enqueue, Begin, AnnounceBegin, Record, Report,
       Announce, Settle, Retry, Requeue, Lose, GiveUp, Forget, Become

\* What the run of a job publishes; only an announced verdict ends the stream.
LEMMA PublicationEffect ==
  ASSUME JobTypeOK, NEW j \in Job, Publication(j)
  PROVE  /\ event'[j] \in Events
         /\ phase[j] = "processing" /\ phase' = phase /\ lost' = lost
         /\ said[j] \notin Settled
         /\ \/ ~Terminal(event'[j]) /\ said'[j] \notin Settled
            \/ event'[j] = Final(said'[j]) /\ said'[j] \in Settled
<1>1. CASE AnnounceBegin(j)
  BY <1>1 DEF AnnounceBegin, Publish, Events, JobTypeOK, Terminal, Processing, Settled
<1>4. CASE \E p \in Percent : Report(j, p)
  <2> PICK p \in Percent : Report(j, p)
    BY <1>4
  <2>1. /\ event'[j] = Processing(p) /\ event'[j] \in Events
        /\ phase[j] = "processing" /\ phase' = phase /\ lost' = lost
        /\ said[j] = "started" /\ said'[j] = "started"
    BY DEF Report, Publish, Events, JobTypeOK
  <2>2. event'[j].state = "processing"
    BY <2>1 DEF Processing
  <2> QED BY <2>1, <2>2 DEF Terminal, Settled
<1>5. CASE \E v \in Settled : Announce(j, v)
  <2> PICK v \in Settled : Announce(j, v)
    BY <1>5
  <2>1. /\ event'[j] = Final(v) /\ event'[j] \in Events
        /\ phase[j] = "processing" /\ phase' = phase /\ lost' = lost
        /\ said[j] = "started" /\ said'[j] = v
    BY DEF Announce, Publish, Events, JobTypeOK
  <2> QED BY <2>1 DEF Settled
<1> QED BY <1>1, <1>4, <1>5 DEF Publication

\* No other step announces a verdict.
LEMMA SilentStepSays ==
  ASSUME JobTypeOK, NEW j \in Job, SilentStep(j), NEW k \in Job, said'[k] \in Settled
  PROVE  said'[k] = said[k]
BY DEF JobTypeOK, SilentStep, Enqueue, Begin, Record, Settle, Retry, Requeue, Lose, GiveUp,
       Forget, Settled

\* What a job lost it has lost for good.
LEMMA LostForGood ==
  ASSUME JobTypeOK, NEW j \in Job, JobStep(j), NEW k \in Job, lost[k]
  PROVE  lost'[k]
BY Zenon DEF JobTypeOK, JobStep, Publication, SilentStep, Enqueue, Begin, AnnounceBegin, Record,
       Report, Announce, Settle, Retry, Requeue, Lose, GiveUp, Forget

\* A verdict that stands does so for good.
LEMMA StandsStep ==
  ASSUME JobTypeOK, NEW j \in Job, JobStep(j), NEW k \in Job, NEW v \in Settled,
         VerdictStands(k, v)
  PROVE  VerdictStands(k, v)'
<1> SUFFICES ASSUME ~lost'[k]
             PROVE  said'[k] = v /\ phase'[k] \in {"processing", v, "removed"}
  BY DEF VerdictStands
<1>1. ~lost[k]
  BY LostForGood
<1>2. said[k] = v /\ phase[k] \in {"processing", v, "removed"}
  BY <1>1 DEF VerdictStands
<1>3. CASE k # j
  BY <1>2, <1>3, OtherJobs
<1>4. CASE k = j
  <2>1. ~Publication(j)
    BY <1>2, <1>4, PublicationEffect
  <2>2. ~Begin(j) /\ ~Enqueue(j) /\ ~Retry(j) /\ ~Requeue(j) /\ ~(\E p \in Percent : Record(j, p))
    BY <1>2, <1>4 DEF Begin, Enqueue, Retry, Requeue, Record, Settled
  <2>3. ~Lose(j) /\ ~GiveUp(j)
    <3>1. Lose(j) \/ GiveUp(j) => lost'[j]
      BY Zenon DEF Lose, GiveUp, JobTypeOK
    <3> QED BY <1>4, <3>1
  <2>4. Settle(j) \/ Forget(j)
    BY <2>1, <2>2, <2>3 DEF JobStep, SilentStep
  <2> QED BY <1>2, <1>4, <2>4 DEF Settle, Forget, Become, JobTypeOK
<1> QED BY <1>3, <1>4

LEMMA SettledAsSaidStep ==
  ASSUME JobTypeOK, SettledAsSaid, NEW j \in Job, JobStep(j)
  PROVE  SettledAsSaid'
<1> SUFFICES ASSUME NEW k \in Job, phase'[k] \in Settled, ~lost'[k]
             PROVE  said'[k] = phase'[k]
  BY DEF SettledAsSaid
<1>1. ~lost[k]
  BY LostForGood
<1>2. CASE k # j
  BY <1>1, <1>2, OtherJobs DEF SettledAsSaid
<1>3. CASE k = j
  <2>1. ~GiveUp(j)
    <3>1. GiveUp(j) => lost'[j]
      BY Zenon DEF GiveUp, JobTypeOK
    <3> QED BY <1>3, <3>1
  <2>2. ~Publication(j)
    BY <1>3, PublicationEffect DEF Settled
  <2> QED
    BY <1>1, <1>3, <2>1, <2>2
       DEF JobStep, SilentStep, Enqueue, Begin, Settle, Retry, Requeue, Lose, Forget, Record,
           Become, Settled, JobTypeOK, SettledAsSaid
<1> QED BY <1>2, <1>3

-----------------------------------------------------------------------------
(* What the steps do to one request.                                       *)

LEMMA TopicType == \A r \in Request : Topic(r) \in Job
BY StreamAssumption DEF Topic

\* As far as its handler can tell, d is still the request c.
Same(c, d) == /\ d.at = c.at /\ d.state = c.state /\ d.closed = c.closed /\ d.ended = c.ended
              /\ d.listening = c.listening /\ d.unsubscribe = c.unsubscribe
              /\ d.verdict = c.verdict /\ d.sent = c.sent /\ d.inTime = c.inTime
              /\ d.alone => c.alone

\* What cleanup() leaves of a request: closed, and ended unless it has to wait
\* for the reply to its unsubscription.
LEMMA CleanedUpIs ==
  ASSUME NEW c \in Requests
  PROVE  /\ CleanedUp(c) \in Requests
         /\ CleanedUp(c).closed
         /\ CleanedUp(c).at = c.at /\ CleanedUp(c).state = c.state
         /\ CleanedUp(c).sent = c.sent /\ CleanedUp(c).result = c.result
         /\ CleanedUp(c).verdict = c.verdict /\ CleanedUp(c).alone = c.alone
         /\ CleanedUp(c).unsubscribe = c.unsubscribe
         /\ c.closed => CleanedUp(c) = c
         /\ ~c.closed /\ c.unsubscribe => ~CleanedUp(c).ended
<1>1. CASE c.closed
  BY <1>1 DEF CleanedUp
<1>2. CASE ~c.closed
  <2>1. PICK heard \in BOOLEAN : heard = (c.listening /\ ~c.unsubscribe)
    BY Zenon
  <2>2. PICK over \in BOOLEAN : over = ~c.unsubscribe
    BY Zenon
  <2>3. CleanedUp(c) = [c EXCEPT !.closed = TRUE, !.listening = heard, !.ended = over]
    BY <1>2, <2>1, <2>2, Zenon DEF CleanedUp
  <2>4. ASSUME NEW d, d = [c EXCEPT !.closed = TRUE, !.listening = heard, !.ended = over]
        PROVE  /\ d \in Requests /\ d.closed /\ d.at = c.at /\ d.state = c.state
               /\ d.sent = c.sent /\ d.result = c.result /\ d.verdict = c.verdict
               /\ d.alone = c.alone /\ d.unsubscribe = c.unsubscribe /\ d.ended = over
    BY <2>4 DEF Requests
  <2> QED BY <1>2, <2>2, <2>3, <2>4, Zenon
<1> QED BY <1>1, <1>2

\* writeEvent only touches what was sent.
LEMMA WrittenIs ==
  ASSUME NEW c \in Requests, NEW e \in StreamEvents, NEW result \in BOOLEAN
  PROVE  /\ Written(c, e, result) \in Requests
         /\ Written(c, e, result).at = c.at /\ Written(c, e, result).state = c.state
         /\ Written(c, e, result).closed = c.closed
         /\ Written(c, e, result).listening = c.listening
         /\ Written(c, e, result).ended = c.ended
         /\ Written(c, e, result).unsubscribe = c.unsubscribe
         /\ Written(c, e, result).inTime = c.inTime
         /\ Written(c, e, result).alone = c.alone
         /\ Written(c, e, result).sent = e
         /\ Written(c, e, result).verdict = IF Terminal(e) THEN e.state ELSE c.verdict
<1>1. PICK carries \in BOOLEAN : carries = (result /\ e.state = "completed")
  BY Zenon
<1>2. PICK told : told = IF Terminal(e) THEN e.state ELSE c.verdict
  OBVIOUS
<1>3. told \in Settled \cup {"none"}
  BY <1>2 DEF Terminal, Requests
<1>4. Written(c, e, result) = [c EXCEPT !.sent = e, !.verdict = told, !.result = carries]
  BY <1>1, <1>2, Zenon DEF Written
<1>5. ASSUME NEW d, d = [c EXCEPT !.sent = e, !.verdict = told, !.result = carries]
      PROVE  /\ d \in Requests /\ d.at = c.at /\ d.state = c.state /\ d.closed = c.closed
             /\ d.listening = c.listening /\ d.ended = c.ended
             /\ d.unsubscribe = c.unsubscribe /\ d.inTime = c.inTime /\ d.alone = c.alone
             /\ d.sent = e /\ d.verdict = told
  BY <1>3, <1>5 DEF Requests
<1> QED BY <1>2, <1>4, <1>5, Zenon

\* The events a handler writes.
LEMMA EventTypes ==
  /\ Events \subseteq StreamEvents
  /\ \A c \in Requests : Snapshot(c) \in StreamEvents
<1>1. ASSUME NEW c \in Requests PROVE Snapshot(c) \in StreamEvents
  <2>1. c.seen.progress \in Percent \cup {0}
    BY DEF Requests
  <2>2. Processing(c.seen.progress) \in StreamEvents /\ Queued(c.seen.progress) \in StreamEvents
    BY <2>1 DEF StreamEvents, Events
  <2>3. c.state \in Settled => Final(c.state) \in StreamEvents
    BY DEF StreamEvents, Events
  <2> QED BY <2>2, <2>3 DEF Snapshot
<1> QED BY <1>1 DEF StreamEvents

LEMMA NoRequestType == NoRequest \in Requests /\ NoJob \in [progress : Percent \cup {0}, result : BOOLEAN]
<1>1. NoEvent \in StreamEvents
  BY DEF StreamEvents, Events
<1>2. NoJob \in [progress : Percent \cup {0}, result : BOOLEAN]
  BY DEF NoJob
<1> QED BY <1>1, <1>2 DEF NoRequest, Requests, Awaits, Phases

LEMMA CommandTypes ==
  ASSUME NEW r \in Request
  PROVE  /\ Unsubscribe(r) \in Commands /\ [op |-> "subscribe", by |-> r] \in Commands
         /\ CleanupCommands(r) \in Seq(Commands)
<1>1. Unsubscribe(r) \in Commands /\ [op |-> "subscribe", by |-> r] \in Commands
  BY DEF Unsubscribe, Commands
<1>2. <<Unsubscribe(r)>> \in Seq(Commands) /\ <<>> \in Seq(Commands)
  BY <1>1
<1> QED BY <1>1, <1>2 DEF CleanupCommands

\* The set of those who leave becomes a sequence that names each of them once.
LEMMA SeqOfSet ==
  ASSUME NEW T, IsFiniteSet(T)
  PROVE  /\ SetToSeq(T) \in Seq(T)
         /\ \A i, k \in 1..Len(SetToSeq(T)) : SetToSeq(T)[i] = SetToSeq(T)[k] => i = k
<1>1. Cardinality(T) \in Nat /\ ExistsBijection(1..Cardinality(T), T)
  BY FS_CardinalityType
<1>2. \E f \in [1..Cardinality(T) -> T] : IsInjective(f)
  BY <1>1 DEF ExistsBijection, Bijection, Injection
<1>3. SetToSeq(T) \in [1..Cardinality(T) -> T] /\ IsInjective(SetToSeq(T))
  BY <1>2 DEF SetToSeq
<1>4. SetToSeq(T) \in Seq(T)
  BY <1>1, <1>3, SeqDef
<1>5. DOMAIN SetToSeq(T) = 1..Len(SetToSeq(T))
  BY <1>4, LenProperties
<1> QED BY <1>3, <1>4, <1>5 DEF IsInjective

LEMMA CleanUpIs ==
  ASSUME StreamTypeOK, NEW r \in Request, CleanUp(r)
  PROVE  /\ conn' \in [Request -> Requests]
         /\ wire' \in Seq(Commands)
         /\ \A q \in Request \ {r} : conn'[q] = conn[q]
         /\ conn'[r].closed
         /\ conn'[r].at = conn[r].at /\ conn'[r].state = conn[r].state
         /\ conn'[r].sent = conn[r].sent /\ conn'[r].verdict = conn[r].verdict
         /\ conn'[r].unsubscribe = conn[r].unsubscribe /\ conn'[r].alone = conn[r].alone
         /\ conn[r].closed => conn'[r] = conn[r]
         /\ \/ wire' = wire /\ (conn[r].closed \/ ~conn[r].unsubscribe)
            \/ /\ ~conn[r].closed /\ conn[r].unsubscribe /\ ~conn'[r].ended
               /\ wire' = wire \o <<Unsubscribe(r)>>
<1> DEFINE done == CleanedUp(conn[r])
<1>1. conn \in [Request -> Requests] /\ conn[r] \in Requests /\ wire \in Seq(Commands)
  BY DEF StreamTypeOK
<1>2. done \in Requests
  BY <1>1, CleanedUpIs
<1>3. conn' = [conn EXCEPT ![r] = done]
  BY DEF CleanUp
<1>4. /\ conn'[r] = done /\ \A q \in Request \ {r} : conn'[q] = conn[q]
      /\ conn' \in [Request -> Requests]
  <2> HIDE DEF done
  <2> QED BY <1>1, <1>2, <1>3
<1>5. /\ wire' \in Seq(Commands)
      /\ \/ wire' = wire /\ (conn[r].closed \/ ~conn[r].unsubscribe)
         \/ ~conn[r].closed /\ conn[r].unsubscribe /\ wire' = wire \o <<Unsubscribe(r)>>
  <2>1. wire' = wire \o CleanupCommands(r) /\ CleanupCommands(r) \in Seq(Commands)
    BY CommandTypes DEF CleanUp
  <2>2. wire' \in Seq(Commands)
    BY <1>1, <2>1, ConcatProperties
  <2>3. wire \o <<>> = wire
    BY <1>1, ConcatEmptySeq
  <2>4. \/ CleanupCommands(r) = <<>> /\ (conn[r].closed \/ ~conn[r].unsubscribe)
        \/ ~conn[r].closed /\ conn[r].unsubscribe /\ CleanupCommands(r) = <<Unsubscribe(r)>>
    BY DEF CleanupCommands
  <2> QED BY <2>1, <2>2, <2>3, <2>4
<1>6. /\ done.closed /\ done.at = conn[r].at /\ done.state = conn[r].state
      /\ done.sent = conn[r].sent /\ done.verdict = conn[r].verdict
      /\ done.unsubscribe = conn[r].unsubscribe /\ done.alone = conn[r].alone
      /\ conn[r].closed => done = conn[r]
      /\ ~conn[r].closed /\ conn[r].unsubscribe => ~done.ended
  BY <1>1, CleanedUpIs
<1> HIDE DEF done
<1> QED BY <1>4, <1>5, <1>6

\* The wire when commands are added to it.
LEMMA WireGrows ==
  ASSUME NEW s \in Seq(Commands), NEW more \in Seq(Commands)
  PROVE  /\ s \o more \in Seq(Commands)
         /\ Len(s) \in Nat /\ Len(more) \in Nat /\ Len(s \o more) = Len(s) + Len(more)
         /\ \A i \in 1..Len(s) : (s \o more)[i] = s[i]
         /\ \A i \in 1..Len(s \o more) : i \in 1..Len(s) \/ (i - Len(s) \in 1..Len(more)
                                                        /\ (s \o more)[i] = more[i - Len(s)])
BY ConcatProperties

\* A new request is asked for; the others on its channel are not alone any more.
LEMMA AskIs ==
  ASSUME StreamTypeOK, NEW r \in Request, Ask(r)
  PROVE  /\ conn' \in [Request -> Requests]
         /\ \A q \in Request \ {r} : /\ Same(conn[q], conn'[q])
                                     /\ Topic(q) = Topic(r) => ~conn'[q].alone
         /\ AtRest(r)
         /\ conn'[r].at = "getJob" /\ ~conn'[r].closed /\ ~conn'[r].unsubscribe
         /\ ~conn'[r].listening /\ ~conn'[r].ended /\ conn'[r].verdict = "none"
         /\ conn'[r].alone => \A q \in SameTopic(r) \ {r} : AtRest(q)
<1> DEFINE others == SameTopic(r) \ {r}
<1>1. PICK lone \in BOOLEAN : lone = (\A o \in others : AtRest(o))
  BY Zenon
<1> DEFINE new == [NoRequest EXCEPT !.at = "getJob", !.closed = FALSE, !.ended = FALSE,
                                    !.link = "up", !.alone = lone]
           f == [q \in Request |-> IF q = r THEN new
                                  ELSE IF q \in others THEN [conn[q] EXCEPT !.alone = FALSE]
                                  ELSE conn[q]]
<1>2. conn' = f /\ AtRest(r)
  BY <1>1, Zenon DEF Ask
<1>3. conn \in [Request -> Requests]
  BY DEF StreamTypeOK
<1>4. /\ new \in Requests /\ new.at = "getJob" /\ ~new.closed /\ ~new.unsubscribe
      /\ ~new.listening /\ ~new.ended /\ new.verdict = "none" /\ new.alone = lone
  BY NoRequestType DEF NoRequest, Requests, Awaits
<1>5. ASSUME NEW c \in Requests, NEW d, d = [c EXCEPT !.alone = FALSE]
      PROVE  d \in Requests /\ Same(c, d) /\ ~d.alone
  BY <1>5 DEF Requests, Same
<1>6. ASSUME NEW c PROVE Same(c, c)
  BY DEF Same
<1> HIDE DEF new
<1>7. ASSUME NEW q \in Request \ {r}
      PROVE  /\ conn'[q] \in Requests /\ Same(conn[q], conn'[q])
             /\ Topic(q) = Topic(r) => ~conn'[q].alone
  <2>1. CASE q \in others
    <3>1. conn'[q] = [conn[q] EXCEPT !.alone = FALSE]
      BY <1>2, <2>1
    <3> QED BY <1>3, <1>5, <3>1
  <2>2. CASE q \notin others
    <3>1. conn'[q] = conn[q] /\ Topic(q) # Topic(r)
      BY <1>2, <2>2 DEF SameTopic
    <3> QED BY <1>3, <1>6, <3>1
  <2> QED BY <2>1, <2>2
<1>8. conn'[r] = new
  BY <1>2
<1>9. conn' \in [Request -> Requests]
  <2>1. DOMAIN conn' = Request /\ conn' = [q \in Request |-> conn'[q]]
    BY <1>2
  <2> HIDE DEF f
  <2> QED BY <1>4, <1>7, <1>8, <2>1
<1> HIDE DEF f
<1> QED BY <1>1, <1>2, <1>4, <1>7, <1>8, <1>9

\* The job is found: the handler awaits the reply to its subscription.
LEMMA ConnectIs ==
  ASSUME StreamTypeOK, JobTypeOK, NEW r \in Request, Connect(r)
  PROVE  /\ conn' \in [Request -> Requests]
         /\ wire' = wire \o <<[op |-> "subscribe", by |-> r]>>
         /\ \A q \in Request \ {r} : conn'[q] = conn[q]
         /\ conn[r].at = "getJob" /\ conn'[r].at = "subscribe" /\ conn'[r].listening
         /\ conn'[r].closed = conn[r].closed /\ conn'[r].ended = conn[r].ended
         /\ conn'[r].unsubscribe = conn[r].unsubscribe
         /\ conn'[r].verdict = conn[r].verdict /\ conn'[r].alone = conn[r].alone
<1> DEFINE job == Topic(r)
           c == conn[r]
<1>1. PICK found \in BOOLEAN : found = (phase[job] = "completed")
  BY Zenon
<1>2. PICK seen : seen = [progress |-> progress[job], result |-> found]
  OBVIOUS
<1> DEFINE done == [c EXCEPT !.at = "subscribe", !.listening = TRUE, !.seen = seen]
<1>3. /\ conn' = [conn EXCEPT ![r].at = "subscribe", ![r].listening = TRUE, ![r].seen = seen]
      /\ wire' = Append(wire, [op |-> "subscribe", by |-> r]) /\ c.at = "getJob"
  BY <1>1, <1>2, Zenon DEF Connect
<1>4. conn \in [Request -> Requests] /\ c \in Requests
  BY DEF StreamTypeOK
<1>5. conn' = [conn EXCEPT ![r] = done]
  BY <1>3, <1>4
<1>6. seen \in [progress : Percent \cup {0}, result : BOOLEAN]
  <2>1. progress[job] \in Percent \cup {0}
    BY TopicType DEF JobTypeOK
  <2> QED BY <1>2, <2>1
<1>7. /\ done \in Requests /\ done.at = "subscribe" /\ done.listening
      /\ done.closed = c.closed /\ done.ended = c.ended /\ done.unsubscribe = c.unsubscribe
      /\ done.verdict = c.verdict /\ done.alone = c.alone
  <2> HIDE DEF c
  <2> QED BY <1>4, <1>6 DEF Requests, Awaits
<1> HIDE DEF done
<1>8. /\ conn' \in [Request -> Requests] /\ conn'[r] = done
      /\ \A q \in Request \ {r} : conn'[q] = conn[q]
  BY <1>4, <1>5, <1>7
<1>9. wire' = wire \o <<[op |-> "subscribe", by |-> r]>>
  BY <1>3, AppendIsConcat, CommandTypes DEF StreamTypeOK
<1> QED BY <1>3, <1>7, <1>8, <1>9

\* The job is not found: the response ends at once.
LEMMA NotFoundIs ==
  ASSUME StreamTypeOK, NEW r \in Request, NotFound(r)
  PROVE  /\ conn' \in [Request -> Requests]
         /\ \A q \in Request \ {r} : conn'[q] = conn[q]
         /\ conn[r].at = "getJob" /\ conn'[r].at = "returned"
         /\ conn'[r].closed /\ conn'[r].ended
         /\ conn'[r].verdict = conn[r].verdict /\ conn'[r].alone = conn[r].alone
<1> DEFINE c == conn[r]
           done == [c EXCEPT !.at = "returned", !.closed = TRUE, !.ended = TRUE]
<1>1. /\ conn' = [conn EXCEPT ![r].at = "returned", ![r].closed = TRUE, ![r].ended = TRUE]
      /\ c.at = "getJob"
  BY DEF NotFound
<1>2. conn \in [Request -> Requests] /\ c \in Requests
  BY DEF StreamTypeOK
<1>3. conn' = [conn EXCEPT ![r] = done]
  BY <1>1, <1>2
<1>4. /\ done \in Requests /\ done.at = "returned" /\ done.closed /\ done.ended
      /\ done.verdict = c.verdict /\ done.alone = c.alone
  <2> HIDE DEF c
  <2> QED BY <1>2 DEF Requests, Awaits
<1> HIDE DEF done
<1> QED BY <1>1, <1>2, <1>3, <1>4

\* Redis executes a command for the request that sent it.
LEMMA RedisIs ==
  ASSUME StreamTypeOK, Redis
  PROVE  LET r == wire[1].by
         IN  /\ wire # <<>> /\ wire[1] \in Commands /\ r \in Request
             /\ conn' \in [Request -> Requests]
             /\ subscribed' = [subscribed EXCEPT ![Topic(r)] = (wire[1].op = "subscribe")]
             /\ \A q \in Request \ {r} : conn'[q] = conn[q]
             /\ wire[1].op = "subscribe"
                  => /\ conn'[r].at = "getState" /\ conn'[r].ended = conn[r].ended
                     /\ conn'[r].inTime <=> ~conn[r].closed /\ said[Topic(r)] \notin Settled
             /\ wire[1].op = "unsubscribe"
                  => conn'[r].at = conn[r].at /\ conn'[r].inTime = conn[r].inTime
             /\ conn'[r].closed = conn[r].closed /\ conn'[r].listening = conn[r].listening
             /\ conn'[r].verdict = conn[r].verdict /\ conn'[r].sent = conn[r].sent
             /\ conn'[r].state = conn[r].state /\ conn'[r].alone = conn[r].alone
             /\ wire[1].op = "unsubscribe" => conn'[r].unsubscribe = conn[r].unsubscribe
             /\ wire' \in Seq(Commands) /\ Len(wire) \in Nat /\ Len(wire') = Len(wire) - 1
             /\ \A i \in 1..Len(wire') : wire'[i] = wire[i + 1]
<1> DEFINE r == wire[1].by
           c == conn[r]
<1>1. /\ wire # <<>> /\ wire[1] = Head(wire) /\ wire[1] \in Commands /\ r \in Request
      /\ conn \in [Request -> Requests] /\ c \in Requests
  <2>1. wire \in Seq(Commands) /\ wire # <<>> /\ conn \in [Request -> Requests]
    BY DEF Redis, StreamTypeOK
  <2>2. wire[1] = Head(wire) /\ wire[1] \in Commands
    BY <2>1, HeadTailProperties
  <2>3. r \in Request
    BY <2>2 DEF Commands
  <2> QED BY <2>1, <2>2, <2>3
<1>2. /\ wire' \in Seq(Commands) /\ Len(wire) \in Nat /\ Len(wire') = Len(wire) - 1
      /\ \A i \in 1..Len(wire') : wire'[i] = wire[i + 1]
  BY <1>1, HeadTailProperties, LenProperties DEF Redis, StreamTypeOK
<1>3. PICK early \in BOOLEAN : early = (~c.closed /\ said[Topic(r)] \notin Settled)
  BY Zenon
<1>4. subscribed' = [subscribed EXCEPT ![Topic(r)] = (wire[1].op = "subscribe")]
  BY <1>1, Zenon DEF Redis
<1>5. CASE wire[1].op = "subscribe"
  <2> DEFINE done == [c EXCEPT !.at = "getState", !.unsubscribe = TRUE, !.inTime = early]
  <2>1. conn' = [conn EXCEPT ![r] = done]
    BY <1>1, <1>3, <1>5, Zenon DEF Redis
  <2>2. /\ done \in Requests /\ done.at = "getState" /\ done.ended = c.ended /\ done.inTime = early
        /\ done.closed = c.closed /\ done.listening = c.listening /\ done.verdict = c.verdict
        /\ done.sent = c.sent /\ done.state = c.state /\ done.alone = c.alone
    <3> HIDE DEF c
    <3> QED BY <1>1 DEF Requests, Awaits
  <2> HIDE DEF done
  <2>3. /\ conn' \in [Request -> Requests] /\ conn'[r] = done
        /\ \A q \in Request \ {r} : conn'[q] = conn[q]
    BY <1>1, <2>1, <2>2
  <2> QED BY <1>1, <1>2, <1>3, <1>4, <1>5, <2>2, <2>3
<1>6. CASE wire[1].op = "unsubscribe"
  <2> DEFINE done == [c EXCEPT !.ended = TRUE]
  <2>1. conn' = [conn EXCEPT ![r] = done]
    BY <1>1, <1>6, Zenon DEF Redis
  <2>2. /\ done \in Requests /\ done.at = c.at /\ done.inTime = c.inTime
        /\ done.closed = c.closed /\ done.listening = c.listening /\ done.verdict = c.verdict
        /\ done.sent = c.sent /\ done.state = c.state /\ done.alone = c.alone
        /\ done.unsubscribe = c.unsubscribe
    <3> HIDE DEF c
    <3> QED BY <1>1 DEF Requests
  <2> HIDE DEF done
  <2>3. /\ conn' \in [Request -> Requests] /\ conn'[r] = done
        /\ \A q \in Request \ {r} : conn'[q] = conn[q]
    BY <1>1, <2>1, <2>2
  <2> QED BY <1>1, <1>2, <1>4, <1>6, <2>2, <2>3
<1> QED BY <1>1, <1>5, <1>6 DEF Commands

LEMMA GetStateIs ==
  ASSUME StreamTypeOK, JobTypeOK, NEW r \in Request, GetState(r)
  PROVE  /\ conn' \in [Request -> Requests]
         /\ \A q \in Request \ {r} : conn'[q] = conn[q]
         /\ conn[r].at = "getState" /\ conn'[r].at = "answer"
         /\ conn'[r].state = phase[Topic(r)]
         /\ conn'[r].closed = conn[r].closed /\ conn'[r].ended = conn[r].ended
         /\ conn'[r].listening = conn[r].listening
         /\ conn'[r].unsubscribe = conn[r].unsubscribe
         /\ conn'[r].verdict = conn[r].verdict /\ conn'[r].inTime = conn[r].inTime
         /\ conn'[r].alone = conn[r].alone
<1> DEFINE c == conn[r]
           p == phase[Topic(r)]
           done == [c EXCEPT !.at = "answer", !.state = p]
<1>1. conn \in [Request -> Requests] /\ c \in Requests /\ p \in Phases
  BY TopicType DEF StreamTypeOK, JobTypeOK
<1>2. c.at = "getState" /\ conn' = [conn EXCEPT ![r].at = "answer", ![r].state = p]
  BY DEF GetState
<1>3. conn' = [conn EXCEPT ![r] = done]
  BY <1>1, <1>2
<1>4. /\ done \in Requests /\ done.at = "answer" /\ done.state = p
      /\ done.closed = c.closed /\ done.ended = c.ended /\ done.listening = c.listening
      /\ done.unsubscribe = c.unsubscribe /\ done.verdict = c.verdict
      /\ done.inTime = c.inTime /\ done.alone = c.alone
  <2> HIDE DEF c, p
  <2> QED BY <1>1 DEF Requests, Awaits
<1> HIDE DEF done
<1> QED BY <1>1, <1>2, <1>3, <1>4

\* The snapshot settles the job if getState said so, and says the same.
LEMMA SnapshotIs ==
  \A c \in Requests : /\ Terminal(Snapshot(c)) <=> c.state \in Settled
                      /\ c.state \in Settled => Snapshot(c).state = c.state
<1> SUFFICES ASSUME NEW c \in Requests
             PROVE  /\ Snapshot(c).state \in Settled <=> c.state \in Settled
                    /\ c.state \in Settled => Snapshot(c).state = c.state
  BY DEF Terminal
<1>1. CASE c.state \in Settled
  BY <1>1 DEF Snapshot, Final, Settled
<1>2. CASE c.state = "processing"
  BY <1>2 DEF Snapshot, Processing, Settled
<1>3. CASE c.state # "processing" /\ c.state \notin Settled
  BY <1>3 DEF Snapshot, Queued, Settled
<1> QED BY <1>1, <1>2, <1>3

LEMMA AnswerIs ==
  ASSUME StreamTypeOK, NEW r \in Request, Answer(r)
  PROVE  /\ conn' \in [Request -> Requests]
         /\ wire' \in Seq(Commands)
         /\ \A q \in Request \ {r} : conn'[q] = conn[q]
         /\ conn[r].at = "answer" /\ conn'[r].at = "returned"
         /\ conn'[r].unsubscribe = conn[r].unsubscribe
         /\ conn'[r].verdict = IF conn[r].state \in Settled THEN conn[r].state
                                                           ELSE conn[r].verdict
         /\ conn[r].state \in Settled => conn'[r].closed
         /\ conn[r].state \notin Settled
              => /\ conn'[r].closed = conn[r].closed /\ conn'[r].inTime = conn[r].inTime
                 /\ conn'[r].listening = conn[r].listening /\ conn'[r].ended = conn[r].ended
         /\ conn[r].closed => conn'[r].ended = conn[r].ended /\ conn'[r].closed
         /\ conn'[r].alone = conn[r].alone
         /\ \/ wire' = wire
            \/ /\ ~conn[r].closed /\ conn[r].unsubscribe
               /\ conn'[r].closed /\ ~conn'[r].ended
               /\ wire' = wire \o <<Unsubscribe(r)>>
<1> DEFINE c == conn[r]
           e == Snapshot(c)
           written == Written(c, e, c.seen.result)
           answered == [written EXCEPT !.at = "returned", !.seen = NoJob, !.state = "new"]
           done == IF Terminal(e) THEN CleanedUp(answered) ELSE answered
<1>1. /\ conn \in [Request -> Requests] /\ c \in Requests /\ wire \in Seq(Commands)
      /\ c.seen.result \in BOOLEAN /\ e \in StreamEvents
      /\ Terminal(e) <=> c.state \in Settled
      /\ c.state \in Settled => e.state = c.state
  <2>1. conn \in [Request -> Requests] /\ c \in Requests /\ wire \in Seq(Commands)
    BY DEF StreamTypeOK
  <2>2. c.seen.result \in BOOLEAN
    BY <2>1 DEF Requests
  <2> QED BY <2>1, <2>2, EventTypes, SnapshotIs
<1>2. /\ written \in Requests /\ written.closed = c.closed
      /\ written.listening = c.listening /\ written.ended = c.ended
      /\ written.unsubscribe = c.unsubscribe /\ written.inTime = c.inTime
      /\ written.alone = c.alone
      /\ written.verdict = IF c.state \in Settled THEN c.state ELSE c.verdict
  <2> HIDE DEF c, e, written
  <2>1. /\ written \in Requests /\ written.closed = c.closed
        /\ written.listening = c.listening /\ written.ended = c.ended
        /\ written.unsubscribe = c.unsubscribe /\ written.inTime = c.inTime
        /\ written.alone = c.alone
        /\ written.verdict = IF Terminal(e) THEN e.state ELSE c.verdict
    BY <1>1, WrittenIs DEF written
  <2> QED BY <1>1, <2>1
<1>3. /\ answered \in Requests /\ answered.at = "returned" /\ answered.closed = written.closed
      /\ answered.listening = written.listening /\ answered.ended = written.ended
      /\ answered.unsubscribe = written.unsubscribe /\ answered.inTime = written.inTime
      /\ answered.verdict = written.verdict /\ answered.alone = written.alone
  <2> HIDE DEF written
  <2> QED BY <1>2, NoRequestType DEF Requests, Awaits, Phases
<1>4. /\ conn' = [conn EXCEPT ![r] = done]
      /\ wire' = IF Terminal(e) THEN wire \o CleanupCommands(r) ELSE wire
      /\ c.at = "answer"
  BY DEF Answer
<1>5. wire \o <<>> = wire /\ wire \o CleanupCommands(r) \in Seq(Commands)
  BY <1>1, CommandTypes, ConcatEmptySeq, ConcatProperties
<1>6. \/ CleanupCommands(r) = <<>>
      \/ ~c.closed /\ c.unsubscribe /\ CleanupCommands(r) = <<Unsubscribe(r)>>
  BY DEF CleanupCommands
<1> HIDE DEF answered, written, e
<1>7. CleanedUp(answered) \in Requests
  BY <1>3, CleanedUpIs
<1>8. done \in Requests
  BY <1>3, <1>7
<1>9. CASE Terminal(e)
  <2>1. /\ done.closed /\ done.at = "returned" /\ done.verdict = answered.verdict
        /\ done.unsubscribe = answered.unsubscribe /\ done.alone = answered.alone
        /\ answered.closed => done = answered
        /\ ~answered.closed /\ answered.unsubscribe => ~done.ended
    BY <1>3, <1>9, CleanedUpIs
  <2> HIDE DEF done
  <2>2. /\ conn' \in [Request -> Requests] /\ conn'[r] = done
        /\ \A q \in Request \ {r} : conn'[q] = conn[q]
    BY <1>1, <1>4, <1>8
  <2>3. wire' = wire \o CleanupCommands(r) /\ wire' \in Seq(Commands)
    BY <1>4, <1>5, <1>9
  <2> QED BY <1>1, <1>2, <1>3, <1>4, <1>5, <1>6, <1>9, <2>1, <2>2, <2>3
<1>10. CASE ~Terminal(e)
  <2>1. done = answered
    BY <1>10
  <2> HIDE DEF done
  <2>2. /\ conn' \in [Request -> Requests] /\ conn'[r] = done
        /\ \A q \in Request \ {r} : conn'[q] = conn[q]
    BY <1>1, <1>4, <1>8
  <2>3. wire' = wire
    BY <1>4, <1>10
  <2> QED BY <1>1, <1>2, <1>3, <1>4, <1>10, <2>1, <2>2, <2>3
<1> QED BY <1>9, <1>10

\* A listener writes the event and, if it settles the job, cleans up.
LEMMA HeardIs ==
  ASSUME NEW c \in Requests, NEW e \in Events, ~c.closed
  PROVE  /\ Heard(c, e) \in Requests
         /\ Heard(c, e).at = c.at /\ Heard(c, e).state = c.state
         /\ Heard(c, e).unsubscribe = c.unsubscribe /\ Heard(c, e).alone = c.alone
         /\ Heard(c, e).verdict = IF Terminal(e) THEN e.state ELSE c.verdict
         /\ Terminal(e) => /\ Heard(c, e).closed
                           /\ c.unsubscribe => ~Heard(c, e).ended
         /\ ~Terminal(e) => /\ Heard(c, e).closed = c.closed
                            /\ Heard(c, e).listening = c.listening
                            /\ Heard(c, e).inTime = c.inTime
                            /\ Heard(c, e).ended = c.ended
<1>0. e \in StreamEvents
  BY EventTypes
<1>1. ASSUME NEW result \in BOOLEAN, NEW d, d = Written(c, e, result)
      PROVE  /\ d \in Requests /\ d.at = c.at /\ d.state = c.state /\ d.closed = c.closed
             /\ d.unsubscribe = c.unsubscribe /\ d.alone = c.alone
             /\ d.verdict = IF Terminal(e) THEN e.state ELSE c.verdict
             /\ d.listening = c.listening /\ d.inTime = c.inTime /\ d.ended = c.ended
  BY <1>0, <1>1, WrittenIs
<1>2. TRUE \in BOOLEAN /\ FALSE \in BOOLEAN
  OBVIOUS
<1>3. CASE Terminal(e)
  <2>1. PICK d : d = Written(c, e, TRUE)
    OBVIOUS
  <2>2. Heard(c, e) = CleanedUp(d)
    BY <1>3, <2>1, Zenon DEF Heard
  <2>3. /\ d \in Requests /\ d.at = c.at /\ d.state = c.state /\ d.closed = c.closed
        /\ d.unsubscribe = c.unsubscribe /\ d.alone = c.alone /\ d.verdict = e.state
    BY <1>1, <1>2, <1>3, <2>1
  <2> QED BY <1>3, <2>2, <2>3, CleanedUpIs
<1>4. CASE ~Terminal(e)
  <2>1. PICK d : d = Written(c, e, FALSE)
    OBVIOUS
  <2>2. Heard(c, e) = d
    BY <1>4, <2>1, Zenon DEF Heard
  <2> QED BY <1>1, <1>2, <1>4, <2>1, <2>2
<1> QED BY <1>3, <1>4

\* The message at the head of the inbox reaches the listeners of its channel;
\* those whose request it ends unsubscribe, each once.
LEMMA DeliverIs ==
  ASSUME StreamTypeOK, Deliver
  PROVE  LET m == inbox[1]
         IN  /\ m \in Messages
             /\ conn' \in [Request -> Requests]
             /\ \A q \in Request : IF Hears(q, m) THEN conn'[q] = Heard(conn[q], m.event)
                                                  ELSE conn'[q] = conn[q]
             /\ inbox' \in Seq(Messages) /\ Len(inbox) \in Nat /\ Len(inbox') = Len(inbox) - 1
             /\ \A i \in 1..Len(inbox') : inbox'[i] = inbox[i + 1]
             /\ \E more \in Seq(Commands) :
                  /\ wire' = wire \o more
                  /\ \A i \in 1..Len(more) : /\ Hears(more[i].by, m) /\ Terminal(m.event)
                                          /\ more[i].op = "unsubscribe"
                                          /\ conn[more[i].by].unsubscribe
                  /\ \A i, k \in 1..Len(more) : more[i].by = more[k].by => i = k
<1> DEFINE m == inbox[1]
           hearers == {r \in Request : Hears(r, m)}
           leaving == {r \in hearers : Terminal(m.event) /\ conn[r].unsubscribe}
           T == {Unsubscribe(r) : r \in leaving}
           more == SetToSeq(T)
<1>1. inbox \in Seq(Messages) /\ inbox # <<>> /\ conn \in [Request -> Requests]
  BY DEF Deliver, StreamTypeOK
<1>2. m = Head(inbox) /\ m \in Messages
  BY <1>1, HeadTailProperties
<1>3. /\ inbox' \in Seq(Messages) /\ Len(inbox) \in Nat /\ Len(inbox') = Len(inbox) - 1
      /\ \A i \in 1..Len(inbox') : inbox'[i] = inbox[i + 1]
  BY <1>1, HeadTailProperties, LenProperties DEF Deliver
<1>4. /\ conn' = [r \in Request |-> IF r \in hearers THEN Heard(conn[r], m.event) ELSE conn[r]]
      /\ wire' = wire \o more
  BY <1>2, Zenon DEF Deliver
<1>5. \A q \in Request : IF Hears(q, m) THEN conn'[q] = Heard(conn[q], m.event)
                                        ELSE conn'[q] = conn[q]
  <2> HIDE DEF m
  <2> QED BY <1>4
<1>6. conn' \in [Request -> Requests]
  <2>1. \A q \in Request : Hears(q, m) => Heard(conn[q], m.event) \in Requests
    <3>1. m.event \in Events
      BY <1>2 DEF Messages
    <3> HIDE DEF m
    <3> QED BY <1>1, <3>1, HeardIs DEF Hears
  <2> HIDE DEF m
  <2> QED BY <1>1, <1>4, <2>1
<1>7. IsFiniteSet(T)
  <2>1. IsFiniteSet(leaving)
    BY StreamAssumption, FS_Subset
  <2> DEFINE f == [r \in leaving |-> Unsubscribe(r)]
  <2> HIDE DEF leaving
  <2>2. f \in Surjection(leaving, T)
    BY DEF Surjection
  <2> HIDE DEF f, T
  <2> QED BY <2>1, <2>2, FS_Surjection
<1>8. /\ more \in Seq(T)
      /\ \A i, k \in 1..Len(more) : more[i] = more[k] => i = k
  <2> HIDE DEF T
  <2> QED BY <1>7, SeqOfSet
<1>9. ASSUME NEW i \in 1..Len(more)
      PROVE  \E r \in leaving : more[i] = Unsubscribe(r)
  <2>1. more[i] \in T
    <3> HIDE DEF more, T
    <3> QED BY <1>8, ElementOfSeq
  <2> HIDE DEF more, leaving
  <2> QED BY <2>1
<1>10. T \subseteq Commands
  BY CommandTypes
<1>11. more \in Seq(Commands)
  <2> HIDE DEF more, T
  <2> QED BY <1>8, <1>10, SeqMonotonic
<1>12. \A i \in 1..Len(more) : /\ Hears(more[i].by, m) /\ Terminal(m.event)
                            /\ more[i].op = "unsubscribe"
                            /\ conn[more[i].by].unsubscribe
                            /\ more[i] = Unsubscribe(more[i].by)
  <2> SUFFICES ASSUME NEW i \in 1..Len(more)
               PROVE  /\ Hears(more[i].by, m) /\ Terminal(m.event)
                      /\ more[i].op = "unsubscribe"
                      /\ conn[more[i].by].unsubscribe
                      /\ more[i] = Unsubscribe(more[i].by)
    OBVIOUS
  <2>1. PICK r \in leaving : more[i] = Unsubscribe(r)
    BY <1>9
  <2>2. Hears(r, m) /\ Terminal(m.event) /\ conn[r].unsubscribe
    BY <2>1
  <2> HIDE DEF more, m, leaving
  <2>3. more[i].by = r /\ more[i].op = "unsubscribe"
    BY <2>1 DEF Unsubscribe
  <2> QED BY <2>1, <2>2, <2>3
<1>13. \A i, k \in 1..Len(more) : more[i].by = more[k].by => i = k
  <2> HIDE DEF more, m
  <2> QED BY <1>8, <1>12
<1> HIDE DEF more, m
<1> QED BY <1>2, <1>3, <1>4, <1>5, <1>6, <1>11, <1>12, <1>13 DEF m

-----------------------------------------------------------------------------
(* The steps of the system by their effect.                                *)

\* The pages' clients and the API process come and go unseen by the requests.
Unseen == UNCHANGED <<jobVars, conn, wire, subscribed, inbox>>

\* A request is cleaned up: its time is over, or the server sees it closed.
Cleaning(r) == /\ conn[r].at # "getJob" /\ CleanUp(r)
               /\ UNCHANGED <<jobVars, subscribed, inbox>>

\* Connections are cut, and handlers do not know it: one drops or is closed before
\* the server listens, or a page leaves.
Relinking == /\ UNCHANGED <<jobVars, wire, subscribed, inbox>>
             /\ conn' \in [Request -> Requests]
             /\ \A r \in Request : Same(conn[r], conn'[r])

LEMMA CutIs ==
  ASSUME StreamTypeOK, NEW R \in SUBSET Request, NEW link \in {"up", "cut", "missed"},
         conn' = [r \in Request |-> IF r \in R THEN [conn[r] EXCEPT !.link = link] ELSE conn[r]]
  PROVE  conn' \in [Request -> Requests] /\ \A r \in Request : Same(conn[r], conn'[r])
<1>1. ASSUME NEW c \in Requests, NEW d, d = [c EXCEPT !.link = link]
      PROVE  d \in Requests /\ Same(c, d)
  BY <1>1 DEF Requests, Same
<1>2. ASSUME NEW c PROVE Same(c, c)
  BY DEF Same
<1>3. ASSUME NEW r \in Request PROVE conn'[r] \in Requests /\ Same(conn[r], conn'[r])
  <2>0. conn[r] \in Requests
    BY DEF StreamTypeOK
  <2>1. CASE r \in R
    <3>1. conn'[r] = [conn[r] EXCEPT !.link = link]
      BY <2>1
    <3> QED BY <1>1, <2>0, <3>1
  <2>2. CASE r \notin R
    <3>1. conn'[r] = conn[r]
      BY <2>2
    <3> QED BY <1>2, <2>0, <3>1
  <2> QED BY <2>1, <2>2
<1>4. conn' = [r \in Request |-> conn'[r]]
  OBVIOUS
<1> QED BY <1>3, <1>4

LEMMA RelinkingIs ==
  ASSUME StreamTypeOK,
         \/ \E r \in Request : Drop(r) \/ HangUpUnheard(r)
         \/ \E w \in Watcher : Leave(w)
  PROVE  Relinking
<1>0. conn \in [Request -> Requests]
  BY DEF StreamTypeOK
<1>1. ASSUME NEW r \in Request, NEW link \in {"up", "cut", "missed"},
             conn' = [conn EXCEPT ![r].link = link]
      PROVE  conn' \in [Request -> Requests] /\ \A q \in Request : Same(conn[q], conn'[q])
  <2>1. PICK R \in SUBSET Request : R = {r}
    OBVIOUS
  <2>2. conn' = [q \in Request |-> IF q \in R THEN [conn[q] EXCEPT !.link = link] ELSE conn[q]]
    BY <1>0, <1>1, <2>1
  <2> QED BY <2>2, CutIs
<1>2. ASSUME NEW r \in Request, Drop(r) PROVE Relinking
  BY <1>1, <1>2 DEF Drop, Relinking
<1>3. ASSUME NEW r \in Request, HangUpUnheard(r) PROVE Relinking
  BY <1>1, <1>3 DEF HangUpUnheard, Relinking
<1>4. ASSUME NEW w \in Watcher, Leave(w) PROVE Relinking
  <2>1. PICK R \in SUBSET Request : R = {r \in Request : By[r] = w /\ Heeds(r)}
    OBVIOUS
  <2>2. conn' = [r \in Request |-> IF r \in R THEN [conn[r] EXCEPT !.link = "cut"] ELSE conn[r]]
    BY <1>4, <2>1 DEF Leave
  <2>3. conn' \in [Request -> Requests] /\ \A r \in Request : Same(conn[r], conn'[r])
    BY <2>2, CutIs
  <2> QED BY <1>4, <2>3 DEF Leave, Relinking
<1> QED BY <1>2, <1>3, <1>4

LEMMA StepCases ==
  ASSUME StreamTypeOK, [Next]_vars
  PROVE  \/ \E j \in Job : JobPublishes(j) \/ JobMoves(j)
         \/ Redis \/ Deliver \/ Gone \/ Unseen \/ Relinking
         \/ \E r \in Request : Ask(r) \/ HandlerStep(r) \/ Cleaning(r)
<1>1. ASSUME NEW r \in Request, Timeout(r) \/ HangUp(r) PROVE Cleaning(r)
  BY <1>1 DEF Timeout, Open, HangUp, Cleaning
<1>2. ASSUME Shutdown \/ Start \/ UNCHANGED vars PROVE Unseen
  BY <1>2 DEF Shutdown, Start, vars, streamVars, Unseen
<1>3. Closed \/ ForceExit \/ Crash => Gone
  BY DEF Closed, ForceExit, Crash
<1> QED BY <1>1, <1>2, <1>3, RelinkingIs DEF Next, HangsUp, Asks

\* The jobs are left alone by everyone but themselves.
LEMMA JobsAlone ==
  ASSUME \/ Redis \/ Deliver \/ Gone \/ Unseen \/ Relinking
         \/ \E r \in Request : Ask(r) \/ HandlerStep(r) \/ Cleaning(r)
  PROVE  UNCHANGED jobVars
BY DEF Redis, Deliver, Gone, Unseen, Relinking, Ask, HandlerStep, Connect, NotFound, GetState,
       Answer, Cleaning

\* What is published goes to the connection if it is subscribed.
LEMMA PublishIs ==
  ASSUME StreamTypeOK, JobTypeOK, NEW j \in Job, JobPublishes(j)
  PROVE  /\ Publication(j)
         /\ UNCHANGED <<client, conn, wire, subscribed, server, drops>>
         /\ inbox' \in Seq(Messages) /\ Len(inbox) \in Nat
         /\ \A i \in 1..Len(inbox) : inbox'[i] = inbox[i]
         /\ \/ inbox' = inbox /\ ~subscribed[j]
            \/ /\ Len(inbox') = Len(inbox) + 1
               /\ inbox'[Len(inbox) + 1] = [job |-> j, event |-> event'[j]]
<1>1. /\ Publication(j) /\ UNCHANGED <<client, conn, wire, subscribed, server, drops>>
      /\ inbox' = IF subscribed[j] THEN Append(inbox, [job |-> j, event |-> event'[j]])
                                   ELSE inbox
  BY DEF JobPublishes
<1>2. [job |-> j, event |-> event'[j]] \in Messages
  BY <1>1, PublicationEffect DEF Messages
<1>3. inbox \in Seq(Messages) /\ Len(inbox) \in Nat
  BY LenProperties DEF StreamTypeOK
<1> DEFINE m == [job |-> j, event |-> event'[j]]
<1> HIDE DEF m
<1>4. m \in Messages /\ inbox' = IF subscribed[j] THEN Append(inbox, m) ELSE inbox
  BY <1>1, <1>2 DEF m
<1>5. CASE subscribed[j]
  BY <1>1, <1>3, <1>4, <1>5, AppendProperties DEF m
<1>6. CASE ~subscribed[j]
  BY <1>1, <1>3, <1>4, <1>6
<1> QED BY <1>5, <1>6

\* A step of one request leaves the others as they are.
LEMMA OtherRequests ==
  ASSUME JobTypeOK, StreamTypeOK, NEW q \in Request,
         Ask(q) \/ HandlerStep(q) \/ Cleaning(q), NEW r \in Request, r # q
  PROVE  Same(conn[r], conn'[r])
<1>1. CASE Ask(q)
  BY <1>1, AskIs
<1>2. ASSUME conn'[r] = conn[r] PROVE Same(conn[r], conn'[r])
  BY <1>2 DEF Same
<1>3. CASE Connect(q)
  BY <1>2, <1>3, ConnectIs
<1>4. CASE NotFound(q)
  BY <1>2, <1>4, NotFoundIs
<1>5. CASE GetState(q)
  BY <1>2, <1>5, GetStateIs
<1>6. CASE Answer(q)
  BY <1>2, <1>6, AnswerIs
<1>7. CASE Cleaning(q)
  BY <1>2, <1>7, CleanUpIs DEF Cleaning
<1> QED BY <1>1, <1>3, <1>4, <1>5, <1>6, <1>7 DEF HandlerStep

\* JobTypeOK, StreamTypeOK: what jobs, requests and the connection are, they stay.
LEMMA StreamTypeStep == JobTypeOK /\ StreamTypeOK /\ [Next]_vars => JobTypeOK' /\ StreamTypeOK'
<1> SUFFICES ASSUME JobTypeOK, StreamTypeOK, [Next]_vars PROVE JobTypeOK' /\ StreamTypeOK'
  OBVIOUS
<1>1. JobTypeOK'
  <2>1. CASE \E j \in Job : JobPublishes(j) \/ JobMoves(j)
    BY <2>1, JobTypesStep DEF JobPublishes, JobMoves, JobStep
  <2>2. CASE UNCHANGED jobVars
    BY <2>2 DEF jobVars, JobTypeOK
  <2> QED BY <2>1, <2>2, StepCases, JobsAlone
<1>2. client' \in [Watcher -> {"watching", "told", "gone"}]
  <2>1. CASE Deliver
    <3>1. PICK told : client' = [w \in Watcher |-> IF w \in told THEN "told" ELSE client[w]]
      BY <2>1, Zenon DEF Deliver
    <3> QED BY <3>1 DEF StreamTypeOK
  <2>2. CASE \E r \in Request : NotFound(r) \/ Answer(r)
    <3>1. PICK r \in Request, b \in BOOLEAN, word \in {"told", "gone"} :
            client' = [client EXCEPT ![By[r]] = IF b THEN word ELSE @]
      <4>1. ASSUME NEW r \in Request, NotFound(r)
            PROVE  \E b \in BOOLEAN : client' = [client EXCEPT ![By[r]] = IF b THEN "gone" ELSE @]
        <5>1. PICK b \in BOOLEAN : b = (conn[r].link = "up")
          BY Zenon
        <5> QED BY <4>1, <5>1, Zenon DEF NotFound
      <4>2. ASSUME NEW r \in Request, Answer(r)
            PROVE  \E b \in BOOLEAN : client' = [client EXCEPT ![By[r]] = IF b THEN "told" ELSE @]
        <5>1. PICK b \in BOOLEAN : b = HearsVerdict(r, Snapshot(conn[r]))
          BY Zenon DEF HearsVerdict
        <5> QED BY <4>2, <5>1, Zenon DEF Answer
      <4> QED BY <2>2, <4>1, <4>2, Zenon
    <3> QED BY <3>1 DEF StreamTypeOK
  <2>3. CASE \E w \in Watcher : Leave(w)
    BY <2>3 DEF Leave, StreamTypeOK
  <2>4. CASE UNCHANGED client
    BY <2>4 DEF StreamTypeOK
  <2> QED
    BY <2>1, <2>2, <2>3, <2>4
       DEF Next, JobPublishes, JobMoves, Redis, HandlerStep, Connect, GetState, Timeout, Drop,
           HangsUp, HangUp, HangUpUnheard, Asks, Ask, Shutdown, Closed, ForceExit, Crash, Gone,
           Start, vars, streamVars
<1>3. server' \in {"up", "closing", "down"} /\ drops' \in 0..MaxDrops
  <2>0. server \in {"up", "closing", "down"} /\ drops \in 0..MaxDrops /\ MaxDrops \in Nat
    BY StreamAssumption DEF StreamTypeOK
  <2>1. CASE \/ \E r \in Request : Drop(r)
             \/ Shutdown \/ Closed \/ ForceExit \/ Crash \/ Start
    <3>1. \/ server' \in {"closing", "down", "up"} /\ drops' = drops
          \/ server' \in {"closing", "down", server} /\ drops < MaxDrops /\ drops' = drops + 1
      BY <2>1 DEF Drop, Shutdown, Closed, ForceExit, Crash, Gone, Start
    <3> QED BY <2>0, <3>1
  <2>2. CASE UNCHANGED <<server, drops>>
    BY <2>0, <2>2
  <2> QED
    BY <2>1, <2>2
       DEF Next, JobPublishes, JobMoves, Redis, Deliver, HandlerStep, Connect, NotFound,
           GetState, Answer, Timeout, HangsUp, HangUp, HangUpUnheard, Asks, Ask, Leave, vars,
           streamVars
<1> DEFINE Types == /\ conn' \in [Request -> Requests] /\ wire' \in Seq(Commands)
                    /\ subscribed' \in [Job -> BOOLEAN] /\ inbox' \in Seq(Messages)
<1>4. Types
  <2>0. /\ conn \in [Request -> Requests] /\ wire \in Seq(Commands)
        /\ subscribed \in [Job -> BOOLEAN] /\ inbox \in Seq(Messages)
    BY DEF StreamTypeOK
  <2>1. ASSUME NEW j \in Job, JobPublishes(j) \/ JobMoves(j) PROVE Types
    BY <2>0, <2>1, PublishIs DEF JobMoves, streamVars
  <2>2. CASE Redis
    <3>1. conn' \in [Request -> Requests] /\ wire' \in Seq(Commands)
      BY <2>2, RedisIs
    <3>2. subscribed' \in [Job -> BOOLEAN]
      <4>1. PICK b \in BOOLEAN : b = (Head(wire).op = "subscribe")
        BY Zenon
      <4>2. subscribed' = [subscribed EXCEPT ![Topic(Head(wire).by)] = b]
        BY <2>2, <4>1, Zenon DEF Redis
      <4>3. ASSUME NEW s, s = [subscribed EXCEPT ![Topic(Head(wire).by)] = b]
            PROVE  s \in [Job -> BOOLEAN]
        BY <2>0, <4>3
      <4> QED BY <4>2, <4>3, Zenon
    <3> QED BY <2>0, <2>2, <3>1, <3>2 DEF Redis
  <2>3. CASE Deliver
    <3>1. conn' \in [Request -> Requests] /\ inbox' \in Seq(Messages)
      BY <2>3, DeliverIs
    <3>2. wire' \in Seq(Commands)
      <4>1. PICK more \in Seq(Commands) : wire' = wire \o more
        BY <2>3, DeliverIs
      <4> QED BY <2>0, <4>1, ConcatProperties
    <3> QED BY <2>0, <2>3, <3>1, <3>2 DEF Deliver
  <2>4. CASE Gone
    BY <2>4, NoRequestType, EmptySeq DEF Gone
  <2>5. ASSUME NEW r \in Request, Ask(r) PROVE Types
    BY <2>0, <2>5, AskIs DEF Ask
  <2>6. ASSUME NEW r \in Request, Connect(r) PROVE Types
    <3>1. conn' \in [Request -> Requests]
      BY <2>6, ConnectIs
    <3>2. wire' \in Seq(Commands)
      BY <2>0, <2>6, CommandTypes, AppendProperties DEF Connect
    <3> QED BY <2>0, <2>6, <3>1, <3>2 DEF Connect
  <2>7. ASSUME NEW r \in Request, NotFound(r) PROVE Types
    BY <2>0, <2>7, NotFoundIs DEF NotFound
  <2>8. ASSUME NEW r \in Request, GetState(r) PROVE Types
    BY <2>0, <2>8, GetStateIs DEF GetState
  <2>9. ASSUME NEW r \in Request, Answer(r) PROVE Types
    BY <2>0, <2>9, AnswerIs DEF Answer
  <2>10. ASSUME NEW r \in Request, Cleaning(r) PROVE Types
    BY <2>0, <2>10, CleanUpIs DEF Cleaning
  <2>11. CASE Unseen \/ Relinking
    BY <2>0, <2>11 DEF Unseen, Relinking
  <2> QED
    BY <2>1, <2>2, <2>3, <2>4, <2>5, <2>6, <2>7, <2>8, <2>9, <2>10, <2>11, StepCases
       DEF HandlerStep
<1> QED BY <1>1, <1>2, <1>3, <1>4 DEF StreamTypeOK

-----------------------------------------------------------------------------
(* Each part of the invariant is preserved.                                *)

Sound(r) == /\ conn[r].verdict # "none" => conn[r].closed
            /\ conn[r].ended => conn[r].closed
            /\ ~conn[r].closed /\ conn[r].at # "getJob" => conn[r].listening
            /\ conn[r].at \in {"getJob", "subscribe"} => ~conn[r].unsubscribe
            /\ conn[r].at = "getJob" => ~conn[r].closed /\ ~conn[r].listening

LEMMA RequestsAreSoundStep ==
  JobTypeOK /\ StreamTypeOK /\ RequestsAreSound /\ WireIsAwaited /\ [Next]_vars
  => RequestsAreSound'
<1> SUFFICES ASSUME JobTypeOK, StreamTypeOK, RequestsAreSound, WireIsAwaited, [Next]_vars,
                    NEW r \in Request
             PROVE  Sound(r)'
  BY DEF RequestsAreSound, Sound
<1>0. Sound(r) /\ conn[r] \in Requests
  BY DEF RequestsAreSound, Sound, StreamTypeOK
<1>1. ASSUME Same(conn[r], conn'[r]) PROVE Sound(r)'
  BY <1>0, <1>1 DEF Sound, Same
<1>2. CASE conn'[r] = conn[r]
  BY <1>0, <1>2 DEF Sound
<1>3. CASE Redis
  <2> DEFINE q == wire[1].by
  <2>1. CASE r # q
    BY <1>2, <1>3, <2>1, RedisIs
  <2>2. CASE r = q
    <3>1. /\ conn'[r].verdict = conn[r].verdict /\ conn'[r].closed = conn[r].closed
          /\ conn'[r].listening = conn[r].listening
          /\ wire[1].op = "subscribe"
               => conn'[r].at = "getState" /\ conn'[r].ended = conn[r].ended
          /\ wire[1].op = "unsubscribe"
               => conn'[r].at = conn[r].at /\ conn'[r].unsubscribe = conn[r].unsubscribe
          /\ wire[1].op \in {"subscribe", "unsubscribe"} /\ wire # <<>>
      BY <1>3, <2>2, RedisIs DEF Commands
    <3>2. 1 \in 1..Len(wire)
      BY <3>1, EmptySeq DEF StreamTypeOK
    <3>3. CASE wire[1].op = "subscribe"
      <4>1. conn[r].at = "subscribe"
        BY <2>2, <3>2, <3>3 DEF WireIsAwaited
      <4> QED BY <1>0, <3>1, <3>3, <4>1 DEF Sound
    <3>4. CASE wire[1].op = "unsubscribe"
      <4>1. conn[r].at \notin {"getJob", "subscribe"} /\ conn[r].closed
        BY <2>2, <3>2, <3>4 DEF WireIsAwaited
      <4> QED BY <3>1, <3>4, <4>1 DEF Sound
    <3> QED BY <3>1, <3>3, <3>4
  <2> QED BY <2>1, <2>2
<1>4. CASE Deliver
  <2> DEFINE m == inbox[1]
  <2>1. CASE ~Hears(r, m)
    BY <1>2, <1>4, <2>1, DeliverIs
  <2>2. CASE Hears(r, m)
    <3>1. /\ m.event \in Events /\ ~conn[r].closed /\ conn[r].listening
          /\ conn'[r] = Heard(conn[r], m.event)
      BY <1>4, <2>2, DeliverIs DEF Hears, Messages
    <3> HIDE DEF m
    <3> QED BY <1>0, <3>1, HeardIs DEF Sound
  <2> QED BY <2>1, <2>2
<1>5. CASE Gone
  BY <1>5 DEF Gone, NoRequest, Sound
<1>6. ASSUME NEW q \in Request, Ask(q) \/ HandlerStep(q) \/ Cleaning(q)
      PROVE  Sound(r)'
  <2>1. CASE r # q
    BY <1>1, <1>6, <2>1, OtherRequests
  <2>2. CASE r = q /\ Ask(q)
    BY <2>2, AskIs DEF Sound
  <2>3. CASE r = q /\ Connect(q)
    BY <1>0, <2>3, ConnectIs DEF Sound
  <2>4. CASE r = q /\ NotFound(q)
    BY <2>4, NotFoundIs DEF Sound
  <2>5. CASE r = q /\ GetState(q)
    BY <1>0, <2>5, GetStateIs DEF Sound
  <2>6. CASE r = q /\ Answer(q)
    BY <1>0, <2>6, AnswerIs DEF Sound
  <2>7. CASE r = q /\ Cleaning(q)
    BY <1>0, <2>7, CleanUpIs DEF Sound, Cleaning
  <2> QED BY <1>6, <2>1, <2>2, <2>3, <2>4, <2>5, <2>6, <2>7 DEF HandlerStep
<1>7. CASE Relinking
  BY <1>1, <1>7 DEF Relinking
<1>8. CASE UNCHANGED conn
  BY <1>2, <1>8
<1> QED
  BY <1>3, <1>4, <1>5, <1>6, <1>7, <1>8, StepCases DEF JobPublishes, JobMoves, streamVars, Unseen

LEMMA VerdictsStandStep ==
  /\ JobTypeOK /\ StreamTypeOK /\ SettledAsSaid /\ VerdictsStand /\ RequestsAreSound
  /\ [Next]_vars
  => VerdictsStand'
<1> SUFFICES ASSUME JobTypeOK, StreamTypeOK, SettledAsSaid, VerdictsStand, RequestsAreSound,
                    [Next]_vars
             PROVE  VerdictsStand'
  OBVIOUS
<1>0. \A k \in Job, v \in Settled : VerdictStands(k, v) => VerdictStands(k, v)'
  <2>1. CASE \E j \in Job : JobPublishes(j) \/ JobMoves(j)
    <3>1. PICK j \in Job : JobStep(j)
      BY <2>1 DEF JobPublishes, JobMoves, JobStep
    <3> QED BY <3>1, StandsStep
  <2>2. CASE UNCHANGED jobVars
    BY <2>2 DEF jobVars, VerdictStands
  <2> QED BY <2>1, <2>2, StepCases, JobsAlone
<1> DEFINE InboxStands == \A i \in 1..Len(inbox) : Terminal(inbox[i].event)
                            => VerdictStands(inbox[i].job, inbox[i].event.state)
           StateStands(r) == conn[r].at = "answer" /\ conn[r].state \in Settled
                               => VerdictStands(Topic(r), conn[r].state)
           ToldStands(r) == conn[r].verdict # "none"
                               => VerdictStands(Topic(r), conn[r].verdict)
           Stands(r) == StateStands(r) /\ ToldStands(r)
<1>2. \A i \in 1..Len(inbox) : inbox[i].job \in Job /\ inbox[i].event \in Events
  <2>1. \A i \in 1..Len(inbox) : inbox[i] \in Messages
    BY ElementOfSeq DEF StreamTypeOK
  <2> QED BY <2>1 DEF Messages
<1>3. InboxStands'
  <2> SUFFICES ASSUME NEW i \in 1..Len(inbox'), Terminal(inbox'[i].event),
                      NEW k \in Job, k = inbox'[i].job,
                      NEW v \in Settled, v = inbox'[i].event.state
               PROVE  VerdictStands(k, v)'
    <3>1. \A i \in 1..Len(inbox') : inbox'[i].job \in Job
      <4>1. inbox' \in Seq(Messages)
        BY StreamTypeStep DEF StreamTypeOK
      <4>2. \A i \in 1..Len(inbox') : inbox'[i] \in Messages
        BY <4>1, ElementOfSeq
      <4> QED BY <4>2 DEF Messages
    <3> QED BY <3>1 DEF VerdictStands, Terminal
  <2>0. ASSUME NEW n \in 1..Len(inbox), inbox'[i] = inbox[n] PROVE VerdictStands(k, v)'
    <3>1. VerdictStands(k, v)
      BY <2>0 DEF VerdictsStand
    <3> QED BY <1>0, <3>1
  <2>1. CASE inbox' = inbox
    <3>1. i \in 1..Len(inbox)
      BY <2>1
    <3> QED BY <2>0, <2>1, <3>1
  <2>2. ASSUME NEW j \in Job, JobPublishes(j) PROVE VerdictStands(k, v)'
    <3>1. CASE i \in 1..Len(inbox)
      <4>1. inbox'[i] = inbox[i]
        BY <2>2, <3>1, PublishIs
      <4> QED BY <2>0, <3>1, <4>1
    <3>2. CASE i \notin 1..Len(inbox)
      <4>1. Publication(j) /\ inbox'[i] = [job |-> j, event |-> event'[j]]
        BY <2>2, <3>2, PublishIs
      <4>2. inbox'[i].event = event'[j] /\ k = j
        BY <4>1
      <4>3. /\ said'[j] \in Settled /\ event'[j] = Final(said'[j])
            /\ phase[j] = "processing" /\ phase' = phase
        BY <4>1, <4>2, PublicationEffect
      <4>4. v = said'[j]
        BY <4>2, <4>3 DEF Final
      <4> QED BY <4>2, <4>3, <4>4 DEF VerdictStands
    <3> QED BY <3>1, <3>2
  <2>3. CASE Deliver
    <3>1. i + 1 \in 1..Len(inbox) /\ inbox'[i] = inbox[i + 1]
      BY <2>3, DeliverIs
    <3> QED BY <2>0, <3>1
  <2>4. CASE Gone
    BY <2>4, EmptySeq DEF Gone
  <2> QED
    BY <2>1, <2>2, <2>3, <2>4, StepCases
       DEF JobMoves, streamVars, Redis, HandlerStep, Connect, NotFound, GetState, Answer, Ask,
           Cleaning, Relinking, Unseen
<1>4. ASSUME NEW r \in Request PROVE Stands(r)'
  <2>0. /\ Stands(r) /\ conn[r] \in Requests /\ Topic(r) \in Job
        /\ \A v \in Settled : VerdictStands(Topic(r), v) => VerdictStands(Topic(r), v)'
    BY <1>0, TopicType DEF VerdictsStand, VerdictIsTrue, StreamTypeOK
  <2>1. ASSUME conn'[r].verdict = conn[r].verdict PROVE ToldStands(r)'
    <3>1. CASE conn[r].verdict = "none"
      BY <2>1, <3>1
    <3>2. CASE conn[r].verdict # "none"
      <4>1. conn[r].verdict \in Settled /\ VerdictStands(Topic(r), conn[r].verdict)
        BY <2>0, <3>2 DEF Requests
      <4> QED BY <2>0, <2>1, <4>1
    <3> QED BY <3>1, <3>2
  <2>2. ASSUME conn'[r].at = "answer" => conn[r].at = "answer" /\ conn'[r].state = conn[r].state
        PROVE  StateStands(r)'
    <3>1. CASE conn[r].state \in Settled
      <4>1. PICK v \in Settled : v = conn[r].state
        BY <3>1
      <4>2. conn'[r].at = "answer" => VerdictStands(Topic(r), v)' /\ conn'[r].state = v
        BY <2>0, <2>2, <4>1
      <4> QED BY <4>2
    <3>2. CASE conn[r].state \notin Settled
      BY <2>2, <3>2
    <3> QED BY <3>1, <3>2
  <2>3. ASSUME NEW v \in Settled, VerdictStands(Topic(r), v), conn'[r].verdict = v
        PROVE  ToldStands(r)'
    <3>1. VerdictStands(Topic(r), v)'
      BY <2>0, <2>3
    <3> QED BY <2>3, <3>1
  <2> HIDE DEF StateStands, ToldStands
  <2>4. CASE conn'[r] = conn[r] \/ Same(conn[r], conn'[r])
    BY <2>1, <2>2, <2>4 DEF Same
  <2>5. CASE Redis
    <3>1. CASE r # wire[1].by
      BY <2>4, <2>5, <3>1, RedisIs
    <3>2. CASE r = wire[1].by
      <4>1. /\ conn'[r].verdict = conn[r].verdict /\ conn'[r].state = conn[r].state
            /\ conn'[r].at = "getState" \/ conn'[r].at = conn[r].at
        BY <2>5, <3>2, RedisIs DEF Commands
      <4> QED BY <2>1, <2>2, <4>1
    <3> QED BY <3>1, <3>2
  <2>6. CASE Deliver
    <3> DEFINE m == inbox[1]
    <3>1. CASE ~Hears(r, m)
      BY <2>4, <2>6, <3>1, DeliverIs
    <3>2. CASE Hears(r, m)
      <4>1. /\ m.event \in Events /\ ~conn[r].closed
            /\ conn'[r] = Heard(conn[r], m.event) /\ m.job = Topic(r)
            /\ inbox # <<>>
        BY <2>6, <3>2, DeliverIs DEF Hears, Messages, Deliver
      <4>2. Terminal(m.event)
              => m.event.state \in Settled /\ VerdictStands(Topic(r), m.event.state)
        <5>1. 1 \in 1..Len(inbox)
          BY <4>1, EmptySeq DEF StreamTypeOK
        <5> QED BY <4>1, <5>1 DEF VerdictsStand, Terminal
      <4> HIDE DEF m
      <4>3. /\ conn'[r].at = conn[r].at /\ conn'[r].state = conn[r].state
            /\ conn'[r].verdict = IF Terminal(m.event) THEN m.event.state ELSE conn[r].verdict
        BY <2>0, <4>1, HeardIs
      <4> QED BY <2>1, <2>2, <2>3, <4>2, <4>3
    <3> QED BY <3>1, <3>2
  <2>7. CASE Gone
    BY <2>7 DEF Gone, NoRequest, StateStands, ToldStands
  <2>8. ASSUME NEW q \in Request, Ask(q) \/ HandlerStep(q) \/ Cleaning(q)
        PROVE  Stands(r)'
    <3>1. CASE r # q
      BY <2>4, <2>8, <3>1, OtherRequests
    <3>2. CASE r = q /\ Ask(q)
      BY <3>2, AskIs DEF StateStands, ToldStands
    <3>3. CASE r = q /\ (Connect(q) \/ NotFound(q))
      BY <2>1, <2>2, <3>3, ConnectIs, NotFoundIs
    <3>4. CASE r = q /\ GetState(q)
      <4>1. /\ conn'[r].state = phase[Topic(r)] /\ conn'[r].verdict = conn[r].verdict
        BY <3>4, GetStateIs
      <4>2. phase[Topic(r)] \in Settled => VerdictStands(Topic(r), phase[Topic(r)])
        BY <2>0 DEF SettledAsSaid, VerdictStands
      <4>3. StateStands(r)'
        <5>1. CASE phase[Topic(r)] \in Settled
          <6>1. PICK v \in Settled : v = phase[Topic(r)]
            BY <5>1
          <6>2. VerdictStands(Topic(r), v)' /\ conn'[r].state = v
            BY <2>0, <4>1, <4>2, <6>1
          <6> QED BY <6>2 DEF StateStands
        <5>2. CASE phase[Topic(r)] \notin Settled
          BY <4>1, <5>2 DEF StateStands
        <5> QED BY <5>1, <5>2
      <4> QED BY <2>1, <4>1, <4>3
    <3>5. CASE r = q /\ Answer(q)
      <4>1. /\ conn'[r].at = "returned" /\ conn[r].at = "answer"
            /\ conn'[r].verdict = IF conn[r].state \in Settled THEN conn[r].state
                                                               ELSE conn[r].verdict
        BY <3>5, AnswerIs
      <4>2. conn[r].state \in Settled => VerdictStands(Topic(r), conn[r].state)
        BY <2>0, <4>1 DEF StateStands
      <4> QED BY <2>1, <2>2, <2>3, <4>1, <4>2
    <3>6. CASE r = q /\ Cleaning(q)
      <4>1. /\ conn'[r].at = conn[r].at /\ conn'[r].state = conn[r].state
            /\ conn'[r].verdict = conn[r].verdict
        BY <3>6, CleanUpIs DEF Cleaning
      <4> QED BY <2>1, <2>2, <4>1
    <3> QED BY <2>8, <3>1, <3>2, <3>3, <3>4, <3>5, <3>6 DEF HandlerStep
  <2>9. CASE Relinking
    BY <2>4, <2>9 DEF Relinking
  <2>10. CASE UNCHANGED conn
    BY <2>4, <2>10
  <2> QED
    BY <2>5, <2>6, <2>7, <2>8, <2>9, <2>10, StepCases
       DEF JobPublishes, JobMoves, streamVars, Unseen
<1> QED BY <1>3, <1>4 DEF VerdictsStand, VerdictIsTrue

\* A request whose command is on the wire: it awaits the reply to it.
AwaitsReply(c, x) == /\ c.op = "subscribe" => x.at = "subscribe"
                     /\ c.op = "unsubscribe"
                          => x.at \notin {"getJob", "subscribe"} /\ x.closed /\ ~x.ended

\* Commands added to the wire: those who wait go on waiting, and only requests
\* that waited for nothing send one.
LEMMA WireAppends ==
  ASSUME StreamTypeOK, WireIsAwaited,
         NEW more \in Seq(Commands), wire' = wire \o more,
         \A r \in Request, c \in Commands : AwaitsReply(c, conn[r]) => AwaitsReply(c, conn'[r]),
         \A i \in 1..Len(more) : /\ AwaitsReply(more[i], conn'[more[i].by])
                              /\ \A c \in Commands : ~AwaitsReply(c, conn[more[i].by]),
         \A i, k \in 1..Len(more) : more[i].by = more[k].by => i = k
  PROVE  WireIsAwaited'
<1>1. \A i \in 1..Len(wire) : /\ wire[i] \in Commands /\ wire[i].by \in Request
                              /\ AwaitsReply(wire[i], conn[wire[i].by])
  <2>1. \A i \in 1..Len(wire) : wire[i] \in Commands
    BY ElementOfSeq DEF StreamTypeOK
  <2>2. \A c \in Commands : c.by \in Request
    BY DEF Commands
  <2> QED BY <2>1, <2>2 DEF WireIsAwaited, AwaitsReply
<1>2. /\ Len(wire) \in Nat /\ Len(more) \in Nat
      /\ \A i \in 1..Len(wire) : wire'[i] = wire[i]
      /\ \A i \in 1..Len(wire') : \/ i \in 1..Len(wire)
                                  \/ i - Len(wire) \in 1..Len(more) /\ wire'[i] = more[i - Len(wire)]
  BY WireGrows DEF StreamTypeOK
<1>3. ASSUME NEW i \in 1..Len(wire') PROVE AwaitsReply(wire'[i], conn'[wire'[i].by])
  <2>1. CASE i \in 1..Len(wire)
    BY <1>1, <1>2, <2>1
  <2>2. CASE i - Len(wire) \in 1..Len(more) /\ wire'[i] = more[i - Len(wire)]
    BY <2>2
  <2> QED BY <1>2, <2>1, <2>2
<1>4. ASSUME NEW i \in 1..Len(wire'), NEW k \in 1..Len(wire'), wire'[i].by = wire'[k].by
      PROVE  i = k
  <2>1. ASSUME NEW m \in 1..Len(wire), NEW n \in 1..Len(more) PROVE wire[m].by # more[n].by
    BY <1>1
  <2>2. CASE i \in 1..Len(wire) /\ k \in 1..Len(wire)
    BY <1>2, <1>4, <2>2 DEF WireIsAwaited
  <2>3. CASE /\ i - Len(wire) \in 1..Len(more) /\ wire'[i] = more[i - Len(wire)]
             /\ k - Len(wire) \in 1..Len(more) /\ wire'[k] = more[k - Len(wire)]
    <3>1. i - Len(wire) = k - Len(wire)
      BY <1>4, <2>3
    <3> QED BY <1>2, <3>1
  <2>4. CASE i \in 1..Len(wire) /\ k - Len(wire) \in 1..Len(more) /\ wire'[k] = more[k - Len(wire)]
    BY <1>2, <1>4, <2>1, <2>4
  <2>5. CASE k \in 1..Len(wire) /\ i - Len(wire) \in 1..Len(more) /\ wire'[i] = more[i - Len(wire)]
    BY <1>2, <1>4, <2>1, <2>5
  <2> QED BY <1>2, <2>2, <2>3, <2>4, <2>5
<1> QED BY <1>3, <1>4 DEF WireIsAwaited, AwaitsReply

\* The same, when no command is added.
LEMMA WireStays ==
  ASSUME StreamTypeOK, WireIsAwaited, wire' = wire,
         \A r \in Request, c \in Commands : AwaitsReply(c, conn[r]) => AwaitsReply(c, conn'[r])
  PROVE  WireIsAwaited'
<1>1. <<>> \in Seq(Commands) /\ Len(<<>>) = 0 /\ wire' = wire \o <<>>
  BY EmptySeq, ConcatEmptySeq DEF StreamTypeOK
<1>2. \A i \in 1..0 : FALSE
  OBVIOUS
<1> DEFINE more == <<>>
<1> HIDE DEF more
<1>3. more \in Seq(Commands) /\ Len(more) = 0 /\ wire' = wire \o more
  BY <1>1 DEF more
<1> QED BY <1>3, <1>2, WireAppends

\* The same, when one request sends one command.
LEMMA WireAppendsOne ==
  ASSUME StreamTypeOK, WireIsAwaited, NEW c \in Commands, wire' = wire \o <<c>>,
         \A r \in Request, d \in Commands : AwaitsReply(d, conn[r]) => AwaitsReply(d, conn'[r]),
         AwaitsReply(c, conn'[c.by]),
         \A d \in Commands : ~AwaitsReply(d, conn[c.by])
  PROVE  WireIsAwaited'
<1> DEFINE more == <<c>>
<1>1. more \in Seq(Commands) /\ Len(more) = 1 /\ more[1] = c
  OBVIOUS
<1>2. \A i \in 1..1 : i = 1
  OBVIOUS
<1> HIDE DEF more
<1>3. wire' = wire \o more
  BY DEF more
<1> QED BY <1>1, <1>2, <1>3, WireAppends

LEMMA WireIsAwaitedStep ==
  JobTypeOK /\ StreamTypeOK /\ RequestsAreSound /\ WireIsAwaited /\ [Next]_vars
  => WireIsAwaited'
<1> SUFFICES ASSUME JobTypeOK, StreamTypeOK, RequestsAreSound, WireIsAwaited, [Next]_vars
             PROVE  WireIsAwaited'
  OBVIOUS
<1> DEFINE Waits(r) == \A c \in Commands : AwaitsReply(c, conn[r]) => AwaitsReply(c, conn'[r])
           Idle(r) == \A c \in Commands : ~AwaitsReply(c, conn[r])
<1>0. /\ \A c \in Commands : c.op \in {"subscribe", "unsubscribe"}
      /\ \A r \in Request : /\ conn[r] \in Requests /\ Sound(r)
                            /\ conn[r].closed \in BOOLEAN /\ conn[r].ended \in BOOLEAN
  <2>1. \A c \in Commands : c.op \in {"subscribe", "unsubscribe"}
    BY DEF Commands
  <2>2. \A r \in Request : conn[r] \in Requests /\ Sound(r)
    BY DEF StreamTypeOK, RequestsAreSound, Sound
  <2> QED BY <2>1, <2>2 DEF Requests
<1>1. ASSUME NEW r \in Request, Same(conn[r], conn'[r]) \/ conn'[r] = conn[r] PROVE Waits(r)
  BY <1>1 DEF Same, AwaitsReply
<1>2. CASE Redis
  <2> DEFINE q == wire[1].by
  <2>1. /\ wire' \in Seq(Commands) /\ Len(wire) \in Nat /\ Len(wire') = Len(wire) - 1
        /\ \A i \in 1..Len(wire') : wire'[i] = wire[i + 1]
        /\ \A r \in Request \ {q} : conn'[r] = conn[r]
    BY <1>2, RedisIs
  <2>2. \A i \in 1..Len(wire) : wire[i].by \in Request
    <3>1. \A i \in 1..Len(wire) : wire[i] \in Commands
      BY ElementOfSeq DEF StreamTypeOK
    <3> QED BY <3>1 DEF Commands
  <2>3. ASSUME NEW i \in 1..Len(wire')
        PROVE  i + 1 \in 1..Len(wire) /\ conn'[wire'[i].by] = conn[wire[i + 1].by]
    <3>1. i + 1 \in 1..Len(wire) /\ 1 \in 1..Len(wire) /\ i + 1 # 1
      BY <2>1
    <3>2. wire[i + 1].by # q
      BY <3>1 DEF WireIsAwaited
    <3> QED BY <2>1, <2>2, <3>1, <3>2
  <2>4. ASSUME NEW i \in 1..Len(wire'), NEW k \in 1..Len(wire'), wire'[i].by = wire'[k].by
        PROVE  i = k
    <3>1. i + 1 = k + 1
      BY <2>1, <2>3, <2>4 DEF WireIsAwaited
    <3> QED BY <3>1
  <2>5. ASSUME NEW i \in 1..Len(wire') PROVE AwaitsReply(wire'[i], conn'[wire'[i].by])
    <3>1. AwaitsReply(wire[i + 1], conn[wire[i + 1].by])
      BY <2>3 DEF WireIsAwaited, AwaitsReply
    <3> QED BY <2>1, <2>3, <3>1
  <2> QED BY <2>4, <2>5 DEF WireIsAwaited, AwaitsReply
<1>3. CASE Deliver
  <2> DEFINE m == inbox[1]
  <2>1. PICK more \in Seq(Commands) :
          /\ wire' = wire \o more
          /\ \A i \in 1..Len(more) : /\ Hears(more[i].by, m) /\ Terminal(m.event)
                                  /\ more[i].op = "unsubscribe"
                                  /\ conn[more[i].by].unsubscribe
          /\ \A i, k \in 1..Len(more) : more[i].by = more[k].by => i = k
    BY <1>3, DeliverIs
  <2>2. /\ m.event \in Events
        /\ \A r \in Request : IF Hears(r, m) THEN conn'[r] = Heard(conn[r], m.event)
                                             ELSE conn'[r] = conn[r]
    <3>1. m \in Messages
      BY <1>3, DeliverIs
    <3>2. m.event \in Events
      BY <3>1 DEF Messages
    <3> QED BY <1>3, <3>2, DeliverIs
  <2> HIDE DEF m
  <2>3. ASSUME NEW r \in Request PROVE Waits(r)
    <3>1. CASE ~Hears(r, m)
      BY <2>2, <3>1
    <3>2. CASE Hears(r, m)
      <4>1. ~conn[r].closed /\ conn'[r].at = conn[r].at
        BY <1>0, <2>2, <3>2, HeardIs DEF Hears
      <4> QED BY <1>0, <4>1 DEF AwaitsReply
    <3> QED BY <3>1, <3>2
  <2>4. ASSUME NEW i \in 1..Len(more)
        PROVE  AwaitsReply(more[i], conn'[more[i].by]) /\ Idle(more[i].by)
    <3> DEFINE r == more[i].by
    <3>1. more[i] \in Commands
      BY ElementOfSeq
    <3>2. r \in Request
      BY <3>1 DEF Commands
    <3>3. Hears(r, m) /\ Terminal(m.event) /\ more[i].op = "unsubscribe" /\ conn[r].unsubscribe
      BY <2>1
    <3> HIDE DEF r
    <3>4. /\ conn'[r] = Heard(conn[r], m.event) /\ ~conn[r].closed
          /\ conn[r].at \notin {"getJob", "subscribe"}
      BY <1>0, <2>2, <3>2, <3>3 DEF Hears, Sound
    <3>5. conn'[r].closed /\ ~conn'[r].ended /\ conn'[r].at = conn[r].at
      BY <1>0, <2>2, <3>2, <3>3, <3>4, HeardIs
    <3>6. AwaitsReply(more[i], conn'[r]) /\ Idle(r)
      BY <1>0, <3>3, <3>4, <3>5 DEF AwaitsReply
    <3> QED BY <3>6 DEF r
  <2> HIDE DEF Waits, Idle
  <2> QED BY <2>1, <2>3, <2>4, WireAppends DEF Waits, Idle
<1>4. CASE Gone
  BY <1>4 DEF Gone, WireIsAwaited
<1>5. ASSUME NEW q \in Request, Ask(q) PROVE WireIsAwaited'
  <2>1. conn[q].at = "returned" /\ conn[q].ended
    BY <1>5, AskIs DEF AtRest
  <2>2. Waits(q)
    BY <1>0, <2>1 DEF AwaitsReply
  <2>3. \A r \in Request : Waits(r)
    BY <1>1, <1>5, <2>2, OtherRequests
  <2> QED BY <1>5, <2>3, WireStays DEF Ask
<1>6. ASSUME NEW q \in Request, Connect(q) PROVE WireIsAwaited'
  <2> DEFINE c == [op |-> "subscribe", by |-> q]
  <2>1. conn[q].at = "getJob"
    BY <1>6, ConnectIs
  <2>2. Idle(q)
    BY <1>0, <2>1 DEF AwaitsReply
  <2>3. \A r \in Request : Waits(r)
    BY <1>1, <1>6, <2>2, OtherRequests DEF HandlerStep
  <2>4. AwaitsReply(c, conn'[q]) /\ c \in Commands /\ c.by = q /\ wire' = wire \o <<c>>
    BY <1>6, ConnectIs, CommandTypes DEF AwaitsReply
  <2> HIDE DEF c
  <2> QED BY <2>2, <2>3, <2>4, WireAppendsOne
<1>7. ASSUME NEW q \in Request, NotFound(q) \/ GetState(q) PROVE WireIsAwaited'
  <2>1. Waits(q)
    BY <1>0, <1>7, NotFoundIs, GetStateIs DEF AwaitsReply
  <2>2. \A r \in Request : Waits(r)
    BY <1>1, <1>7, <2>1, OtherRequests DEF HandlerStep
  <2> QED BY <1>7, <2>2, WireStays DEF NotFound, GetState
\* A request that is cleaned up, and what it may send then.
<1>8. ASSUME NEW q \in Request, \A r \in Request \ {q} : conn'[r] = conn[r],
             conn[q].at = "subscribe" => conn'[q].at = "subscribe",
             conn[q].at # "getJob",
             conn[q].at # "subscribe" => conn'[q].at \notin {"getJob", "subscribe"},
             conn[q].closed => conn'[q].ended = conn[q].ended /\ conn'[q].closed,
             \/ wire' = wire
             \/ /\ ~conn[q].closed /\ conn[q].unsubscribe /\ conn'[q].closed /\ ~conn'[q].ended
                /\ wire' = wire \o <<Unsubscribe(q)>>
      PROVE  WireIsAwaited'
  <2>1. Waits(q)
    BY <1>0, <1>8 DEF AwaitsReply
  <2>2. \A r \in Request : Waits(r)
    BY <1>8, <2>1
  <2>3. CASE wire' = wire
    BY <2>2, <2>3, WireStays
  <2>4. CASE /\ ~conn[q].closed /\ conn[q].unsubscribe /\ conn'[q].closed /\ ~conn'[q].ended
             /\ wire' = wire \o <<Unsubscribe(q)>>
    <3> DEFINE c == Unsubscribe(q)
    <3>1. c \in Commands /\ c.by = q /\ c.op = "unsubscribe" /\ wire' = wire \o <<c>>
      BY <2>4, CommandTypes DEF Unsubscribe
    <3> HIDE DEF c
    <3>2. conn[q].at # "subscribe"
      BY <1>0, <2>4 DEF Sound
    <3>3. Idle(q) /\ AwaitsReply(c, conn'[q])
      BY <1>0, <1>8, <2>4, <3>1, <3>2 DEF AwaitsReply
    <3> QED BY <2>2, <3>1, <3>3, WireAppendsOne
  <2> QED BY <1>8, <2>3, <2>4
<1>9. ASSUME NEW q \in Request, Answer(q) PROVE WireIsAwaited'
  <2>1. /\ conn[q].at = "answer" /\ conn'[q].at = "returned"
        /\ \A r \in Request \ {q} : conn'[r] = conn[r]
        /\ conn[q].closed => conn'[q].ended = conn[q].ended /\ conn'[q].closed
        /\ \/ wire' = wire
           \/ /\ ~conn[q].closed /\ conn[q].unsubscribe /\ conn'[q].closed /\ ~conn'[q].ended
              /\ wire' = wire \o <<Unsubscribe(q)>>
    BY <1>9, AnswerIs
  <2> QED BY <1>8, <2>1
<1>10. ASSUME NEW q \in Request, Cleaning(q) PROVE WireIsAwaited'
  <2>1. /\ conn'[q].at = conn[q].at /\ conn[q].at # "getJob"
        /\ \A r \in Request \ {q} : conn'[r] = conn[r]
        /\ conn[q].closed => conn'[q].ended = conn[q].ended /\ conn'[q].closed
        /\ \/ wire' = wire
           \/ /\ ~conn[q].closed /\ conn[q].unsubscribe /\ conn'[q].closed /\ ~conn'[q].ended
              /\ wire' = wire \o <<Unsubscribe(q)>>
    BY <1>10, CleanUpIs DEF Cleaning
  <2> QED BY <1>8, <2>1
<1>11. ASSUME wire' = wire, conn' = conn \/ Relinking PROVE WireIsAwaited'
  <2>1. \A r \in Request : Waits(r)
    BY <1>1, <1>11 DEF Relinking
  <2> QED BY <1>11, <2>1, WireStays
<1> QED
  BY <1>2, <1>3, <1>4, <1>5, <1>6, <1>7, <1>9, <1>10, <1>11, StepCases
     DEF JobPublishes, JobMoves, streamVars, Unseen, Relinking, HandlerStep

\* Requests at rest stay at rest, and none gets its channel back to itself, until
\* it is asked for again.
LEMMA RestStep ==
  ASSUME JobTypeOK, StreamTypeOK, RequestsAreSound, WireIsAwaited, [Next]_vars,
         NEW r \in Request, ~Ask(r)
  PROVE  /\ AtRest(r) => AtRest(r)'
         /\ conn'[r].alone => conn[r].alone
<1> DEFINE Rests == /\ AtRest(r) => AtRest(r)'
                    /\ conn'[r].alone => conn[r].alone
<1>0. conn[r] \in Requests /\ Sound(r)
  BY DEF StreamTypeOK, RequestsAreSound, Sound
<1>1. ASSUME Same(conn[r], conn'[r]) \/ conn'[r] = conn[r] PROVE Rests
  BY <1>1 DEF Same, AtRest
<1>2. CASE Redis
  <2>1. CASE r # wire[1].by
    BY <1>1, <1>2, <2>1, RedisIs
  <2>2. CASE r = wire[1].by
    <3>1. 1 \in 1..Len(wire) /\ wire[1].op \in {"subscribe", "unsubscribe"}
      <4>1. wire # <<>> /\ wire[1] \in Commands
        BY <1>2, RedisIs
      <4> QED BY <4>1, EmptySeq DEF StreamTypeOK, Commands
    <3>2. conn[r].at = "subscribe" \/ ~conn[r].ended
      BY <2>2, <3>1 DEF WireIsAwaited
    <3> QED BY <1>2, <2>2, <3>2, RedisIs DEF AtRest
  <2> QED BY <2>1, <2>2
<1>3. CASE Deliver
  <2> DEFINE m == inbox[1]
  <2>1. CASE ~Hears(r, m)
    BY <1>1, <1>3, <2>1, DeliverIs
  <2>2. CASE Hears(r, m)
    <3>1. /\ m.event \in Events /\ ~conn[r].closed /\ conn'[r] = Heard(conn[r], m.event)
      BY <1>3, <2>2, DeliverIs DEF Hears, Messages
    <3> HIDE DEF m
    <3>2. conn'[r].alone = conn[r].alone
      BY <1>0, <3>1, HeardIs
    <3>3. ~AtRest(r)
      BY <1>0, <3>1 DEF Sound, AtRest
    <3> QED BY <3>2, <3>3
  <2> QED BY <2>1, <2>2
<1>4. CASE Gone
  BY <1>4 DEF Gone, NoRequest, AtRest
<1>5. ASSUME NEW q \in Request, Ask(q) \/ HandlerStep(q) \/ Cleaning(q) PROVE Rests
  <2>1. CASE r # q
    BY <1>1, <1>5, <2>1, OtherRequests
  <2>2. CASE r = q /\ HandlerStep(q)
    BY <2>2, ConnectIs, NotFoundIs, GetStateIs, AnswerIs DEF HandlerStep, AtRest
  <2>3. CASE r = q /\ Cleaning(q)
    BY <1>0, <2>3, CleanUpIs DEF Cleaning, Sound, AtRest
  <2> QED BY <1>5, <2>1, <2>2, <2>3
<1>6. CASE Relinking
  BY <1>1, <1>6 DEF Relinking
<1>7. CASE UNCHANGED conn
  BY <1>1, <1>7
<1> QED
  BY <1>2, <1>3, <1>4, <1>5, <1>6, <1>7, StepCases DEF JobPublishes, JobMoves, streamVars, Unseen

LEMMA LoneIsAloneStep ==
  /\ JobTypeOK /\ StreamTypeOK /\ RequestsAreSound /\ WireIsAwaited /\ LoneIsAlone
  /\ [Next]_vars
  => LoneIsAlone'
<1> SUFFICES ASSUME JobTypeOK, StreamTypeOK, RequestsAreSound, WireIsAwaited, LoneIsAlone,
                    [Next]_vars,
                    NEW r \in Request, conn'[r].alone, NEW q \in SameTopic(r) \ {r}
             PROVE  AtRest(q)'
  BY DEF LoneIsAlone
<1>0. q \in Request /\ q # r /\ Topic(q) = Topic(r)
  BY DEF SameTopic
<1>1. ~Ask(q)
  BY <1>0, AskIs
<1>2. AtRest(q)
  <2>1. CASE Ask(r)
    BY <2>1, AskIs
  <2>2. CASE ~Ask(r)
    BY <2>2, RestStep DEF LoneIsAlone
  <2> QED BY <2>1, <2>2
<1> QED BY <1>0, <1>1, <1>2, RestStep

\* What is promised to a request alone on its channel: the channel is subscribed,
\* and a verdict announced since then is among the messages.
PromiseKept(r) ==
    Subscribed(r) /\ conn[r].alone
      => /\ subscribed[Topic(r)]
         /\ conn[r].inTime /\ said[Topic(r)] \in Settled /\ ~lost[Topic(r)] => OnItsWay(r)

LEMMA SubscribedIsKeptStep ==
  /\ JobTypeOK /\ StreamTypeOK /\ RequestsAreSound /\ WireIsAwaited
  /\ LoneIsAlone /\ SubscribedIsKept /\ [Next]_vars
  => SubscribedIsKept'
<1> SUFFICES ASSUME JobTypeOK, StreamTypeOK, RequestsAreSound, WireIsAwaited,
                    LoneIsAlone, SubscribedIsKept, [Next]_vars, NEW r \in Request
             PROVE  PromiseKept(r)'
  BY DEF SubscribedIsKept, PromiseKept
<1> DEFINE job == Topic(r)
           Lone == Subscribed(r) /\ conn[r].alone
<1>0. /\ PromiseKept(r) /\ job \in Job /\ conn[r] \in Requests
      /\ Len(inbox) \in Nat
      /\ Sound(r)
  BY TopicType, LenProperties
     DEF SubscribedIsKept, PromiseKept, StreamTypeOK, RequestsAreSound, Sound
<1>1. ASSUME Lone' => /\ Lone /\ conn'[r].inTime = conn[r].inTime
                      /\ subscribed'[job] = subscribed[job],
             Lone' /\ said'[job] \in Settled /\ ~lost'[job]
               => said'[job] = said[job] /\ ~lost[job] /\ (OnItsWay(r) => OnItsWay(r)')
      PROVE  PromiseKept(r)'
  BY <1>0, <1>1 DEF PromiseKept
<1>2. ASSUME UNCHANGED <<inbox, said>> PROVE OnItsWay(r) => OnItsWay(r)'
  BY <1>2 DEF OnItsWay
<1>3. ASSUME NEW j \in Job, JobPublishes(j) PROVE PromiseKept(r)'
  <2>1. /\ Publication(j) /\ conn' = conn /\ subscribed' = subscribed
        /\ \A i \in 1..Len(inbox) : inbox'[i] = inbox[i]
        /\ \/ inbox' = inbox /\ ~subscribed[j]
           \/ /\ Len(inbox') = Len(inbox) + 1
              /\ inbox'[Len(inbox) + 1] = [job |-> j, event |-> event'[j]]
    BY <1>3, PublishIs
  <2>2. CASE j = job
    <3>1. \/ said'[j] \notin Settled
          \/ event'[j] = Final(said'[j]) /\ said'[j] \in Settled
      BY <2>1, PublicationEffect
    <3>2. CASE said'[job] \notin Settled
      BY <1>0, <2>1, <3>2 DEF PromiseKept, Subscribed
    <3>3. CASE event'[job] = Final(said'[job]) /\ subscribed[job]
      <4>1. Len(inbox) + 1 \in 1..Len(inbox')
        BY <1>0, <2>1, <2>2, <3>3
      <4>2. inbox'[Len(inbox) + 1] = [job |-> job, event |-> Final(said'[job])]
        BY <2>1, <2>2, <3>3
      <4>3. OnItsWay(r)'
        BY <4>1, <4>2 DEF OnItsWay
      <4> QED BY <1>0, <2>1, <4>3 DEF PromiseKept, Subscribed
    <3>4. CASE ~subscribed[job]
      BY <1>0, <2>1, <3>4 DEF PromiseKept, Subscribed
    <3> QED BY <2>2, <3>1, <3>2, <3>3, <3>4
  <2>3. CASE j # job
    <3>1. said'[job] = said[job] /\ lost'[job] = lost[job]
      BY <1>0, <2>1, <2>3, OtherJobs DEF JobStep
    <3>2. OnItsWay(r) => OnItsWay(r)'
      <4>1. \A i \in 1..Len(inbox) : i \in 1..Len(inbox') /\ inbox'[i] = inbox[i]
        BY <1>0, <2>1
      <4> QED BY <3>1, <4>1 DEF OnItsWay
    <3> QED BY <1>1, <2>1, <3>1, <3>2 DEF Subscribed
  <2> QED BY <2>2, <2>3
<1>4. ASSUME NEW j \in Job, JobMoves(j) PROVE PromiseKept(r)'
  <2>1. SilentStep(j) /\ conn' = conn /\ subscribed' = subscribed /\ inbox' = inbox
    BY <1>4 DEF JobMoves, streamVars
  <2>2. said'[job] \in Settled => said'[job] = said[job]
    BY <1>0, <2>1, SilentStepSays
  <2>3. ~lost'[job] => ~lost[job]
    BY <1>0, <2>1, LostForGood DEF JobStep
  <2>4. said'[job] = said[job] /\ OnItsWay(r) => OnItsWay(r)'
    BY <2>1 DEF OnItsWay
  <2> QED BY <1>1, <2>1, <2>2, <2>3, <2>4 DEF Subscribed
\* The jobs stand still.
<1>5. ASSUME UNCHANGED jobVars,
             Lone' => /\ Lone /\ conn'[r].inTime = conn[r].inTime
                      /\ subscribed'[job] = subscribed[job],
             Lone' /\ said[job] \in Settled /\ ~lost[job]
               => (OnItsWay(r) => OnItsWay(r)')
      PROVE  PromiseKept(r)'
  BY <1>1, <1>5 DEF jobVars
<1>6. CASE Redis
  <2> DEFINE q == wire[1].by
  <2>1. /\ subscribed' = [subscribed EXCEPT ![Topic(q)] = (wire[1].op = "subscribe")]
        /\ UNCHANGED jobVars /\ inbox' = inbox /\ q \in Request
        /\ wire[1].op \in {"subscribe", "unsubscribe"} /\ 1 \in 1..Len(wire)
    <3>1. wire # <<>> /\ wire[1] \in Commands /\ UNCHANGED jobVars /\ inbox' = inbox
      BY <1>6, RedisIs DEF Redis
    <3>2. 1 \in 1..Len(wire)
      BY <3>1, EmptySeq DEF StreamTypeOK
    <3> QED BY <1>6, <3>1, <3>2, RedisIs DEF Commands
  <2>2. CASE r # q
    <3>1. conn'[r] = conn[r]
      BY <1>6, <2>1, <2>2, RedisIs
    <3>2. CASE ~conn[r].alone
      BY <3>1, <3>2 DEF PromiseKept
    <3>3. CASE conn[r].alone
      <4>1. ~AtRest(q)
        BY <2>1 DEF WireIsAwaited, AtRest
      <4>2. job # Topic(q)
        BY <2>1, <2>2, <3>3, <4>1 DEF LoneIsAlone, SameTopic
      <4>3. subscribed'[job] = subscribed[job]
        BY <1>0, <2>1, <4>2, TopicType DEF StreamTypeOK
      <4> QED BY <1>2, <1>5, <2>1, <3>1, <4>3 DEF Subscribed, jobVars
    <3> QED BY <3>2, <3>3
  <2>3. CASE r = q /\ wire[1].op = "subscribe"
    <3>1. subscribed'[job]
      BY <1>0, <2>1, <2>3 DEF StreamTypeOK
    <3>2. conn'[r].inTime => said[job] \notin Settled
      BY <1>6, <2>3, RedisIs
    <3> QED BY <2>1, <3>1, <3>2 DEF PromiseKept, jobVars
  <2>4. CASE r = q /\ wire[1].op = "unsubscribe"
    <3>1. conn'[r].closed
      BY <1>6, <2>1, <2>4, RedisIs DEF WireIsAwaited
    <3> QED BY <3>1 DEF PromiseKept, Subscribed
  <2> QED BY <2>1, <2>2, <2>3, <2>4
<1>7. CASE Deliver
  <2> DEFINE m == inbox[1]
  <2>1. /\ m \in Messages /\ UNCHANGED jobVars /\ subscribed' = subscribed
        /\ Len(inbox') = Len(inbox) - 1
        /\ \A i \in 1..Len(inbox') : inbox'[i] = inbox[i + 1]
        /\ IF Hears(r, m) THEN conn'[r] = Heard(conn[r], m.event) ELSE conn'[r] = conn[r]
    BY <1>7, DeliverIs DEF Deliver
  <2>2. m.event \in Events
    BY <2>1 DEF Messages
  <2>3. ASSUME m # [job |-> job, event |-> Final(said[job])] PROVE OnItsWay(r) => OnItsWay(r)'
    <3> SUFFICES ASSUME NEW i \in 1..Len(inbox),
                        inbox[i] = [job |-> job, event |-> Final(said[job])]
                 PROVE  OnItsWay(r)'
      BY DEF OnItsWay
    <3>1. i # 1
      BY <2>3
    <3>2. i - 1 \in 1..Len(inbox') /\ inbox'[i - 1] = inbox[i]
      BY <1>0, <2>1, <3>1
    <3>3. said' = said
      BY <2>1 DEF jobVars
    <3> QED BY <3>2, <3>3 DEF OnItsWay
  <2>4. CASE ~Hears(r, m)
    <3>1. Subscribed(r) => m.job # job
      BY <1>0, <2>4 DEF Hears, Subscribed, Sound
    <3>2. Subscribed(r) => m # [job |-> job, event |-> Final(said[job])]
      BY <3>1
    <3>3. conn'[r] = conn[r]
      BY <2>1, <2>4
    <3> QED BY <1>5, <2>1, <2>3, <3>2, <3>3 DEF Subscribed
  <2>5. CASE Hears(r, m) /\ ~Terminal(m.event)
    <3>1. said[job] \in Settled => m # [job |-> job, event |-> Final(said[job])]
      BY <2>5 DEF Terminal, Final
    <3>2. ~conn[r].closed /\ conn'[r] = Heard(conn[r], m.event)
      BY <2>1, <2>5 DEF Hears
    <3>3. /\ conn'[r].at = conn[r].at /\ conn'[r].closed = conn[r].closed
          /\ conn'[r].inTime = conn[r].inTime /\ conn'[r].alone = conn[r].alone
      <4> HIDE DEF m
      <4> QED BY <1>0, <2>2, <2>5, <3>2, HeardIs
    <3> QED BY <1>5, <2>1, <2>3, <3>1, <3>3 DEF Subscribed
  <2>6. CASE Hears(r, m) /\ Terminal(m.event)
    <3>1. ~conn[r].closed /\ conn'[r] = Heard(conn[r], m.event)
      BY <2>1, <2>6 DEF Hears
    <3>2. conn'[r].closed
      <4> HIDE DEF m
      <4> QED BY <1>0, <2>2, <2>6, <3>1, HeardIs
    <3> QED BY <3>2 DEF PromiseKept, Subscribed
  <2> QED BY <2>4, <2>5, <2>6
<1>8. CASE Gone
  BY <1>8 DEF Gone, NoRequest, PromiseKept, Subscribed
<1>9. ASSUME NEW q \in Request, Ask(q) \/ HandlerStep(q) \/ Cleaning(q)
      PROVE  PromiseKept(r)'
  <2>0. UNCHANGED jobVars /\ subscribed' = subscribed /\ inbox' = inbox
    BY <1>9 DEF Ask, HandlerStep, Connect, NotFound, GetState, Answer, Cleaning
  <2>1. OnItsWay(r) => OnItsWay(r)'
    BY <1>2, <2>0 DEF jobVars
  <2>2. CASE r # q
    <3>1. Same(conn[r], conn'[r])
      BY <1>9, <2>2, OtherRequests
    <3> QED BY <1>5, <2>0, <2>1, <3>1 DEF Subscribed, Same
  <2>3. CASE r = q /\ Ask(q)
    BY <2>3, AskIs DEF PromiseKept, Subscribed
  <2>4. CASE r = q /\ Connect(q)
    BY <2>4, ConnectIs DEF PromiseKept, Subscribed
  <2>5. CASE r = q /\ NotFound(q)
    BY <2>5, NotFoundIs DEF PromiseKept, Subscribed
  <2>6. CASE r = q /\ GetState(q)
    <3>1. /\ conn[r].at = "getState" /\ conn'[r].at = "answer"
          /\ conn'[r].closed = conn[r].closed /\ conn'[r].inTime = conn[r].inTime
          /\ conn'[r].alone = conn[r].alone
      BY <2>6, GetStateIs
    <3> QED BY <1>5, <2>0, <2>1, <3>1 DEF Subscribed
  <2>7. CASE r = q /\ Answer(q)
    <3>1. /\ conn[r].at = "answer" /\ conn'[r].alone = conn[r].alone
          /\ ~conn'[r].closed => ~conn[r].closed /\ conn'[r].inTime = conn[r].inTime
      BY <1>0, <2>7, AnswerIs DEF Requests
    <3> QED BY <1>5, <2>0, <2>1, <3>1 DEF Subscribed
  <2>8. CASE r = q /\ Cleaning(q)
    <3>1. conn'[r].closed
      BY <2>8, CleanUpIs DEF Cleaning
    <3> QED BY <3>1 DEF PromiseKept, Subscribed
  <2> QED BY <1>9, <2>2, <2>3, <2>4, <2>5, <2>6, <2>7, <2>8 DEF HandlerStep
<1>10. CASE Unseen
  BY <1>2, <1>5, <1>10 DEF Unseen, Subscribed, jobVars
<1>11. CASE Relinking
  <2>1. Same(conn[r], conn'[r])
    BY <1>11 DEF Relinking
  <2> QED BY <1>2, <1>5, <1>11, <2>1 DEF Relinking, Subscribed, Same, jobVars
<1> QED BY <1>3, <1>4, <1>6, <1>7, <1>8, <1>9, <1>10, <1>11, StepCases

-----------------------------------------------------------------------------
(* The invariant, and what follows from it.                                *)

LEMMA StreamInvInit == Init => StreamInv
<1> SUFFICES ASSUME Init PROVE StreamInv
  OBVIOUS
<1>1. JobTypeOK
  BY LifecycleAssumption DEF Init, JobInit, JobTypeOK, Phases, Words, Events
<1>2. StreamTypeOK
  <2>1. 0 \in 0..MaxDrops
    BY StreamAssumption
  <2> QED BY <2>1, NoRequestType, EmptySeq DEF Init, StreamTypeOK
<1>3. SettledAsSaid
  BY DEF Init, JobInit, SettledAsSaid, Settled
<1>4. VerdictsStand
  <2>1. inbox = <<>> /\ conn = [r \in Request |-> NoRequest]
    BY DEF Init
  <2>2. \A r \in Request : conn[r].at = "returned" /\ conn[r].verdict = "none"
    BY <2>1 DEF NoRequest
  <2> QED BY <2>1, <2>2 DEF VerdictsStand, VerdictIsTrue
<1>5. RequestsAreSound /\ WireIsAwaited /\ LoneIsAlone /\ SubscribedIsKept
  <2>1. wire = <<>> /\ conn = [r \in Request |-> NoRequest]
    BY DEF Init
  <2>2. \A r \in Request : /\ conn[r].at = "returned" /\ conn[r].verdict = "none"
                           /\ conn[r].closed /\ ~conn[r].unsubscribe /\ ~conn[r].alone
    BY <2>1 DEF NoRequest
  <2> QED
    BY <2>1, <2>2 DEF RequestsAreSound, WireIsAwaited, LoneIsAlone, SubscribedIsKept, Subscribed
<1> QED BY <1>1, <1>2, <1>3, <1>4, <1>5 DEF StreamInv

\* StreamInv: the types, the verdicts on their way, and the commands on the wire
\* agree with the requests in every reachable state, however many of them a page
\* has in flight; and a request that has its channel to itself is subscribed to it.
THEOREM StreamInvHolds == Spec => []StreamInv
<1>1. StreamInv /\ [Next]_vars => StreamInv'
  <2> SUFFICES ASSUME StreamInv, [Next]_vars PROVE StreamInv'
    OBVIOUS
  <2>1. JobTypeOK' /\ StreamTypeOK'
    BY StreamTypeStep DEF StreamInv
  <2>2. SettledAsSaid'
    <3>1. CASE \E j \in Job : JobPublishes(j) \/ JobMoves(j)
      BY <3>1, SettledAsSaidStep DEF StreamInv, JobPublishes, JobMoves, JobStep
    <3>2. CASE UNCHANGED jobVars
      BY <3>2 DEF StreamInv, SettledAsSaid, jobVars
    <3> QED BY <3>1, <3>2, StepCases, JobsAlone DEF StreamInv
  <2>3. VerdictsStand'
    BY VerdictsStandStep DEF StreamInv
  <2>4. RequestsAreSound'
    BY RequestsAreSoundStep DEF StreamInv
  <2>5. WireIsAwaited'
    BY WireIsAwaitedStep DEF StreamInv
  <2>6. LoneIsAlone'
    BY LoneIsAloneStep DEF StreamInv
  <2>7. SubscribedIsKept'
    BY SubscribedIsKeptStep DEF StreamInv
  <2> QED BY <2>1, <2>2, <2>3, <2>4, <2>5, <2>6, <2>7 DEF StreamInv
<1> QED BY StreamInvInit, <1>1, PTL DEF Spec

\* StreamTypeOK: requests, commands and messages keep the shape the handler
\* and the subscriber give them.
THEOREM StreamTypes == Spec => []StreamTypeOK
<1>1. StreamInv => StreamTypeOK
  BY DEF StreamInv
<1> QED BY StreamInvHolds, <1>1, PTL

\* VerdictIsTrue: unless a run of the job was lost with its process, a response
\* that tells a verdict, by event or by snapshot, tells the one its job has announced
\* and the queue records; jobs, other requests, drops and restarts do not matter.
THEOREM ToldVerdictsAreTrue == Spec => []VerdictIsTrue
<1>1. StreamInv => VerdictIsTrue
  BY DEF StreamInv, VerdictsStand
<1> QED BY StreamInvHolds, <1>1, PTL

\* VerdictReachesEarlyWatcher: a request that is subscribed before the verdict is
\* announced, and beside which no other request is on its channel, has the verdict on
\* its way as long as it is open.  Nothing is assumed of the requests of other channels,
\* nor of those before it; the stream_deaf run shows a page with two in flight.
THEOREM EarlyWatchersAreTold == Spec => []VerdictReachesEarlyWatcher
<1>1. StreamInv => VerdictReachesEarlyWatcher
  BY DEF StreamInv, SubscribedIsKept, Subscribed, Open, Due, VerdictReachesEarlyWatcher
<1> QED BY StreamInvHolds, <1>1, PTL

\* LoneRequestIsSubscribed: what events.ts says of every watcher is true of a request
\* beside which no other is on the channel; the stream_deaf run shows two that share it.
THEOREM LoneRequestsAreSubscribed == Spec => []LoneRequestIsSubscribed
<1>1. StreamInv => LoneRequestIsSubscribed
  BY DEF StreamInv, SubscribedIsKept, Subscribed, Open, LoneRequestIsSubscribed
<1> QED BY StreamInvHolds, <1>1, PTL

\* VerdictIsLast: cleanup() lets nothing through to a response that has told the
\* verdict; only a new request, or a new process, writes to that page again.
THEOREM NothingFollowsAVerdict == Spec => VerdictIsLast
<1> DEFINE StaysLast(r) == conn[r].verdict # "none" /\ conn[r].at = "returned"
                        => \/ conn'[r].sent = conn[r].sent
                           \/ conn'[r].at # "returned" \/ server' = "down"
<1>1. StreamInv /\ [Next]_vars => \A r \in Request : StaysLast(r)
  <2> SUFFICES ASSUME StreamInv, [Next]_vars, NEW r \in Request,
                      conn[r].verdict # "none", conn[r].at = "returned",
                      conn'[r].at = "returned", server' # "down"
               PROVE  conn'[r].sent = conn[r].sent
    OBVIOUS
  <2>0. JobTypeOK /\ StreamTypeOK /\ conn[r].closed
    BY DEF StreamInv, RequestsAreSound
  <2>1. CASE Redis
    <3>1. r = wire[1].by => conn'[r].sent = conn[r].sent
      BY <2>0, <2>1, RedisIs
    <3>2. r # wire[1].by => conn'[r] = conn[r]
      BY <2>0, <2>1, RedisIs
    <3> QED BY <3>1, <3>2
  <2>2. CASE Deliver
    <3>1. ~Hears(r, inbox[1])
      BY <2>0 DEF Hears
    <3> QED BY <2>0, <2>2, <3>1, DeliverIs
  <2>3. ASSUME NEW q \in Request, Ask(q) \/ HandlerStep(q) \/ Cleaning(q)
        PROVE  conn'[r].sent = conn[r].sent
    <3>1. CASE q # r
      BY <2>0, <2>3, <3>1, OtherRequests DEF Same
    <3>2. CASE q = r
      <4>1. ~Ask(r)
        BY <2>0, AskIs
      <4>2. ~HandlerStep(r)
        BY DEF HandlerStep, Connect, NotFound, GetState, Answer
      <4>3. Cleaning(r) => conn'[r].sent = conn[r].sent
        BY <2>0, CleanUpIs DEF Cleaning
      <4> QED BY <2>3, <3>2, <4>1, <4>2, <4>3
    <3> QED BY <3>1, <3>2
  <2>4. ~Gone
    BY DEF Gone
  <2>5. CASE Relinking
    BY <2>5 DEF Relinking, Same
  <2>6. CASE UNCHANGED conn
    BY <2>6
  <2> QED
    BY <2>0, <2>1, <2>2, <2>3, <2>4, <2>5, <2>6, StepCases
       DEF JobPublishes, JobMoves, streamVars, Unseen
<1>2. StreamInv /\ [Next]_vars => [\A r \in Request : StaysLast(r)]_vars
  BY <1>1
<1>3. VerdictIsLast <=> [][\A r \in Request : StaysLast(r)]_vars
  BY PTL DEF VerdictIsLast
<1> QED BY StreamInvHolds, <1>2, <1>3, PTL DEF Spec
=============================================================================
