----------------------------- MODULE EventStream -----------------------------
(***************************************************************************)
(* GET /jobs/:id/events (src/jobs/sse.ts) and the subscription it uses     *)
(* (src/jobs/events.ts), over the jobs of JobLifecycle.                    *)
(*                                                                         *)
(* One API process serves every watcher through one Redis connection in    *)
(* subscriber mode: commands leave it in order (wire), messages arrive on  *)
(* it in order (inbox), and Redis knows only whether the connection is     *)
(* subscribed to a channel, not on whose behalf.  A watcher is a browser   *)
(* page.  It asks again as soon as the connection of its last request is   *)
(* gone and no verdict was told; the server may not have noticed yet, and  *)
(* then the page has several requests in flight, one of which it hears.    *)
(***************************************************************************)
EXTENDS JobLifecycle, Sequences, FiniteSetsExt, SequencesExt

CONSTANTS Watcher,      \* the pages watching
          Watches,      \* the job each of them watches
          Request,      \* the requests that can be in flight at once
          By,           \* the page each of them is made by
          MaxInFlight,  \* bound: messages on their way to the API process
          MaxDrops      \* bound: connections dropped and API processes gone

ASSUME StreamAssumption == /\ Watches \in [Watcher -> Job]
                           /\ IsFiniteSet(Request)
                           /\ By \in [Request -> Watcher]
                           /\ MaxInFlight \in Nat \ {0}
                           /\ MaxDrops \in Nat

VARIABLES
  client,      \* each page: "watching", "told" (a verdict), "gone"
  conn,        \* the requests, as their handlers see them
  wire,        \* commands the API process has sent on the subscriber
  subscribed,  \* Redis: is the connection subscribed to the job's channel?
  inbox,       \* messages Redis has sent to the connection
  server,      \* the API process (src/server.ts): "up", "closing" or "down"
  drops        \* what has been dropped so far

streamVars == <<client, conn, wire, subscribed, inbox, server, drops>>
vars == <<jobVars, streamVars>>

\* The job whose channel a request subscribes to.
Topic(r) == Watches[By[r]]

\* The awaits of the handler, in order; "returned" when it has run to its end.
Awaits == {"getJob", "subscribe", "getState", "answer", "returned"}

\* at: where the handler is.  closed, unsubscribe: its variables of that name
\* (unsubscribe: is it assigned?).  listening: its listener is on the
\* subscriber.  ended: res.end() was called.  link: the connection, "cut" when
\* the page has lost it or left, "missed" when the server was told of that
\* before it listened.  seen: the percentage and the result in the job fetched
\* first.  state: what getState said.  sent: the last event written, result:
\* whether it carries the job's result (an event of the worker's does).
\* verdict: the last one it told.
\* inTime: it was subscribed, still open, before the run announced its verdict.
\* alone: no other request was on the channel when it came, and none has come
\* since.
NoJob == [progress |-> 0, result |-> FALSE]
NoRequest == [at |-> "returned", closed |-> TRUE, unsubscribe |-> FALSE,
              listening |-> FALSE, ended |-> TRUE, link |-> "cut",
              seen |-> NoJob, state |-> "new",
              sent |-> NoEvent, result |-> FALSE, verdict |-> "none",
              inTime |-> FALSE, alone |-> FALSE]

Queued(p) == [state |-> "queued", progress |-> p]
StreamEvents == Events \cup {Queued(p) : p \in Percent \cup {0}}

Requests == [at : Awaits, closed : BOOLEAN, unsubscribe : BOOLEAN,
             listening : BOOLEAN, ended : BOOLEAN, link : {"up", "cut", "missed"},
             seen : [progress : Percent \cup {0}, result : BOOLEAN],
             state : Phases, sent : StreamEvents, result : BOOLEAN,
             verdict : Settled \cup {"none"}, inTime : BOOLEAN, alone : BOOLEAN]
Commands == [op : {"subscribe", "unsubscribe"}, by : Request]
Messages == [job : Job, event : Events]

StreamTypeOK == /\ client \in [Watcher -> {"watching", "told", "gone"}]
                /\ conn \in [Request -> Requests]
                /\ wire \in Seq(Commands)
                /\ subscribed \in [Job -> BOOLEAN]
                /\ inbox \in Seq(Messages)
                /\ server \in {"up", "closing", "down"}
                /\ drops \in 0..MaxDrops

Init == /\ JobInit
        /\ client = [w \in Watcher |-> "watching"]
        /\ conn = [r \in Request |-> NoRequest]
        /\ wire = <<>>
        /\ subscribed = [j \in Job |-> FALSE]
        /\ inbox = <<>>
        /\ server = "up"
        /\ drops = 0

-----------------------------------------------------------------------------
(* The vocabulary of the actions: what happens to one request.             *)

Terminal(e) == e.state \in Settled

\* writeEvent.
Written(c, e, result) == [c EXCEPT !.sent = e,
                                   !.verdict = IF Terminal(e) THEN e.state ELSE @,
                                   !.result = result /\ e.state = "completed"]

\* cleanup(), up to its await: closed first, then the listener goes if its
\* subscription is known, else the response ends at once.
CleanedUp(c) == IF c.closed THEN c
                ELSE [c EXCEPT !.closed = TRUE,
                               !.listening = @ /\ ~c.unsubscribe,
                               !.ended = ~c.unsubscribe]

\* The command cleanup() sends, given the request before it.
Unsubscribe(r) == [op |-> "unsubscribe", by |-> r]
CleanupCommands(r) == IF ~conn[r].closed /\ conn[r].unsubscribe
                        THEN <<Unsubscribe(r)>> ELSE <<>>

CleanUp(r) == /\ conn' = [conn EXCEPT ![r] = CleanedUp(@)]
              /\ wire' = wire \o CleanupCommands(r)

\* The page hears this request's response; a verdict makes it close its side.
Heeds(r) == conn[r].link = "up" /\ ~conn[r].ended
HearsVerdict(r, e) == Terminal(e) /\ Heeds(r)

AtRest(r) == conn[r].at = "returned" /\ conn[r].ended

\* A request is open when its handler is done and nothing has cleaned it up.
Open(r) == conn[r].at = "returned" /\ ~conn[r].closed

SameTopic(r) == {q \in Request : Topic(q) = Topic(r)}

-----------------------------------------------------------------------------
(* The jobs, and Redis pub/sub.                                            *)

\* A message goes to the connection if it is subscribed when it is published.
JobPublishes(j) ==
    /\ Len(inbox) < MaxInFlight
    /\ Publication(j)
    /\ inbox' = IF subscribed[j] THEN Append(inbox, [job |-> j, event |-> event'[j]])
                ELSE inbox
    /\ UNCHANGED <<client, conn, wire, subscribed, server, drops>>

JobMoves(j) == SilentStep(j) /\ UNCHANGED streamVars

\* Redis executes the next command; its reply resumes whoever awaits it.
Redis ==
    /\ wire # <<>>
    /\ LET r == Head(wire).by
           subscribes == Head(wire).op = "subscribe"
       IN  /\ subscribed' = [subscribed EXCEPT ![Topic(r)] = subscribes]
           /\ conn' = [conn EXCEPT ![r] =
                IF subscribes
                  THEN [@ EXCEPT !.at = "getState", !.unsubscribe = TRUE,
                                 !.inTime = ~conn[r].closed /\ said[Topic(r)] \notin Settled]
                  ELSE [@ EXCEPT !.ended = TRUE]]
    /\ wire' = Tail(wire)
    /\ UNCHANGED <<jobVars, client, inbox, server, drops>>

-----------------------------------------------------------------------------
(* The handler.                                                            *)

\* The page asks: first when POST /jobs has named the job, and again when it has
\* lost the connection of its last request or seen that response end.  What is
\* left of the last request stays; the new one takes the place of one at rest,
\* whichever.
Ask(r) ==
    /\ server = "up" /\ client[By[r]] = "watching" /\ phase[Topic(r)] # "new"
    /\ \A q \in Request : By[q] = By[r] => ~Heeds(q)
    /\ AtRest(r) /\ r = CHOOSE q \in Request : By[q] = By[r] /\ AtRest(q)
    /\ LET others == SameTopic(r) \ {r}
       IN  conn' = [q \in Request |->
             IF q = r
               THEN [NoRequest EXCEPT !.at = "getJob", !.closed = FALSE,
                                      !.ended = FALSE, !.link = "up",
                                      !.alone = \A o \in others : AtRest(o)]
             ELSE IF q \in others THEN [conn[q] EXCEPT !.alone = FALSE]
             ELSE conn[q]]
    /\ UNCHANGED <<jobVars, client, wire, subscribed, inbox, server, drops>>

\* Mutant: the state is asked for without waiting for the subscription.
ConnectAtOnce(r) ==
    /\ conn[r].at = "getJob"
    /\ phase[Topic(r)] # "removed"
    /\ conn' = [conn EXCEPT ![r].at = "getState", ![r].listening = TRUE,
                            ![r].unsubscribe = TRUE]
    /\ wire' = Append(wire, [op |-> "subscribe", by |-> r])
    /\ UNCHANGED <<jobVars, client, subscribed, inbox, server, drops>>

\* getJob found the job: headers, timers, the 'close' listener and the
\* subscriber's, and SUBSCRIBE is sent.
Connect(r) ==
    /\ conn[r].at = "getJob"
    /\ phase[Topic(r)] # "removed"
    /\ conn' = [conn EXCEPT ![r].at = "subscribe", ![r].listening = TRUE,
                            ![r].seen = [progress |-> progress[Topic(r)],
                                         result |-> phase[Topic(r)] = "completed"]]
    /\ wire' = Append(wire, [op |-> "subscribe", by |-> r])
    /\ UNCHANGED <<jobVars, client, subscribed, inbox, server, drops>>

\* getJob found nothing: 404, and the page, if it is still there, gives up.
NotFound(r) ==
    /\ conn[r].at = "getJob"
    /\ phase[Topic(r)] = "removed"
    /\ conn' = [conn EXCEPT ![r].at = "returned", ![r].closed = TRUE, ![r].ended = TRUE]
    /\ client' = [client EXCEPT ![By[r]] =
                    IF conn[r].link = "up" THEN "gone" ELSE @]
    /\ UNCHANGED <<jobVars, wire, subscribed, inbox, server, drops>>

\* getState reads the job's state now; the job fetched first stays as it was.
GetState(r) == /\ conn[r].at = "getState"
               /\ conn' = [conn EXCEPT ![r].at = "answer",
                                       ![r].state = phase[Topic(r)]]
               /\ UNCHANGED <<jobVars, client, wire, subscribed, inbox, server, drops>>

\* Mutants: the queue's own state is sent, or what is not known has failed.
SnapshotOfQueue(c) == IF c.state \in Settled THEN Final(c.state)
                      ELSE [state |-> c.state, progress |-> c.seen.progress]
SnapshotElseFailed(c) == CASE c.state = "completed" -> Final("completed")
                           [] c.state = "processing" -> Processing(c.seen.progress)
                           [] c.state = "queued" -> Queued(c.seen.progress)
                           [] OTHER -> Final("failed")

\* The event for that state; retrying and unknown count as queued.
Snapshot(c) == CASE c.state \in Settled -> Final(c.state)
                 [] c.state = "processing" -> Processing(c.seen.progress)
                 [] OTHER -> Queued(c.seen.progress)

\* The snapshot is written, whatever happened meanwhile; a settled one closes.
\* The handler returns, and its job and state are forgotten.
Answer(r) ==
    /\ conn[r].at = "answer"
    /\ LET e == Snapshot(conn[r])
           answered == [Written(conn[r], e, conn[r].seen.result)
                          EXCEPT !.at = "returned", !.seen = NoJob, !.state = "new"]
       IN  /\ conn' = [conn EXCEPT ![r] = IF Terminal(e) THEN CleanedUp(answered)
                                          ELSE answered]
           /\ wire' = IF Terminal(e) THEN wire \o CleanupCommands(r) ELSE wire
           /\ client' = [client EXCEPT ![By[r]] =
                           IF HearsVerdict(r, e) THEN "told" ELSE @]
    /\ UNCHANGED <<jobVars, subscribed, inbox, server, drops>>

\* Mutant: the listener is added once the snapshot is written.
HearsOnceOpen(r, m) == conn[r].listening /\ Open(r) /\ Topic(r) = m.job

\* The 'message' event calls every listener of the channel: an open request
\* writes the event, and a verdict cleans it up.
Hears(r, m) == conn[r].listening /\ ~conn[r].closed /\ Topic(r) = m.job

\* Mutant: a verdict leaves the response open.
HeardOnly(c, e) == Written(c, e, Terminal(e))

Heard(c, e) == IF Terminal(e) THEN CleanedUp(Written(c, e, TRUE)) ELSE Written(c, e, FALSE)

Deliver ==
    /\ inbox # <<>>
    /\ LET m == Head(inbox)
           hearers == {r \in Request : Hears(r, m)}
           leaving == {r \in hearers : Terminal(m.event) /\ conn[r].unsubscribe}
           told == {By[r] : r \in {q \in hearers : HearsVerdict(q, m.event)}}
       IN  /\ conn' = [r \in Request |-> IF r \in hearers THEN Heard(conn[r], m.event)
                                         ELSE conn[r]]
           /\ wire' = wire \o SetToSeq({Unsubscribe(r) : r \in leaving})
           /\ client' = [w \in Watcher |-> IF w \in told THEN "told" ELSE client[w]]
    /\ inbox' = Tail(inbox)
    /\ UNCHANGED <<jobVars, subscribed, server, drops>>

\* Mutant: the timer is never set.
TimeoutNever(r) == FALSE

\* MAX_CONNECTION_MS is over; it is far longer than the handler's awaits.
Timeout(r) == /\ Open(r)
              /\ CleanUp(r)
              /\ UNCHANGED <<jobVars, client, subscribed, inbox, server, drops>>

\* The network drops the connection.  The page's end knows, and will ask again.
Drop(r) == /\ Heeds(r)
           /\ drops < MaxDrops
           /\ drops' = drops + 1
           /\ conn' = [conn EXCEPT ![r].link = "cut"]
           /\ UNCHANGED <<jobVars, client, wire, subscribed, inbox, server>>

\* 'close' at the server's end, if it ever comes: the listener is there from
\* the moment the job was found.
HangUp(r) == /\ conn[r].link = "cut" /\ conn[r].at # "getJob" /\ ~conn[r].closed
             /\ CleanUp(r)
             /\ UNCHANGED <<jobVars, client, subscribed, inbox, server, drops>>

\* 'close' while the handler awaits getJob is heard by nobody.
HangUpUnheard(r) == /\ conn[r].link = "cut" /\ conn[r].at = "getJob"
                    /\ conn' = [conn EXCEPT ![r].link = "missed"]
                    /\ UNCHANGED <<jobVars, client, wire, subscribed, inbox, server, drops>>

\* The page is closed, and its end of the connection with it.
Leave(w) == /\ client[w] = "watching"
            /\ client' = [client EXCEPT ![w] = "gone"]
            /\ conn' = [r \in Request |-> IF By[r] = w /\ Heeds(r)
                                          THEN [conn[r] EXCEPT !.link = "cut"]
                                          ELSE conn[r]]
            /\ UNCHANGED <<jobVars, wire, subscribed, inbox, server, drops>>

-----------------------------------------------------------------------------
(* The API process.                                                        *)

\* shutdown(): the server takes no request any more, and lets those it has
\* come to an end.
Shutdown == /\ server = "up" /\ drops < MaxDrops
            /\ server' = "closing"
            /\ drops' = drops + 1
            /\ UNCHANGED <<jobVars, client, conn, wire, subscribed, inbox>>

\* The process is gone, and with it its connections and its subscriptions.
Gone == /\ server' = "down"
        /\ conn' = [r \in Request |-> NoRequest]
        /\ wire' = <<>> /\ inbox' = <<>>
        /\ subscribed' = [j \in Job |-> FALSE]
        /\ UNCHANGED <<jobVars, client>>

\* server.close calls back when the last response has ended; until then the
\* deadline may pass.
Closed == server = "closing" /\ (\A r \in Request : conn[r].ended) /\ Gone /\ UNCHANGED drops
ForceExit == server = "closing" /\ Gone /\ UNCHANGED drops

Crash == server = "up" /\ drops < MaxDrops /\ Gone /\ drops' = drops + 1

\* The container is started again.
Start == /\ server = "down"
         /\ server' = "up"
         /\ UNCHANGED <<jobVars, client, conn, wire, subscribed, inbox, drops>>

-----------------------------------------------------------------------------
Asks(w) == \E r \in Request : By[r] = w /\ Ask(r)
HandlerStep(r) == Connect(r) \/ NotFound(r) \/ GetState(r) \/ Answer(r)
HangsUp(r) == HangUp(r) \/ HangUpUnheard(r)

Next == \/ \E j \in Job : JobPublishes(j) \/ JobMoves(j)
        \/ Redis \/ Deliver
        \/ \E r \in Request : HandlerStep(r) \/ Timeout(r) \/ Drop(r) \/ HangsUp(r)
        \/ \E w \in Watcher : Asks(w) \/ Leave(w)
        \/ Shutdown \/ Closed \/ ForceExit \/ Crash \/ Start

Spec == Init /\ [][Next]_vars

\* Redis answers, messages arrive, handlers resume, the timers fire, the API
\* is started again and the browser reconnects.  Nothing is assumed of the jobs,
\* of the people, or of when a server notices that a connection is gone.
Fairness == /\ WF_vars(Redis)
            /\ WF_vars(Deliver)
            /\ WF_vars(ForceExit) /\ WF_vars(Start)
            /\ \A r \in Request : WF_vars(HandlerStep(r)) /\ WF_vars(Timeout(r))
            /\ \A w \in Watcher : WF_vars(Asks(w))

FairSpec == Spec /\ Fairness

-----------------------------------------------------------------------------
(* What watching a job promises.                                           *)

\* If no run of the job is lost, v is its verdict: announced, and recorded then,
\* or never contradicted.
VerdictStands(j, v) == ~lost[j] => said[j] = v /\ phase[j] \in {"processing", v, "removed"}

\* A verdict that was told, by whichever request and in whichever way, is the one
\* the job announced and the queue records, unless a run of the job was lost.
VerdictIsTrue ==
    \A r \in Request : conn[r].verdict # "none" => VerdictStands(Topic(r), conn[r].verdict)

OnItsWay(r) == \E i \in 1..Len(inbox) :
                 inbox[i] = [job |-> Topic(r), event |-> Final(said[Topic(r)])]

\* The verdict is out, and this request was subscribed in time to hear it.
Due(r) == Open(r) /\ conn[r].inTime /\ said[Topic(r)] \in Settled /\ ~lost[Topic(r)]

\* Subscribing before asking for the state leaves no gap for those who come
\* before the announcement: a request that has had its channel to itself is told
\* the verdict, or will be.
VerdictReachesEarlyWatcher ==
    \A r \in Request : Due(r) /\ conn[r].alone => OnItsWay(r)

\* As long as it is open, such a request is subscribed to its channel.
LoneRequestIsSubscribed ==
    \A r \in Request : Open(r) /\ conn[r].alone => subscribed[Topic(r)]

\* A verdict is the last event of its response: only the handler's own snapshot,
\* when it is still to be written, can follow.
VerdictIsLast ==
    [][\A r \in Request : conn[r].verdict # "none" /\ conn[r].at = "returned"
                             => \/ conn'[r].sent = conn[r].sent
                                \/ conn'[r].at # "returned" \/ server' = "down"]_vars

\* A page that keeps watching a settled job learns its verdict, by whatever
\* of message, snapshot and reconnection works, unless the job is removed.
SettledJobIsTold ==
    \A w \in Watcher : client[w] = "watching" /\ phase[Watches[w]] \in Settled
                         ~> client[w] # "watching" \/ phase[Watches[w]] = "removed"

-----------------------------------------------------------------------------
(* Why it holds: the inductive invariant behind these properties.          *)

SettledAsSaid == \A j \in Job : phase[j] \in Settled /\ ~lost[j] => said[j] = phase[j]

\* Wherever a verdict is on its way to a page, it stands.
VerdictsStand ==
    /\ \A i \in 1..Len(inbox) :
         Terminal(inbox[i].event) => VerdictStands(inbox[i].job, inbox[i].event.state)
    /\ \A r \in Request : conn[r].at = "answer" /\ conn[r].state \in Settled
                             => VerdictStands(Topic(r), conn[r].state)
    /\ VerdictIsTrue

\* From the moment the job was found a request listens until it is cleaned up,
\* which a verdict does at once; what it waits to be subscribed to it does not
\* know how to leave.
RequestsAreSound ==
    \A r \in Request : /\ conn[r].verdict # "none" => conn[r].closed
                       /\ conn[r].ended => conn[r].closed
                       /\ ~conn[r].closed /\ conn[r].at # "getJob" => conn[r].listening
                       /\ conn[r].at \in {"getJob", "subscribe"} => ~conn[r].unsubscribe
                       /\ conn[r].at = "getJob" => ~conn[r].closed /\ ~conn[r].listening

\* A request has one command on the wire at most, the one it awaits.
WireIsAwaited ==
    /\ \A i \in 1..Len(wire) :
         /\ wire[i].op = "subscribe" => conn[wire[i].by].at = "subscribe"
         /\ wire[i].op = "unsubscribe" => /\ conn[wire[i].by].at \notin {"getJob", "subscribe"}
                                          /\ conn[wire[i].by].closed
                                          /\ ~conn[wire[i].by].ended
    /\ \A i, k \in 1..Len(wire) : wire[i].by = wire[k].by => i = k

\* Nothing is in flight beside a request that has its channel to itself.
LoneIsAlone == \A r \in Request : conn[r].alone => \A q \in SameTopic(r) \ {r} : AtRest(q)

\* What the subscriber's reply promised it holds until it is cleaned up.
Subscribed(r) == conn[r].at \notin {"getJob", "subscribe"} /\ ~conn[r].closed

SubscribedIsKept ==
    \A r \in Request : Subscribed(r) /\ conn[r].alone
      => /\ subscribed[Topic(r)]
         /\ conn[r].inTime /\ said[Topic(r)] \in Settled /\ ~lost[Topic(r)] => OnItsWay(r)

StreamInv == /\ JobTypeOK
             /\ StreamTypeOK
             /\ SettledAsSaid
             /\ VerdictsStand
             /\ RequestsAreSound
             /\ WireIsAwaited
             /\ LoneIsAlone
             /\ SubscribedIsKept

-----------------------------------------------------------------------------
(* What the comments and docs say.                                         *)

\* events.ts:12-14: who is connected gets every update after its snapshot, so a
\* page that was subscribed in time, and still listens, is told the verdict or
\* will be, whoever else watches the job or has watched it.
NoVerdictIsMissed == \A r \in Request : Due(r) /\ Heeds(r) => OnItsWay(r)

\* README.md:172: the outputs come back in the result of a completed job.
CompletedCarriesResult ==
    \A r \in Request : conn[r].sent.state = "completed" => conn[r].result
=============================================================================
