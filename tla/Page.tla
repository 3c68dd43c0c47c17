-------------------------------- MODULE Page --------------------------------
(***************************************************************************)
(* The browser page (src/frontend/src): App's state and handlers, the hook *)
(* useJobProgress, the operation picker and the card with the links.       *)
(*                                                                         *)
(* A React component's state is a variable; a handler changes it up to the *)
(* next await, and goes on in an action of its own when the answer is      *)
(* there.  An effect runs some time after the change it depends on, and    *)
(* messages and answers may come in between.  The server is reduced to     *)
(* what EventStream and JobWorker show of it: a job settles, its stream    *)
(* may say anything but a verdict that is not the job's, and tells the     *)
(* verdict to who keeps listening.                                         *)
(***************************************************************************)
EXTENDS Integers, SequencesExt

CONSTANTS File,      \* the files the user has
          Kind,      \* the kind each file's MIME type says it is
          MaxJobs    \* bound: jobs the user asks for

NoFile == "none"

ASSUME PageAssumption == /\ NoFile \notin File
                         /\ Kind \in [File -> {"image", "csv"}]
                         /\ MaxJobs \in Nat

VARIABLES
  \* App
  upload,     \* the file shown, as the server has it
  uploading,  \* the file on its way to the server
  posts,      \* the createJob calls under way: file and operation
  jobId,      \* the job shown; 0 is none
  \* DropZone
  choosing,   \* is the file dialog open?
  \* OperationPicker
  picker,     \* the kind it was mounted for and the operation selected
  \* useJobProgress
  watched,    \* the job its effect last ran for
  sources,    \* the jobs with an EventSource that is not closed
  progress,   \* what it shows, and of which job
  \* ResultCard
  card,       \* the outputs its effect last ran for; the job stands for them
  asked,      \* links it has asked for and does not know of
  resolved,   \* the links it shows
  \* the server
  jobs,       \* the jobs created: file, operation and state
  crossed     \* history: was a file dropped while a job was being created?

appVars == <<upload, uploading, choosing, posts, jobId, picker>>
hookVars == <<watched, sources, progress>>
cardVars == <<card, asked, resolved>>
vars == <<appVars, hookVars, cardVars, jobs, crossed>>

OPERATIONS_BY_KIND == [image |-> <<"image.resize", "image.convert", "image.thumbnail">>,
                       csv |-> <<"csv.validate", "csv.transform">>]
Operations(kind) == ToSet(OPERATIONS_BY_KIND[kind])
AllOperations == Operations("image") \cup Operations("csv")

JobIds == 1..MaxJobs
NoPicker == [kind |-> "none", operation |-> "none"]
Verdicts == {"completed", "failed"}

IDLE == [of |-> 0, state |-> "idle", outputs |-> 0, lost |-> FALSE]
running == progress.state \in {"queued", "processing"}

PageTypeOK ==
    /\ upload \in File \cup {NoFile} /\ uploading \in File \cup {NoFile}
    /\ choosing \in BOOLEAN
    /\ ToSet(posts) \subseteq [file : File, operation : AllOperations]
    /\ jobId \in 0..Len(jobs) /\ watched \in 0..Len(jobs)
    /\ picker = NoPicker \/ picker.operation \in Operations(picker.kind)
    /\ sources \subseteq JobIds
    /\ progress.state \in {"idle", "queued", "processing"} \cup Verdicts
    /\ progress.outputs \in {0, progress.of} /\ progress.of \in 0..Len(jobs)
    /\ asked \subseteq [of : JobIds, cancelled : BOOLEAN]
    /\ card \in 0..Len(jobs) /\ resolved \in 0..Len(jobs)
    /\ Len(jobs) <= MaxJobs

Init == /\ upload = NoFile /\ uploading = NoFile /\ choosing = FALSE /\ posts = <<>> /\ jobId = 0
        /\ picker = NoPicker
        /\ watched = 0 /\ sources = {} /\ progress = IDLE
        /\ card = 0 /\ asked = {} /\ resolved = 0
        /\ jobs = <<>> /\ crossed = FALSE

\* The user reloads the page, the only way out of one that shows as running a
\* job whose connection was refused for good.
Reload == /\ upload' = NoFile /\ uploading' = NoFile /\ choosing' = FALSE /\ posts' = <<>> /\ jobId' = 0
          /\ picker' = NoPicker
          /\ watched' = 0 /\ sources' = {} /\ progress' = IDLE
          /\ card' = 0 /\ asked' = {} /\ resolved' = 0
          /\ crossed' = FALSE
          /\ UNCHANGED jobs

-----------------------------------------------------------------------------
(* DropZone and App.handleFile.                                            *)

\* Mutant: the previous job stays.
JobAfterDropKept == jobId

\* setJobId(null).
JobAfterDrop == 0

HandleFile(f) ==
    /\ uploading' = f
    /\ jobId' = JobAfterDrop
    /\ crossed' = (crossed \/ posts # <<>>)
    /\ UNCHANGED <<upload, posts, picker, hookVars, cardVars, jobs>>

\* The zone is disabled while a file is uploaded or a job runs.
DropFile(f) == /\ ~choosing /\ uploading = NoFile /\ ~running
               /\ HandleFile(f)
               /\ UNCHANGED choosing

\* A click opens the browser's file dialog, which is modal: the user does
\* nothing else with the page until it is closed, with or without a choice.
\* handleChoose does not ask again whether the zone is disabled, and a job
\* asked for before may have been created and started meanwhile.
OpenDialog == /\ ~choosing /\ uploading = NoFile /\ ~running
              /\ choosing' = TRUE
              /\ UNCHANGED <<upload, uploading, posts, jobId, picker, hookVars, cardVars, jobs, crossed>>

ChooseFile(f) == choosing /\ choosing' = FALSE /\ HandleFile(f)

LeaveDialog == /\ choosing /\ choosing' = FALSE
               /\ UNCHANGED <<upload, uploading, posts, jobId, picker, hookVars, cardVars, jobs, crossed>>

FirstOf(kind) == [kind |-> kind, operation |-> Head(OPERATIONS_BY_KIND[kind])]

\* Mutant: the picker has no key, and keeps what was selected.
PickerKept(f) == IF picker = NoPicker THEN FirstOf(Kind[f]) ELSE [picker EXCEPT !.kind = Kind[f]]

\* The picker under the key of the file's kind: mounted again, with the first
\* operation selected, when the kind is another.
PickerFor(f) == IF picker.kind = Kind[f] THEN picker ELSE FirstOf(Kind[f])

UploadAnswered ==
    /\ uploading # NoFile
    /\ upload' = uploading
    /\ picker' = PickerFor(uploading)
    /\ uploading' = NoFile
    /\ UNCHANGED <<choosing, posts, jobId, hookVars, cardVars, jobs, crossed>>

UploadFails == /\ uploading # NoFile
               /\ upload' = NoFile /\ picker' = NoPicker /\ uploading' = NoFile
               /\ UNCHANGED <<choosing, posts, jobId, hookVars, cardVars, jobs, crossed>>

-----------------------------------------------------------------------------
(* OperationPicker and App.handleRun.                                      *)

Select(op) == /\ ~choosing /\ picker # NoPicker /\ ~running
              /\ op \in Operations(picker.kind)
              /\ picker' = [picker EXCEPT !.operation = op]
              /\ UNCHANGED <<upload, uploading, choosing, posts, jobId, hookVars, cardVars, jobs, crossed>>

\* Run is disabled only once the page knows of a job: it may be clicked twice.
Run == /\ ~choosing /\ picker # NoPicker /\ ~running
       /\ Len(posts) + Len(jobs) < MaxJobs
       /\ posts' = Append(posts, [file |-> upload, operation |-> picker.operation])
       /\ crossed' = (crossed \/ uploading # NoFile)
       /\ UNCHANGED <<upload, uploading, choosing, jobId, picker, hookVars, cardVars, jobs>>

JobCreated(i) ==
    /\ posts' = RemoveAt(posts, i)
    /\ jobs' = Append(jobs, [file |-> posts[i].file, operation |-> posts[i].operation,
                             state |-> "queued"])
    /\ jobId' = Len(jobs')
    /\ UNCHANGED <<upload, uploading, choosing, picker, hookVars, cardVars, crossed>>

JobRefused(i) ==
    /\ posts' = RemoveAt(posts, i)
    /\ UNCHANGED <<upload, uploading, choosing, jobId, picker, hookVars, cardVars, jobs, crossed>>

-----------------------------------------------------------------------------
(* useJobProgress.                                                         *)

\* Mutant: the effect returns no cleanup.
SourcesLeaked == sources \cup ({jobId} \ {0})

\* The cleanup of the last effect, then the EventSource of this one.
SourcesNow == (sources \ {watched}) \cup ({jobId} \ {0})

\* "Start clean".
ProgressNow == IF jobId = 0 THEN IDLE ELSE [IDLE EXCEPT !.of = jobId, !.state = "queued"]

WatchEffect ==
    /\ watched # jobId
    /\ watched' = jobId
    /\ sources' = SourcesNow
    /\ progress' = ProgressNow
    /\ UNCHANGED <<appVars, cardVars, jobs, crossed>>

\* Mutant: the page leaves closing the stream to the server.
ClosesNever(j, state) == sources

\* Mutant: it closes on the first event.
ClosesAtOnce(j, state) == sources \ {j}

\* This side closes on a verdict.
Closes(j, state) == IF state \in Verdicts THEN sources \ {j} ELSE sources

\* onmessage; a verdict is the job's, and may come without its result.
Message(j, state, result) ==
    /\ j \in sources
    /\ state \in Verdicts => jobs[j].state = state
    /\ progress' = [of |-> j, state |-> state, lost |-> FALSE,
                    outputs |-> IF result /\ state = "completed" THEN j ELSE 0]
    /\ sources' = Closes(j, state)
    /\ UNCHANGED <<appVars, watched, cardVars, jobs, crossed>>

Told(j) == j \in sources /\ jobs[j].state \in Verdicts /\ Message(j, jobs[j].state, TRUE)

\* onerror with the source CLOSED: the request was refused, and the browser
\* does not try again.  Any other error it retries by itself.  The hook keeps
\* a message, `lost`, beside a state that stays what it was.
Refused(j) == /\ j \in sources
              /\ sources' = sources \ {j}
              /\ progress' = [progress EXCEPT !.lost = @ \/ progress.state \notin Verdicts]
              /\ UNCHANGED <<appVars, watched, cardVars, jobs, crossed>>

-----------------------------------------------------------------------------
(* ResultCard.                                                             *)

\* Mutant: an effect does not cancel what the one before asked for.
CancelNone(requests) == requests

Cancel(requests) == {[r EXCEPT !.cancelled = TRUE] : r \in requests}

LinksEffect ==
    /\ card # progress.outputs
    /\ card' = progress.outputs
    /\ asked' = Cancel(asked) \cup {[of |-> j, cancelled |-> FALSE] : j \in {card'} \ {0}}
    /\ resolved' = IF card' = 0 THEN 0 ELSE resolved
    /\ UNCHANGED <<appVars, hookVars, jobs, crossed>>

LinksArrive(r) == /\ r \in asked
                  /\ asked' = asked \ {r}
                  /\ resolved' = IF r.cancelled THEN resolved ELSE r.of
                  /\ UNCHANGED <<appVars, hookVars, card, jobs, crossed>>

\* Only the message is shown; links of before stay under it.
LinksFail(r) == /\ r \in asked
                /\ asked' = asked \ {r}
                /\ UNCHANGED <<appVars, hookVars, card, resolved, jobs, crossed>>

-----------------------------------------------------------------------------
\* The job goes on at the server, to a verdict that stays.
JobMoves(j) == /\ j \in DOMAIN jobs /\ jobs[j].state \notin Verdicts
               /\ \E state \in {"processing"} \cup Verdicts :
                    jobs' = [jobs EXCEPT ![j].state = state]
               /\ UNCHANGED <<appVars, hookVars, cardVars, crossed>>

Settles(j) == JobMoves(j) /\ jobs'[j].state \in Verdicts

Next == \/ \E f \in File : DropFile(f) \/ ChooseFile(f)
        \/ OpenDialog \/ LeaveDialog
        \/ Reload
        \/ UploadAnswered \/ UploadFails
        \/ \E op \in AllOperations : Select(op)
        \/ Run
        \/ \E i \in DOMAIN posts : JobCreated(i) \/ JobRefused(i)
        \/ WatchEffect \/ LinksEffect
        \/ \E j \in sources : \/ Refused(j)
                              \/ \E state \in {"queued", "processing"} \cup Verdicts, result \in BOOLEAN :
                                   Message(j, state, result)
        \/ \E r \in asked : LinksArrive(r) \/ LinksFail(r)
        \/ \E j \in JobIds : JobMoves(j)

Spec == Init /\ [][Next]_vars

\* React runs the effects; jobs settle (JobWorker) and a page that keeps its
\* EventSource is told (EventStream).  Nothing is assumed of the user, nor of
\* calls that are answered or not.
Fairness == /\ WF_vars(WatchEffect)
            /\ \A j \in JobIds : WF_vars(Settles(j)) /\ WF_vars(Told(j))

FairSpec == Spec /\ Fairness

-----------------------------------------------------------------------------
(* What the page promises.                                                 *)

\* Once the hook's effect has run for the job shown, the progress shown is that
\* job's and so is the only EventSource left open, however its events and
\* those of the jobs before it overlapped (useJobProgress.ts:4-9).
ProgressIsOfJobShown ==
    watched = jobId => progress.of = jobId /\ sources \subseteq {jobId} \ {0}

\* If no file was dropped while a job was being created, nor a job asked for
\* while a file was being uploaded, the job shown is one of the file shown.
\* Otherwise it need not be, although an upload "resets any previous job"
\* (App.tsx:5-7): the call that was under way sets jobId again.
JobIsOfFileShown == ~crossed /\ jobId # 0 => jobs[jobId].file = upload

\* A job is asked only for what fits the kind of its file, whichever files
\* the user went through before (App.tsx:97-101).
OperationFitsFile ==
    \A p \in ToSet(posts) \cup ToSet(jobs) : p.operation \in Operations(Kind[p.file])

\* Links that arrive are shown only if the card still waits for them: an
\* answer that was overtaken shows nothing (ResultCard.tsx:44-45).
LateLinksAreNotShown == [][resolved' \in {resolved, 0, card'}]_resolved

\* A verdict on screen is neither taken back by a later event of its job nor
\* replaced by the loss of the connection (useJobProgress.ts:69-87).
VerdictStays ==
    [][progress.state \in Verdicts /\ progress'.of = progress.of
         => progress'.state = progress.state /\ ~progress'.lost]_progress

\* A page leaves its job shown as running for ever, with every control disabled,
\* in one case only: its request was refused for good, so that the hook knows
\* and listens no more.  Otherwise it comes to show the verdict, or another job
\* (useJobProgress.ts:69-89).  In that one case it says nothing: ProgressCard
\* renders the hook's message under a failed job only.
OnlyRefusalStrands == running ~> ~running \/ (progress.lost /\ sources = {})

-----------------------------------------------------------------------------
(* Why it holds: the inductive invariant behind these properties.          *)

Requested == [file : File, operation : AllOperations]
Created == [file : File, operation : AllOperations,
            state : {"queued", "processing"} \cup Verdicts]
Shown == [of : Nat, state : {"idle", "queued", "processing"} \cup Verdicts,
          outputs : Nat, lost : BOOLEAN]

Shapes == /\ posts \in Seq(Requested) /\ jobs \in Seq(Created)
          /\ Len(posts) + Len(jobs) <= MaxJobs
          /\ progress \in Shown
          /\ crossed \in BOOLEAN

\* The picker is there when a file is, and offers what fits it.
PickerFits == IF upload = NoFile
                THEN picker = NoPicker
                ELSE /\ picker \in [kind : {"image", "csv"}, operation : AllOperations]
                     /\ picker.kind = Kind[upload]
                     /\ picker.operation \in Operations(picker.kind)

\* What the hook shows and listens to is the job its effect last ran for, and
\* it listens no more once it shows a verdict.
HookFollowsOne == /\ progress.of = watched
                  /\ sources \subseteq {watched} \ {0}
                  /\ progress.state \in Verdicts => watched # 0 /\ sources = {}

\* The links the card still waits for are those of the outputs it was last given.
CardAwaitsItsOwn == \A r \in asked : ~r.cancelled => r.of = card

\* As long as no upload and no job request overlap, requests and job shown are
\* of the file shown, and there are none while a file is uploaded.
NothingCrosses ==
    ~crossed => /\ \A i \in DOMAIN posts : posts[i].file = upload
                /\ uploading # NoFile => jobId = 0 /\ posts = <<>>

PageInv == /\ PageTypeOK
           /\ Shapes
           /\ PickerFits
           /\ HookFollowsOne
           /\ CardAwaitsItsOwn
           /\ OperationFitsFile
           /\ NothingCrosses
           /\ JobIsOfFileShown
=============================================================================
