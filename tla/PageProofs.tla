----------------------------- MODULE PageProofs -----------------------------
(***************************************************************************)
(* Proofs about Page, for every set of files of either kind and any number *)
(* of jobs.                                                                *)
(***************************************************************************)
EXTENDS Page, SequenceTheorems, TLAPS

-----------------------------------------------------------------------------
(* Lists of calls and of jobs.                                             *)

\* What is left of a list when one entry is removed was in it before.
LEMMA RemovedIs ==
  ASSUME NEW S, NEW s \in Seq(S), NEW i \in DOMAIN s
  PROVE  /\ RemoveAt(s, i) \in Seq(S)
         /\ Len(RemoveAt(s, i)) = Len(s) - 1
         /\ \A k \in 1..Len(RemoveAt(s, i)) :
              \E m \in 1..Len(s) : RemoveAt(s, i)[k] = s[m]
<1> DEFINE before == SubSeq(s, 1, i - 1)
           after == SubSeq(s, i + 1, Len(s))
<1>1. Len(s) \in Nat /\ DOMAIN s = 1..Len(s) /\ i \in 1..Len(s)
  BY LenProperties
<1>2. \A k \in 1..Len(s) : s[k] \in S
  BY <1>1, ElementOfSeq
<1>3. /\ before \in Seq(S) /\ Len(before) = i - 1
      /\ \A k \in 1..i - 1 : before[k] = s[k]
  <2>1. \A k \in 1..i - 1 : s[k] \in S
    BY <1>1, <1>2
  <2>2. /\ before \in Seq(S) /\ Len(before) = IF 1 <= i - 1 THEN (i - 1) - 1 + 1 ELSE 0
        /\ \A k \in 1..(i - 1) - 1 + 1 : before[k] = s[1 + k - 1]
    BY <1>1, <2>1, SubSeqProperties
  <2> HIDE DEF before
  <2>3. Len(before) = i - 1 /\ \A k \in 1..i - 1 : k \in 1..(i - 1) - 1 + 1 /\ 1 + k - 1 = k
    BY <1>1, <2>2
  <2> QED BY <2>2, <2>3
<1>4. /\ after \in Seq(S) /\ Len(after) = Len(s) - i
      /\ \A k \in 1..Len(s) - i : after[k] = s[i + k]
  <2>1. \A k \in i + 1..Len(s) : s[k] \in S
    BY <1>1, <1>2
  <2>2. /\ after \in Seq(S)
        /\ Len(after) = IF i + 1 <= Len(s) THEN Len(s) - (i + 1) + 1 ELSE 0
        /\ \A k \in 1..Len(s) - (i + 1) + 1 : after[k] = s[(i + 1) + k - 1]
    BY <1>1, <2>1, SubSeqProperties
  <2> HIDE DEF after
  <2>3. Len(after) = Len(s) - i
    BY <1>1, <2>2
  <2>4. ASSUME NEW k \in 1..Len(s) - i PROVE after[k] = s[i + k]
    <3>1. k \in 1..Len(s) - (i + 1) + 1 /\ (i + 1) + k - 1 = i + k
      BY <1>1
    <3> QED BY <2>2, <3>1
  <2> QED BY <2>2, <2>3, <2>4
<1>5. RemoveAt(s, i) = before \o after
  BY DEF RemoveAt
<1> HIDE DEF before, after
<1>6. /\ before \o after \in Seq(S) /\ Len(before \o after) = Len(s) - 1
      /\ \A k \in 1..Len(s) - 1 : (before \o after)[k] = IF k <= i - 1 THEN s[k] ELSE s[k + 1]
  <2>1. /\ before \o after \in Seq(S) /\ Len(before \o after) = Len(before) + Len(after)
        /\ \A k \in 1..Len(before) + Len(after) :
             (before \o after)[k] = IF k <= Len(before) THEN before[k] ELSE after[k - Len(before)]
    BY <1>3, <1>4, ConcatProperties
  <2>2. Len(before \o after) = Len(s) - 1
    BY <1>1, <1>3, <1>4, <2>1
  <2>3. ASSUME NEW k \in 1..Len(s) - 1
        PROVE  (before \o after)[k] = IF k <= i - 1 THEN s[k] ELSE s[k + 1]
    <3>1. k \in 1..Len(before) + Len(after) /\ Len(before) = i - 1
      BY <1>1, <1>3, <1>4
    <3>2. CASE k <= i - 1
      BY <1>1, <1>3, <2>1, <3>1, <3>2
    <3>3. CASE ~(k <= i - 1)
      <4>1. k - (i - 1) \in 1..Len(s) - i /\ i + (k - (i - 1)) = k + 1
        BY <1>1, <3>3
      <4>2. (before \o after)[k] = after[k - (i - 1)]
        BY <1>1, <2>1, <3>1, <3>3
      <4> QED BY <1>4, <3>3, <4>1, <4>2
    <3> QED BY <3>2, <3>3
  <2> QED BY <2>1, <2>2, <2>3
<1>7. ASSUME NEW k \in 1..Len(s) - 1
      PROVE  \E m \in 1..Len(s) : (before \o after)[k] = s[m]
  <2>1. k \in 1..Len(s) /\ k + 1 \in 1..Len(s)
    BY <1>1
  <2>2. (before \o after)[k] = s[k] \/ (before \o after)[k] = s[k + 1]
    BY <1>6
  <2> QED BY <2>1, <2>2, Zenon
<1> QED BY <1>5, <1>6, <1>7, Zenon

\* The operations of each kind.
LEMMA OperationsAre ==
  /\ Operations("image") = {"image.resize", "image.convert", "image.thumbnail"}
  /\ Operations("csv") = {"csv.validate", "csv.transform"}
  /\ \A kind \in {"image", "csv"} : /\ Operations(kind) \subseteq AllOperations
                                    /\ Head(OPERATIONS_BY_KIND[kind]) \in Operations(kind)
<1>1. ASSUME NEW a, NEW b, NEW c
      PROVE  ToSet(<<a, b, c>>) = {a, b, c} /\ Head(<<a, b, c>>) = a
  BY DEF ToSet
<1>2. ASSUME NEW a, NEW b PROVE ToSet(<<a, b>>) = {a, b} /\ Head(<<a, b>>) = a
  BY DEF ToSet
<1>3. /\ OPERATIONS_BY_KIND["image"] = <<"image.resize", "image.convert", "image.thumbnail">>
      /\ OPERATIONS_BY_KIND["csv"] = <<"csv.validate", "csv.transform">>
  BY DEF OPERATIONS_BY_KIND
<1>4. /\ Operations("image") = {"image.resize", "image.convert", "image.thumbnail"}
      /\ Head(OPERATIONS_BY_KIND["image"]) = "image.resize"
  <2>1. /\ ToSet(<<"image.resize", "image.convert", "image.thumbnail">>)
              = {"image.resize", "image.convert", "image.thumbnail"}
        /\ Head(<<"image.resize", "image.convert", "image.thumbnail">>) = "image.resize"
    BY <1>1
  <2> QED BY <1>3, <2>1 DEF Operations
<1>5. /\ Operations("csv") = {"csv.validate", "csv.transform"}
      /\ Head(OPERATIONS_BY_KIND["csv"]) = "csv.validate"
  BY <1>2, <1>3, Zenon DEF Operations
<1> QED BY <1>4, <1>5 DEF AllOperations

-----------------------------------------------------------------------------
(* The steps of the page by their effect.                                  *)

\* A step of the card's: nothing but the links changes.
CardStep == LinksEffect \/ \E r \in asked : LinksArrive(r) \/ LinksFail(r)

\* A step of the hook's.
HookStep == \/ WatchEffect
            \/ \E j \in sources : \/ Refused(j)
                                  \/ \E state \in {"queued", "processing"} \cup Verdicts,
                                        result \in BOOLEAN : Message(j, state, result)

\* A step of App's, or of its operation picker's.
AppStep == \/ \E f \in File : DropFile(f) \/ ChooseFile(f)
           \/ OpenDialog \/ LeaveDialog
           \/ UploadAnswered \/ UploadFails
           \/ \E op \in AllOperations : Select(op)
           \/ Run
           \/ \E i \in DOMAIN posts : JobCreated(i) \/ JobRefused(i)

LEMMA StepCases ==
  ASSUME [Next]_vars
  PROVE  AppStep \/ HookStep \/ CardStep \/ Reload \/ (\E j \in JobIds : JobMoves(j)) \/ UNCHANGED vars
BY DEF Next, AppStep, HookStep, CardStep

\* Each part of the page leaves the others' state alone.
LEMMA PartsAreSeparate ==
  /\ AppStep => UNCHANGED <<hookVars, cardVars>>
  /\ HookStep => UNCHANGED <<appVars, cardVars, jobs, crossed>>
  /\ CardStep => UNCHANGED <<appVars, hookVars, jobs, crossed>>
  /\ \A j \in JobIds : JobMoves(j) => UNCHANGED <<appVars, hookVars, cardVars, crossed>>
<1>1. AppStep => UNCHANGED <<hookVars, cardVars>>
  BY DEF AppStep, DropFile, ChooseFile, OpenDialog, LeaveDialog, HandleFile,
              UploadAnswered, UploadFails, Select, Run, JobCreated, JobRefused
<1>2. HookStep => UNCHANGED <<appVars, cardVars, jobs, crossed>>
  BY DEF HookStep, WatchEffect, Refused, Message
<1>3. CardStep => UNCHANGED <<appVars, hookVars, jobs, crossed>>
  BY DEF CardStep, LinksEffect, LinksArrive, LinksFail
<1>4. \A j \in JobIds : JobMoves(j) => UNCHANGED <<appVars, hookVars, cardVars, crossed>>
  BY DEF JobMoves
<1> QED BY <1>1, <1>2, <1>3, <1>4

\* A call that is answered makes a job of what was asked.
LEMMA JobCreatedIs ==
  ASSUME PageInv, NEW i \in DOMAIN posts, JobCreated(i)
  PROVE  /\ posts' = RemoveAt(posts, i) /\ posts[i] \in Requested
         /\ jobs' \in Seq(Created) /\ Len(jobs) \in Nat /\ Len(jobs') = Len(jobs) + 1
         /\ \A j \in 1..Len(jobs) : jobs'[j] = jobs[j]
         /\ jobs'[Len(jobs')].file = posts[i].file
         /\ jobs'[Len(jobs')].operation = posts[i].operation
         /\ jobId' = Len(jobs')
<1>1. posts[i] \in Requested /\ jobs \in Seq(Created)
  BY ElementOfSeq, LenProperties DEF PageInv, Shapes
<1> DEFINE job == [file |-> posts[i].file, operation |-> posts[i].operation, state |-> "queued"]
<1>2. job \in Created /\ job.file = posts[i].file /\ job.operation = posts[i].operation
  BY <1>1 DEF Requested, Created
<1>3. /\ posts' = RemoveAt(posts, i) /\ jobs' = Append(jobs, job) /\ jobId' = Len(jobs')
  BY DEF JobCreated
<1> HIDE DEF job
<1>4. /\ jobs' \in Seq(Created) /\ Len(jobs) \in Nat /\ Len(jobs') = Len(jobs) + 1
      /\ \A j \in 1..Len(jobs) : jobs'[j] = jobs[j]
      /\ jobs'[Len(jobs')] = job
  BY <1>1, <1>2, <1>3, AppendProperties, LenProperties
<1> QED BY <1>1, <1>2, <1>3, <1>4

\* The server changes nothing of a job but its state.
LEMMA JobMovesIs ==
  ASSUME PageInv, NEW j \in JobIds, JobMoves(j)
  PROVE  /\ jobs' \in Seq(Created) /\ Len(jobs') = Len(jobs)
         /\ \A k \in 1..Len(jobs) : /\ jobs'[k].file = jobs[k].file
                                    /\ jobs'[k].operation = jobs[k].operation
<1>1. jobs \in Seq(Created) /\ j \in 1..Len(jobs)
  BY LenProperties DEF PageInv, Shapes, JobMoves
<1>2. \A k \in 1..Len(jobs) : jobs[k] \in Created
  BY <1>1, ElementOfSeq
<1>3. PICK state \in {"processing"} \cup Verdicts : jobs' = [jobs EXCEPT ![j].state = state]
  BY DEF JobMoves
<1> DEFINE job == [jobs[j] EXCEPT !.state = state]
<1>4. job \in Created /\ job.file = jobs[j].file /\ job.operation = jobs[j].operation
  BY <1>1, <1>2 DEF Created
<1>5. jobs' = [jobs EXCEPT ![j] = job]
  BY <1>3
<1> HIDE DEF job
<1>6. /\ jobs' \in Seq(Created) /\ Len(jobs') = Len(jobs)
      /\ \A k \in 1..Len(jobs) : jobs'[k] = IF k = j THEN job ELSE jobs[k]
  BY <1>1, <1>4, <1>5, ExceptSeq
<1> QED BY <1>4, <1>6

\* Jobs are never forgotten, and stay jobs of the same file and operation.
LEMMA JobsGrow ==
  ASSUME PageInv, [Next]_vars
  PROVE  /\ Len(jobs) \in Nat /\ Len(jobs') \in Nat /\ Len(jobs) <= Len(jobs')
         /\ \A j \in 1..Len(jobs) : /\ jobs'[j].file = jobs[j].file
                                    /\ jobs'[j].operation = jobs[j].operation
<1>0. Len(jobs) \in Nat
  BY LenProperties DEF PageInv, Shapes
<1>1. ASSUME NEW i \in DOMAIN posts, JobCreated(i)
      PROVE  /\ Len(jobs') \in Nat /\ Len(jobs) <= Len(jobs')
             /\ \A j \in 1..Len(jobs) : jobs'[j] = jobs[j]
  BY <1>1, JobCreatedIs
<1>2. CASE UNCHANGED jobs
  BY <1>0, <1>2
<1>3. CASE \E j \in JobIds : JobMoves(j)
  BY <1>0, <1>3, JobMovesIs
<1>4. AppStep => UNCHANGED jobs \/ \E i \in DOMAIN posts : JobCreated(i)
  BY DEF AppStep, DropFile, ChooseFile, OpenDialog, LeaveDialog, HandleFile,
              UploadAnswered, UploadFails, Select, Run, JobRefused
<1>5. HookStep \/ CardStep \/ Reload \/ UNCHANGED vars => UNCHANGED jobs
  BY PartsAreSeparate DEF Reload, vars
<1> QED BY <1>0, <1>1, <1>2, <1>3, <1>4, <1>5, StepCases
\* A click on Run asks for what the picker offers for the file shown.
LEMMA RunIs ==
  ASSUME PageInv, Run
  PROVE  /\ posts' \in Seq(Requested) /\ Len(posts) \in Nat /\ Len(posts') = Len(posts) + 1
         /\ \A i \in 1..Len(posts) : posts'[i] = posts[i]
         /\ posts'[Len(posts')].file = upload
         /\ posts'[Len(posts')].operation \in Operations(Kind[upload])
<1>1. posts \in Seq(Requested) /\ Len(posts) \in Nat
  BY LenProperties DEF PageInv, Shapes
<1>2. /\ upload \in File /\ picker.operation \in AllOperations
      /\ picker.operation \in Operations(Kind[upload])
  BY DEF Run, PageInv, PickerFits, PageTypeOK
<1> DEFINE p == [file |-> upload, operation |-> picker.operation]
<1>3. /\ p \in Requested /\ p.file = upload
      /\ p.operation \in Operations(Kind[upload])
  BY <1>2 DEF Requested
<1>4. posts' = Append(posts, p)
  BY DEF Run
<1> HIDE DEF p
<1>5. /\ posts' \in Seq(Requested) /\ Len(posts') = Len(posts) + 1
      /\ \A i \in 1..Len(posts) : posts'[i] = posts[i]
      /\ posts'[Len(posts')] = p
  BY <1>1, <1>3, <1>4, AppendProperties
<1> QED BY <1>1, <1>3, <1>5

\* What a step does to the calls under way: one is added, one removed, or none.
LEMMA PostsChange ==
  ASSUME PageInv, [Next]_vars
  PROVE  \/ UNCHANGED <<posts, jobs>> \/ Run \/ Reload
         \/ \E i \in DOMAIN posts : JobCreated(i) \/ JobRefused(i)
         \/ UNCHANGED posts /\ \E j \in JobIds : JobMoves(j)
<1>1. AppStep => \/ UNCHANGED <<posts, jobs>> \/ Run
                 \/ \E i \in DOMAIN posts : JobCreated(i) \/ JobRefused(i)
  BY DEF AppStep, DropFile, ChooseFile, OpenDialog, LeaveDialog, HandleFile,
              UploadAnswered, UploadFails, Select
<1>2. HookStep \/ CardStep \/ UNCHANGED vars => UNCHANGED <<posts, jobs>>
  BY PartsAreSeparate DEF appVars, vars
<1>3. \A j \in JobIds : JobMoves(j) => UNCHANGED posts
  BY PartsAreSeparate DEF appVars
<1> QED BY <1>1, <1>2, <1>3, StepCases

-----------------------------------------------------------------------------
(* Each part of the invariant is preserved.                                *)

LEMMA ShapesStep == PageInv /\ [Next]_vars => Shapes'
<1> SUFFICES ASSUME PageInv, [Next]_vars PROVE Shapes'
  OBVIOUS
<1>0. /\ posts \in Seq(Requested) /\ jobs \in Seq(Created)
      /\ Len(posts) \in Nat /\ Len(jobs) \in Nat /\ Len(posts) + Len(jobs) <= MaxJobs
      /\ progress \in Shown /\ crossed \in BOOLEAN
  BY LenProperties DEF PageInv, Shapes
<1> DEFINE Lists == /\ posts' \in Seq(Requested) /\ jobs' \in Seq(Created)
                    /\ Len(posts') + Len(jobs') <= MaxJobs
<1>1. Lists
  <2>1. CASE UNCHANGED <<posts, jobs>>
    BY <1>0, <2>1
  <2>2. CASE Run
    <3>1. Len(posts) + Len(jobs) < MaxJobs /\ jobs' = jobs
      BY <2>2 DEF Run
    <3>2. posts' \in Seq(Requested) /\ Len(posts') = Len(posts) + 1
      BY <2>2, RunIs
    <3> QED BY <1>0, <3>1, <3>2, PageAssumption
  <2>3. ASSUME NEW i \in DOMAIN posts, JobCreated(i) \/ JobRefused(i) PROVE Lists
    <3>1. posts' = RemoveAt(posts, i)
      BY <2>3 DEF JobCreated, JobRefused
    <3>2. posts' \in Seq(Requested) /\ Len(posts') = Len(posts) - 1
      BY <1>0, <3>1, RemovedIs
    <3>3. CASE JobCreated(i)
      <4>1. jobs' \in Seq(Created) /\ Len(jobs') = Len(jobs) + 1
        BY <3>3, JobCreatedIs
      <4> QED BY <1>0, <3>2, <4>1, PageAssumption
    <3>4. CASE JobRefused(i)
      BY <1>0, <3>2, <3>4, PageAssumption DEF JobRefused
    <3> QED BY <2>3, <3>3, <3>4
  <2>4. CASE Reload
    <3>1. posts' = <<>> /\ jobs' = jobs
      BY <2>4 DEF Reload
    <3>2. posts' \in Seq(Requested) /\ Len(posts') = 0
      BY <3>1, EmptySeq
    <3> QED BY <1>0, <3>1, <3>2, PageAssumption
  <2>5. CASE UNCHANGED posts /\ \E j \in JobIds : JobMoves(j)
    BY <1>0, <2>5, JobMovesIs
  <2> QED BY <2>1, <2>2, <2>3, <2>4, <2>5, PostsChange
<1>2. progress' \in Shown
  <2>1. CASE WatchEffect
    <3>1. jobId \in Nat
      BY <1>0 DEF PageInv, PageTypeOK
    <3> QED BY <2>1, <3>1 DEF WatchEffect, ProgressNow, IDLE, Shown
  <2>2. ASSUME NEW j \in sources, Refused(j) PROVE progress' \in Shown
    <3>1. PICK b \in BOOLEAN : b = (progress.lost \/ progress.state \notin Verdicts)
      BY Zenon
    <3>2. progress' = [progress EXCEPT !.lost = b]
      BY <2>2, <3>1, Zenon DEF Refused
    <3> QED BY <1>0, <3>2 DEF Shown
  <2>3. ASSUME NEW j \in sources, NEW state \in {"queued", "processing"} \cup Verdicts,
               NEW result \in BOOLEAN, Message(j, state, result)
        PROVE  progress' \in Shown
    <3>1. j \in Nat
      BY PageAssumption DEF PageInv, PageTypeOK, JobIds
    <3>2. PICK outputs \in Nat : outputs = IF result /\ state = "completed" THEN j ELSE 0
      BY <3>1
    <3>3. progress' = [of |-> j, state |-> state, lost |-> FALSE, outputs |-> outputs]
      BY <2>3, <3>2, Zenon DEF Message
    <3> QED BY <3>1, <3>3 DEF Shown
  <2>4. CASE Reload
    BY <2>4 DEF Reload, IDLE, Shown
  <2>5. CASE UNCHANGED progress
    BY <1>0, <2>5
  <2> QED
    BY <2>1, <2>2, <2>3, <2>4, <2>5, StepCases, PartsAreSeparate DEF HookStep, hookVars, vars
<1>3. crossed' \in BOOLEAN
  <2>1. ASSUME NEW f \in File, HandleFile(f) PROVE crossed' \in BOOLEAN
    BY <2>1, Zenon DEF HandleFile
  <2>2. CASE Run
    BY <2>2, Zenon DEF Run
  <2>3. CASE UNCHANGED crossed
    BY <1>0, <2>3
  <2>4. AppStep => \/ \E f \in File : HandleFile(f)
                   \/ Run \/ UNCHANGED crossed
    BY DEF AppStep, DropFile, ChooseFile, OpenDialog, LeaveDialog, UploadAnswered, UploadFails, Select, JobCreated, JobRefused
  <2>5. HookStep \/ CardStep \/ (\E j \in JobIds : JobMoves(j)) \/ UNCHANGED vars
          => UNCHANGED crossed
    BY PartsAreSeparate DEF vars
  <2>6. Reload => crossed' \in BOOLEAN
    BY DEF Reload
  <2> QED BY <2>1, <2>2, <2>3, <2>4, <2>5, <2>6, StepCases
<1> QED BY <1>1, <1>2, <1>3 DEF Shapes
LEMMA HookFollowsOneStep == PageInv /\ [Next]_vars => HookFollowsOne'
<1> SUFFICES ASSUME PageInv, [Next]_vars PROVE HookFollowsOne'
  OBVIOUS
<1>0. /\ HookFollowsOne /\ progress \in Shown
  BY DEF PageInv, Shapes
<1>1. CASE WatchEffect
  <2>1. watched' = jobId /\ sources' \subseteq {jobId} \ {0}
    BY <1>0, <1>1 DEF WatchEffect, SourcesNow, HookFollowsOne
  <2>2. progress'.of = jobId /\ progress'.state \notin Verdicts
    BY <1>1 DEF WatchEffect, ProgressNow, IDLE, Verdicts
  <2> QED BY <2>1, <2>2 DEF HookFollowsOne
<1>2. ASSUME NEW j \in sources, Refused(j) PROVE HookFollowsOne'
  <2>1. progress'.of = progress.of /\ progress'.state = progress.state
    <3>1. PICK b \in BOOLEAN : b = (progress.lost \/ progress.state \notin Verdicts)
      BY Zenon
    <3>2. progress' = [progress EXCEPT !.lost = b]
      BY <1>2, <3>1, Zenon DEF Refused
    <3> QED BY <1>0, <3>2 DEF Shown
  <2> QED BY <1>0, <1>2, <2>1 DEF Refused, HookFollowsOne
<1>3. ASSUME NEW j \in sources, NEW state \in {"queued", "processing"} \cup Verdicts,
             NEW result \in BOOLEAN, Message(j, state, result)
      PROVE  HookFollowsOne'
  <2>1. progress'.of = j /\ progress'.state = state
    BY <1>3 DEF Message
  <2>2. watched' = watched /\ sources' = Closes(j, state)
    BY <1>3 DEF Message
  <2> QED BY <1>0, <2>1, <2>2 DEF HookFollowsOne, Closes
<1>4. CASE Reload
  BY <1>4 DEF Reload, IDLE, Verdicts, HookFollowsOne
<1>5. CASE UNCHANGED hookVars
  BY <1>0, <1>5 DEF hookVars, HookFollowsOne
<1> QED BY <1>1, <1>2, <1>3, <1>4, <1>5, StepCases, PartsAreSeparate DEF HookStep, vars

LEMMA PickerFitsStep == PageInv /\ [Next]_vars => PickerFits'
<1> SUFFICES ASSUME PageInv, [Next]_vars PROVE PickerFits'
  OBVIOUS
<1>0. PickerFits /\ upload \in File \cup {NoFile} /\ uploading \in File \cup {NoFile}
  BY DEF PageInv, PageTypeOK
<1>1. CASE UploadAnswered
  <2>1. upload' \in File /\ picker' = PickerFor(upload') /\ upload' # NoFile
    BY <1>0, <1>1 DEF UploadAnswered
  <2>2. Kind[upload'] \in {"image", "csv"}
    BY <2>1, PageAssumption
  <2> DEFINE first == FirstOf(Kind[upload'])
  <2>3. /\ first \in [kind : {"image", "csv"}, operation : AllOperations]
        /\ first.kind = Kind[upload'] /\ first.operation \in Operations(Kind[upload'])
    BY <2>2, OperationsAre DEF FirstOf
  <2>4. CASE picker.kind = Kind[upload']
    <3>1. picker # NoPicker
      BY <2>2, <2>4 DEF NoPicker
    <3> QED BY <1>0, <2>1, <2>4, <3>1 DEF PickerFits, PickerFor
  <2>5. CASE picker.kind # Kind[upload']
    <3>1. picker' = first
      BY <2>1, <2>5 DEF PickerFor
    <3> HIDE DEF first
    <3> QED BY <2>1, <2>3, <3>1 DEF PickerFits
  <2> QED BY <2>4, <2>5
<1>2. ASSUME NEW op \in AllOperations, Select(op) PROVE PickerFits'
  <2>1. /\ picker \in [kind : {"image", "csv"}, operation : AllOperations] /\ upload # NoFile
        /\ picker.kind = Kind[upload] /\ op \in Operations(picker.kind)
        /\ picker' = [picker EXCEPT !.operation = op] /\ upload' = upload
    BY <1>0, <1>2 DEF Select, PickerFits
  <2>2. /\ picker' \in [kind : {"image", "csv"}, operation : AllOperations]
        /\ picker'.kind = picker.kind /\ picker'.operation = op
    BY <2>1
  <2> QED BY <2>1, <2>2 DEF PickerFits
<1>3. CASE UploadFails \/ Reload
  BY <1>3 DEF UploadFails, Reload, PickerFits
<1>4. CASE UNCHANGED <<upload, picker>>
  BY <1>0, <1>4 DEF PickerFits
<1>5. AppStep => \/ UploadAnswered \/ UploadFails
                 \/ \E op \in AllOperations : Select(op)
                 \/ UNCHANGED <<upload, picker>>
  BY DEF AppStep, DropFile, ChooseFile, OpenDialog, LeaveDialog, HandleFile,
              Run, JobCreated, JobRefused
<1>6. HookStep \/ CardStep \/ (\E j \in JobIds : JobMoves(j)) \/ UNCHANGED vars
        => UNCHANGED <<upload, picker>>
  BY PartsAreSeparate DEF appVars, vars
<1> QED BY <1>1, <1>2, <1>3, <1>4, <1>5, <1>6, StepCases

LEMMA CardAwaitsItsOwnStep == PageInv /\ [Next]_vars => CardAwaitsItsOwn'
<1> SUFFICES ASSUME PageInv, [Next]_vars PROVE CardAwaitsItsOwn'
  OBVIOUS
<1>0. CardAwaitsItsOwn /\ asked \subseteq [of : JobIds, cancelled : BOOLEAN]
  BY DEF PageInv, PageTypeOK
<1>1. CASE LinksEffect
  <2>1. \A r \in Cancel(asked) : r.cancelled
    BY <1>0 DEF Cancel
  <2>2. asked' = Cancel(asked) \cup {[of |-> j, cancelled |-> FALSE] : j \in {card'} \ {0}}
    BY <1>1 DEF LinksEffect
  <2> QED BY <2>1, <2>2 DEF CardAwaitsItsOwn
<1>2. ASSUME NEW r \in asked, LinksArrive(r) \/ LinksFail(r) PROVE CardAwaitsItsOwn'
  BY <1>0, <1>2 DEF LinksArrive, LinksFail, CardAwaitsItsOwn
<1>3. CASE Reload
  BY <1>3 DEF Reload, CardAwaitsItsOwn
<1>4. CASE UNCHANGED cardVars
  BY <1>0, <1>4 DEF cardVars, CardAwaitsItsOwn
<1> QED BY <1>1, <1>2, <1>3, <1>4, StepCases, PartsAreSeparate DEF CardStep, vars

\* What is asked for, by its place in a list.
Fits(p) == p.operation \in Operations(Kind[p.file])

LEMMA FitsByIndex ==
  ASSUME NEW S, NEW s \in Seq(S)
  PROVE  (\A p \in ToSet(s) : Fits(p)) <=> \A i \in 1..Len(s) : Fits(s[i])
<1>1. DOMAIN s = 1..Len(s)
  BY LenProperties
<1> QED BY <1>1 DEF ToSet

LEMMA OperationFitsFileStep == PageInv /\ [Next]_vars => OperationFitsFile'
<1> DEFINE PostsFit == \A i \in 1..Len(posts) : Fits(posts[i])
           JobsFit == \A i \in 1..Len(jobs) : Fits(jobs[i])
<1> SUFFICES ASSUME PageInv, [Next]_vars PROVE PostsFit' /\ JobsFit'
  <2>1. PageInv /\ [Next]_vars => posts' \in Seq(Requested) /\ jobs' \in Seq(Created)
    BY ShapesStep DEF Shapes
  <2>2. posts' \in Seq(Requested) => (PostsFit' <=> \A p \in ToSet(posts') : Fits(p))
    BY FitsByIndex
  <2>3. jobs' \in Seq(Created) => (JobsFit' <=> \A p \in ToSet(jobs') : Fits(p))
    BY FitsByIndex
  <2>4. (\A p \in ToSet(posts') : Fits(p)) /\ (\A p \in ToSet(jobs') : Fits(p))
          => OperationFitsFile'
    BY DEF OperationFitsFile, Fits
  <2> QED BY <2>1, <2>2, <2>3, <2>4
<1>0. /\ PostsFit /\ JobsFit
      /\ posts \in Seq(Requested) /\ DOMAIN posts = 1..Len(posts)
  <2>1. posts \in Seq(Requested) /\ jobs \in Seq(Created)
    BY DEF PageInv, Shapes
  <2>2. (\A p \in ToSet(posts) : Fits(p)) /\ (\A p \in ToSet(jobs) : Fits(p))
    BY DEF PageInv, OperationFitsFile, Fits
  <2>3. PostsFit
    BY <2>1, <2>2, FitsByIndex
  <2>4. JobsFit
    BY <2>1, <2>2, FitsByIndex
  <2> QED BY <2>1, <2>3, <2>4, LenProperties
<1>1. CASE UNCHANGED <<posts, jobs>>
  BY <1>0, <1>1
<1>2. CASE Run
  <2>1. /\ Len(posts) \in Nat /\ Len(posts') = Len(posts) + 1
        /\ \A i \in 1..Len(posts) : posts'[i] = posts[i]
        /\ posts'[Len(posts')].file = upload
        /\ posts'[Len(posts')].operation \in Operations(Kind[upload])
    BY <1>2, RunIs
  <2>2. ASSUME NEW i \in 1..Len(posts')
        PROVE  Fits(posts'[i])
    <3>1. i \in 1..Len(posts) \/ i = Len(posts')
      BY <2>1
    <3> QED BY <1>0, <2>1, <3>1 DEF Fits
  <2>3. PostsFit'
    BY <2>2, Zenon
  <2>4. jobs' = jobs
    BY <1>2 DEF Run
  <2>5. JobsFit'
    BY <1>0, <2>4
  <2> QED BY <2>3, <2>5
<1>3. ASSUME NEW i \in DOMAIN posts, JobCreated(i) \/ JobRefused(i) PROVE PostsFit' /\ JobsFit'
  <2>1. posts' = RemoveAt(posts, i)
    BY <1>3 DEF JobCreated, JobRefused
  <2>2. \A k \in 1..Len(posts') : \E m \in 1..Len(posts) : posts'[k] = posts[m]
    <3>1. posts \in Seq(Requested) /\ i \in DOMAIN posts
      BY <1>0, <1>3
    <3>2. \A k \in 1..Len(RemoveAt(posts, i)) :
            \E m \in 1..Len(posts) : RemoveAt(posts, i)[k] = posts[m]
      BY <3>1, RemovedIs
    <3> QED BY <2>1, <3>2, Zenon
  <2>3. PostsFit'
    BY <1>0, <2>2
  <2>4. JobsFit'
    <3>1. CASE JobCreated(i)
      <4>1. /\ Len(jobs) \in Nat /\ Len(jobs') = Len(jobs) + 1
            /\ \A j \in 1..Len(jobs) : jobs'[j] = jobs[j]
            /\ jobs'[Len(jobs')].file = posts[i].file
            /\ jobs'[Len(jobs')].operation = posts[i].operation
        BY <3>1, JobCreatedIs
      <4>2. ASSUME NEW j \in 1..Len(jobs')
            PROVE  Fits(jobs'[j])
        <5>1. j \in 1..Len(jobs) \/ j = Len(jobs')
          BY <4>1
        <5> QED BY <1>0, <4>1, <5>1 DEF Fits
      <4> QED BY <4>2
    <3>2. CASE JobRefused(i)
      BY <1>0, <3>2 DEF JobRefused
    <3> QED BY <1>3, <3>1, <3>2
  <2> QED BY <2>3, <2>4
<1>4. CASE Reload
  <2>1. posts' = <<>> /\ jobs' = jobs
    BY <1>4 DEF Reload
  <2>2. Len(posts') = 0
    BY <2>1
  <2> QED BY <1>0, <2>1, <2>2
<1>5. CASE UNCHANGED posts /\ \E j \in JobIds : JobMoves(j)
  <2>1. /\ Len(jobs') = Len(jobs)
        /\ \A k \in 1..Len(jobs) : /\ jobs'[k].file = jobs[k].file
                                   /\ jobs'[k].operation = jobs[k].operation
    BY <1>5, JobMovesIs
  <2>2. JobsFit'
    BY <1>0, <2>1 DEF Fits
  <2> QED BY <1>0, <1>5, <2>2
<1> QED BY <1>1, <1>2, <1>3, <1>4, <1>5, PostsChange
LEMMA NothingCrossesStep == PageInv /\ [Next]_vars => NothingCrosses' /\ JobIsOfFileShown'
<1> SUFFICES ASSUME PageInv, [Next]_vars PROVE NothingCrosses' /\ JobIsOfFileShown'
  OBVIOUS
<1> DEFINE Goal == NothingCrosses' /\ JobIsOfFileShown'
<1>0. /\ NothingCrosses /\ JobIsOfFileShown
      /\ posts \in Seq(Requested) /\ DOMAIN posts = 1..Len(posts)
      /\ Len(jobs) \in Nat /\ jobId \in 0..Len(jobs) /\ crossed \in BOOLEAN
  BY LenProperties DEF PageInv, PageTypeOK, Shapes
<1>1. ASSUME NEW f \in File, HandleFile(f) PROVE Goal
  <2>1. PICK b \in BOOLEAN : b = (crossed \/ posts # <<>>)
    BY Zenon
  <2>2. /\ crossed' = b /\ jobId' = 0 /\ posts' = posts /\ jobs' = jobs
    BY <1>1, <2>1, Zenon DEF HandleFile, JobAfterDrop
  <2>3. posts = <<>> => DOMAIN posts = {}
    OBVIOUS
  <2> QED BY <2>1, <2>2, <2>3 DEF NothingCrosses, JobIsOfFileShown
<1>2. CASE UploadAnswered \/ UploadFails
  <2>1. /\ uploading # NoFile /\ uploading' = NoFile
        /\ posts' = posts /\ jobId' = jobId /\ crossed' = crossed
    BY <1>2 DEF UploadAnswered, UploadFails
  <2>2. ~crossed => jobId = 0 /\ DOMAIN posts = {}
    BY <1>0, <2>1 DEF NothingCrosses
  <2> QED BY <2>1, <2>2 DEF NothingCrosses, JobIsOfFileShown
<1>3. CASE Run
  <2>1. PICK b \in BOOLEAN : b = (crossed \/ uploading # NoFile)
    BY Zenon
  <2>2. crossed' = b
    BY <1>3, <2>1, Zenon DEF Run
  <2>3. UNCHANGED <<upload, uploading, jobId, jobs>>
    BY <1>3 DEF Run
  <2>4. /\ Len(posts) \in Nat /\ Len(posts') = Len(posts) + 1
        /\ posts' \in Seq(Requested)
        /\ \A i \in 1..Len(posts) : posts'[i] = posts[i]
        /\ posts'[Len(posts')].file = upload
    BY <1>3, RunIs
  <2>5. ASSUME ~crossed', NEW i \in DOMAIN posts' PROVE posts'[i].file = upload
    <3>1. i \in 1..Len(posts) \/ i = Len(posts')
      BY <2>4, LenProperties
    <3> QED BY <1>0, <2>1, <2>2, <2>4, <2>5, <3>1 DEF NothingCrosses
  <2> QED BY <1>0, <2>1, <2>2, <2>3, <2>5 DEF NothingCrosses, JobIsOfFileShown
<1>4. ASSUME NEW i \in DOMAIN posts, JobCreated(i) \/ JobRefused(i) PROVE Goal
  <2>1. posts' = RemoveAt(posts, i) /\ UNCHANGED <<upload, uploading, crossed>>
    BY <1>4 DEF JobCreated, JobRefused
  <2>2. /\ posts' \in Seq(Requested)
        /\ \A k \in 1..Len(posts') : \E m \in 1..Len(posts) : posts'[k] = posts[m]
    <3>1. posts \in Seq(Requested)
      BY <1>0
    <3>2. /\ RemoveAt(posts, i) \in Seq(Requested)
          /\ \A k \in 1..Len(RemoveAt(posts, i)) :
               \E m \in 1..Len(posts) : RemoveAt(posts, i)[k] = posts[m]
      BY <3>1, RemovedIs
    <3> QED BY <2>1, <3>2
  <2>3. DOMAIN posts' = 1..Len(posts')
    BY <2>2, LenProperties
  <2>4. posts # <<>>
    BY <1>0
  <2>5. NothingCrosses'
    BY <1>0, <2>1, <2>2, <2>3, <2>4 DEF NothingCrosses
  <2>6. CASE JobCreated(i)
    <3>1. jobId' = Len(jobs') /\ jobs'[Len(jobs')].file = posts[i].file
      BY <2>6, JobCreatedIs
    <3>2. JobIsOfFileShown'
      BY <1>0, <2>1, <3>1 DEF NothingCrosses, JobIsOfFileShown
    <3> QED BY <2>5, <3>2
  <2>7. CASE JobRefused(i)
    <3>1. UNCHANGED <<jobId, jobs>>
      BY <2>7 DEF JobRefused
    <3>2. JobIsOfFileShown'
      BY <1>0, <2>1, <3>1 DEF JobIsOfFileShown
    <3> QED BY <2>5, <3>2
  <2> QED BY <1>4, <2>6, <2>7
<1>5. CASE Reload
  BY <1>5 DEF Reload, NothingCrosses, JobIsOfFileShown
<1>6. ASSUME NEW j \in JobIds, JobMoves(j) PROVE Goal
  <2>1. UNCHANGED <<upload, uploading, posts, jobId, crossed>>
    BY <1>6, PartsAreSeparate DEF appVars
  <2>2. \A k \in 1..Len(jobs) : jobs'[k].file = jobs[k].file
    BY <1>6, JobMovesIs
  <2> QED BY <1>0, <2>1, <2>2 DEF NothingCrosses, JobIsOfFileShown
<1>7. CASE UNCHANGED <<upload, uploading, posts, jobId, jobs, crossed>>
  BY <1>0, <1>7 DEF NothingCrosses, JobIsOfFileShown
<1>8. AppStep => \/ \E f \in File : HandleFile(f)
                 \/ UploadAnswered \/ UploadFails \/ Run
                 \/ \E i \in DOMAIN posts : JobCreated(i) \/ JobRefused(i)
                 \/ UNCHANGED <<upload, uploading, posts, jobId, jobs, crossed>>
  BY DEF AppStep, DropFile, ChooseFile, OpenDialog, LeaveDialog, Select
<1>9. HookStep \/ CardStep \/ UNCHANGED vars
        => UNCHANGED <<upload, uploading, posts, jobId, jobs, crossed>>
  BY PartsAreSeparate DEF appVars, vars
<1> QED BY <1>1, <1>2, <1>3, <1>4, <1>5, <1>6, <1>7, <1>8, <1>9, StepCases

LEMMA PageTypeStep ==
  PageInv /\ [Next]_vars /\ Shapes' /\ PickerFits' /\ HookFollowsOne' => PageTypeOK'
<1> SUFFICES ASSUME PageInv, [Next]_vars, Shapes', PickerFits', HookFollowsOne'
             PROVE  PageTypeOK'
  OBVIOUS
<1>0. PageTypeOK /\ HookFollowsOne /\ CardAwaitsItsOwn /\ Shapes
  BY DEF PageInv
<1>1. /\ Len(jobs) \in Nat /\ Len(jobs') \in Nat /\ Len(jobs) <= Len(jobs')
      /\ Len(jobs') <= MaxJobs
  <2>1. /\ Len(jobs) \in Nat /\ Len(jobs') \in Nat /\ Len(jobs) <= Len(jobs')
    BY JobsGrow
  <2>2. posts' \in Seq(Requested) /\ Len(posts') + Len(jobs') <= MaxJobs
    BY DEF Shapes
  <2>3. Len(posts') \in Nat
    BY <2>2, LenProperties
  <2> QED BY <2>1, <2>2, <2>3, PageAssumption
<1>2. /\ upload' \in File \cup {NoFile} /\ uploading' \in File \cup {NoFile}
      /\ choosing' \in BOOLEAN
  BY <1>0 DEF PageTypeOK, Next, DropFile, ChooseFile, OpenDialog, LeaveDialog, HandleFile,
              Reload, UploadAnswered, UploadFails, Select, Run,
              JobCreated, JobRefused, WatchEffect, LinksEffect, Refused, Message, LinksArrive,
              LinksFail, JobMoves, vars, appVars
<1>3. ToSet(posts') \subseteq [file : File, operation : AllOperations]
  <2>1. posts' \in Seq(Requested)
    BY DEF Shapes
  <2>2. DOMAIN posts' = 1..Len(posts') /\ \A i \in 1..Len(posts') : posts'[i] \in Requested
    BY <2>1, LenProperties, ElementOfSeq
  <2> QED BY <2>2 DEF ToSet, Requested
<1>4. jobId' \in 0..Len(jobs')
  <2>1. ASSUME NEW i \in DOMAIN posts, JobCreated(i) PROVE jobId' \in 0..Len(jobs')
    BY <1>1, <2>1, JobCreatedIs
  <2>2. CASE jobId' \in {0, jobId}
    BY <1>0, <1>1, <2>2 DEF PageTypeOK
  <2>3. AppStep => jobId' \in {0, jobId} \/ \E i \in DOMAIN posts : JobCreated(i)
    BY DEF AppStep, DropFile, ChooseFile, OpenDialog, LeaveDialog, HandleFile,
              JobAfterDrop, UploadAnswered, UploadFails, Select, Run, JobRefused
  <2>4. HookStep \/ CardStep \/ Reload \/ (\E j \in JobIds : JobMoves(j)) \/ UNCHANGED vars
          => jobId' \in {0, jobId}
    BY PartsAreSeparate DEF Reload, appVars, vars
  <2> QED BY <2>1, <2>2, <2>3, <2>4, StepCases
<1>5. watched' \in 0..Len(jobs')
  <2>1. watched' \in {0, jobId, watched}
    BY StepCases, PartsAreSeparate DEF HookStep, WatchEffect, Refused, Message, Reload, hookVars, vars
  <2> QED BY <1>0, <1>1, <2>1 DEF PageTypeOK
<1>6. picker' = NoPicker \/ picker'.operation \in Operations(picker'.kind)
  BY DEF PickerFits
<1>7. sources' \subseteq JobIds /\ progress'.of \in 0..Len(jobs')
  BY <1>1, <1>5, PageAssumption DEF HookFollowsOne, JobIds
<1>8. progress'.state \in {"idle", "queued", "processing"} \cup Verdicts
  BY DEF Shapes, Shown
<1>9. progress'.outputs \in {0, progress'.of}
  <2>1. CASE WatchEffect
    BY <2>1 DEF WatchEffect, ProgressNow, IDLE
  <2>2. ASSUME NEW j \in sources, Refused(j) PROVE progress'.outputs \in {0, progress'.of}
    <3>1. PICK b \in BOOLEAN : b = (progress.lost \/ progress.state \notin Verdicts)
      BY Zenon
    <3>2. progress' = [progress EXCEPT !.lost = b]
      BY <2>2, <3>1, Zenon DEF Refused
    <3>3. progress \in Shown /\ progress.outputs \in {0, progress.of}
      BY <1>0 DEF PageTypeOK, Shapes
    <3> QED BY <3>2, <3>3 DEF Shown
  <2>3. ASSUME NEW j \in sources, NEW state \in {"queued", "processing"} \cup Verdicts,
               NEW result \in BOOLEAN, Message(j, state, result)
        PROVE  progress'.outputs \in {0, progress'.of}
    BY <2>3 DEF Message
  <2>4. CASE Reload
    BY <2>4 DEF Reload, IDLE
  <2>5. CASE UNCHANGED progress
    BY <1>0, <2>5 DEF PageTypeOK
  <2> QED
    BY <2>1, <2>2, <2>3, <2>4, <2>5, StepCases, PartsAreSeparate DEF HookStep, hookVars, vars
<1>10. /\ asked' \subseteq [of : JobIds, cancelled : BOOLEAN]
       /\ card' \in 0..Len(jobs') /\ resolved' \in 0..Len(jobs')
  <2>0. /\ asked \subseteq [of : JobIds, cancelled : BOOLEAN]
        /\ card \in 0..Len(jobs) /\ resolved \in 0..Len(jobs)
        /\ progress.outputs \in 0..Len(jobs)
    BY <1>0, <1>1 DEF PageTypeOK
  <2>1. CASE LinksEffect
    <3>1. /\ card' \in 0..Len(jobs) /\ resolved' \in {0, resolved}
      BY <2>0, <2>1 DEF LinksEffect
    <3>2. \A j \in {card'} \ {0} : [of |-> j, cancelled |-> FALSE] \in [of : JobIds, cancelled : BOOLEAN]
      BY <1>1, <3>1, PageAssumption DEF JobIds
    <3>3. Cancel(asked) \subseteq [of : JobIds, cancelled : BOOLEAN]
      BY <2>0 DEF Cancel
    <3>4. asked' = Cancel(asked) \cup {[of |-> j, cancelled |-> FALSE] : j \in {card'} \ {0}}
      BY <2>1 DEF LinksEffect
    <3>5. {[of |-> j, cancelled |-> FALSE] : j \in {card'} \ {0}}
            \subseteq [of : JobIds, cancelled : BOOLEAN]
      BY <3>2
    <3> QED BY <1>1, <2>0, <3>1, <3>3, <3>4, <3>5
  <2>2. ASSUME NEW r \in asked, LinksArrive(r) \/ LinksFail(r)
        PROVE  /\ asked' \subseteq asked /\ card' = card
               /\ resolved' \in {resolved, card}
    BY <1>0, <2>2 DEF LinksArrive, LinksFail, CardAwaitsItsOwn
  <2>3. CASE Reload
    BY <1>1, <2>3 DEF Reload
  <2>4. CASE UNCHANGED cardVars
    BY <1>1, <2>0, <2>4 DEF cardVars
  <2>5. CASE CardStep /\ ~LinksEffect
    BY <1>1, <2>0, <2>2, <2>5 DEF CardStep
  <2> QED BY <2>1, <2>3, <2>4, <2>5, StepCases, PartsAreSeparate DEF vars
<1> QED BY <1>1, <1>2, <1>3, <1>4, <1>5, <1>6, <1>7, <1>8, <1>9, <1>10 DEF PageTypeOK
-----------------------------------------------------------------------------
(* The invariant, and what follows from it.                                *)

LEMMA PageInvInit == Init => PageInv
<1> SUFFICES ASSUME Init PROVE PageInv
  OBVIOUS
<1>1. /\ posts = <<>> /\ jobs = <<>> /\ Len(posts) = 0 /\ Len(jobs) = 0
      /\ posts \in Seq(Requested) /\ jobs \in Seq(Created)
      /\ ToSet(posts) = {} /\ ToSet(jobs) = {}
  BY EmptySeq DEF Init, ToSet
<1>2. Shapes
  <2>1. progress \in Shown
    BY DEF Init, IDLE, Shown
  <2>2. crossed \in BOOLEAN
    BY DEF Init
  <2>3. Len(posts) + Len(jobs) <= MaxJobs
    BY <1>1, PageAssumption
  <2> QED BY <1>1, <2>1, <2>2, <2>3 DEF Shapes
<1>3. PageTypeOK
  <2>1. /\ upload \in File \cup {NoFile} /\ uploading \in File \cup {NoFile}
        /\ choosing \in BOOLEAN /\ picker = NoPicker
    BY DEF Init
  <2>2. /\ jobId \in 0..Len(jobs) /\ watched \in 0..Len(jobs)
        /\ card \in 0..Len(jobs) /\ resolved \in 0..Len(jobs)
        /\ Len(jobs) <= MaxJobs
    BY <1>1, PageAssumption DEF Init
  <2>3. /\ progress.state \in {"idle", "queued", "processing"} \cup Verdicts
        /\ progress.outputs \in {0, progress.of} /\ progress.of \in 0..Len(jobs)
    BY <1>1 DEF Init, IDLE
  <2>4. sources = {} /\ asked = {}
    BY DEF Init
  <2> QED BY <1>1, <2>1, <2>2, <2>3, <2>4 DEF PageTypeOK
<1>4. /\ PickerFits /\ HookFollowsOne /\ CardAwaitsItsOwn
      /\ NothingCrosses /\ JobIsOfFileShown
  BY <1>1 DEF Init, PickerFits, HookFollowsOne, CardAwaitsItsOwn, NothingCrosses,
              JobIsOfFileShown, IDLE, Verdicts
<1>5. OperationFitsFile
  BY <1>1 DEF OperationFitsFile
<1> QED BY <1>2, <1>3, <1>4, <1>5 DEF PageInv

\* PageInv: what each part of the page keeps agrees with what the others keep,
\* however answers, events and clicks interleave.
THEOREM PageInvHolds == Spec => []PageInv
<1>1. PageInv /\ [Next]_vars => PageInv'
  BY ShapesStep, PickerFitsStep, HookFollowsOneStep, PageTypeStep, CardAwaitsItsOwnStep,
     OperationFitsFileStep, NothingCrossesStep
     DEF PageInv
<1> QED BY PageInvInit, <1>1, PTL DEF Spec

\* PageTypeOK: no state of the page refers to a job that does not exist.
THEOREM PageTypes == Spec => []PageTypeOK
<1>1. PageInv => PageTypeOK
  BY DEF PageInv
<1> QED BY PageInvHolds, <1>1, PTL

\* ProgressIsOfJobShown: once useJobProgress has run its effect, neither an event
\* nor an EventSource of an earlier job is left.
THEOREM ProgressShownIsOfJob == Spec => []ProgressIsOfJobShown
<1>1. PageInv => ProgressIsOfJobShown
  BY DEF PageInv, HookFollowsOne, ProgressIsOfJobShown
<1> QED BY PageInvHolds, <1>1, PTL

\* JobIsOfFileShown: the job shown is one of the file shown, unless a file was
\* dropped while a job was being created or the other way round.
THEOREM JobShownIsOfFile == Spec => []JobIsOfFileShown
<1>1. PageInv => JobIsOfFileShown
  BY DEF PageInv
<1> QED BY PageInvHolds, <1>1, PTL

\* OperationFitsFile: the picker, keyed by the kind of the file, asks for no
\* operation of the other kind.
THEOREM OperationsFit == Spec => []OperationFitsFile
<1>1. PageInv => OperationFitsFile
  BY DEF PageInv
<1> QED BY PageInvHolds, <1>1, PTL

\* LateLinksAreNotShown: the links of outputs the card no longer shows are dropped
\* when they arrive.
THEOREM LateLinksDropped == Spec => LateLinksAreNotShown
<1>1. PageInv /\ [Next]_vars => [resolved' \in {resolved, 0, card'}]_resolved
  <2> SUFFICES ASSUME PageInv, [Next]_vars PROVE resolved' \in {resolved, 0, card'}
    OBVIOUS
  <2>1. LinksEffect \/ Reload => resolved' \in {resolved, 0}
    BY DEF LinksEffect, Reload
  <2>2. ASSUME NEW r \in asked, LinksArrive(r) \/ LinksFail(r)
        PROVE  resolved' \in {resolved, card'}
    BY <2>2 DEF LinksArrive, LinksFail, PageInv, CardAwaitsItsOwn
  <2>3. AppStep \/ HookStep \/ (\E j \in JobIds : JobMoves(j)) \/ UNCHANGED vars
          => resolved' = resolved
    BY PartsAreSeparate DEF cardVars, vars
  <2> QED BY <2>1, <2>2, <2>3, StepCases DEF CardStep
<1> QED BY PageInvHolds, <1>1, PTL DEF Spec, LateLinksAreNotShown

\* VerdictStays: the hook closes its EventSource on a verdict, so that nothing
\* that comes later changes what is shown of that job.
THEOREM VerdictsStay == Spec => VerdictStays
<1>1. PageInv /\ [Next]_vars
        => [progress.state \in Verdicts /\ progress'.of = progress.of
              => progress'.state = progress.state /\ ~progress'.lost]_progress
  <2> SUFFICES ASSUME PageInv, [Next]_vars, progress.state \in Verdicts,
                      progress'.of = progress.of
               PROVE  progress' = progress
    OBVIOUS
  <2>0. sources = {} /\ progress.of = watched /\ watched # 0
    BY DEF PageInv, HookFollowsOne
  <2>1. ~WatchEffect
    <3>1. WatchEffect => progress'.of = jobId /\ watched # jobId
      BY DEF WatchEffect, ProgressNow, IDLE
    <3> QED BY <2>0, <3>1
  <2>2. ~HookStep
    BY <2>0, <2>1 DEF HookStep
  <2>3. ~Reload
    BY <2>0 DEF Reload, IDLE
  <2> QED BY <2>2, <2>3, StepCases, PartsAreSeparate DEF hookVars, vars
<1> QED BY PageInvHolds, <1>1, PTL DEF Spec, VerdictStays
=============================================================================
