------------------------------- MODULE Uploads -------------------------------
(***************************************************************************)
(* POST /uploads (src/files/routes.ts) with its multer middleware          *)
(* (src/files/upload.ts), and the file records in Redis                    *)
(* (src/files/repository.ts).                                              *)
(*                                                                         *)
(* Each upload is one request.  Its bytes go to a staging file in the      *)
(* temporary directory, from there into storage under a fresh key, and a   *)
(* record that names the key is saved last.                                *)
(***************************************************************************)
EXTENDS Storage

CONSTANTS Upload,      \* the uploads, each named by its storage key
          Temp,        \* the staging file of each
          RecordTtl    \* DEFAULT_TTL_SECONDS, in ticks

ASSUME UploadAssumption == /\ Upload \subseteq Key \ Staging
                           /\ Temp \in [Upload -> Staging]
                           /\ \A u, v \in Upload : Temp[u] = Temp[v] => u = v
                           /\ RecordTtl \in Nat \ {0}

VARIABLES request,  \* how far each request has come
          ttl       \* ticks until each upload's record expires; 0: no record

uploadVars == <<request, ttl>>

\* "failing" is the catch; "stranded" is answered, the staging file left behind;
\* "unanswered" died with its upload counted.
Active == {"receiving", "staged", "copying", "adopted", "saved", "counted", "failing"}
Answered == {"refused", "failed", "stranded", "created"}
Dead == {"dead", "unanswered"}

UploadTypeOK == /\ request \in [Upload -> {"idle"} \cup Dead \cup Active \cup Answered]
                /\ ttl \in [Upload -> 0..RecordTtl]

UploadInit == /\ request = [u \in Upload |-> "idle"]
              /\ ttl = [u \in Upload |-> 0]

Goes(u, to) == request' = [request EXCEPT ![u] = to]
At(u, there) == request[u] = there
Quiet == UNCHANGED <<sweepVars, stalled>>

\* FileRepository.get finds the record.
Live(u) == ttl[u] > 0

\* resolveMimeType: a declared type on the list, or an extension on the list
\* where the declared type says nothing.
Accepts(declared, extension) ==
    \/ declared = "allowed"
    \/ declared = "generic" /\ extension = "known"

\* The fileFilter lets the file in and multer starts to stage it ...
Receive(u) ==
    /\ At(u, "idle")
    /\ \E declared \in {"allowed", "generic", "other"}, extension \in {"known", "unknown"} :
         IF Accepts(declared, extension)
           THEN Goes(u, "receiving") /\ BeginWrite(Temp[u])
           ELSE Goes(u, "refused") /\ UNCHANGED <<bytes, age>>
    /\ UNCHANGED <<ttl, stats, faults>> /\ Quiet

\* ... to its end, or gives up: too large a file, or a client that hung up.
Staged(u) == /\ At(u, "receiving")
             /\ \/ Goes(u, "staged") /\ EndWrite(Temp[u])
                \/ Goes(u, "refused") /\ Remove(Temp[u])
             /\ UNCHANGED <<ttl, stats, faults>> /\ Quiet

\* adopt: a rename within a filesystem; between two, as in docker-compose.yml,
\* it fails with EXDEV and the bytes are copied.
Adopt(u) == /\ At(u, "staged")
            /\ \/ Goes(u, "adopted") /\ Rename(Temp[u], u)
               \/ Goes(u, "copying") /\ BeginWrite(u)
            /\ UNCHANGED <<ttl, stats, faults>> /\ Quiet

\* Mutant: the staging file is not removed after the copy.
CopiedOnly(u) == /\ At(u, "copying")
                 /\ Goes(u, "adopted")
                 /\ EndWrite(u)
                 /\ UNCHANGED <<ttl, stats, faults>> /\ Quiet

\* The copy is complete: the staging file is removed.
Copied(u) == /\ At(u, "copying")
             /\ Goes(u, "adopted")
             /\ bytes' = Removed(Written(bytes, u), Temp[u])
             /\ age' = [age EXCEPT ![u] = IF Exists(u) THEN 0 ELSE @]
             /\ UNCHANGED <<ttl, stats, faults>> /\ Quiet

\* FileRepository.save; adopt's last stat must have found the file.
SaveRecord(u) == /\ At(u, "adopted")
                 /\ IF Exists(u)
                      THEN Goes(u, "saved") /\ ttl' = [ttl EXCEPT ![u] = RecordTtl]
                      ELSE Goes(u, "failing") /\ UNCHANGED ttl
                 /\ UNCHANGED <<bytes, age, stats, faults>> /\ Quiet

\* The upload is counted ...
CountUpload(u) == /\ At(u, "saved")
                  /\ Goes(u, "counted")
                  /\ IncrementCounter("uploads", 1)
                  /\ UNCHANGED <<bytes, age, ttl>> /\ Quiet

\* ... and answered: 201.
Created(u) == /\ At(u, "counted")
              /\ Goes(u, "created")
              /\ UNCHANGED <<bytes, age, ttl, stats, faults>> /\ Quiet

\* An await of the handler rejects; Redis may have saved the record all the same.
HandlerFails(u) == /\ request[u] \in {"staged", "copying", "adopted"}
                   /\ Fault
                   /\ Goes(u, "failing")
                   /\ \/ UNCHANGED ttl
                      \/ At(u, "adopted") /\ Exists(u) /\ ttl' = [ttl EXCEPT ![u] = RecordTtl]
                   /\ UNCHANGED <<bytes, age, stats>> /\ Quiet

\* The catch removes the staging file, and nothing else; should the trouble that
\* led here keep it from that, the error is swallowed.
CatchRemoves(u) == /\ At(u, "failing")
                   /\ \/ Goes(u, "failed") /\ Remove(Temp[u])
                      \/ Exists(Temp[u]) /\ Goes(u, "stranded") /\ UNCHANGED <<bytes, age>>
                   /\ UNCHANGED <<ttl, stats, faults>> /\ Quiet

UploadStep(u) == \/ Staged(u) \/ Adopt(u) \/ Copied(u) \/ SaveRecord(u)
                 \/ CountUpload(u) \/ Created(u) \/ CatchRemoves(u)

\* The API process dies under its requests.
UploadsDie == request' = [u \in Upload |-> IF request[u] = "counted" THEN "unanswered"
                                           ELSE IF request[u] \in Active THEN "dead"
                                           ELSE request[u]]

\* Redis forgets a record when its time is over.
RecordTick == ttl' = [u \in Upload |-> IF ttl[u] > 0 THEN ttl[u] - 1 ELSE 0]
=============================================================================
