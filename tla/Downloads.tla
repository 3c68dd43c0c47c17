------------------------------ MODULE Downloads ------------------------------
(***************************************************************************)
(* GET /files/* and POST /files/links (src/files/download.ts), with the    *)
(* signatures of src/files/signing.ts.                                     *)
(*                                                                         *)
(* A signature stands for the text it was computed over, as HMAC with a    *)
(* secret key is taken to be: a client has only those the server gave it.  *)
(* A link lasts LinkTtl ticks; its remaining time stands for its expiry,   *)
(* and "later" for an expiry the client has put in its place.              *)
(***************************************************************************)
EXTENDS Storage, Integers

CONSTANTS Download,    \* the requests for files under way at once
          Public,      \* the files whose keys clients learn
          LinkTtl,     \* DOWNLOAD_TTL_SECONDS, in ticks
          Signing      \* is DOWNLOAD_SECRET set?

ASSUME DownloadAssumption == /\ Public # {} /\ Public \subseteq Key \ Staging
                             /\ LinkTtl \in Nat
                             /\ Signing \in BOOLEAN

VARIABLES link,  \* ticks left of the link minted for each file; Expiry or NoLink
          get    \* each request: where it is, for what file, the size it was told

downloadVars == <<link, get>>

NoLink == -2
Lapsed == -1
Awaits == {"exists", "size", "open", "fd", "body"}
Outcomes == {"idle", "served", "refused", "missing", "error"}
NoGet(k) == [at |-> "idle", key |-> k, size |-> "none"]

DownloadTypeOK ==
    /\ link \in [Public -> {NoLink, Lapsed} \cup 0..LinkTtl]
    /\ get \in [Download -> [at : Awaits \cup Outcomes, key : Public,
                             size : {"none", "partial", "whole"}]]

DownloadInit == /\ link = [k \in Public |-> NoLink]
                /\ get = [d \in Download |-> NoGet(CHOOSE k \in Public : TRUE)]

\* POST /files/links: the file must be there, and its link is signed afresh.
MintLink(k) == /\ Exists(k)
               /\ link' = [link EXCEPT ![k] = IF Signing THEN LinkTtl ELSE @]
               /\ UNCHANGED <<storageVars, get>>

Minted == {k \in Public : link[k] # NoLink}

\* Mutant: the expiry is not part of what is signed.
signKeyOnly(key, expires) == <<key>>

\* What is signed: the key and the expiry, which the client has kept or not.
sign(key, expires) == <<key, expires>>

\* verifySignedLink: the expiry first, then the signature.
Verified(key, expires, signature) ==
    IF expires = Lapsed THEN "expired"
    ELSE IF signature = sign(key, expires) THEN "ok" ELSE "invalid"

\* A request arrives for a file, with the link of the same or of another one,
\* as it was given or with its expiry put off.
Get(d, k) ==
    /\ get[d].at \in Outcomes
    /\ LET Asked(verdict) ==
             get' = [get EXCEPT ![d] = [NoGet(k) EXCEPT !.at =
                        IF verdict = "ok" THEN "exists" ELSE "refused"]]
       IN  IF Signing
             THEN \/ Asked("missing")
                  \/ \E m \in Minted : \E expires \in {link[m], LinkTtl} :
                       Asked(Verified(k, expires, sign(m, link[m])))
             ELSE Asked("ok")
    /\ UNCHANGED <<storageVars, link>>

Moves(d, at) == get' = [get EXCEPT ![d].at = at]

\* storage.exists: 404.
CheckExists(d) == /\ get[d].at = "exists"
                  /\ Moves(d, IF Exists(get[d].key) THEN "size" ELSE "missing")
                  /\ UNCHANGED <<storageVars, link>>

\* storage.size: a stat that finds nothing rejects, and the answer is a 500.
ReadSize(d) == /\ get[d].at = "size"
               /\ IF Exists(get[d].key)
                    THEN get' = [get EXCEPT ![d].at = "open", ![d].size = bytes[get[d].key]]
                    ELSE Moves(d, "error")
               /\ UNCHANGED <<storageVars, link>>

\* storage.open: another stat, and a stream that opens the file by itself.
Open(d) == /\ get[d].at = "open"
           /\ Moves(d, IF Exists(get[d].key) THEN "fd" ELSE "error")
           /\ UNCHANGED <<storageVars, link>>

\* The stream opens the file: from here its bytes stay readable, swept or not.
Opened(d) == /\ get[d].at = "fd"
             /\ Exists(get[d].key)
             /\ Moves(d, "body")
             /\ UNCHANGED <<storageVars, link>>

\* The last byte is sent.
Served(d) == /\ get[d].at = "body"
             /\ Moves(d, "served")
             /\ UNCHANGED <<storageVars, link>>

GetStep(d) == CheckExists(d) \/ ReadSize(d) \/ Open(d) \/ Opened(d) \/ Served(d)

\* The stream fails where nobody listens to its errors: the file was swept
\* before it was opened, or the disk cannot be read.
StreamBreaks(d) == \/ get[d].at = "fd" /\ ~Exists(get[d].key) /\ UNCHANGED faults
                   \/ get[d].at \in {"fd", "body"} /\ Fault

\* The API process dies under its requests.
GetsDie == get' = [d \in Download |-> NoGet(get[d].key)]

LinkTick == link' = [k \in Public |-> IF link[k] >= 0 THEN link[k] - 1 ELSE link[k]]
=============================================================================
