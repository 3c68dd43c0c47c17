------------------------------ MODULE RateLimit ------------------------------
(***************************************************************************)
(* The rate limiters (src/ratelimit.ts) as src/app.ts mounts them.         *)
(*                                                                         *)
(* Each limiter counts a client's requests of the current window in a key  *)
(* of its own, with INCR and, on the first, EXPIRE.  The limiters are      *)
(* mounted without a path, each in front of its router, so a request       *)
(* passes the limiter of every router before the one that answers it.      *)
(* The keys of different clients differ: one client is modelled.  Its      *)
(* requests are served by any number of API processes.                     *)
(***************************************************************************)
EXTENDS Naturals, Sequences

CONSTANTS Kind,       \* what requests ask for: some of the endpoints below
          Request,    \* requests that can be on their way at once
          Limit,      \* RATE_LIMITS: the allowance of each class per window
          MaxWindow,  \* bound: windows that pass
          MaxExcess   \* bound: INCRs over its limit one limiter sends in a window

\* The endpoint classes: the buckets of RATE_LIMITS.
Class == {"read", "upload", "job", "status"}
Windows == 0..MaxWindow

\* What a request may ask for, and the class it belongs to.
Endpoint == [postUpload |-> "upload", getUpload |-> "read",
             mintLink |-> "read", download |-> "read",
             createJob |-> "job", jobStatus |-> "status", jobEvents |-> "status"]

ASSUME RateLimitAssumption == /\ Limit \in [Class -> Nat \ {0}]
                              /\ MaxWindow \in Nat
                              /\ MaxExcess \in Nat \ {0}
                              /\ Kind \subseteq DOMAIN Endpoint

\* The limiters in front of the router that answers, in the order of app.use.
Limiters(kind) ==
    CASE kind \in {"postUpload", "getUpload"} -> <<"upload">>
      [] kind \in {"mintLink", "download"} -> <<"upload", "read">>
      [] kind = "createJob" -> <<"upload", "read", "job">>
      [] kind \in {"jobStatus", "jobEvents"} -> <<"upload", "read", "status">>

VARIABLES window,    \* the current window, Date.now() / windowSeconds
          key,       \* Redis: the count of each limiter and window; 0 = no key
          expiring,  \* Redis: has that key a time to live?
          request,   \* the requests on their way, and the latest answers
          spent,     \* INCRs of each limiter, by the window they were meant for
          admitted   \* requests each limiter let through on an INCR in its window

vars == <<window, key, expiring, request, spent, admitted>>

\* at: "incr" or "expire", the command awaited, or "refused".  passed: the
\* limiters it has passed; in: the window the current one computed.  NoRequest:
\* none has come yet, or the last one was not refused.
Requests == [at : {"incr", "expire", "refused"},
             kind : Kind, passed : 0..2, in : Windows]
NoRequest == [at |-> "none"]

TypeOK == /\ window \in Windows
          /\ key \in [Class \X Windows -> Nat]
          /\ expiring \in [Class \X Windows -> BOOLEAN]
          /\ request \in [Request -> Requests \cup {NoRequest}]
          /\ spent \in [Class \X Windows -> Nat]
          /\ admitted \in [Class \X Windows -> Nat]

Init == /\ window = 0
        /\ key = [k \in Class \X Windows |-> 0]
        /\ expiring = [k \in Class \X Windows |-> FALSE]
        /\ request = [r \in Request |-> NoRequest]
        /\ spent = [k \in Class \X Windows |-> 0]
        /\ admitted = [k \in Class \X Windows |-> 0]

-----------------------------------------------------------------------------
Pending(r) == request[r].at \in {"incr", "expire"}

\* The limiter a request is at, and the key it uses there.
LimiterOf(r) == Limiters(request[r].kind)[request[r].passed + 1]
KeyOf(r) == <<LimiterOf(r), request[r].in>>

\* Mutant: Math.ceil instead of Math.floor.
WindowRoundedUp == window + 1

\* The window a limiter computes when a request reaches it.
WindowNow == window

\* next(): the limiter behind computes its window and sends INCR, or, behind
\* the last, the router answers.
Onward(q) == IF q.passed + 1 < Len(Limiters(q.kind))
               THEN [q EXCEPT !.passed = @ + 1, !.in = WindowNow, !.at = "incr"]
               ELSE NoRequest

\* Over the limit: 429.
Refused(q) == [q EXCEPT !.at = "refused"]

\* A request comes in and meets the first limiter.
Arrive(r, kind) ==
    /\ ~Pending(r)
    /\ request' = [request EXCEPT ![r] =
                     [at |-> "incr", kind |-> kind, passed |-> 0, in |-> WindowNow]]
    /\ UNCHANGED <<window, key, expiring, spent, admitted>>

\* Mutant: off by one, count >= limit refuses.
AllowsFewer(class, count) == count < Limit[class]

\* Does the limiter let the request with this count through?
Allows(class, count) == count <= Limit[class]

\* Redis executes INCR.  The first request goes on to EXPIRE; every other is
\* let through or refused.
Incr(r) ==
    /\ request[r].at = "incr"
    /\ spent[KeyOf(r)] < Limit[LimiterOf(r)] + MaxExcess
    /\ LET k == KeyOf(r)
           count == key[k] + 1
           passes == Allows(LimiterOf(r), count)
       IN  /\ key' = [key EXCEPT ![k] = count]
           /\ spent' = [spent EXCEPT ![k] = @ + 1]
           /\ admitted' = IF passes /\ request[r].in = window
                            THEN [admitted EXCEPT ![k] = @ + 1] ELSE admitted
           /\ request' = [request EXCEPT ![r] =
                            IF count = 1 THEN [@ EXCEPT !.at = "expire"]
                            ELSE IF passes THEN Onward(@)
                            ELSE Refused(@)]
    /\ UNCHANGED <<window, expiring>>

\* Redis executes INCR and the answer is lost: ioredis sends the command again,
\* until it gives up.
IncrUnanswered(r) ==
    /\ request[r].at = "incr"
    /\ spent[KeyOf(r)] < Limit[LimiterOf(r)] + MaxExcess
    /\ key' = [key EXCEPT ![KeyOf(r)] = @ + 1]
    /\ spent' = [spent EXCEPT ![KeyOf(r)] = @ + 1]
    /\ UNCHANGED <<window, expiring, request, admitted>>

\* EXPIRE, for as long as a window: the first request is let through.
Expire(r) ==
    /\ request[r].at = "expire"
    /\ expiring' = [expiring EXCEPT ![KeyOf(r)] = key[KeyOf(r)] > 0]
    /\ request' = [request EXCEPT ![r] =
                     IF Allows(LimiterOf(r), 1) THEN Onward(@) ELSE Refused(@)]
    /\ UNCHANGED <<window, key, spent, admitted>>

\* Redis cannot be reached: the limiter fails open.
FailOpen(r) ==
    /\ Pending(r)
    /\ request' = [request EXCEPT ![r] = Onward(@)]
    /\ UNCHANGED <<window, key, expiring, spent, admitted>>

\* The API process dies, and the request with it.
Die(r) ==
    /\ Pending(r)
    /\ request' = [request EXCEPT ![r] = NoRequest]
    /\ UNCHANGED <<window, key, expiring, spent, admitted>>

\* Mutant: the time to live is shorter than the window.
OutlivedEarly(k) == k[2] <= window

\* A key set to expire lives as long as a window from its first INCR at least,
\* so it is there until its window is over.
Outlived(k) == k[2] < window

Lapse(k) ==
    /\ expiring[k]
    /\ Outlived(k)
    /\ key' = [key EXCEPT ![k] = 0]
    /\ expiring' = [expiring EXCEPT ![k] = FALSE]
    /\ UNCHANGED <<window, request, spent, admitted>>

Tick == /\ window < MaxWindow
        /\ window' = window + 1
        /\ UNCHANGED <<key, expiring, request, spent, admitted>>

Next == \/ \E r \in Request, kind \in Kind : Arrive(r, kind)
        \/ \E r \in Request : \/ Incr(r) \/ IncrUnanswered(r)
                               \/ Expire(r) \/ FailOpen(r) \/ Die(r)
        \/ \E k \in Class \X Windows : Lapse(k)
        \/ Tick

Spec == Init /\ [][Next]_vars

-----------------------------------------------------------------------------
(* What the limiters promise.                                              *)

\* However requests interleave, fail and die, no limiter lets more through in
\* a window than its allowance, those it let through for want of Redis aside.
AllowanceIsKept == \A k \in Class \X Windows : admitted[k] <= Limit[k[1]]

\* A request is refused only when that limiter spent more in the window than it
\* allows: what was spent in an earlier window is forgiven.
RefusalsAreEarned ==
    \A r \in Request : request[r].at = "refused"
                         => spent[KeyOf(r)] > Limit[LimiterOf(r)]

-----------------------------------------------------------------------------
(* The inductive invariant behind these properties.                        *)

\* A request that has been answered by no router is at a limiter.
AtALimiter == \A r \in Request : request[r] # NoRequest
                => request[r].passed < Len(Limiters(request[r].kind))

\* A key counts some of what was spent in its window, and, until the window is
\* over, all of those admitted.
KeysCount == \A k \in Class \X Windows :
               /\ key[k] <= spent[k]
               /\ k[2] >= window => admitted[k] <= key[k]

LimitInv == TypeOK /\ AtALimiter /\ KeysCount /\ AllowanceIsKept /\ RefusalsAreEarned

-----------------------------------------------------------------------------
(* What the README says.                                                   *)

\* README.md:273: every endpoint class has its own allowance, so a request is
\* refused only by the limiter of its class.
OwnAllowance ==
    \A r \in Request : request[r].at = "refused"
                         => LimiterOf(r) = Endpoint[request[r].kind]
=============================================================================
