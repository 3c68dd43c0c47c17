--------------------------- MODULE RateLimitProofs ---------------------------
(***************************************************************************)
(* Proofs about RateLimit, for every set of requests, every allowance and  *)
(* every number of windows.                                                *)
(***************************************************************************)
EXTENDS RateLimit, TLAPS

\* The key of a limiter and a window.
Keys == Class \X Windows

\* A request at a limiter is at one of the four, and uses one of its keys.
LEMMA AtAKey ==
  ASSUME TypeOK, AtALimiter, NEW r \in Request, request[r] # NoRequest
  PROVE  /\ request[r] \in Requests
         /\ LimiterOf(r) \in Class
         /\ KeyOf(r) \in Keys /\ KeyOf(r)[1] = LimiterOf(r) /\ KeyOf(r)[2] = request[r].in
<1>1. request[r] \in Requests
  BY DEF TypeOK
<1>2. /\ request[r].kind \in DOMAIN Endpoint /\ request[r].passed \in 0..2
      /\ request[r].in \in Windows
  BY <1>1, RateLimitAssumption DEF Requests
<1>3. request[r].passed < Len(Limiters(request[r].kind))
  BY DEF AtALimiter
<1>4. LimiterOf(r) \in Class
  BY <1>2, <1>3 DEF LimiterOf, Limiters, Endpoint, Class
<1> QED BY <1>1, <1>2, <1>4 DEF KeyOf, Keys

\* Every chain of limiters has one, two or three.
LEMMA ChainLengths ==
  ASSUME NEW kind \in Kind PROVE Len(Limiters(kind)) \in 1..3
BY RateLimitAssumption DEF Limiters, Endpoint

\* Going on, a request is at the next limiter of its chain or at none.
LEMMA OnwardTypes ==
  ASSUME TypeOK, NEW q \in Requests
  PROVE  \/ Onward(q) = NoRequest
         \/ /\ Onward(q) \in Requests /\ Onward(q).at = "incr"
            /\ Onward(q).passed < Len(Limiters(Onward(q).kind))
<1>1. Len(Limiters(q.kind)) \in 1..3 /\ q.passed \in 0..2
  BY ChainLengths DEF Requests
<1>2. CASE q.passed + 1 < Len(Limiters(q.kind))
  <2> DEFINE n == Len(Limiters(q.kind))
             p == q.passed
  <2>1. p + 1 \in 0..2
    <3>1. n \in 1..3 /\ p \in 0..2 /\ p + 1 < n
      BY <1>1, <1>2
    <3> HIDE DEF n, p
    <3> QED BY <3>1
  <2>2. Onward(q) = [q EXCEPT !.passed = @ + 1, !.in = window, !.at = "incr"]
    BY <1>2 DEF Onward, WindowNow
  <2>3. /\ Onward(q) \in Requests /\ Onward(q).at = "incr"
        /\ Onward(q).passed = q.passed + 1 /\ Onward(q).kind = q.kind
    BY <2>1, <2>2 DEF Requests, TypeOK
  <2> QED BY <1>2, <2>3
<1>3. CASE ~(q.passed + 1 < Len(Limiters(q.kind)))
  BY <1>3 DEF Onward
<1> QED BY <1>2, <1>3

-----------------------------------------------------------------------------
(* The effect of each step on the invariant.                               *)

\* A step that leaves the counts alone and moves one request on, or ends it.
LEMMA MoveStep ==
  ASSUME LimitInv, UNCHANGED <<window, key, spent, admitted>>,
         expiring' \in [Class \X Windows -> BOOLEAN],
         NEW r \in Request, NEW q, request' = [request EXCEPT ![r] = q],
         \/ q = NoRequest
         \/ /\ q \in Requests
            /\ q.passed < Len(Limiters(q.kind))
            /\ q.at # "refused"
  PROVE  LimitInv'
<1>1. TypeOK'
  BY DEF LimitInv, TypeOK
<1>2. AtALimiter'
  BY DEF LimitInv, TypeOK, AtALimiter
<1>3. KeysCount' /\ AllowanceIsKept'
  BY DEF LimitInv, KeysCount, AllowanceIsKept
<1>4. RefusalsAreEarned'
  BY DEF LimitInv, TypeOK, RefusalsAreEarned, NoRequest, KeyOf, LimiterOf
<1> QED BY <1>1, <1>2, <1>3, <1>4 DEF LimitInv

LEMMA ArriveStep ==
  ASSUME LimitInv, NEW r \in Request, NEW kind \in Kind, Arrive(r, kind)
  PROVE  LimitInv'
<1> DEFINE q == [at |-> "incr", kind |-> kind, passed |-> 0, in |-> window]
<1>1. q \in Requests
  BY DEF Requests, LimitInv, TypeOK
<1>2. q.passed < Len(Limiters(q.kind))
  BY ChainLengths
<1>3. request' = [request EXCEPT ![r] = q]
  BY DEF Arrive, WindowNow
<1> QED BY <1>1, <1>2, <1>3, MoveStep DEF Arrive, LimitInv, TypeOK

LEMMA FailOpenStep ==
  ASSUME LimitInv, NEW r \in Request, FailOpen(r)
  PROVE  LimitInv'
<1>1. request[r] \in Requests
  BY AtAKey DEF FailOpen, Pending, NoRequest, LimitInv
<1>2. request' = [request EXCEPT ![r] = Onward(request[r])]
  BY DEF FailOpen, LimitInv, TypeOK
<1> QED BY <1>1, <1>2, OnwardTypes, MoveStep DEF FailOpen, LimitInv, TypeOK

LEMMA DieStep ==
  ASSUME LimitInv, NEW r \in Request, Die(r)
  PROVE  LimitInv'
BY MoveStep DEF Die, LimitInv, TypeOK

\* Every allowance is at least one, so EXPIRE, after the first INCR, refuses none.
LEMMA ExpireStep ==
  ASSUME LimitInv, NEW r \in Request, Expire(r)
  PROVE  LimitInv'
<1>1. /\ request[r] \in Requests
      /\ LimiterOf(r) \in Class /\ KeyOf(r) \in Keys
  BY AtAKey DEF Expire, NoRequest, LimitInv
<1>2. Allows(LimiterOf(r), 1)
  BY <1>1, RateLimitAssumption DEF Allows
<1>3. request' = [request EXCEPT ![r] = Onward(request[r])]
  BY <1>2 DEF Expire, LimitInv, TypeOK
<1>4. expiring' \in [Class \X Windows -> BOOLEAN]
  BY <1>1 DEF Expire, LimitInv, TypeOK, Keys
<1> QED BY <1>1, <1>3, <1>4, OnwardTypes, MoveStep DEF Expire, LimitInv

\* INCR is one step of Redis: however many requests are at a limiter, each sees
\* a count of its own.
LEMMA IncrStep ==
  ASSUME LimitInv, NEW r \in Request, Incr(r)
  PROVE  LimitInv'
<1> DEFINE k == KeyOf(r)
           q == request'[r]
<1>1. /\ request[r] \in Requests /\ request[r].at = "incr"
      /\ LimiterOf(r) \in Class /\ k \in Keys
      /\ k[1] = LimiterOf(r) /\ k[2] = request[r].in
  BY AtAKey DEF Incr, NoRequest, LimitInv
<1>2. /\ key[k] \in Nat /\ spent[k] \in Nat /\ admitted[k] \in Nat /\ Limit[k[1]] \in Nat
      /\ key \in [Keys -> Nat] /\ spent \in [Keys -> Nat] /\ admitted \in [Keys -> Nat]
  BY <1>1, RateLimitAssumption DEF LimitInv, TypeOK, Keys
<1>3. /\ key' = [key EXCEPT ![k] = key[k] + 1]
      /\ spent' = [spent EXCEPT ![k] = spent[k] + 1]
      /\ \/ admitted' = admitted
         \/ /\ admitted' = [admitted EXCEPT ![k] = admitted[k] + 1]
            /\ key[k] + 1 <= Limit[k[1]] /\ k[2] = window
      /\ window' = window /\ expiring' = expiring
  BY <1>1, <1>2 DEF Incr, Allows
<1>4. /\ \A t \in Request : t # r => request'[t] = request[t]
      /\ \/ q = [request[r] EXCEPT !.at = "expire"]
         \/ q = Onward(request[r])
         \/ q = Refused(request[r]) /\ key[k] + 1 > Limit[k[1]]
      /\ request' = [request EXCEPT ![r] = q]
  BY <1>1, <1>2, RateLimitAssumption DEF Incr, Allows, LimitInv, TypeOK
<1>5. /\ key[k] <= spent[k]
      /\ k[2] = window => admitted[k] <= key[k]
      /\ window \in Nat
  BY <1>1, <1>2, RateLimitAssumption DEF LimitInv, KeysCount, Keys, TypeOK, Windows
<1>6. /\ request[r].passed < Len(Limiters(request[r].kind))
  BY <1>1 DEF LimitInv, AtALimiter, NoRequest
<1>7. \/ q = NoRequest
      \/ /\ q \in Requests
         /\ q.passed < Len(Limiters(q.kind))
         /\ q.at = "refused" => /\ q.kind = request[r].kind /\ q.passed = request[r].passed
                                /\ q.in = request[r].in /\ key[k] + 1 > Limit[k[1]]
  <2>1. CASE q = [request[r] EXCEPT !.at = "expire"]
    BY <1>1, <1>6, <2>1 DEF Requests
  <2>2. CASE q = Onward(request[r])
    BY <1>1, <2>2, OnwardTypes DEF LimitInv
  <2>3. CASE q = Refused(request[r]) /\ key[k] + 1 > Limit[k[1]]
    BY <1>1, <1>6, <2>3 DEF Requests, Refused
  <2> QED BY <1>4, <2>1, <2>2, <2>3
<1> HIDE DEF k, q
<1>8. TypeOK'
  <2>1. key' \in [Keys -> Nat] /\ spent' \in [Keys -> Nat] /\ admitted' \in [Keys -> Nat]
    BY <1>1, <1>2, <1>3
  <2>2. request' \in [Request -> Requests \cup {NoRequest}]
    BY <1>4, <1>7 DEF LimitInv, TypeOK
  <2> QED BY <1>3, <2>1, <2>2 DEF LimitInv, TypeOK, Keys
<1>9. AtALimiter'
  BY <1>4, <1>7 DEF LimitInv, AtALimiter
<1>10. KeysCount'
  <2> SUFFICES ASSUME NEW x \in Keys
               PROVE  key'[x] <= spent'[x] /\ (x[2] >= window => admitted'[x] <= key'[x])
    BY <1>3 DEF KeysCount, Keys
  <2>1. /\ key[x] <= spent[x] /\ (x[2] >= window => admitted[x] <= key[x])
        /\ key[x] \in Nat /\ spent[x] \in Nat /\ admitted[x] \in Nat
    BY <1>2 DEF LimitInv, KeysCount, Keys
  <2>2. CASE x = k
    BY <1>2, <1>3, <2>1, <2>2
  <2>3. CASE x # k
    BY <1>2, <1>3, <2>1, <2>3
  <2> QED BY <2>2, <2>3
<1>11. AllowanceIsKept'
  <2> SUFFICES ASSUME NEW x \in Keys PROVE admitted'[x] <= Limit[x[1]]
    BY DEF AllowanceIsKept, Keys
  <2>1. admitted[x] <= Limit[x[1]]
    BY DEF LimitInv, AllowanceIsKept, Keys
  <2>2. CASE x = k
    BY <1>2, <1>3, <1>5, <2>1, <2>2
  <2>3. CASE x # k
    BY <1>2, <1>3, <2>1, <2>3
  <2> QED BY <2>2, <2>3
<1>12. RefusalsAreEarned'
  <2> SUFFICES ASSUME NEW t \in Request, request'[t].at = "refused"
               PROVE  spent'[KeyOf(t)'] > Limit[LimiterOf(t)']
    BY DEF RefusalsAreEarned
  <2>1. CASE t = r
    <3>1. /\ key[k] + 1 > Limit[k[1]]
          /\ q.kind = request[r].kind /\ q.passed = request[r].passed /\ q.in = request[r].in
      BY <1>7, <2>1 DEF q, NoRequest
    <3>2. KeyOf(t)' = k /\ LimiterOf(t)' = k[1]
      BY <1>1, <2>1, <3>1 DEF KeyOf, LimiterOf, q, k
    <3>3. spent'[k] = spent[k] + 1
      BY <1>1, <1>2, <1>3
    <3> QED BY <1>2, <1>5, <3>1, <3>2, <3>3
  <2>2. CASE t # r
    <3>1. request'[t] = request[t]
      BY <1>4, <2>2
    <3>2. KeyOf(t)' = KeyOf(t) /\ LimiterOf(t)' = LimiterOf(t)
      BY <3>1 DEF KeyOf, LimiterOf
    <3>3. spent[KeyOf(t)] > Limit[LimiterOf(t)]
      BY <2>2, <3>1 DEF LimitInv, RefusalsAreEarned
    <3>4. KeyOf(t) \in Keys /\ LimiterOf(t) \in Class
      BY <3>1, AtAKey DEF LimitInv, NoRequest
    <3>5. Limit[LimiterOf(t)] \in Nat
      BY <3>4, RateLimitAssumption
    <3> QED BY <1>2, <1>3, <3>2, <3>3, <3>4, <3>5
  <2> QED BY <2>1, <2>2
<1> QED BY <1>8, <1>9, <1>10, <1>11, <1>12 DEF LimitInv

\* An INCR without an answer counts, and admits nobody.
LEMMA IncrUnansweredStep ==
  ASSUME LimitInv, NEW r \in Request, IncrUnanswered(r)
  PROVE  LimitInv'
<1> DEFINE k == KeyOf(r)
<1>1. k \in Keys
  BY AtAKey DEF IncrUnanswered, NoRequest, LimitInv
<1>2. /\ key \in [Keys -> Nat] /\ spent \in [Keys -> Nat] /\ admitted \in [Keys -> Nat]
      /\ key' = [key EXCEPT ![k] = key[k] + 1]
      /\ spent' = [spent EXCEPT ![k] = spent[k] + 1]
      /\ UNCHANGED <<window, expiring, request, admitted>>
  BY <1>1 DEF IncrUnanswered, LimitInv, TypeOK, Keys
<1> HIDE DEF k
<1>3. \A x \in Keys : /\ key[x] \in Nat /\ spent[x] \in Nat /\ admitted[x] \in Nat
                      /\ key'[x] >= key[x] /\ spent'[x] >= spent[x]
                      /\ key[x] <= spent[x] => key'[x] <= spent'[x]
  <2> SUFFICES ASSUME NEW x \in Keys
               PROVE  /\ key[x] \in Nat /\ spent[x] \in Nat /\ admitted[x] \in Nat
                      /\ key'[x] >= key[x] /\ spent'[x] >= spent[x]
                      /\ key[x] <= spent[x] => key'[x] <= spent'[x]
    OBVIOUS
  <2>1. CASE x = k
    BY <1>2, <2>1
  <2>2. CASE x # k
    BY <1>2, <2>2
  <2> QED BY <2>1, <2>2
<1>4. key' \in [Keys -> Nat] /\ spent' \in [Keys -> Nat]
  BY <1>1, <1>2
<1>5. TypeOK'
  BY <1>2, <1>4 DEF LimitInv, TypeOK, Keys
<1>6. AtALimiter' /\ AllowanceIsKept'
  BY <1>2 DEF LimitInv, AtALimiter, AllowanceIsKept
<1>7. KeysCount'
  <2> SUFFICES ASSUME NEW x \in Keys
               PROVE  key'[x] <= spent'[x] /\ (x[2] >= window => admitted[x] <= key'[x])
    BY <1>2 DEF KeysCount, Keys
  <2>1. key[x] <= spent[x] /\ (x[2] >= window => admitted[x] <= key[x])
    BY DEF LimitInv, KeysCount, Keys
  <2>2. /\ key[x] \in Nat /\ spent[x] \in Nat /\ admitted[x] \in Nat
        /\ key'[x] \in Nat /\ key'[x] >= key[x] /\ key'[x] <= spent'[x]
    BY <1>3, <1>4, <2>1
  <2> QED BY <2>1, <2>2
<1>8. RefusalsAreEarned'
  <2> SUFFICES ASSUME NEW t \in Request, request[t].at = "refused"
               PROVE  spent'[KeyOf(t)] > Limit[LimiterOf(t)]
    BY <1>2 DEF RefusalsAreEarned, KeyOf, LimiterOf
  <2>1. spent[KeyOf(t)] > Limit[LimiterOf(t)]
    BY DEF LimitInv, RefusalsAreEarned
  <2>2. KeyOf(t) \in Keys /\ LimiterOf(t) \in Class
    BY AtAKey DEF LimitInv, NoRequest
  <2>3. Limit[LimiterOf(t)] \in Nat
    BY <2>2, RateLimitAssumption
  <2>4. spent[KeyOf(t)] \in Nat /\ spent'[KeyOf(t)] \in Nat /\ spent'[KeyOf(t)] >= spent[KeyOf(t)]
    BY <1>3, <1>4, <2>2
  <2> QED BY <2>1, <2>3, <2>4
<1> QED BY <1>5, <1>6, <1>7, <1>8 DEF LimitInv

\* A key goes only when its window is over, and a new window finds no more keys
\* to answer for.
LEMMA TimeStep ==
  ASSUME LimitInv, (\E k \in Class \X Windows : Lapse(k)) \/ Tick
  PROVE  LimitInv'
<1>1. ASSUME NEW k \in Keys, Lapse(k) PROVE LimitInv'
  <2>1. TypeOK'
    BY <1>1 DEF LimitInv, TypeOK, Lapse, Keys
  <2>2. AtALimiter' /\ AllowanceIsKept' /\ RefusalsAreEarned'
    BY <1>1 DEF LimitInv, AtALimiter, AllowanceIsKept, RefusalsAreEarned, Lapse, KeyOf, LimiterOf
  <2>3. KeysCount'
    BY <1>1, RateLimitAssumption DEF LimitInv, TypeOK, KeysCount, Lapse, Outlived, Keys, Windows
  <2> QED BY <2>1, <2>2, <2>3 DEF LimitInv
<1>2. CASE Tick
  <2>1. TypeOK'
    BY <1>2, RateLimitAssumption DEF LimitInv, TypeOK, Tick, Windows
  <2>2. AtALimiter' /\ AllowanceIsKept' /\ RefusalsAreEarned'
    BY <1>2 DEF LimitInv, AtALimiter, AllowanceIsKept, RefusalsAreEarned, Tick, KeyOf, LimiterOf
  <2>3. KeysCount'
    BY <1>2, RateLimitAssumption DEF LimitInv, TypeOK, KeysCount, Tick, Windows
  <2> QED BY <2>1, <2>2, <2>3 DEF LimitInv
<1> QED BY <1>1, <1>2 DEF Keys

-----------------------------------------------------------------------------
(* The theorems.                                                           *)

LEMMA LimitInit == Init => LimitInv
<1> SUFFICES ASSUME Init PROVE LimitInv
  OBVIOUS
<1>1. TypeOK /\ KeysCount
  BY RateLimitAssumption DEF Init, TypeOK, KeysCount, Windows
<1>2. AtALimiter /\ AllowanceIsKept /\ RefusalsAreEarned
  BY RateLimitAssumption
     DEF Init, AtALimiter, AllowanceIsKept, RefusalsAreEarned, NoRequest
<1> QED BY <1>1, <1>2 DEF LimitInv

\* Every step of requests, Redis and time preserves the invariant.
THEOREM LimitInvInductive == Spec => []LimitInv
<1>1. LimitInv /\ [Next]_vars => LimitInv'
  <2> SUFFICES ASSUME LimitInv, [Next]_vars PROVE LimitInv'
    OBVIOUS
  <2>1. CASE UNCHANGED vars
    BY <2>1 DEF vars, LimitInv, TypeOK, AtALimiter, KeysCount, AllowanceIsKept,
                RefusalsAreEarned, KeyOf, LimiterOf
  <2> QED
    BY <2>1, ArriveStep, IncrStep, IncrUnansweredStep, ExpireStep, FailOpenStep, DieStep, TimeStep DEF Next
<1> QED BY <1>1, LimitInit, PTL DEF Spec

\* No limiter lets more than its allowance through in a window, however many
\* API processes serve however many requests at once.
THEOREM AllowancesHold == Spec => []AllowanceIsKept
<1>1. LimitInv => AllowanceIsKept
  BY DEF LimitInv
<1> QED BY <1>1, LimitInvInductive, PTL

\* A limiter refuses a request only when it spent more than its allowance in the
\* window: earlier windows are forgiven.
THEOREM RefusalsEarned == Spec => []RefusalsAreEarned
<1>1. LimitInv => RefusalsAreEarned
  BY DEF LimitInv
<1> QED BY <1>1, LimitInvInductive, PTL

\* TypeOK: counters, windows and requests keep their shape.
THEOREM LimitTypes == Spec => []TypeOK
<1>1. LimitInv => TypeOK
  BY DEF LimitInv
<1> QED BY <1>1, LimitInvInductive, PTL
=============================================================================
