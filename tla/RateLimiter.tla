---------------------------- MODULE RateLimiter ----------------------------
(***************************************************************************)
(* The per-address rate limiter every request passes before its handler    *)
(* (api/internal/middleware/ratelimit.go).  allow runs under one mutex, so *)
(* a request is one step.  A bucket counts the requests of one address and *)
(* lives for a fixed window; the table has a limited number of buckets and *)
(* drops dead ones only when it is full.                                   *)
(***************************************************************************)
EXTENDS Integers, FiniteSets, Sequences

CONSTANTS
    Keys,       \* client addresses
    Limit,      \* requests per bucket: 120 in New
    Window,     \* life of a bucket: one minute in New
    MaxKeys,    \* buckets in the table: 1000
    MaxTime,    \* bound: last instant of the clock
    MaxCalls    \* bound: requests of one address that are let through

ASSUME LimiterAssumption ==
    /\ Limit \in Nat \ {0}
    /\ Window \in Nat \ {0}
    /\ MaxKeys \in Nat \ {0}
    /\ MaxTime \in Nat
    /\ MaxCalls \in Nat

Time == 0 .. MaxTime
Bucket == [count : 1 .. Limit, resetAt : 0 .. (MaxTime + Window)]

VARIABLES
    visits,     \* the table: a function from addresses to their buckets
    now,        \* the clock
    admitted,   \* history: per address, the instants of the requests let through
    refused     \* history: per address, flips when a request is refused

vars == <<visits, now, admitted, refused>>

TypeOK ==
    /\ DOMAIN visits \subseteq Keys
    /\ visits \in [DOMAIN visits -> Bucket]
    /\ now \in Time
    /\ admitted \in [Keys -> Seq(Time)]
    /\ \A k \in Keys : Len(admitted[k]) <= MaxCalls
    /\ refused \in [Keys -> BOOLEAN]

Init ==
    /\ visits = [k \in {} |-> {}]
    /\ now = 0
    /\ admitted = [k \in Keys |-> <<>>]
    /\ refused = [k \in Keys |-> FALSE]

----------------------------------------------------------------------------
Known == DOMAIN visits

\* Mutant: the bucket's start is taken for its end.
DeadEarly(k) == now > visits[k].resetAt - Window

Dead(k) == now > visits[k].resetAt

\* The table as allow leaves it for an unknown address: dead buckets go
\* when there is no room (evictExpired).
Evicted == IF Cardinality(Known) >= MaxKeys THEN {k \in Known : ~Dead(k)} ELSE Known

Fresh == [count |-> 1, resetAt |-> now + Window]

Admit(k) ==
    /\ admitted' = [admitted EXCEPT ![k] = Append(@, now)]
    /\ UNCHANGED <<now, refused>>

Refuse(k) ==
    /\ refused' = [refused EXCEPT ![k] = ~@]
    /\ UNCHANGED <<now, admitted>>

\* Mutant: the check of maxKeys after the eviction is missing.
FirstVisitAlways(k) ==
    /\ k \notin Known
    /\ visits' = [j \in Evicted \cup {k} |-> IF j = k THEN Fresh ELSE visits[j]]
    /\ Admit(k)

\* An unknown address, when the table has room for it after the eviction.
FirstVisit(k) ==
    /\ k \notin Known
    /\ Cardinality(Evicted) < MaxKeys
    /\ visits' = [j \in Evicted \cup {k} |-> IF j = k THEN Fresh ELSE visits[j]]
    /\ Admit(k)

\* An unknown address, when every bucket of a full table is alive.
NoRoom(k) ==
    /\ k \notin Known
    /\ Cardinality(Evicted) >= MaxKeys
    /\ visits' = [j \in Evicted |-> visits[j]]
    /\ Refuse(k)

\* A known address whose bucket is dead starts a new one in its place.
NewWindow(k) ==
    /\ k \in Known
    /\ Dead(k)
    /\ visits' = [visits EXCEPT ![k] = Fresh]
    /\ Admit(k)

\* Mutant: one request too many.
CountsOneMore(k) ==
    /\ k \in Known
    /\ ~Dead(k)
    /\ visits[k].count <= Limit
    /\ visits' = [visits EXCEPT ![k].count = @ + 1]
    /\ Admit(k)

Counts(k) ==
    /\ k \in Known
    /\ ~Dead(k)
    /\ visits[k].count < Limit
    /\ visits' = [visits EXCEPT ![k].count = @ + 1]
    /\ Admit(k)

\* Mutant: a request over the limit puts the end of the bucket off.
OverLimitExtends(k) ==
    /\ k \in Known
    /\ ~Dead(k)
    /\ visits[k].count >= Limit
    /\ Refuse(k)
    /\ visits' = [visits EXCEPT ![k].resetAt = now + Window]

OverLimit(k) ==
    /\ k \in Known
    /\ ~Dead(k)
    /\ visits[k].count >= Limit
    /\ Refuse(k)
    /\ UNCHANGED visits

Allow(k) ==
    /\ Len(admitted[k]) < MaxCalls
    /\ FirstVisit(k) \/ NoRoom(k) \/ NewWindow(k) \/ Counts(k) \/ OverLimit(k)

Tick ==
    /\ now < MaxTime
    /\ now' = now + 1
    /\ UNCHANGED <<visits, admitted, refused>>

Next == (\E k \in Keys : Allow(k)) \/ Tick

Spec == Init /\ [][Next]_vars
----------------------------------------------------------------------------
(* The table never outgrows its ceiling.                                   *)
TableBounded == Cardinality(Known) <= MaxKeys

(* Whatever the alignment of the fixed windows, and whatever buckets are   *)
(* evicted in between, no stretch of time as long as a window lets through *)
(* two buckets' worth of one address: so many requests span more.          *)
LessThanTwice ==
    \A k \in Keys : \A n \in 1 .. Len(admitted[k]) - (2 * Limit - 1) :
        admitted[k][n + (2 * Limit - 1)] - admitted[k][n] > Window

\* The last n requests of k that were let through are of the last window.
Lately(k, n) ==
    /\ Len(admitted[k]) >= n
    /\ admitted[k][Len(admitted[k]) - n + 1] >= now - Window

(* Every request that is refused, the first as well as one that follows    *)
(* other refusals, is from an address that used its whole limit within the *)
(* last window, or from a new one while the table is full of addresses     *)
(* seen within the last window: a client that keeps asking while it is     *)
(* refused does not put off the end of its bucket.                         *)
RefusedForCause ==
    [][\A k \in Keys : refused'[k] # refused[k] =>
         Lately(k, Limit) \/ Cardinality({j \in Keys \ {k} : Lately(j, 1)}) >= MaxKeys]_vars
============================================================================
