------------------------ MODULE RateLimiter_proofs ------------------------
(***************************************************************************)
(* The table stays within its ceiling, windows let through less than two   *)
(* buckets' worth, and refusals have a cause, for any number of addresses. *)
(***************************************************************************)
EXTENDS RateLimiter, FiniteSetTheorems, TLAPS

\* The ceiling, and what the count of a set rests on.
TableInv == IsFiniteSet(Known) /\ TableBounded

LEMMA TypeInit == Init => TypeOK
<1> SUFFICES ASSUME Init PROVE TypeOK
    OBVIOUS
<1>1. DOMAIN visits = {} /\ visits \in [DOMAIN visits -> Bucket]
      BY Zenon DEF Init
<1>2. /\ now \in Time /\ admitted \in [Keys -> Seq(Time)]
      /\ \A k \in Keys : Len(admitted[k]) <= MaxCalls
      BY LimiterAssumption, SMT DEF Init, Time
<1>3. refused \in [Keys -> BOOLEAN]
      BY Zenon DEF Init
<1>. QED  BY <1>1, <1>2, <1>3, Zenon DEF TypeOK

LEMMA FreshType == TypeOK => Fresh \in Bucket
BY LimiterAssumption, SMT DEF TypeOK, Fresh, Bucket, Time

LEMMA AdmitType ==
    ASSUME TypeOK, NEW k \in Keys, Len(admitted[k]) < MaxCalls, Admit(k)
    PROVE  /\ now' \in Time
           /\ admitted' \in [Keys -> Seq(Time)]
           /\ \A j \in Keys : Len(admitted'[j]) <= MaxCalls
           /\ refused' \in [Keys -> BOOLEAN]
<1>1. now' \in Time /\ refused' \in [Keys -> BOOLEAN]
      BY Zenon DEF TypeOK, Admit
<1>2. /\ Append(admitted[k], now) \in Seq(Time)
      /\ Len(Append(admitted[k], now)) = Len(admitted[k]) + 1
      /\ Len(admitted[k]) \in Nat
      BY DEF TypeOK
<1>3. admitted' \in [Keys -> Seq(Time)]
      BY <1>2, Zenon DEF TypeOK, Admit
<1>4. \A j \in Keys : admitted'[j] = IF j = k THEN Append(admitted[k], now) ELSE admitted[j]
      BY Zenon DEF TypeOK, Admit
<1>5. \A j \in Keys : Len(admitted'[j]) <= MaxCalls
  <2>1. Len(admitted[k]) + 1 <= MaxCalls
        BY <1>2, LimiterAssumption
  <2>2. \A j \in Keys : Len(admitted[j]) <= MaxCalls
        BY Zenon DEF TypeOK
  <2>. QED  BY <1>2, <1>4, <2>1, <2>2, Zenon
<1>. QED  BY <1>1, <1>3, <1>5

\* Buckets of the table that is left after an eviction, and perhaps a new one.
LEMMA VisitsType ==
    ASSUME TypeOK, NEW S, S \subseteq Known, NEW k \in Keys,
           visits' = [j \in S \cup {k} |-> IF j = k THEN Fresh ELSE visits[j]]
    PROVE  DOMAIN visits' \subseteq Keys /\ visits' \in [DOMAIN visits' -> Bucket]
<1>1. DOMAIN visits' = S \cup {k}
      BY Zenon
<1>2. \A j \in S \cup {k} : visits'[j] \in Bucket
      BY FreshType, Zenon DEF TypeOK, Known
<1>. QED  BY <1>1, <1>2, Zenon DEF TypeOK, Known

LEMMA EvictedKnown == Evicted \subseteq Known
BY Zenon DEF Evicted

LEMMA TypeNext == TypeOK /\ [Next]_vars => TypeOK'
<1> SUFFICES ASSUME TypeOK, [Next]_vars PROVE TypeOK'
    OBVIOUS
<1>1. ASSUME NEW k \in Keys, Allow(k)
      PROVE  TypeOK'
  <2>0. Len(admitted[k]) < MaxCalls
        BY <1>1 DEF Allow
  <2>1. CASE FirstVisit(k)
    <3>1. DOMAIN visits' \subseteq Keys /\ visits' \in [DOMAIN visits' -> Bucket]
          BY <2>1, EvictedKnown, VisitsType, Zenon DEF FirstVisit
    <3>. QED  BY <2>0, <2>1, <3>1, AdmitType, Zenon DEF FirstVisit, TypeOK
  <2>2. CASE NoRoom(k)
    <3>1. visits' = [j \in Evicted |-> visits[j]]
          BY <2>2, Zenon DEF NoRoom
    <3>2. DOMAIN visits' = Evicted /\ \A j \in Evicted : visits'[j] \in Bucket
          BY <3>1, EvictedKnown, Zenon DEF TypeOK, Known
    <3>3. DOMAIN visits' \subseteq Keys /\ visits' \in [DOMAIN visits' -> Bucket]
          BY <3>1, <3>2, EvictedKnown, Zenon DEF TypeOK, Known
    <3>. QED  BY <2>2, <3>3, Zenon DEF NoRoom, Refuse, TypeOK
  <2>3. CASE NewWindow(k)
    <3>1. visits' = [visits EXCEPT ![k] = Fresh]
          BY <2>3, Zenon DEF NewWindow
    <3>2. DOMAIN visits' \subseteq Keys /\ visits' \in [DOMAIN visits' -> Bucket]
          BY <3>1, FreshType, Zenon DEF TypeOK
    <3>. QED  BY <2>0, <2>3, <3>2, AdmitType, Zenon DEF NewWindow, TypeOK
  <2>4. CASE Counts(k)
    <3>1. k \in Known /\ visits[k].count < Limit
          BY <2>4, Zenon DEF Counts
    <3>2. visits[k] \in Bucket
          BY <3>1, Zenon DEF TypeOK, Known
    <3>3. [visits[k] EXCEPT !.count = visits[k].count + 1] \in Bucket
          BY <3>1, <3>2, LimiterAssumption, SMT DEF Bucket
    <3>4. visits' = [visits EXCEPT ![k] = [visits[k] EXCEPT !.count = visits[k].count + 1]]
          BY <2>4, <3>1, Zenon DEF Counts, Known, TypeOK
    <3>5. DOMAIN visits' \subseteq Keys /\ visits' \in [DOMAIN visits' -> Bucket]
          BY <3>3, <3>4, Zenon DEF TypeOK
    <3>. QED  BY <2>0, <2>4, <3>5, AdmitType, Zenon DEF Counts, TypeOK
  <2>5. CASE OverLimit(k)
        BY <2>5, Zenon DEF OverLimit, Refuse, TypeOK
  <2>. QED  BY <1>1, <2>1, <2>2, <2>3, <2>4, <2>5 DEF Allow
<1>2. CASE Tick
  <2>1. now' \in Time
        BY <1>2, LimiterAssumption, SMT DEF Tick, TypeOK, Time
  <2>. QED  BY <1>2, <2>1, Zenon DEF Tick, TypeOK
<1>3. CASE UNCHANGED vars
      BY <1>3, Zenon DEF vars, TypeOK
<1>. QED  BY <1>1, <1>2, <1>3 DEF Next

(* Type correctness, and with it that no bucket lets through more than its *)
(* limit, for any number of addresses and any times.                       *)
THEOREM LimiterTypeCorrect == Spec => []TypeOK
BY TypeInit, TypeNext, PTL DEF Spec

LEMMA TableInit == Init => TableInv
<1> SUFFICES ASSUME Init PROVE TableInv
    OBVIOUS
<1>1. Known = {}
      BY Zenon DEF Init, Known
<1>. QED  BY <1>1, FS_EmptySet, LimiterAssumption, SMT DEF TableInv, TableBounded

LEMMA TableNext == TableInv /\ [Next]_vars => TableInv'
<1> SUFFICES ASSUME TableInv, [Next]_vars PROVE TableInv'
    OBVIOUS
<1>0. ASSUME Known' = Known
      PROVE  TableInv'
      BY <1>0 DEF TableInv, TableBounded
<1>1. /\ IsFiniteSet(Evicted)
      /\ Cardinality(Evicted) \in Nat
      /\ Cardinality(Evicted) <= Cardinality(Known)
      /\ Cardinality(Known) \in Nat
      BY EvictedKnown, FS_Subset, FS_CardinalityType DEF TableInv
<1>2. ASSUME NEW k \in Keys, Allow(k)
      PROVE  TableInv'
  <2>1. CASE FirstVisit(k)
    <3>1. Known' = Evicted \cup {k} /\ Cardinality(Evicted) < MaxKeys /\ k \notin Evicted
          BY <2>1, EvictedKnown, Zenon DEF FirstVisit, Known
    <3>2. IsFiniteSet(Known') /\ Cardinality(Known') = Cardinality(Evicted) + 1
          BY <1>1, <3>1, FS_AddElement
    <3>3. Cardinality(Known') <= MaxKeys
          BY <1>1, <3>1, <3>2, LimiterAssumption, SMT
    <3>. QED  BY <3>2, <3>3 DEF TableInv, TableBounded
  <2>2. CASE NoRoom(k)
    <3>1. Known' = Evicted
          BY <2>2, Zenon DEF NoRoom, Known
    <3>2. Cardinality(Known') <= MaxKeys
          BY <1>1, <3>1, LimiterAssumption, SMT DEF TableInv, TableBounded
    <3>. QED  BY <1>1, <3>1, <3>2 DEF TableInv, TableBounded
  <2>3. CASE NewWindow(k)
        BY <1>0, <2>3, Zenon DEF NewWindow, Known
  <2>4. CASE Counts(k)
        BY <1>0, <2>4, Zenon DEF Counts, Known
  <2>5. CASE OverLimit(k)
        BY <1>0, <2>5, Zenon DEF OverLimit, Known
  <2>. QED  BY <1>2, <2>1, <2>2, <2>3, <2>4, <2>5 DEF Allow
<1>3. CASE Tick
      BY <1>0, <1>3, Zenon DEF Tick, Known
<1>4. CASE UNCHANGED vars
      BY <1>0, <1>4, Zenon DEF vars, Known
<1>. QED  BY <1>2, <1>3, <1>4 DEF Next

(* The table never outgrows its ceiling, whatever addresses come in        *)
(* whatever order.                                                         *)
THEOREM TableStaysBounded == Spec => []TableBounded
<1>1. TableInv => TableBounded
      BY DEF TableInv
<1>. QED  BY <1>1, TableInit, TableNext, PTL DEF Spec

----------------------------------------------------------------------------
(* The history of one address: a is the sequence of the instants at which  *)
(* a request of it was let through, t the clock.                           *)

Sorted(a, t) ==
    /\ \A n \in 1 .. Len(a) : a[n] <= t
    /\ \A m, n \in 1 .. Len(a) : m <= n => a[m] <= a[n]

Spaced(a) ==
    \A n \in 1 .. Len(a) - (2 * Limit - 1) : a[n + (2 * Limit - 1)] - a[n] > Window

\* The address may start a bucket at t: before it, a whole limit of requests
\* reaches back beyond the window.
Rested(a, t) == Len(a) >= Limit => a[Len(a) - Limit + 1] + Window < t

\* The bucket b counts the last requests; it began with the first of them, and
\* a whole limit of requests before that one reaches back beyond the window.
First(a, b) == Len(a) - b.count + 1

Counted(a, b) ==
    /\ b.count <= Len(a)
    /\ b.resetAt = a[First(a, b)] + Window
    /\ First(a, b) > Limit => a[First(a, b) - Limit] + Window < a[First(a, b)]

LEMMA SortedLater ==
    ASSUME NEW a \in Seq(Nat), NEW t \in Nat, NEW u \in Nat, t <= u
    PROVE  (Sorted(a, t) => Sorted(a, u)) /\ (Rested(a, t) => Rested(a, u))
<1>1. ASSUME Sorted(a, t) PROVE Sorted(a, u)
  <2>1. \A n \in 1 .. Len(a) : a[n] \in Nat
        OBVIOUS
  <2>. QED  BY <1>1, <2>1 DEF Sorted
<1>2. ASSUME Rested(a, t) PROVE Rested(a, u)
  <2>1. Len(a) >= Limit => Len(a) - Limit + 1 \in 1 .. Len(a)
        BY LimiterAssumption
  <2>2. Len(a) >= Limit => a[Len(a) - Limit + 1] \in Nat
        BY <2>1
  <2>. QED  BY <1>2, <2>2, LimiterAssumption DEF Rested
<1>. QED  BY <1>1, <1>2

LEMMA SortedAppend ==
    ASSUME NEW a \in Seq(Nat), NEW t \in Nat, Sorted(a, t)
    PROVE  Sorted(Append(a, t), t)
<1>. DEFINE b == Append(a, t)
<1>1. Len(b) = Len(a) + 1 /\ Len(a) \in Nat
      OBVIOUS
<1>2. \A n \in 1 .. Len(a) : b[n] = a[n] /\ a[n] \in Nat
      OBVIOUS
<1>3. b[Len(a) + 1] = t
      OBVIOUS
<1>. HIDE DEF b
<1>4. \A n \in 1 .. Len(b) : b[n] <= t /\ (n = Len(a) + 1 \/ n \in 1 .. Len(a))
      BY <1>1, <1>2, <1>3 DEF Sorted
<1>5. ASSUME NEW m \in 1 .. Len(b), NEW n \in 1 .. Len(b), m <= n
      PROVE  b[m] <= b[n]
  <2>1. CASE n = Len(a) + 1
        BY <1>3, <1>4, <2>1
  <2>2. CASE n \in 1 .. Len(a)
    <3>1. m \in 1 .. Len(a)
          BY <1>1, <1>5, <2>2
    <3>. QED  BY <1>2, <1>5, <2>2, <3>1 DEF Sorted
  <2>. QED  BY <1>4, <2>1, <2>2
<1>6. Sorted(b, t)
      BY <1>4, <1>5 DEF Sorted
<1>. QED  BY <1>6 DEF b

\* A request at t is far enough from those before when the one that is two limits
\* back is no later than one that a window separates from t.
LEMMA SpacedAppend ==
    ASSUME NEW a \in Seq(Nat), NEW t \in Nat, Sorted(a, t), Spaced(a),
           NEW p \in Int, Len(a) + 2 - 2 * Limit <= p,
           Len(a) + 2 - 2 * Limit >= 1 => p \in 1 .. Len(a) /\ a[p] + Window < t
    PROVE  Spaced(Append(a, t))
<1>. DEFINE b == Append(a, t)
<1>1. Len(b) = Len(a) + 1 /\ Len(a) \in Nat
      OBVIOUS
<1>2. \A n \in 1 .. Len(a) : b[n] = a[n] /\ a[n] \in Nat
      OBVIOUS
<1>3. b[Len(a) + 1] = t
      OBVIOUS
<1>. HIDE DEF b
<1>4. SUFFICES ASSUME NEW n \in 1 .. Len(b) - (2 * Limit - 1)
               PROVE  b[n + (2 * Limit - 1)] - b[n] > Window
      BY DEF Spaced, b
<1>5. n \in 1 .. Len(a) /\ b[n] = a[n]
      BY <1>1, <1>2, LimiterAssumption
<1>6. CASE n + (2 * Limit - 1) = Len(a) + 1
  <2>1. n = Len(a) + 2 - 2 * Limit
        BY <1>1, <1>6, LimiterAssumption
  <2>2. p \in 1 .. Len(a) /\ a[p] + Window < t /\ n <= p
        BY <1>5, <2>1
  <2>3. a[n] <= a[p]
        BY <1>5, <2>2 DEF Sorted
  <2>4. b[n + (2 * Limit - 1)] = t
        BY <1>3, <1>6
  <2>5. a[n] \in Nat /\ a[p] \in Nat
        BY <1>5, <2>2
  <2>6. \A x, y \in Nat : x <= y /\ y + Window < t => t - x > Window
        BY LimiterAssumption
  <2>7. t - a[n] > Window
        BY <2>2, <2>3, <2>5, <2>6, Zenon
  <2>. QED  BY <1>5, <2>4, <2>7
<1>7. CASE n + (2 * Limit - 1) # Len(a) + 1
  <2>1. n \in 1 .. Len(a) - (2 * Limit - 1) /\ n + (2 * Limit - 1) \in 1 .. Len(a)
    <3>1. \A l \in Nat, k \in Nat \ {0} : \A m \in 1 .. (l + 1) - k :
             m + k # l + 1 => m \in 1 .. l - k /\ m + k \in 1 .. l
          OBVIOUS
    <3>2. 2 * Limit - 1 \in Nat \ {0}
          BY LimiterAssumption
    <3>3. n \in 1 .. (Len(a) + 1) - (2 * Limit - 1)
          BY <1>1, Zenon
    <3>. QED  BY <1>1, <1>7, <3>1, <3>2, <3>3, Zenon
  <2>2. b[n + (2 * Limit - 1)] = a[n + (2 * Limit - 1)]
        BY <1>2, <2>1, Zenon
  <2>3. a[n + (2 * Limit - 1)] - a[n] > Window
        BY <2>1, Zenon DEF Spaced
  <2>. QED  BY <1>5, <2>2, <2>3, Zenon
<1>. QED  BY <1>6, <1>7

LEMMA StartsBucket ==
    ASSUME NEW a \in Seq(Nat), NEW t \in Nat, Sorted(a, t), Spaced(a), Rested(a, t),
           NEW r, r.count = 1, r.resetAt = t + Window
    PROVE  /\ Sorted(Append(a, t), t) /\ Spaced(Append(a, t))
           /\ Counted(Append(a, t), r)
<1>0. Len(a) \in Nat
      OBVIOUS
<1>1. Spaced(Append(a, t))
  <2>. DEFINE p == Len(a) - Limit + 1
  <2>1. p \in Int /\ Len(a) + 2 - 2 * Limit <= p
        BY <1>0, LimiterAssumption
  <2>2. Len(a) + 2 - 2 * Limit >= 1 => p \in 1 .. Len(a) /\ a[p] + Window < t
        BY <1>0, LimiterAssumption DEF Rested
  <2>. QED  BY <2>1, <2>2, SpacedAppend
<1>2. Counted(Append(a, t), r)
  <2>. DEFINE b == Append(a, t)
  <2>1. Len(b) = Len(a) + 1 /\ b[Len(a) + 1] = t
        OBVIOUS
  <2>2. \A n \in 1 .. Len(a) : b[n] = a[n]
        OBVIOUS
  <2>. HIDE DEF b
  <2>3. First(b, r) = Len(a) + 1
        BY <1>0, <2>1 DEF First
  <2>4. ASSUME NEW q, q = Len(a) + 1, q > Limit
        PROVE  b[q - Limit] + Window < t
    <3>1. /\ Len(a) >= Limit /\ q - Limit = Len(a) - Limit + 1
          /\ Len(a) - Limit + 1 \in 1 .. Len(a)
          BY <1>0, <2>4, LimiterAssumption
    <3>2. b[q - Limit] = a[Len(a) - Limit + 1]
          BY <2>2, <3>1, Zenon
    <3>3. a[Len(a) - Limit + 1] + Window < t
          BY <3>1 DEF Rested
    <3>. QED  BY <3>2, <3>3
  <2>6. r.count <= Len(b) /\ r.resetAt = b[First(b, r)] + Window
        BY <1>0, <2>1, <2>3
  <2>5. Counted(b, r)
    <3>1. b[First(b, r)] = t
          BY <2>1, <2>3, Zenon
    <3>2. First(b, r) > Limit => b[First(b, r) - Limit] + Window < t
          BY <2>3, <2>4
    <3>3. First(b, r) > Limit => b[First(b, r) - Limit] + Window < b[First(b, r)]
          BY <3>1, <3>2, Zenon
    <3>. QED  BY <2>6, <3>3, Zenon DEF Counted
  <2>. QED  BY <2>5 DEF b
<1>. QED  BY <1>1, <1>2, SortedAppend

\* What Counted says of the first request of the bucket.
LEMMA FirstOfBucket ==
    ASSUME NEW a \in Seq(Nat), NEW b, Counted(a, b), b.count \in 1 .. Limit
    PROVE  \E c \in 1 .. Limit, q \in 1 .. Len(a) :
              /\ c = b.count /\ q = Len(a) - c + 1
              /\ b.resetAt = a[q] + Window
              /\ q > Limit => a[q - Limit] + Window < a[q]
<1>1. PICK c \in 1 .. Limit : c = b.count
      OBVIOUS
<1>2. c <= Len(a) /\ First(a, b) = Len(a) - c + 1
      BY <1>1 DEF Counted, First
<1>0. Len(a) \in Int /\ c \in Int /\ c >= 1
      BY LimiterAssumption
<1>. DEFINE q == Len(a) - c + 1
<1>4. q \in 1 .. Len(a) /\ First(a, b) = q
      BY <1>0, <1>2
<1>. HIDE DEF q
<1>5. b.resetAt = a[q] + Window /\ (q > Limit => a[q - Limit] + Window < a[q])
      BY <1>4, Zenon DEF Counted
<1>. QED  BY <1>1, <1>4, <1>5, Zenon DEF q

LEMMA CountsOn ==
    ASSUME NEW a \in Seq(Nat), NEW t \in Nat, Sorted(a, t), Spaced(a),
           NEW b, Counted(a, b), b.count \in 1 .. Limit, b.count < Limit,
           NEW r, r.count = b.count + 1, r.resetAt = b.resetAt
    PROVE  /\ Sorted(Append(a, t), t) /\ Spaced(Append(a, t))
           /\ Counted(Append(a, t), r)
<1>0. Len(a) \in Nat /\ \A n \in 1 .. Len(a) : a[n] \in Nat
      OBVIOUS
<1>1. PICK c \in 1 .. Limit, q \in 1 .. Len(a) :
         /\ c = b.count /\ q = Len(a) - c + 1
         /\ b.resetAt = a[q] + Window
         /\ q > Limit => a[q - Limit] + Window < a[q]
      BY FirstOfBucket
<1>8. c < Limit
      BY <1>1
<1>9. /\ c \in Int /\ q \in Int /\ Limit \in Int
      /\ c >= 1 /\ c < Limit /\ q >= 1 /\ q <= Len(a) /\ q = Len(a) - c + 1
      BY <1>0, <1>1, <1>8, LimiterAssumption
<1>2. Spaced(Append(a, t))
  <2>. DEFINE p == q - Limit
  <2>1. p \in Int /\ Len(a) + 2 - 2 * Limit <= p
        BY <1>0, <1>9
  <2>2. ASSUME Len(a) + 2 - 2 * Limit >= 1
        PROVE  p \in 1 .. Len(a) /\ a[p] + Window < t
    <3>1. p \in 1 .. Len(a) /\ q > Limit
          BY <1>0, <1>9, <2>2
    <3>2. a[p] + Window < a[q] /\ a[q] <= t
          BY <1>1, <3>1 DEF Sorted
    <3>3. a[p] \in Nat /\ a[q] \in Nat
          BY <1>0, <3>1, Zenon
    <3>. HIDE DEF p
    <3>4. a[p] + Window < t
          BY <3>2, <3>3, LimiterAssumption
    <3>. QED  BY <3>1, <3>4
  <2>. QED  BY <2>1, <2>2, SpacedAppend
<1>3. Counted(Append(a, t), r)
  <2>. DEFINE d == Append(a, t)
  <2>1. Len(d) = Len(a) + 1 /\ \A n \in 1 .. Len(a) : d[n] = a[n]
        OBVIOUS
  <2>. HIDE DEF d
  <2>2. First(d, r) = q /\ r.count <= Len(d)
    <3>1. r.count = c + 1
          BY <1>1
    <3>2. Len(d) - r.count + 1 = q /\ r.count <= Len(d)
          BY <1>0, <1>9, <2>1, <3>1
    <3>. QED  BY <3>2, Zenon DEF First
  <2>3. q > Limit => q - Limit \in 1 .. Len(a)
        BY <1>0, <1>9
  <2>4. d[q] = a[q] /\ (q > Limit => d[q - Limit] = a[q - Limit])
        BY <1>1, <2>1, <2>3
  <2>5. Counted(d, r)
        BY <1>1, <2>2, <2>4 DEF Counted
  <2>. QED  BY <2>5 DEF d
<1>. QED  BY <1>2, <1>3, SortedAppend

\* An address whose bucket is dead may start a new one, evicted or not.
LEMMA DeadIsRested ==
    ASSUME NEW a \in Seq(Nat), NEW t \in Nat, Sorted(a, t),
           NEW b, Counted(a, b), b.count \in 1 .. Limit, t > b.resetAt
    PROVE  Rested(a, t)
<1>0. Len(a) \in Nat /\ \A n \in 1 .. Len(a) : a[n] \in Nat
      OBVIOUS
<1>1. PICK c \in 1 .. Limit, q \in 1 .. Len(a) :
         q = Len(a) - c + 1 /\ b.resetAt = a[q] + Window
      BY FirstOfBucket
<1>2. SUFFICES ASSUME Len(a) >= Limit
               PROVE  a[Len(a) - Limit + 1] + Window < t
      BY DEF Rested
<1>. DEFINE p == Len(a) - Limit + 1
<1>3. p \in 1 .. Len(a) /\ p <= q
  <2>1. /\ c \in Int /\ q \in Int /\ Limit \in Int /\ Limit >= 1
        /\ c >= 1 /\ c <= Limit /\ q >= 1 /\ q <= Len(a) /\ q = Len(a) - c + 1
        BY <1>0, <1>1, LimiterAssumption
  <2>. QED  BY <1>0, <1>2, <2>1
<1>4. a[p] <= a[q] /\ a[p] \in Nat /\ a[q] \in Nat
      BY <1>0, <1>3, Zenon DEF Sorted
<1>5. a[p] + Window < t
  <2>. HIDE DEF p
  <2>1. b.resetAt = a[q] + Window /\ t > a[q] + Window
        BY <1>1
  <2>. QED  BY <1>4, <2>1, LimiterAssumption
<1>. QED  BY <1>5

\* A bucket that is full and alive holds the whole limit of the last window; a
\* bucket that is alive was used in it.
LEMMA AliveIsLate ==
    ASSUME NEW a \in Seq(Nat), NEW t \in Nat, Sorted(a, t),
           NEW b, Counted(a, b), b.count \in 1 .. Limit, ~ (t > b.resetAt)
    PROVE  /\ Len(a) >= b.count /\ a[Len(a) - b.count + 1] >= t - Window
           /\ Len(a) >= 1 /\ a[Len(a)] >= t - Window
<1>0. Len(a) \in Nat /\ \A n \in 1 .. Len(a) : a[n] \in Nat
      OBVIOUS
<1>1. PICK c \in 1 .. Limit, q \in 1 .. Len(a) :
         c = b.count /\ q = Len(a) - c + 1 /\ b.resetAt = a[q] + Window
      BY FirstOfBucket
<1>2. q <= Len(a) /\ Len(a) \in 1 .. Len(a) /\ Len(a) >= 1
      BY <1>0
<1>4. a[q] <= a[Len(a)] /\ a[q] \in Nat /\ a[Len(a)] \in Nat
      BY <1>0, <1>2, Zenon DEF Sorted
<1>3. a[q] >= t - Window /\ a[Len(a)] >= t - Window
  <2>1. ~ (t > a[q] + Window)
        BY <1>1
  <2>. QED  BY <1>4, <2>1, LimiterAssumption
<1>. QED  BY <1>0, <1>1, <1>2, <1>3

----------------------------------------------------------------------------
(* The histories of all addresses. *)

Visitors == {k \in Keys : Len(admitted[k]) >= 1}

HistoryInv ==
    /\ \A k \in Keys : Sorted(admitted[k], now) /\ Spaced(admitted[k])
    /\ \A k \in Known : Counted(admitted[k], visits[k])
    /\ \A k \in Keys : k \in Known \/ Rested(admitted[k], now)
    /\ IsFiniteSet(Visitors)

LEMMA Types ==
    ASSUME TypeOK
    PROVE  /\ now \in Nat /\ Known \subseteq Keys
           /\ \A k \in Keys : admitted[k] \in Seq(Nat)
           /\ \A k \in Known : visits[k].count \in 1 .. Limit
<1>1. now \in Nat /\ Known \subseteq Keys
      BY LimiterAssumption DEF TypeOK, Time, Known
<1>2. \A a \in Seq(Time) : a \in Seq(Nat)
      BY LimiterAssumption DEF Time
<1>3. \A k \in Known : visits[k] \in Bucket
      BY Zenon DEF TypeOK, Known
<1>4. \A k \in Known : visits[k].count \in 1 .. Limit
      BY <1>3 DEF Bucket
<1>. QED  BY <1>1, <1>2, <1>4, Zenon DEF TypeOK

LEMMA HistoryInit == Init => HistoryInv
<1> SUFFICES ASSUME Init PROVE HistoryInv
    OBVIOUS
<1>1. \A k \in Keys : admitted[k] = << >>
      BY Zenon DEF Init
<1>2. Len(<< >>) = 0
      OBVIOUS
<1>3. Known = {}
      BY Zenon DEF Init, Known
<1>4. Sorted(<< >>, now) /\ Spaced(<< >>) /\ Rested(<< >>, now)
      BY <1>2, LimiterAssumption DEF Sorted, Spaced, Rested
<1>5. Visitors = {}
      BY <1>1, <1>2 DEF Visitors
<1>. QED  BY <1>1, <1>3, <1>4, <1>5, FS_EmptySet, Zenon DEF HistoryInv

\* Nobody is let through: the buckets that go are dead.
LEMMA EvictStep ==
    ASSUME TypeOK, HistoryInv, UNCHANGED <<now, admitted>>,
           \A j \in Known' : j \in Known /\ visits'[j] = visits[j],
           \A j \in Known : j \in Known' \/ Dead(j)
    PROVE  HistoryInv'
<1>1. \A j \in Known : Dead(j) => Rested(admitted[j], now)
      BY Types, DeadIsRested, Zenon DEF HistoryInv, Dead
<1>2. Visitors' = Visitors
      BY Zenon DEF Visitors
<1>3. \A j \in Keys : j \in Known' \/ Rested(admitted'[j], now')
      BY <1>1, Zenon DEF HistoryInv
<1>4. \A j \in Known' : Counted(admitted'[j], visits'[j])
      BY Zenon DEF HistoryInv
<1>. QED  BY <1>2, <1>3, <1>4, Zenon DEF HistoryInv

\* k is let through, and its bucket counts it.
LEMMA AdmitStep ==
    ASSUME TypeOK, HistoryInv, NEW k \in Keys, Admit(k), k \in Known',
           \A j \in Known' : j = k \/ (j \in Known /\ visits'[j] = visits[j]),
           \A j \in Known : j \in Known' \/ Dead(j),
           Sorted(Append(admitted[k], now), now), Spaced(Append(admitted[k], now)),
           Counted(Append(admitted[k], now), visits'[k])
    PROVE  HistoryInv'
<1>1. \A j \in Known : Dead(j) => Rested(admitted[j], now)
      BY Types, DeadIsRested, Zenon DEF HistoryInv, Dead
<1>2. /\ \A j \in Keys : admitted'[j] = IF j = k THEN Append(admitted[k], now) ELSE admitted[j]
      /\ now' = now
      BY Zenon DEF TypeOK, Admit
<1>3. \A j \in Keys : Sorted(admitted'[j], now') /\ Spaced(admitted'[j])
      BY <1>2, Zenon DEF HistoryInv
<1>4. \A j \in Keys : j \in Known' \/ Rested(admitted'[j], now')
      BY <1>1, <1>2, Zenon DEF HistoryInv
<1>5. \A j \in Known' : Counted(admitted'[j], visits'[j])
  <2>1. Known \subseteq Keys
        BY Types
  <2>. QED  BY <1>2, <2>1, Zenon DEF HistoryInv
<1>6. IsFiniteSet(Visitors')
  <2>1. Visitors' \subseteq Visitors \cup {k}
        BY <1>2, Zenon DEF Visitors
  <2>2. IsFiniteSet(Visitors \cup {k})
        BY FS_AddElement DEF HistoryInv
  <2>. QED  BY <2>1, <2>2, FS_Subset
<1>. QED  BY <1>3, <1>4, <1>5, <1>6, Zenon DEF HistoryInv

LEMMA HistoryNext == TypeOK /\ HistoryInv /\ [Next]_vars => HistoryInv'
<1> SUFFICES ASSUME TypeOK, HistoryInv, [Next]_vars PROVE HistoryInv'
    OBVIOUS
<1>0. \A j \in Known : j \in Evicted \/ Dead(j)
      BY Zenon DEF Evicted
<1>1. ASSUME NEW k \in Keys, Allow(k)
      PROVE  HistoryInv'
  <2>0. /\ admitted[k] \in Seq(Nat) /\ now \in Nat
        /\ Sorted(admitted[k], now) /\ Spaced(admitted[k])
        BY Types, Zenon DEF HistoryInv
  <2>1. Fresh.count = 1 /\ Fresh.resetAt = now + Window
        BY DEF Fresh
  <2>2. CASE FirstVisit(k)
    <3>1. /\ Known' = Evicted \cup {k} /\ k \notin Known /\ visits'[k] = Fresh
          /\ \A j \in Evicted : j # k => visits'[j] = visits[j]
          BY <2>2, Zenon DEF FirstVisit, Known
    <3>2. Rested(admitted[k], now)
          BY <3>1, Zenon DEF HistoryInv
    <3>3. /\ Sorted(Append(admitted[k], now), now) /\ Spaced(Append(admitted[k], now))
          /\ Counted(Append(admitted[k], now), visits'[k])
          BY <2>0, <2>1, <3>1, <3>2, StartsBucket, Zenon
    <3>4. Admit(k)
          BY <2>2 DEF FirstVisit
    <3>. QED  BY <1>0, <3>1, <3>3, <3>4, EvictedKnown, AdmitStep, Zenon
  <2>3. CASE NoRoom(k)
    <3>1. Known' = Evicted /\ \A j \in Evicted : visits'[j] = visits[j]
          BY <2>3, Zenon DEF NoRoom, Known
    <3>2. UNCHANGED <<now, admitted>>
          BY <2>3, Zenon DEF NoRoom, Refuse
    <3>. QED  BY <1>0, <3>1, <3>2, EvictedKnown, EvictStep, Zenon
  <2>4. CASE NewWindow(k)
    <3>1. /\ k \in Known /\ Dead(k) /\ Admit(k) /\ Known' = Known /\ visits'[k] = Fresh
          /\ \A j \in Known : j # k => visits'[j] = visits[j]
          BY <2>4, Zenon DEF NewWindow, Known, TypeOK
    <3>2. Rested(admitted[k], now)
          BY <2>0, <3>1, Types, DeadIsRested, Zenon DEF HistoryInv, Dead
    <3>3. /\ Sorted(Append(admitted[k], now), now) /\ Spaced(Append(admitted[k], now))
          /\ Counted(Append(admitted[k], now), visits'[k])
          BY <2>0, <2>1, <3>1, <3>2, StartsBucket, Zenon
    <3>. QED  BY <3>1, <3>3, AdmitStep, Zenon
  <2>5. CASE Counts(k)
    <3>1. /\ k \in Known /\ visits[k].count < Limit /\ Admit(k) /\ Known' = Known
          /\ visits'[k] = [visits[k] EXCEPT !.count = @ + 1]
          /\ \A j \in Known : j # k => visits'[j] = visits[j]
          BY <2>5, Zenon DEF Counts, Known, TypeOK
    <3>2. visits[k] \in Bucket
          BY <3>1, Zenon DEF TypeOK, Known
    <3>3. /\ visits'[k].count = visits[k].count + 1
          /\ visits'[k].resetAt = visits[k].resetAt
          BY <3>1, <3>2 DEF Bucket
    <3>4. Counted(admitted[k], visits[k]) /\ visits[k].count \in 1 .. Limit
          BY <3>1, Types, Zenon DEF HistoryInv
    <3>5. /\ Sorted(Append(admitted[k], now), now) /\ Spaced(Append(admitted[k], now))
          /\ Counted(Append(admitted[k], now), visits'[k])
          BY <2>0, <3>1, <3>3, <3>4, CountsOn, Zenon
    <3>. QED  BY <3>1, <3>5, AdmitStep, Zenon
  <2>6. CASE OverLimit(k)
        BY <2>6, EvictStep, Zenon DEF OverLimit, Refuse, Known
  <2>. QED  BY <1>1, <2>2, <2>3, <2>4, <2>5, <2>6 DEF Allow
<1>2. CASE Tick
  <2>1. UNCHANGED <<visits, admitted>> /\ now' \in Nat /\ now <= now'
        BY <1>2, Types DEF Tick
  <2>2. \A j \in Keys : /\ Sorted(admitted'[j], now')
                        /\ Rested(admitted[j], now) => Rested(admitted'[j], now')
        BY <2>1, Types, SortedLater, Zenon DEF HistoryInv
  <2>3. Known' = Known /\ Visitors' = Visitors
        BY <2>1, Zenon DEF Known, Visitors
  <2>. QED  BY <2>1, <2>2, <2>3, Zenon DEF HistoryInv
<1>3. CASE UNCHANGED vars
      BY <1>3, EvictStep, Zenon DEF vars, Known
<1>. QED  BY <1>1, <1>2, <1>3 DEF Next

LEMMA HistoryAlways == Spec => [](TypeOK /\ TableInv /\ HistoryInv)
BY TypeInit, TypeNext, TableInit, TableNext, HistoryInit, HistoryNext, PTL DEF Spec

(* Whatever the alignment of an address's windows, and though its bucket   *)
(* may be evicted and begun again, requests that make up two buckets span  *)
(* more than a window.                                                     *)
THEOREM WindowsKeepDistance == Spec => []LessThanTwice
<1>1. HistoryInv => LessThanTwice
      BY Zenon DEF HistoryInv, Spaced, LessThanTwice
<1>. QED  BY <1>1, HistoryAlways, PTL

LEMMA RefusalStep ==
    ASSUME TypeOK, TableInv, HistoryInv, [Next]_vars,
           NEW k \in Keys, refused'[k] # refused[k]
    PROVE  Lately(k, Limit) \/ Cardinality({j \in Keys \ {k} : Lately(j, 1)}) >= MaxKeys
<1>1. OverLimit(k) \/ NoRoom(k)
  <2>1. PICK j \in Keys : Allow(j)
    <3>1. ~ UNCHANGED refused
          BY Zenon
    <3>. QED  BY <3>1, Zenon DEF Next, Tick, vars
  <2>2. CASE Admit(j)
        BY <2>2, Zenon DEF Admit, TypeOK
  <2>3. CASE Refuse(j)
    <3>1. j = k
          BY <2>3, Zenon DEF Refuse, TypeOK
    <3>. QED  BY <2>1, <2>2, <3>1, Zenon DEF Allow, FirstVisit, NewWindow, Counts
  <2>. QED  BY <2>1, <2>2, <2>3, Zenon DEF Allow, FirstVisit, NewWindow, Counts, OverLimit,
            NoRoom
<1>2. \A j \in Known : ~Dead(j) =>
         /\ Lately(j, 1)
         /\ visits[j].count >= Limit => Lately(j, Limit)
  <2> SUFFICES ASSUME NEW j \in Known, ~Dead(j)
               PROVE  Lately(j, 1) /\ (visits[j].count >= Limit => Lately(j, Limit))
      OBVIOUS
  <2>. DEFINE a == admitted[j]
  <2>1. a \in Seq(Nat) /\ now \in Nat /\ visits[j].count \in 1 .. Limit
        BY Types, Zenon
  <2>2. Sorted(a, now) /\ Counted(a, visits[j]) /\ ~ (now > visits[j].resetAt)
        BY Types, Zenon DEF HistoryInv, Dead
  <2>3. /\ Len(a) >= visits[j].count /\ a[Len(a) - visits[j].count + 1] >= now - Window
        /\ Len(a) >= 1 /\ a[Len(a)] >= now - Window
        BY <2>1, <2>2, AliveIsLate, Zenon
  <2>4. Len(a) - 1 + 1 = Len(a)
        BY <2>1
  <2>5. Lately(j, 1)
        BY <2>3, <2>4, Zenon DEF Lately
  <2>6. visits[j].count >= Limit => visits[j].count = Limit
        BY <2>1, LimiterAssumption
  <2>7. visits[j].count >= Limit => Lately(j, Limit)
        BY <2>3, <2>6, Zenon DEF Lately
  <2>. QED  BY <2>5, <2>7
<1>3. CASE OverLimit(k)
      BY <1>2, <1>3, Zenon DEF OverLimit
<1>4. CASE NoRoom(k)
  <2>. DEFINE L == {j \in Keys \ {k} : Lately(j, 1)}
  <2>1. k \notin Known /\ Cardinality(Evicted) >= MaxKeys
        BY <1>4 DEF NoRoom
  <2>2. Cardinality(Known) \in Nat
        BY FS_CardinalityType DEF TableInv
  <2>3. \A j \in Evicted : ~Dead(j)
    <3>1. CASE Cardinality(Known) >= MaxKeys
          BY <3>1, Zenon DEF Evicted
    <3>2. CASE ~ (Cardinality(Known) >= MaxKeys)
      <4>1. Evicted = Known
            BY <3>2, Zenon DEF Evicted
      <4>. QED  BY <2>1, <3>2, <4>1
    <3>. QED  BY <3>1, <3>2
  <2>4. Evicted \subseteq L
        BY <1>2, <2>1, <2>3, EvictedKnown, Types, Zenon
  <2>5. IsFiniteSet(L)
    <3>1. L \subseteq Visitors
          BY Zenon DEF Visitors, Lately
    <3>. QED  BY <3>1, FS_Subset DEF HistoryInv
  <2>6. Cardinality(Evicted) <= Cardinality(L) /\ Cardinality(Evicted) \in Nat
        /\ Cardinality(L) \in Nat
        BY <2>4, <2>5, FS_Subset, FS_CardinalityType
  <2>. HIDE DEF L
  <2>7. Cardinality(L) >= MaxKeys
        BY <2>1, <2>6, LimiterAssumption
  <2>. QED  BY <2>7 DEF L
<1>. QED  BY <1>1, <1>3, <1>4

(* No request is refused, not the first and none after it, of an address   *)
(* that has not used a whole limit in the last window, unless the table is *)
(* full of addresses let through in that window.                           *)
THEOREM RefusalsHaveCause == Spec => RefusedForCause
<1>1. TypeOK /\ TableInv /\ HistoryInv /\ [Next]_vars =>
        [\A k \in Keys : refused'[k] # refused[k] =>
           Lately(k, Limit) \/ Cardinality({j \in Keys \ {k} : Lately(j, 1)}) >= MaxKeys]_vars
      BY RefusalStep, Zenon
<1>. QED  BY <1>1, HistoryAlways, PTL DEF Spec, RefusedForCause
============================================================================
