------------------------ MODULE IngressLimiter_proof ------------------------
(***************************************************************************)
(* Proofs about IngressLimiter for every set of UIDs, burst, refill        *)
(* interval, ceiling and horizon.                                          *)
(***************************************************************************)
EXTENDS IngressLimiter, FiniteSetTheorems, TLAPS

(* The division of a lazily refilled bucket: what is credited never exceeds
   the time elapsed, and less than one interval of it is left over. *)
LEMMA DivisionFacts ==
  ASSUME NEW e \in Nat
  PROVE  /\ e \div Refill \in Nat
         /\ Refill * (e \div Refill) <= e
         /\ e < Refill * (e \div Refill) + Refill
BY LimiterAssumption, SMT

LEMMA TtlFacts == Ttl \in Nat /\ Ttl = Refill * Burst
BY LimiterAssumption, SMT DEF Ttl

(* The clock is never behind a bucket's instants, and a bucket is never
   refilled after it was last seen. *)
Clocked ==
  \A u \in Uid : bucket[u].lastRefill <= bucket[u].lastSeen /\ bucket[u].lastSeen <= now

(* BurstBound made inductive.  Once the watched UID has called, the tokens left
   in its bucket count as if already admitted, up to the instant of its last
   refill.  The bound also outlives the bucket: a pruned bucket was idle for a
   whole TTL, which is what a fresh burst costs. *)
Credit ==
  LET b == bucket[window.uid] IN
  /\ window.start <= now
  /\ ~window.called => window.admitted = 0
  /\ window.called /\ ~window.evicted =>
       Refill * (window.admitted + b.tokens)
         <= Refill * Burst + (b.lastRefill - window.start) + (Refill - 1)

(* A bucket that is gone and was not evicted was pruned. *)
Pruned ==
  window.called /\ ~window.evicted /\ window.uid \notin live =>
    now - bucket[window.uid].lastSeen >= Ttl

LimiterInv == LimiterTypeOK /\ Clocked /\ Credit /\ Pruned

(* A bucket with its tokens and refill instant replaced. *)
Update(e, t, r) == [e EXCEPT !.tokens = t, !.lastRefill = r]

LEMMA UpdateFacts ==
  ASSUME NEW e \in Bucket, NEW t \in 0 .. Burst, NEW r \in Nat
  PROVE  /\ Update(e, t, r) \in Bucket
         /\ Update(e, t, r).tokens = t
         /\ Update(e, t, r).lastRefill = r
         /\ Update(e, t, r).lastSeen = e.lastSeen
BY DEF Bucket, Update

(* What the refill at the start of a call leaves in the caller's bucket: less
   than one interval is outstanding, and no token came from nowhere. *)
LEMMA RefillFacts ==
  ASSUME LimiterTypeOK, Clocked, NEW u \in Uid, NEW b, b = Refilled(Entered(u))
  PROVE  /\ b \in Bucket
         /\ b.lastSeen = now
         /\ b.lastRefill <= now
         /\ now < b.lastRefill + Refill
         /\ u \in Kept => Refill * b.tokens - b.lastRefill
                            <= Refill * bucket[u].tokens - bucket[u].lastRefill
         /\ u \notin Kept => b.lastRefill = now
         /\ (u \in Kept => now - bucket[u].lastRefill >= Refill) => b.tokens > 0
<1> DEFINE e == Entered(u)
           n == Units(e)
<1>1. /\ e \in Bucket /\ e.lastSeen = now /\ e.lastRefill <= now
      /\ u \in Kept => e.tokens = bucket[u].tokens /\ e.lastRefill = bucket[u].lastRefill
      /\ u \notin Kept => e.tokens = Burst /\ e.lastRefill = now
  BY LimiterAssumption DEF Entered, FreshBucket, Bucket, LimiterTypeOK, Clocked
<1>2. now - e.lastRefill \in Nat
  BY <1>1 DEF LimiterTypeOK, Bucket
<1>3. /\ n \in Nat
      /\ Refill * n <= now - e.lastRefill
      /\ now - e.lastRefill < Refill * n + Refill
  BY <1>2, DivisionFacts DEF Units
<1> HIDE DEF e, n
<1>4. CASE n >= Burst
  <2>1. b = Update(e, Burst, now)
    BY <1>4 DEF Refilled, Update, e, n
  <2>2. b.tokens = Burst /\ b.lastRefill = now /\ b.lastSeen = e.lastSeen /\ b \in Bucket
    BY <1>1, <2>1, UpdateFacts, LimiterAssumption DEF LimiterTypeOK
  <2>3. Refill * Burst <= Refill * n
    BY <1>3, <1>4, LimiterAssumption
  <2> QED
    BY <1>1, <1>3, <2>2, <2>3, LimiterAssumption DEF Bucket, LimiterTypeOK
<1>5. CASE ~(n >= Burst)
  <2> DEFINE t == IF e.tokens + n <= Burst THEN e.tokens + n ELSE Burst
  <2>1. b = Update(e, t, e.lastRefill + Refill * n)
    BY <1>1, <1>5 DEF Refilled, Update, e, n, Bucket
  <2>2. t \in 0 .. Burst /\ t <= e.tokens + n
    BY <1>1, <1>3, LimiterAssumption DEF Bucket
  <2>3. Refill * n \in Nat
    BY <1>3, LimiterAssumption
  <2> HIDE DEF t
  <2>4. /\ b.tokens = t /\ b.lastRefill = e.lastRefill + Refill * n
        /\ b.lastSeen = e.lastSeen /\ b \in Bucket
    <3>1. e.lastRefill + Refill * n \in Nat
      BY <1>1, <2>3 DEF Bucket
    <3> QED
      BY <1>1, <2>1, <2>2, <3>1, UpdateFacts
  <2>5. Refill * t <= Refill * e.tokens + Refill * n
    BY <1>1, <1>3, <2>2, LimiterAssumption DEF Bucket
  <2>6. u \notin Kept => Refill * n = 0
    BY <1>1, <1>3, <2>3, LimiterAssumption DEF LimiterTypeOK
  <2>7. (u \in Kept => now - bucket[u].lastRefill >= Refill) => t > 0
    <3>1. now - e.lastRefill >= Refill => n > 0
      BY <1>2, <1>3, LimiterAssumption
    <3> QED
      BY <1>1, <1>3, <3>1, LimiterAssumption DEF Bucket, t
  <2> QED
    BY <1>1, <1>3, <2>2, <2>3, <2>4, <2>5, <2>6, <2>7, LimiterAssumption DEF Bucket, LimiterTypeOK
<1> QED
  BY <1>3, <1>4, <1>5, LimiterAssumption

(* Charging takes at most one token, and only when it admits. *)
LEMMA ChargeFacts ==
  ASSUME NEW b \in Bucket
  PROVE  /\ Charged(b) \in Bucket
         /\ Charged(b).lastSeen = b.lastSeen
         /\ Charged(b).lastRefill = b.lastRefill
         /\ Charged(b).tokens = IF Admits(b) THEN b.tokens - 1 ELSE b.tokens
BY LimiterAssumption DEF Charged, Admits, Bucket

LEMMA InitInv == LimiterInit => LimiterInv
<1> SUFFICES ASSUME LimiterInit PROVE LimiterInv
  OBVIOUS
<1> PICK w \in Uid : window = OpenWindow(w, 0)
  BY DEF LimiterInit
<1> QED
  BY LimiterAssumption
     DEF LimiterInit, LimiterInv, LimiterTypeOK, Clocked, Credit, Pruned, Bucket, Window,
         FreshBucket, OpenWindow

(* One call keeps the invariant: the caller's own credit by RefillFacts and
   ChargeFacts, everyone else's because their bucket is not touched. *)
LEMMA CallInv ==
  ASSUME LimiterInv, NEW u \in Uid, CheckAndCharge(u)
  PROVE  LimiterInv'
<1> DEFINE b == Refilled(Entered(u))
           c == Charged(b)
<1>0. PICK victims \in Victims(u) :
        /\ live' = (Kept \ victims) \cup {u}
        /\ bucket' = [bucket EXCEPT ![u] = c]
        /\ window' = IF u = window.uid
                     THEN [window EXCEPT !.called = TRUE,
                                         !.admitted = IF Admits(b) /\ ~window.evicted
                                                      THEN @ + 1 ELSE @]
                     ELSE [window EXCEPT !.evicted = @ \/ window.uid \in victims]
        /\ now' = now
  BY DEF CheckAndCharge
<1>1. /\ b \in Bucket /\ b.lastSeen = now /\ b.lastRefill <= now
      /\ now < b.lastRefill + Refill
      /\ u \in Kept => Refill * b.tokens - b.lastRefill
                         <= Refill * bucket[u].tokens - bucket[u].lastRefill
      /\ u \notin Kept => b.lastRefill = now
  BY RefillFacts DEF LimiterInv
<1>2. /\ c \in Bucket /\ c.lastSeen = b.lastSeen /\ c.lastRefill = b.lastRefill
      /\ c.tokens = IF Admits(b) THEN b.tokens - 1 ELSE b.tokens
  BY <1>1, ChargeFacts
<1> HIDE DEF b, c
<1>3. LimiterTypeOK'
  <2>1. Kept \subseteq Uid
    BY DEF Kept, LimiterInv, LimiterTypeOK
  <2>2. window' \in Window
    <3>1. CASE u = window.uid
      <4> DEFINE a == IF Admits(b) /\ ~window.evicted THEN window.admitted + 1
                      ELSE window.admitted
      <4>1. window' = [window EXCEPT !.called = TRUE, !.admitted = a]
        BY <1>0, <3>1
      <4>2. a \in Nat
        BY DEF LimiterInv, LimiterTypeOK, Window
      <4> HIDE DEF a
      <4> QED
        BY <4>1, <4>2 DEF LimiterInv, LimiterTypeOK, Window
    <3>2. CASE u # window.uid
      <4>1. window' = [window EXCEPT !.evicted = window.evicted \/ window.uid \in victims]
        BY <1>0, <3>2
      <4>2. (window.evicted \/ window.uid \in victims) \in BOOLEAN
        OBVIOUS
      <4> QED
        BY <4>1, <4>2 DEF LimiterInv, LimiterTypeOK, Window
    <3> QED
      BY <3>1, <3>2
  <2> QED
    BY <1>0, <1>2, <2>1, <2>2 DEF LimiterInv, LimiterTypeOK
<1>4. Clocked'
  BY <1>0, <1>1, <1>2 DEF LimiterInv, LimiterTypeOK, Clocked
<1>5. Credit'
  <2>1. CASE u # window.uid
    <3>1. /\ window'.uid = window.uid /\ window'.start = window.start
          /\ window'.admitted = window.admitted /\ window'.called = window.called
          /\ window.evicted => window'.evicted
          /\ bucket'[window.uid] = bucket[window.uid]
      BY <1>0, <2>1 DEF LimiterInv, LimiterTypeOK, Window
    <3> QED
      BY <1>0, <3>1 DEF LimiterInv, Credit
  <2>2. CASE u = window.uid
    <3>1. /\ window'.uid = u /\ window'.start = window.start /\ window'.called
          /\ window'.evicted = window.evicted
          /\ ~window.evicted => window'.admitted = IF Admits(b) THEN window.admitted + 1
                                                   ELSE window.admitted
          /\ bucket'[u] = c
      BY <1>0, <2>2 DEF LimiterInv, LimiterTypeOK, Window
    <3>2. CASE window.evicted
      BY <1>0, <3>1, <3>2 DEF LimiterInv, Credit
    <3>3. CASE ~window.evicted
      <4>1. window'.admitted + c.tokens = window.admitted + b.tokens
        BY <1>1, <1>2, <3>1, <3>3 DEF LimiterInv, LimiterTypeOK, Window, Bucket
      <4>2. Refill * (window.admitted + b.tokens)
              <= Refill * Burst + (b.lastRefill - window.start) + (Refill - 1)
        <5> DEFINE a == window.admitted
                   k == bucket[u]
        <5>0. /\ a \in Nat /\ window.start \in Nat /\ now \in Nat /\ b.tokens \in 0 .. Burst
              /\ b.lastRefill \in Nat /\ k.tokens \in 0 .. Burst /\ k.lastRefill \in Nat
              /\ k.lastSeen \in Nat /\ k.lastRefill <= k.lastSeen /\ k.lastSeen <= now
              /\ window.start <= now
          BY <1>1 DEF LimiterInv, LimiterTypeOK, Clocked, Credit, Window, Bucket
        <5>1. Refill * b.tokens <= Refill * Burst
          BY <5>0, LimiterAssumption
        <5>2. CASE ~window.called
          BY <1>1, <5>0, <5>1, <5>2, LimiterAssumption DEF LimiterInv, Credit
        <5>3. CASE window.called
          <6>1. Refill * (a + k.tokens)
                  <= Refill * Burst + (k.lastRefill - window.start) + (Refill - 1)
            BY <2>2, <3>3, <5>3 DEF LimiterInv, Credit
          <6>2. CASE u \in Kept
            BY <1>1, <5>0, <6>1, <6>2, LimiterAssumption
          <6>3. CASE u \notin Kept
            <7>1. now - k.lastSeen >= Refill * Burst
              BY <2>2, <3>3, <5>0, <5>3, <6>3, TtlFacts DEF Kept, LimiterInv, Pruned
            <7>2. /\ Refill * (a + k.tokens) = Refill * a + Refill * k.tokens
                  /\ Refill * (a + b.tokens) = Refill * a + Refill * b.tokens
                  /\ Refill * k.tokens \in Nat /\ Refill * a \in Nat
                  /\ Refill * b.tokens \in Nat /\ Refill * Burst \in Nat
              BY <5>0, LimiterAssumption
            <7> QED
              BY <1>1, <5>0, <5>1, <6>1, <6>3, <7>1, <7>2, LimiterAssumption
          <6> QED
            BY <6>2, <6>3
        <5> QED
          BY <5>2, <5>3
      <4> QED
        BY <1>0, <1>2, <3>1, <3>3, <4>1, <4>2 DEF LimiterInv, Credit
    <3> QED
      BY <3>2, <3>3
  <2> QED
    BY <2>1, <2>2
<1>6. Pruned'
  <2>1. CASE u # window.uid
    <3>1. /\ window'.uid = window.uid /\ window'.called = window.called
          /\ ~window'.evicted => ~window.evicted /\ window.uid \notin victims
          /\ bucket'[window.uid] = bucket[window.uid]
      BY <1>0, <2>1 DEF LimiterInv, LimiterTypeOK, Window
    <3>2. window.uid \in Kept \/ window.uid \notin live
            \/ now - bucket[window.uid].lastSeen >= Ttl
      BY TtlFacts DEF Kept, LimiterInv, LimiterTypeOK, Window, Bucket
    <3> QED
      BY <1>0, <3>1, <3>2 DEF LimiterInv, Pruned, Ttl
  <2>2. CASE u = window.uid
    <3>1. window'.uid \in live'
      BY <1>0, <2>2 DEF LimiterInv, LimiterTypeOK, Window
    <3> QED
      BY <3>1 DEF Pruned
  <2> QED
    BY <2>1, <2>2
<1> QED
  BY <1>3, <1>4, <1>5, <1>6 DEF LimiterInv

LEMMA NextInv == LimiterInv /\ [LimiterNext]_limiterVars => LimiterInv'
<1> SUFFICES ASSUME LimiterInv, [LimiterNext]_limiterVars PROVE LimiterInv'
  OBVIOUS
<1>1. CASE \E u \in Uid : CheckAndCharge(u)
  BY <1>1, CallInv
<1>2. CASE \E u \in Uid : Observe(u)
  BY <1>2 DEF Observe, OpenWindow, LimiterInv, LimiterTypeOK, Clocked, Credit, Pruned,
              Window, Bucket
<1>3. CASE Advance
  BY <1>3, TtlFacts, LimiterAssumption
     DEF Advance, LimiterInv, LimiterTypeOK, Clocked, Credit, Pruned, Window, Bucket, Ttl
<1>4. CASE UNCHANGED limiterVars
  BY <1>4 DEF limiterVars, LimiterInv, LimiterTypeOK, Clocked, Credit, Pruned, Ttl
<1> QED
  BY <1>1, <1>2, <1>3, <1>4 DEF LimiterNext

THEOREM LimiterInvariant == LimiterSpec => []LimiterInv
BY InitInv, NextInv, PTL DEF LimiterSpec

(* IngressLimiter's tables keep their types: a bucket never holds more than the
   burst. *)
THEOREM TypeCorrect == LimiterSpec => []LimiterTypeOK
<1>1. LimiterInv => LimiterTypeOK
  BY DEF LimiterInv
<1> QED
  BY <1>1, LimiterInvariant, PTL

(* From any instant on, check_and_charge admits a UID at most the burst plus one
   call per refill interval, whatever pruning does, until its bucket is evicted. *)
THEOREM BurstBounded == LimiterSpec => []BurstBound
<1>1. LimiterInv => BurstBound
  <2> SUFFICES ASSUME LimiterInv, ~window.evicted
               PROVE  Refill * window.admitted
                        <= Refill * Burst + (now - window.start) + (Refill - 1)
    BY DEF BurstBound
  <2> DEFINE b == bucket[window.uid]
  <2>1. /\ window.admitted \in Nat /\ window.start \in Nat /\ now \in Nat
        /\ b.tokens \in Nat /\ b.lastRefill \in Nat /\ b.lastRefill <= now
        /\ window.start <= now
    BY DEF LimiterInv, LimiterTypeOK, Clocked, Credit, Window, Bucket
  <2>2. CASE ~window.called
    BY <2>1, <2>2, LimiterAssumption DEF LimiterInv, Credit
  <2>3. CASE window.called
    <3>1. Refill * (window.admitted + b.tokens)
            <= Refill * Burst + (b.lastRefill - window.start) + (Refill - 1)
      BY <2>3 DEF LimiterInv, Credit
    <3>2. Refill * window.admitted <= Refill * (window.admitted + b.tokens)
      BY <2>1, LimiterAssumption
    <3> HIDE DEF b
    <3> QED
      BY <2>1, <3>1, <3>2, LimiterAssumption
  <2> QED
    BY <2>2, <2>3
<1> QED
  BY <1>1, LimiterInvariant, PTL

(* A caller that waited one refill interval since its last call finds a token. *)
THEOREM PatientCallers == LimiterSpec => []PatientCallerAdmitted
<1>1. LimiterInv => PatientCallerAdmitted
  <2> SUFFICES ASSUME LimiterInv, NEW u \in Uid,
                      u \in live => now - bucket[u].lastSeen >= Refill
               PROVE  Admits(Refilled(Entered(u)))
    BY DEF PatientCallerAdmitted
  <2>1. u \in Kept => now - bucket[u].lastRefill >= Refill
    BY LimiterAssumption DEF Kept, LimiterInv, LimiterTypeOK, Clocked, Bucket
  <2> QED
    BY <2>1, RefillFacts DEF LimiterInv, Admits
<1> QED
  BY <1>1, LimiterInvariant, PTL

(* The table of buckets never outgrows MAX_INGRESS_BUCKETS: a call for a UID
   without a bucket first makes room. *)
THEOREM TableBounded == LimiterSpec => []BucketsBounded
<1>1. LimiterInit => BucketsBounded
  BY FS_EmptySet, LimiterAssumption DEF LimiterInit, BucketsBounded
<1>2. LimiterTypeOK /\ BucketsBounded /\ [LimiterNext]_limiterVars => BucketsBounded'
  <2> SUFFICES ASSUME LimiterTypeOK, BucketsBounded, [LimiterNext]_limiterVars
               PROVE  BucketsBounded'
    OBVIOUS
  <2>1. CASE live' = live
    BY <2>1 DEF BucketsBounded
  <2>2. ASSUME NEW u \in Uid, CheckAndCharge(u) PROVE BucketsBounded'
    <3>1. PICK victims \in Victims(u) : live' = (Kept \ victims) \cup {u}
      BY <2>2 DEF CheckAndCharge
    <3>2. IsFiniteSet(live) /\ Cardinality(live) \in Nat
      BY FS_Subset, FS_CardinalityType, LimiterAssumption DEF LimiterTypeOK
    <3>3. IsFiniteSet(Kept) /\ Cardinality(Kept) <= Cardinality(live)
          /\ Cardinality(Kept) \in Nat
      <4>1. Kept \subseteq live
        BY DEF Kept
      <4> QED
        BY <3>2, <4>1, FS_Subset, FS_CardinalityType
    <3>4. CASE NeedsEviction(u)
      <4>1. PICK v \in Kept : victims = {v}
        BY <3>4 DEF Victims, Oldest
      <4>2. /\ IsFiniteSet(Kept \ {v})
            /\ Cardinality(Kept \ {v}) = Cardinality(Kept) - 1
        BY <3>3, FS_RemoveElement
      <4>3. u \notin Kept \ {v}
        BY <3>4 DEF NeedsEviction
      <4>4. Cardinality((Kept \ {v}) \cup {u}) = Cardinality(Kept \ {v}) + 1
        BY <4>2, <4>3, FS_AddElement
      <4> QED
        BY <3>1, <3>2, <3>3, <4>1, <4>2, <4>4, LimiterAssumption DEF BucketsBounded
    <3>5. CASE ~NeedsEviction(u)
      <4>1. live' = Kept \cup {u}
        BY <3>1, <3>5 DEF Victims
      <4>2. CASE u \in Kept
        BY <3>2, <3>3, <4>1, <4>2, Kept \cup {u} = Kept, LimiterAssumption DEF BucketsBounded
      <4>3. CASE u \notin Kept
        <5>1. Cardinality(Kept) < MaxBuckets
          BY <3>3, <3>5, <4>3, LimiterAssumption DEF NeedsEviction
        <5>2. Cardinality(Kept \cup {u}) = Cardinality(Kept) + 1
          BY <3>3, <4>3, FS_AddElement
        <5> QED
          BY <3>3, <4>1, <5>1, <5>2, LimiterAssumption DEF BucketsBounded
      <4> QED
        BY <4>2, <4>3
    <3> QED
      BY <3>4, <3>5
  <2> QED
    BY <2>1, <2>2 DEF LimiterNext, Observe, Advance, limiterVars
<1> QED
  BY <1>1, <1>2, TypeCorrect, PTL DEF LimiterSpec
=============================================================================
