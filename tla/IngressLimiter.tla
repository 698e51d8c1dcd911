--------------------------- MODULE IngressLimiter ---------------------------
(***************************************************************************)
(* The per-UID token buckets in front of Authenticate (server.rs,          *)
(* IngressLimiter::check_and_charge_at).                                   *)
(*                                                                         *)
(* Buckets are created full on first use, refilled lazily in whole units,  *)
(* pruned once idle long enough to be full again, and evicted              *)
(* least-recently-seen first at the memory ceiling.  One call is one step: *)
(* the limiter's mutex covers all of it.                                   *)
(***************************************************************************)
EXTENDS Integers, FiniteSets

CONSTANTS
  Uid,         \* caller UIDs
  Burst,       \* INGRESS_BURST
  Refill,      \* INGRESS_REFILL, in ticks of the clock
  MaxBuckets,  \* MAX_INGRESS_BUCKETS
  Horizon      \* bound: the last instant of the clock

ASSUME LimiterAssumption ==
  /\ IsFiniteSet(Uid)
  /\ Burst \in Nat \ {0}
  /\ Refill \in Nat \ {0}
  /\ MaxBuckets \in Nat \ {0}
  /\ Horizon \in Nat

VARIABLES
  now,     \* the monotonic clock
  live,    \* the UIDs that have a bucket
  bucket,  \* bucket[u], meaningful for u \in live
  window   \* admissions of one UID since an instant, both of the observer's choice

limiterVars == <<now, live, bucket, window>>

(* Mutant: an idle bucket is discarded one interval too early. *)
ShortTtl == (Burst - 1) * Refill

(* INGRESS_BUCKET_TTL *)
Ttl == Burst * Refill

Bucket == [tokens : 0 .. Burst, lastRefill : Nat, lastSeen : Nat]
FreshBucket(t) == [tokens |-> Burst, lastRefill |-> t, lastSeen |-> t]

(* The observer's window: whom it watches, when it was opened, how many calls
   were admitted since, whether the UID called since, and whether its bucket was
   evicted since (which ends the count). *)
Window ==
  [uid : Uid, start : Nat, admitted : Nat, called : BOOLEAN, evicted : BOOLEAN]
OpenWindow(u, t) ==
  [uid |-> u, start |-> t, admitted |-> 0, called |-> FALSE, evicted |-> FALSE]

LimiterTypeOK ==
  /\ now \in Nat
  /\ live \in SUBSET Uid
  /\ bucket \in [Uid -> Bucket]
  /\ window \in Window

LimiterInit ==
  /\ now = 0
  /\ live = {}
  /\ bucket = [u \in Uid |-> FreshBucket(0)]
  /\ window \in {OpenWindow(u, 0) : u \in Uid}

-----------------------------------------------------------------------------

(* buckets.retain(...) *)
Kept == {v \in live : now - bucket[v].lastSeen < Ttl}

(* min_by_key(last_seen): ties are broken by the hash map's order. *)
Oldest == {v \in Kept : \A w \in Kept : bucket[v].lastSeen <= bucket[w].lastSeen}

NeedsEviction(u) == u \notin Kept /\ Cardinality(Kept) >= MaxBuckets

(* Mutant: nothing is ever evicted. *)
NoVictims(u) == {{}}

(* What is removed to make room for u: one bucket at the ceiling, else none. *)
Victims(u) == IF NeedsEviction(u) THEN {{v} : v \in Oldest} ELSE {{}}

(* entry(uid).or_insert(...), then last_seen = now *)
Entered(u) ==
  IF u \in Kept THEN [bucket[u] EXCEPT !.lastSeen = now] ELSE FreshBucket(now)

(* Mutant: the interval has to be exceeded. *)
UnitsExceeded(b) ==
  IF now = b.lastRefill THEN 0 ELSE (now - b.lastRefill - 1) \div Refill

Units(b) == (now - b.lastRefill) \div Refill

Refilled(b) ==
  IF Units(b) >= Burst
  THEN [b EXCEPT !.tokens = Burst, !.lastRefill = now]
  ELSE [b EXCEPT !.tokens = IF @ + Units(b) <= Burst THEN @ + Units(b) ELSE Burst,
                 !.lastRefill = @ + Refill * Units(b)]

(* Mutant: the last token is not the last. *)
AdmitsAlways(b) == b.tokens >= 0

(* A token is taken if there is one. *)
Admits(b) == b.tokens > 0

Charged(b) == IF Admits(b) THEN [b EXCEPT !.tokens = @ - 1] ELSE b

CheckAndCharge(u) ==
  \E victims \in Victims(u) :
    LET b == Refilled(Entered(u)) IN
    /\ live' = (Kept \ victims) \cup {u}
    /\ bucket' = [bucket EXCEPT ![u] = Charged(b)]
    /\ window' = IF u = window.uid
                 THEN [window EXCEPT !.called = TRUE,
                                     !.admitted = IF Admits(b) /\ ~window.evicted
                                                  THEN @ + 1 ELSE @]
                 ELSE [window EXCEPT !.evicted = @ \/ window.uid \in victims]
    /\ UNCHANGED now

(* The observer starts counting anew. *)
Observe(u) ==
  /\ window' = OpenWindow(u, now)
  /\ UNCHANGED <<now, live, bucket>>

Advance ==
  /\ now < Horizon
  /\ now' = now + 1
  /\ UNCHANGED <<live, bucket, window>>

LimiterNext ==
  \/ \E u \in Uid : CheckAndCharge(u) \/ Observe(u)
  \/ Advance

LimiterSpec == LimiterInit /\ [][LimiterNext]_limiterVars

-----------------------------------------------------------------------------

(* However its calls are spaced, and however often its idle bucket is pruned
   and created afresh, a UID gets at most the burst plus one admission per
   refill interval, counted from any instant.  Eviction at the memory ceiling
   is the one exception the code accepts. *)
BurstBound ==
  ~window.evicted =>
    Refill * window.admitted <= Refill * Burst + (now - window.start) + (Refill - 1)

(* Memory stays bounded. *)
BucketsBounded == Cardinality(live) <= MaxBuckets

(* A caller that has waited one refill interval since its last call, admitted
   or not, is never refused: a call it makes now finds a token. *)
PatientCallerAdmitted ==
  \A u \in Uid :
    (u \in live => now - bucket[u].lastSeen >= Refill) => Admits(Refilled(Entered(u)))
=============================================================================
