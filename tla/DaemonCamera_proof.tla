------------------------- MODULE DaemonCamera_proof -------------------------
(***************************************************************************)
(* Proofs about the capture: the gates it is made under, when the daemon   *)
(* opens the camera, how long an idle one stays open, and which templates  *)
(* a preview matches against.                                              *)
(***************************************************************************)
EXTENDS DaemonCancel_proof

-----------------------------------------------------------------------------
(* The gates of the installed configuration hold from the gate on. *)

GatesInv ==
  \A r \in Req : kind[r] = "auth" /\ pc[r] \in Admitted \cup Scanning =>
    /\ cfg.gates.ssh => verdict[r].ssh = "local"
    /\ cfg.gates.lid => verdict[r].lid = "open"

LEMMA GatesInit == Init => GatesInv
BY DEF Init, GatesInv, Admitted, Scanning, StreamPcs

LEMMA GatesStep ==
  ASSUME TypeInv, CaptureInv, GatesInv, [Next]_vars
  PROVE  GatesInv'
<1>0. /\ pc \in [Req -> Pcs] /\ kind \in [Req -> AllKinds \cup {"none"}]
      /\ verdict \in [Req -> Verdicts]
  BY DEF TypeInv, TypeOK
<1> USE <1>0 DEF GatesInv, Admitted, Scanning, StreamPcs, callVars, reloadVars, Goto, End,
            At, AuthKinds
<1>1. CASE Onward
  BY <1>1 DEF Onward
<1>2. ASSUME NEW r \in Req, ArriveAuth(r) PROVE GatesInv'
  <2>1. /\ cfg' = cfg /\ verdict' = verdict
        /\ \A s \in Req : s # r => kind'[s] = kind[s]
        /\ \E l \in {"done", "stat"} : pc' = [pc EXCEPT ![r] = l]
    BY <1>2 DEF ArriveAuth
  <2> QED
    BY <2>1
<1>3. ASSUME NEW r \in Req, ArriveOther(r) PROVE GatesInv'
  BY <1>3, FirstStepLabels DEF ArriveOther
<1>4. ASSUME NEW r \in Req, InstallHandler(r) PROVE GatesInv'
  <2>1. \A s \in Req : kind[s] \in AuthKinds => pc[s] \notin Admitted \cup Scanning
    BY <1>4, NoneAssumption DEF InstallHandler, CaptureInv, Mutex, LockedPcs
  <2> QED
    BY <1>4, <2>1, ReloadMoves DEF ReloadPcs
<1>5. ASSUME NEW r \in Req, EnvironmentChecks(r) PROVE GatesInv'
  <2>1. /\ cfg' = cfg /\ kind' = kind /\ pc' = [pc EXCEPT ![r] = "lock"]
        /\ \A s \in Req : s # r => verdict'[s] = verdict[s]
    BY <1>5 DEF EnvironmentChecks
  <2> QED
    BY <2>1
<1>6. ASSUME NEW r \in Req, GateAdmits(r) PROVE GatesInv'
  <2>1. /\ cfg' = cfg /\ kind' = kind /\ pc' = [pc EXCEPT ![r] = "claim"]
        /\ kind[r] = "auth" /\ cfg.gates.ssh => verdict[r].ssh = "local"
    BY <1>6 DEF GateAdmits, SessionAllowed
  <2>2. \/ verdict' = [verdict EXCEPT ![r].lid = "open"]
        \/ verdict' = verdict /\ ~(kind[r] = "auth" /\ cfg.gates.lid)
    BY <1>6 DEF GateAdmits, LidGateOn
  <2> QED
    BY <2>1, <2>2 DEF Verdicts
<1>7. ASSUME NEW r \in Req, ClaimSlot(r) PROVE GatesInv'
  BY <1>7 DEF ClaimSlot, PreviewKinds
<1>8. ASSUME NEW r \in Req, Publish(r) PROVE GatesInv'
  BY <1>8 DEF Publish
<1>9. ASSUME NEW r \in Req, CancelInFlight(r) PROVE GatesInv'
  BY <1>9 DEF CancelInFlight
<1>10. ASSUME NEW r \in Req, DropEntry(r) PROVE GatesInv'
  BY <1>10 DEF DropEntry
<1>11. ASSUME NEW r \in Req, DropSlot(r) PROVE GatesInv'
  BY <1>11 DEF DropSlot
<1>12. ASSUME NEW r \in Req, Reply(r) PROVE GatesInv'
  BY <1>12 DEF Reply
<1>13. ASSUME NEW r \in Req, Depart(r) PROVE GatesInv'
  BY <1>13 DEF Depart
<1>14. CASE Suspend
  BY <1>14 DEF Suspend
<1> HIDE DEF GatesInv
<1> QED
  BY <1>1, <1>2, <1>3, <1>4, <1>5, <1>6, <1>7, <1>8, <1>9, <1>10, <1>11, <1>12, <1>13,
     <1>14, PhaseSteps

(* GatesHoldAtCapture holds in every reachable state, whatever the file's
   history and however reloads interleave with the checks. *)
THEOREM GatesHold == Spec => []GatesHoldAtCapture
<1>1. GatesInv => GatesHoldAtCapture
  BY DEF GatesInv, GatesHoldAtCapture, Capturing, Scanning
<1>2. SafetyInv /\ GatesInv /\ [Next]_vars => GatesInv'
  BY GatesStep DEF SafetyInv
<1> QED
  BY SafetyInvariant, GatesInit, <1>1, <1>2, PTL DEF Spec

-----------------------------------------------------------------------------
(* The steps that touch the camera or the templates. *)

(* r's enrollment is written, and its capture not yet finished. *)
Committed(r) == pc[r] = "finish" /\ kind[r] = "enroll"

(* Steps that leave the camera, its hold, the templates and the call that drives
   the camera alone. *)
Still ==
  /\ UNCHANGED <<camera, deadline, cache, store>>
  /\ \A r \in Req : Capturing(r) => Capturing(r)'
  /\ \A r \in Req : Committed(r) => Committed(r)'

LEMMA StillSteps ==
  ASSUME TypeInv, CaptureInv, [Next]_vars
  PROVE  \/ Still
         \/ \E r \in Req :
              \/ InstallHandler(r) \/ Acquire(r) \/ Discard(r) \/ RefuseBinding(r)
              \/ CommitEnrollment(r) \/ Finish(r) \/ PreviewCapture(r) \/ Panic(r)
              \/ ChangeModels(r) \/ ReleaseOrShutdown(r)
         \/ Tick \/ SuspendRelease \/ PollExpire \/ PollExit \/ Stop
<1> USE DEF Still, Capturing, Committed, StreamPcs, TypeInv, TypeOK, leaseVars, dataVars,
            callVars, Goto, End, Conclude, At
<1>1. ASSUME NEW r \in Req, Arrive(r) \/ Depart(r) PROVE Still
  BY <1>1 DEF Arrive, Refused, ArriveAuth, ArriveOther, Depart
<1>2. ASSUME NEW r \in Req, ReloadStep(r) PROVE Still
  <2>1. UNCHANGED <<leaseVars, dataVars>>
    BY <1>2 DEF ReloadStep
  <2> QED
    BY <1>2, <2>1, ReloadMoves DEF ReloadPcs
<1>3. ASSUME NEW r \in Req, LockTimeout(r) \/ SnapshotPolicy(r) \/ EnvironmentChecks(r)
      PROVE  Still
  BY <1>3 DEF LockTimeout, SnapshotPolicy, EnvironmentChecks
<1>4. ASSUME NEW r \in Req, LockHandler(r) PROVE Still
  BY <1>4, NoneAssumption DEF LockHandler
<1>5. ASSUME NEW r \in Req, GateAdmits(r) \/ GateRefuses(r) PROVE Still
  BY <1>5 DEF GateAdmits, GateRefuses
<1>6. ASSUME NEW r \in Req, ClaimSlot(r) \/ ClaimRefused(r) \/ Publish(r) \/ Prepare(r)
      PROVE  Still
  BY <1>6 DEF ClaimSlot, ClaimRefused, Publish, Prepare
<1>7. ASSUME NEW r \in Req, LoopHead(r) \/ OneFrame(r) PROVE Still
  BY <1>7 DEF LoopHead, OneFrame
<1>8. ASSUME NEW r \in Req, CancelInFlight(r) \/ DropEntry(r) \/ DropSlot(r) PROVE Still
  BY <1>8 DEF CancelInFlight, DropEntry, DropSlot
<1>9. ASSUME NEW r \in Req, DropHandler(r) \/ Reply(r) PROVE Still
  BY <1>9 DEF DropHandler, Reply
<1>10. CASE Edit \/ Suspend \/ SuspendGivesUp \/ UNCHANGED vars
  BY <1>10 DEF Edit, Suspend, SuspendGivesUp, vars
<1> HIDE DEF Still
<1> QED
  BY <1>1, <1>2, <1>3, <1>4, <1>5, <1>6, <1>7, <1>8, <1>9, <1>10
     DEF Next, Step, SuspendStep, Poll

(* Only Acquire opens a camera, and not for a call whose token is set. *)
LEMMA OnlyAcquireOpens ==
  ASSUME TypeInv, CaptureInv, [Next]_vars, camera', ~camera
  PROVE  \E s \in Req : pc[s] = "acquire" /\ ~token[s]
<1> USE DEF TypeInv, TypeOK, LeaseTypeOK, leaseVars
<1>1. CASE Still
  BY <1>1 DEF Still
<1>2. ASSUME NEW r \in Req,
             InstallHandler(r)
      PROVE  \E s \in Req : pc[s] = "acquire" /\ ~token[s]
  BY <1>2 DEF InstallHandler, ReleaseLease
<1>3. ASSUME NEW r \in Req, Acquire(r) PROVE \E s \in Req : pc[s] = "acquire" /\ ~token[s]
  BY <1>3 DEF Acquire, AcquireCancelled
<1>4. ASSUME NEW r \in Req, Discard(r) PROVE \E s \in Req : pc[s] = "acquire" /\ ~token[s]
  BY <1>4, Zenon DEF Discard, AbandonAcquire
<1>5. ASSUME NEW r \in Req,
             RefuseBinding(r)
      PROVE  \E s \in Req : pc[s] = "acquire" /\ ~token[s]
  BY <1>5, Zenon DEF RefuseBinding, FinishLease
<1>6. ASSUME NEW r \in Req,
             CommitEnrollment(r)
      PROVE  \E s \in Req : pc[s] = "acquire" /\ ~token[s]
  BY <1>6 DEF CommitEnrollment
<1>7. ASSUME NEW r \in Req, Finish(r) PROVE \E s \in Req : pc[s] = "acquire" /\ ~token[s]
  BY <1>7, Zenon DEF Finish, FinishLease
<1>8. ASSUME NEW r \in Req,
             PreviewCapture(r)
      PROVE  \E s \in Req : pc[s] = "acquire" /\ ~token[s]
  BY <1>8, Zenon DEF PreviewCapture, FinishLease, TouchPreview
<1>9. ASSUME NEW r \in Req, Panic(r) PROVE \E s \in Req : pc[s] = "acquire" /\ ~token[s]
  BY <1>9 DEF Panic
<1>10. ASSUME NEW r \in Req,
              ChangeModels(r)
       PROVE  \E s \in Req : pc[s] = "acquire" /\ ~token[s]
  BY <1>10 DEF ChangeModels
<1>11. ASSUME NEW r \in Req,
              ReleaseOrShutdown(r)
       PROVE  \E s \in Req : pc[s] = "acquire" /\ ~token[s]
  BY <1>11 DEF ReleaseOrShutdown, ReleaseLease
<1>12. CASE Tick
  BY <1>12 DEF Tick, LeaseTick
<1>13. CASE SuspendRelease
  BY <1>13 DEF SuspendRelease, ReleaseLease
<1>14. CASE PollExpire
  BY <1>14, Zenon DEF PollExpire, ExpireLease, ReleaseLease
<1>15. CASE PollExit
  BY <1>15 DEF PollExit, ReleaseLease
<1>16. CASE Stop
  BY <1>16 DEF Stop, ReleaseLease
<1> QED
  BY <1>1, <1>2, <1>3, <1>4, <1>5, <1>6, <1>7, <1>8, <1>9, <1>10, <1>11, <1>12, <1>13,
     <1>14, <1>15, <1>16, StillSteps

(* CancelledPreflightOpensNothing: the call that opens the camera was not
   cancelled since its checkpoint and its caller is still there. *)
THEOREM CancelledPreflightOpensNothingHolds == Spec => CancelledPreflightOpensNothing
<1> DEFINE Opens ==
      \A r \in Req : kind[r] \in AuthKinds /\ pc[r] = "acquire" /\ camera' /\ ~camera
        => epoch = checkpoint[r] /\ ~departed[r]
<1>1. SafetyInv /\ [Next]_vars => [Opens]_vars
  <2> SUFFICES ASSUME SafetyInv, [Next]_vars,
                      NEW r \in Req, kind[r] \in AuthKinds, pc[r] = "acquire",
                      camera', ~camera
               PROVE  epoch = checkpoint[r] /\ ~departed[r]
    OBVIOUS
  <2> USE DEF SafetyInv
  <2>1. PICK s \in Req : pc[s] = "acquire" /\ ~token[s]
    BY OnlyAcquireOpens
  <2>2. s = r
    BY <2>1 DEF CaptureInv, Mutex, LockedPcs
  <2> QED
    BY <2>1, <2>2 DEF CancelInv, Scanning
<1> QED
  BY SafetyInvariant, <1>1, PTL DEF Spec, CancelledPreflightOpensNothing

-----------------------------------------------------------------------------
(* The hold of an idle camera, as long as no capture panics. *)

HoldBound == PreviewHold + ReleaseAfterSuccessSecs

Held == deadline \in 0 .. HoldBound

(* An open camera is driven by the call that holds the mutex, or has a hold. *)
LeaseInv == camera => Held \/ \E r \in Req : Capturing(r)

LEMMA HoldBounds ==
  /\ HoldBound \in Nat
  /\ PreviewHold \in 0 .. HoldBound
  /\ \A o : HoldSecs(o) \in 0 .. HoldBound
BY HoldAssumption DEF HoldBound, PreviewHold, HoldSecs

(* A capture that ends through the lease leaves a hold or no camera. *)
LEMMA FinishHolds ==
  ASSUME NEW o, FinishLease(o)
  PROVE  camera' => Held'
BY HoldBounds DEF FinishLease, Held, HoldBound, PreviewHold

LEMMA LeaseInitially == Init => LeaseInv
BY DEF Init, LeaseInit, LeaseInv

LEMMA LeaseStep ==
  ASSUME "panic" \notin Events, TypeInv, CaptureInv, LeaseInv, [Next]_vars
  PROVE  LeaseInv'
<1>0. /\ pc \in [Req -> Pcs] /\ outcome \in [Req -> Replies]
      /\ lock \in Req \cup {None} /\ LeaseTypeOK
  BY DEF TypeInv, TypeOK
<1> USE <1>0 DEF LeaseInv, Held, Capturing, StreamPcs, LeaseTypeOK, leaseVars, callVars,
                 Goto, End, Conclude, At
<1>1. CASE Still
  BY <1>1 DEF Still
<1>2. ASSUME NEW r \in Req, InstallHandler(r) PROVE LeaseInv'
  BY <1>2 DEF InstallHandler, ReleaseLease
<1>3. ASSUME NEW r \in Req, Acquire(r) PROVE LeaseInv'
  BY <1>3, Zenon DEF Acquire, AcquireCancelled, AcquireWarm, AcquireCold, AcquireFailed,
              CaptureInv, Mutex, LockedPcs
<1>4. ASSUME NEW r \in Req, Discard(r) PROVE LeaseInv'
  BY <1>4, Zenon DEF Discard, AbandonAcquire, AfterDiscard
<1>5. ASSUME NEW r \in Req, RefuseBinding(r) PROVE LeaseInv'
  BY <1>5, FinishHolds, Zenon DEF RefuseBinding
<1>6. ASSUME NEW r \in Req, CommitEnrollment(r) PROVE LeaseInv'
  BY <1>6 DEF CommitEnrollment
<1>7. ASSUME NEW r \in Req, Finish(r) PROVE LeaseInv'
  BY <1>7, FinishHolds DEF Finish
<1>8. ASSUME NEW r \in Req, PreviewCapture(r) PROVE LeaseInv'
  BY <1>8, FinishHolds, HoldBounds, Zenon DEF PreviewCapture, TouchPreview
<1>9. ASSUME NEW r \in Req, Panic(r) PROVE LeaseInv'
  BY <1>9 DEF Panic
<1>10. ASSUME NEW r \in Req, ChangeModels(r) PROVE LeaseInv'
  BY <1>10 DEF ChangeModels
<1>11. ASSUME NEW r \in Req, ReleaseOrShutdown(r) PROVE LeaseInv'
  BY <1>11 DEF ReleaseOrShutdown, ReleaseLease
<1>12. CASE Tick
  BY <1>12, HoldBounds DEF Tick, LeaseTick
<1>13. CASE SuspendRelease
  BY <1>13 DEF SuspendRelease, ReleaseLease
<1>14. CASE PollExpire
  BY <1>14, Zenon DEF PollExpire, ExpireLease, ReleaseLease
<1>15. CASE PollExit
  BY <1>15 DEF PollExit, ReleaseLease
<1>16. CASE Stop
  BY <1>16 DEF Stop, ReleaseLease
<1> HIDE DEF LeaseInv
<1> QED
  BY <1>1, <1>2, <1>3, <1>4, <1>5, <1>6, <1>7, <1>8, <1>9, <1>10, <1>11, <1>12, <1>13,
     <1>14, <1>15, <1>16, StillSteps

(* IdleCameraHasDeadline holds in every reachable state of a daemon whose captures
   do not panic: an open camera that no call drives has a bounded hold running. *)
THEOREM IdleCameraHasDeadlineHolds ==
  ASSUME "panic" \notin Events
  PROVE  Spec => []IdleCameraHasDeadline
<1>1. LeaseInv => IdleCameraHasDeadline
  BY DEF LeaseInv, Held, HoldBound, IdleCameraHasDeadline
<1>2. SafetyInv /\ LeaseInv /\ [Next]_vars => LeaseInv'
  BY LeaseStep DEF SafetyInv
<1> QED
  BY SafetyInvariant, LeaseInitially, <1>1, <1>2, PTL DEF Spec

-----------------------------------------------------------------------------
(* The preview set, as long as no capture panics. *)

(* It is current, except between an enrollment's commit and the end of that
   call's capture. *)
FreshInv == cache = 0 \/ cache = store \/ \E r \in Req : Committed(r)

LEMMA FreshInit == Init => FreshInv
BY DEF Init, FreshInv

LEMMA FreshStep ==
  ASSUME "panic" \notin Events, TypeInv, CaptureInv, FreshInv, [Next]_vars
  PROVE  FreshInv'
<1>0. /\ pc \in [Req -> Pcs] /\ kind \in [Req -> AllKinds \cup {"none"}]
      /\ outcome \in [Req -> Replies] /\ store \in Nat /\ cache \in Nat
  BY DEF TypeInv, TypeOK
<1> USE <1>0 DEF FreshInv, Committed, callVars, dataVars, Goto, End, Conclude, At
<1>1. CASE Still
  BY <1>1, Zenon DEF Still
<1>2. ASSUME NEW r \in Req, InstallHandler(r) PROVE FreshInv'
  BY <1>2 DEF InstallHandler
<1>3. ASSUME NEW r \in Req, Acquire(r) PROVE FreshInv'
  BY <1>3 DEF Acquire
<1>4. ASSUME NEW r \in Req, Discard(r) PROVE FreshInv'
  BY <1>4 DEF Discard
<1>5. ASSUME NEW r \in Req, RefuseBinding(r) PROVE FreshInv'
  BY <1>5 DEF RefuseBinding
<1>6. ASSUME NEW r \in Req, CommitEnrollment(r) PROVE FreshInv'
  BY <1>6 DEF CommitEnrollment, CaptureInv, PcKinds
<1>7. ASSUME NEW r \in Req, Finish(r) PROVE FreshInv'
  BY <1>7 DEF Finish, CaptureInv, Mutex, LockedPcs, StreamPcs
<1>8. ASSUME NEW r \in Req, PreviewCapture(r) PROVE FreshInv'
  BY <1>8 DEF PreviewCapture, CacheAfterDetect
<1>9. ASSUME NEW r \in Req, Panic(r) PROVE FreshInv'
  BY <1>9 DEF Panic
<1>10. ASSUME NEW r \in Req, ChangeModels(r) PROVE FreshInv'
  BY <1>10 DEF ChangeModels
<1>11. ASSUME NEW r \in Req, ReleaseOrShutdown(r) PROVE FreshInv'
  BY <1>11 DEF ReleaseOrShutdown
<1>12. CASE Tick
  BY <1>12 DEF Tick
<1>13. CASE SuspendRelease
  BY <1>13 DEF SuspendRelease
<1>14. CASE PollExpire
  BY <1>14 DEF PollExpire
<1>15. CASE PollExit
  BY <1>15 DEF PollExit
<1>16. CASE Stop
  BY <1>16 DEF Stop
<1> HIDE DEF FreshInv
<1> QED
  BY <1>1, <1>2, <1>3, <1>4, <1>5, <1>6, <1>7, <1>8, <1>9, <1>10, <1>11, <1>12, <1>13,
     <1>14, <1>15, <1>16, StillSteps

(* PreviewSetFresh holds in every reachable state of a daemon whose captures do
   not panic: with the handler free, the preview set is the enrolled one. *)
THEOREM PreviewSetFreshHolds ==
  ASSUME "panic" \notin Events
  PROVE  Spec => []PreviewSetFresh
<1>1. SafetyInv /\ FreshInv => PreviewSetFresh
  BY NoneAssumption
     DEF SafetyInv, CaptureInv, Mutex, LockedPcs, StreamPcs, FreshInv, Committed,
         PreviewSetFresh
<1>2. SafetyInv /\ FreshInv /\ [Next]_vars => FreshInv'
  BY FreshStep DEF SafetyInv
<1> QED
  BY SafetyInvariant, FreshInit, <1>1, <1>2, PTL DEF Spec
=============================================================================
