---------------------------- MODULE Daemon_proof ----------------------------
(***************************************************************************)
(* Proofs about Daemon for every set of calls, every policy and every      *)
(* bound.                                                                  *)
(***************************************************************************)
EXTENDS Daemon, TLAPS

ReloadPcs == {"stat", "claim_mtime", "rebuild", "confirm", "install"}

(* Only authentications and enrollments reload. *)
ReloadKinds ==
  \A r \in Req : pc[r] \in ReloadPcs => kind[r] \in AuthKinds \cup {"enroll"}

(* TypeOK alone is not inductive: AfterReload has no value for other methods. *)
TypeInv == TypeOK /\ ReloadKinds

(* Where the CASE definitions of a call's route can lead. *)
LEMMA FirstStepFacts ==
  ASSUME NEW k \in Kinds \ AuthKinds
  PROVE  /\ k \in AllKinds
         /\ FirstStep(k) \in {"stat", "claim", "lock", "cancel"}
         /\ FirstStep(k) = "stat" => k = "enroll"
BY KindsAssumption DEF FirstStep, AllKinds, AuthKinds, PreviewKinds, ControlKinds

LEMMA AfterReloadFacts ==
  ASSUME NEW r \in Req, kind[r] \in AuthKinds \cup {"enroll"}
  PROVE  AfterReload(r) \in {"snapshot", "lock", "claim"}
BY DEF AfterReload, AuthKinds

LEMMA AfterLockFacts ==
  ASSUME NEW r \in Req, kind[r] \in AuthKinds \cup PreviewKinds \cup {"enroll"}
  PROVE  AfterLock(r) \in {"gate", "prepare", "acquire"}
BY DEF AfterLock, AuthKinds, PreviewKinds

LEMMA HoldFacts ==
  /\ PreviewHold \in Nat
  /\ \A o : HoldSecs(o) \in Nat
BY HoldAssumption DEF PreviewHold, HoldSecs

(* Type correctness, one step per action. *)
LEMMA InitType == Init => TypeInv
<1> SUFFICES ASSUME Init PROVE TypeInv
  OBVIOUS
<1>1. CurrentTypeOK /\ LeaseTypeOK
  BY Zenon DEF Init, CurrentTypeOK, CurrentInit, EmptySlot, LeaseTypeOK, LeaseInit, NoDeadline
<1>2. ReloadTypeOK
  <2>1. cfg \in Config /\ file \in Config /\ lost \in SUBSET Nat
    BY PoliciesAssumption DEF Init, ReloadInit, Config, Gates
  <2> QED
    BY <2>1 DEF Init, ReloadInit, ReloadTypeOK, Config, Gates, NoGates, NotBuilt
<1> QED
  BY <1>1, <1>2, Zenon
     DEF Init, TypeInv, ReloadKinds, ReloadPcs, TypeOK, Gates, NoGates,
         Pcs, LockedPcs, StreamPcs, Replies, Verdicts, Unchecked

(* What each operation of a component does to the component's own type. *)
LEMMA LeaseOps ==
  ASSUME LeaseTypeOK,
         \/ AcquireCancelled \/ AcquireWarm \/ AcquireCold \/ AcquireFailed
         \/ AbandonAcquire \/ TouchPreview \/ ReleaseLease \/ ExpireLease
         \/ LeaseTick \/ UNCHANGED leaseVars
         \/ \E o \in Replies : FinishLease(o)
  PROVE  LeaseTypeOK'
<1> USE DEF LeaseTypeOK, leaseVars, NoDeadline
<1>1. CASE AcquireCancelled
  BY <1>1, Zenon DEF AcquireCancelled
<1>2. CASE AcquireWarm \/ AcquireCold \/ AcquireFailed
  BY <1>2, Zenon DEF AcquireWarm, AcquireCold, AcquireFailed
<1>3. CASE AbandonAcquire
  BY <1>3, Zenon DEF AbandonAcquire
<1>4. CASE TouchPreview
  BY <1>4, HoldFacts DEF TouchPreview
<1>5. CASE UNCHANGED leaseVars
  BY <1>5
<1>6. CASE ReleaseLease \/ ExpireLease
  BY <1>6, Zenon DEF ReleaseLease, ExpireLease
<1>7. ASSUME NEW o \in Replies, FinishLease(o) PROVE LeaseTypeOK'
  BY <1>7, HoldFacts, Zenon DEF FinishLease
<1>8. CASE LeaseTick
  BY <1>8 DEF LeaseTick
<1> HIDE DEF LeaseTypeOK, leaseVars
<1> QED
  BY <1>1, <1>2, <1>3, <1>4, <1>5, <1>6, <1>7, <1>8

LEMMA ReloadOps ==
  ASSUME ReloadTypeOK, NEW r \in Req,
         \/ StatConfig(r) \/ ClaimMtime(r) \/ KeepHandler(r) \/ RebuildOk(r)
         \/ RebuildFails(r) \/ ConfirmClaim(r) \/ DiscardStale(r) \/ InstallConfig(r)
  PROVE  ReloadTypeOK'
<1> USE DEF ReloadTypeOK
<1>0. NotBuilt \in Config
  BY DEF NotBuilt, Config, NoGates, Gates
<1>1. CASE StatConfig(r)
  BY <1>1 DEF StatConfig, Config
<1>2. CASE ClaimMtime(r)
  BY <1>2 DEF ClaimMtime, Changed
<1>3. CASE ConfirmClaim(r)
  BY <1>3 DEF ConfirmClaim, StillClaimed
<1>4. CASE KeepHandler(r)
  BY <1>0, <1>4 DEF KeepHandler, LeaveReload, Changed
<1>5. CASE DiscardStale(r)
  BY <1>0, <1>5 DEF DiscardStale, LeaveReload, StillClaimed
<1>6. CASE RebuildOk(r)
  BY <1>6 DEF RebuildOk
<1>7. CASE RebuildFails(r)
  BY <1>0, <1>7, Zenon DEF RebuildFails, LeaveReload
<1>8. CASE InstallConfig(r)
  BY <1>0, <1>8 DEF InstallConfig, LeaveReload
<1> HIDE DEF ReloadTypeOK
<1> QED
  BY <1>1, <1>2, <1>3, <1>4, <1>5, <1>6, <1>7, <1>8

LEMMA CurrentOps ==
  ASSUME CurrentTypeOK,
         \/ CancelCurrent
         \/ \E r \in Req :
              \/ TakeCheckpoint(r) \/ Install(r) \/ InstallUnlessCancelledSince(r)
              \/ DropCurrentGuard(r) \/ DropToken(r) \/ CancelOwnToken(r)
  PROVE  CurrentTypeOK'
<1> USE DEF CurrentTypeOK
<1>1. CASE CancelCurrent
  BY <1>1 DEF CancelCurrent
<1>2. ASSUME NEW r \in Req, TakeCheckpoint(r) PROVE CurrentTypeOK'
  BY <1>2 DEF TakeCheckpoint
<1>3. ASSUME NEW r \in Req, Install(r) PROVE CurrentTypeOK'
  BY <1>3 DEF Install
<1>4. ASSUME NEW r \in Req, InstallUnlessCancelledSince(r) PROVE CurrentTypeOK'
  BY <1>3, <1>4, Zenon DEF InstallUnlessCancelledSince
<1>5. ASSUME NEW r \in Req, DropCurrentGuard(r) PROVE CurrentTypeOK'
  BY <1>5 DEF DropCurrentGuard, EmptySlot
<1>6. ASSUME NEW r \in Req, DropToken(r) PROVE CurrentTypeOK'
  BY <1>6 DEF DropToken
<1>7. ASSUME NEW r \in Req, CancelOwnToken(r) PROVE CurrentTypeOK'
  BY <1>7 DEF CancelOwnToken
<1> HIDE DEF CurrentTypeOK
<1> QED
  BY <1>1, <1>2, <1>3, <1>4, <1>5, <1>6, <1>7

LEMMA NextType == TypeInv /\ [Next]_vars => TypeInv'
<1> SUFFICES ASSUME TypeInv, [Next]_vars PROVE TypeInv'
  OBVIOUS
<1>0. /\ UNCHANGED currentVars => CurrentTypeOK'
      /\ UNCHANGED leaseVars => LeaseTypeOK'
      /\ UNCHANGED reloadVars => ReloadTypeOK'
  BY Zenon DEF TypeInv, TypeOK, CurrentTypeOK, LeaseTypeOK, ReloadTypeOK, currentVars,
               leaseVars, reloadVars
<1> USE <1>0 DEF TypeInv, ReloadKinds, ReloadPcs, TypeOK, callVars, slotVars, dataVars,
                 sleepVars, Goto, End, Running, At, Pcs, LockedPcs, StreamPcs, Replies
<1>1. ASSUME NEW r \in Req, Refused(r) PROVE TypeInv'
  BY <1>1 DEF Refused
<1>2. ASSUME NEW r \in Req, ArriveAuth(r) PROVE TypeInv'
  BY <1>2, CurrentOps, KindsAssumption DEF ArriveAuth, AuthKinds, AllKinds
<1>3. ASSUME NEW r \in Req, ArriveOther(r) PROVE TypeInv'
  BY <1>3, FirstStepFacts DEF ArriveOther
<1>4. ASSUME NEW r \in Req, ReloadStep(r) PROVE TypeInv'
  <2>1. ReloadTypeOK'
    BY <1>4, ReloadOps DEF ReloadStep, StatFile, CheckMtime, Rebuild, ConfirmMtime
  <2>2. PICK l \in {"claim_mtime", "rebuild", "confirm", "install", "snapshot", "lock",
                    "claim"} : Goto(r, l)
    BY <1>4, AfterReloadFacts DEF ReloadStep, StatFile, CheckMtime, Rebuild, ConfirmMtime
  <2>3. pc[r] \in ReloadPcs
    BY <1>4 DEF ReloadStep, StatFile, CheckMtime, Rebuild, ConfirmMtime
  <2> QED
    BY <1>4, <2>1, <2>2, <2>3 DEF ReloadStep
<1>5. ASSUME NEW r \in Req, InstallHandler(r) PROVE TypeInv'
  BY <1>5, ReloadOps, LeaseOps, AfterReloadFacts, Zenon DEF InstallHandler
<1>6. ASSUME NEW r \in Req, LockTimeout(r) PROVE TypeInv'
  BY <1>6 DEF LockTimeout
<1>7. ASSUME NEW r \in Req, SnapshotPolicy(r) PROVE TypeInv'
  BY <1>7 DEF SnapshotPolicy, ReloadTypeOK, Config
<1>8. ASSUME NEW r \in Req, EnvironmentChecks(r) PROVE TypeInv'
  BY <1>8 DEF EnvironmentChecks, SessionAnswers, LidAnswers, LidReadings, Verdicts
<1>9. ASSUME NEW r \in Req, LockHandler(r) PROVE TypeInv'
  BY <1>9, AfterLockFacts DEF LockHandler
<1>10. ASSUME NEW r \in Req, GateAdmits(r) PROVE TypeInv'
  <2>1. \/ verdict' = [verdict EXCEPT ![r].lid = "open"]
        \/ verdict' = verdict
    BY <1>10 DEF GateAdmits
  <2>2. verdict[r] \in Verdicts
    OBVIOUS
  <2>3. [verdict[r] EXCEPT !.lid = "open"] \in Verdicts
    BY <2>2 DEF Verdicts, LidReadings
  <2>4. verdict' \in [Req -> Verdicts]
    BY <2>1, <2>2, <2>3
  <2>5. /\ Running /\ Goto(r, "claim") /\ pc[r] = "gate"
        /\ UNCHANGED <<currentVars, leaseVars, reloadVars, kind, departed, policy,
                       frames, lock, poisoned, slotVars, dataVars, sleepVars>>
    BY <1>10 DEF GateAdmits
  <2> QED
    BY <2>4, <2>5
<1>11. ASSUME NEW r \in Req, GateRefuses(r) PROVE TypeInv'
  BY <1>11 DEF GateRefuses, Outcomes
<1>12. ASSUME NEW r \in Req, ClaimSlot(r) PROVE TypeInv'
  BY <1>12 DEF ClaimSlot
<1>13. ASSUME NEW r \in Req, ClaimRefused(r) PROVE TypeInv'
  BY <1>13 DEF ClaimRefused
<1>14. ASSUME NEW r \in Req, Publish(r) PROVE TypeInv'
  BY <1>14, CurrentOps DEF Publish
<1>15. ASSUME NEW r \in Req, Prepare(r) PROVE TypeInv'
  BY <1>15 DEF Prepare, Outcomes
<1>16. ASSUME NEW r \in Req, Acquire(r) PROVE TypeInv'
  BY <1>16, LeaseOps DEF Acquire, Outcomes
<1>17. ASSUME NEW r \in Req, Discard(r) PROVE TypeInv'
  BY <1>17, LeaseOps DEF Discard, AfterDiscard, Outcomes
<1>18. ASSUME NEW r \in Req, RefuseBinding(r) PROVE TypeInv'
  BY <1>18, LeaseOps DEF RefuseBinding, Outcomes
<1>19. ASSUME NEW r \in Req, LoopHead(r) PROVE TypeInv'
  BY <1>19 DEF LoopHead, Outcomes, Conclude
<1>20. ASSUME NEW r \in Req, OneFrame(r) PROVE TypeInv'
  BY <1>20 DEF OneFrame, Outcomes, Conclude
<1>21. ASSUME NEW r \in Req, CommitEnrollment(r) PROVE TypeInv'
  BY <1>21 DEF CommitEnrollment, Outcomes, Conclude
<1>22. ASSUME NEW r \in Req, Finish(r) PROVE TypeInv'
  BY <1>22, LeaseOps DEF Finish
<1>23. ASSUME NEW r \in Req, PreviewCapture(r) PROVE TypeInv'
  BY <1>23, LeaseOps DEF PreviewCapture, CacheAfterDetect, Outcomes
<1>24. ASSUME NEW r \in Req, Panic(r) PROVE TypeInv'
  BY <1>24 DEF Panic, LeaseTypeOK
<1>25. ASSUME NEW r \in Req, ChangeModels(r) PROVE TypeInv'
  BY <1>25 DEF ChangeModels, Outcomes
<1>26. ASSUME NEW r \in Req, CancelInFlight(r) PROVE TypeInv'
  BY <1>26, CurrentOps DEF CancelInFlight
<1>27. ASSUME NEW r \in Req, ReleaseOrShutdown(r) PROVE TypeInv'
  BY <1>27, LeaseOps DEF ReleaseOrShutdown
<1>28. ASSUME NEW r \in Req, DropEntry(r) PROVE TypeInv'
  BY <1>28, CurrentOps DEF DropEntry
<1>29. ASSUME NEW r \in Req, DropSlot(r) PROVE TypeInv'
  BY <1>29, Zenon DEF DropSlot
<1>30. ASSUME NEW r \in Req, DropHandler(r) PROVE TypeInv'
  BY <1>30 DEF DropHandler
<1>31. ASSUME NEW r \in Req, Reply(r) PROVE TypeInv'
  BY <1>31, CurrentOps DEF Reply, Unchecked, Verdicts, NoGates, Gates
<1>32. ASSUME NEW r \in Req, Depart(r) PROVE TypeInv'
  BY <1>32, CurrentOps DEF Depart
<1>33. CASE Edit
  BY <1>33, PoliciesAssumption DEF Edit, EditConfig, ReloadTypeOK, Config
<1>34. CASE Tick
  BY <1>34, LeaseOps DEF Tick
<1>35. CASE Suspend
  BY <1>35, CurrentOps DEF Suspend
<1>36. CASE SuspendRelease
  BY <1>36, LeaseOps DEF SuspendRelease
<1>37. CASE SuspendGivesUp
  BY <1>37 DEF SuspendGivesUp
<1>38. CASE PollExpire
  BY <1>38, LeaseOps DEF PollExpire
<1>39. CASE PollExit
  BY <1>39, LeaseOps, Zenon DEF PollExit
<1>40. CASE Stop
  BY <1>40, LeaseOps, Zenon DEF Stop
<1>41. CASE UNCHANGED vars
  BY <1>41 DEF vars
<1> HIDE DEF TypeInv
<1> QED
  BY <1>1, <1>2, <1>3, <1>4, <1>5, <1>6, <1>7, <1>8, <1>9, <1>10, <1>11, <1>12, <1>13,
  <1>14, <1>15, <1>16, <1>17, <1>18, <1>19, <1>20, <1>21, <1>22, <1>23, <1>24, <1>25,
  <1>26, <1>27, <1>28, <1>29, <1>30, <1>31, <1>32, <1>33, <1>34, <1>35, <1>36, <1>37,
  <1>38, <1>39, <1>40, <1>41 DEF Next, Arrive, Step, SuspendStep, Poll

(* TypeOK holds in every reachable state of the daemon. *)
THEOREM TypeCorrect == Spec => []TypeOK
<1>1. TypeInv => TypeOK
  BY DEF TypeInv
<1> QED
  BY InitType, NextType, <1>1, PTL DEF Spec
=============================================================================
