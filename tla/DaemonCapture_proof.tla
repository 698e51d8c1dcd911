------------------------ MODULE DaemonCapture_proof ------------------------
(***************************************************************************)
(* Proof that one call at a time drives the camera, for every set of       *)
(* calls, every policy and every bound.                                    *)
(***************************************************************************)
EXTENDS Daemon_proof

(* Which methods reach which step. *)
PcKinds ==
  \A r \in Req :
    /\ pc[r] \in {"snapshot", "checks"} => kind[r] = "auth"
    /\ pc[r] = "gate" => kind[r] \in AuthKinds
    /\ pc[r] \in {"publish", "prepare", "scan", "frame", "finish"} =>
         kind[r] \in AuthKinds \cup {"enroll"}
    /\ pc[r] \in {"claim", "acquire", "stale", "warmup"} =>
         kind[r] \in AuthKinds \cup PreviewKinds \cup {"enroll"}
    /\ pc[r] = "commit" => kind[r] = "enroll"
    /\ pc[r] = "snap" => kind[r] \in PreviewKinds
    /\ pc[r] = "cancel" => kind[r] \in ControlKinds

(* Where a call holds the handler mutex. *)
Mutex ==
  \A r \in Req :
    /\ pc[r] \in LockedPcs => lock = r
    /\ pc[r] \in {"claim", "publish"} /\ kind[r] \in AuthKinds => lock = r

(* Where a call owns the capture guard. *)
SlotHeld ==
  /\ \A r, s \in Req : guard[r] /\ guard[s] => r = s
  /\ busy <=> \E r \in Req : guard[r]
  /\ \A r \in Req :
       /\ pc[r] \in StreamPcs \cup {"publish", "prepare", "acquire"} => guard[r]
       /\ pc[r] = "lock" /\ kind[r] \in PreviewKinds \cup {"enroll"} => guard[r]

CaptureInv == PcKinds /\ Mutex /\ SlotHeld

LEMMA AfterReloadLabels ==
  ASSUME NEW r \in Req, kind[r] \in AuthKinds \cup {"enroll"}
  PROVE  /\ AfterReload(r) \in {"snapshot", "lock", "claim"}
         /\ AfterReload(r) = "snapshot" => kind[r] = "auth"
         /\ AfterReload(r) = "lock" => kind[r] = "test"
         /\ AfterReload(r) = "claim" => kind[r] = "enroll"
BY DEF AfterReload, AuthKinds

(* A reload step moves its own call and touches neither lock nor slot. *)
LEMMA ReloadMoves ==
  ASSUME TypeInv, NEW r \in Req, ReloadStep(r) \/ InstallHandler(r)
  PROVE  /\ kind[r] \in AuthKinds \cup {"enroll"}
         /\ pc[r] \in ReloadPcs
         /\ \E l \in ReloadPcs \cup {"snapshot", "lock", "claim"} :
              /\ pc' = [pc EXCEPT ![r] = l]
              /\ l = "snapshot" => kind[r] = "auth"
              /\ l = "lock" => kind[r] = "test"
              /\ l = "claim" => kind[r] = "enroll"
         /\ UNCHANGED <<outcome, currentVars, kind, departed, policy, verdict, frames, lock,
                        poisoned, slotVars, store, sleepVars, alive>>
<1>1. pc[r] \in ReloadPcs
  BY DEF ReloadStep, StatFile, CheckMtime, Rebuild, ConfirmMtime, InstallHandler, ReloadPcs
<1>2. kind[r] \in AuthKinds \cup {"enroll"}
  BY <1>1 DEF TypeInv, ReloadKinds
<1>3. \E l \in {"claim_mtime", "rebuild", "confirm", "install", AfterReload(r)} : Goto(r, l)
  BY DEF ReloadStep, StatFile, CheckMtime, Rebuild, ConfirmMtime, InstallHandler
<1>4. UNCHANGED <<currentVars, kind, departed, policy, verdict, frames, lock,
                  poisoned, slotVars, store, sleepVars, alive>>
  BY DEF ReloadStep, InstallHandler, dataVars, Running
<1> QED
  BY <1>1, <1>2, <1>3, <1>4, AfterReloadLabels, Zenon DEF Goto, ReloadPcs

LEMMA FirstStepLabels ==
  ASSUME NEW k \in Kinds \ AuthKinds
  PROVE  /\ FirstStep(k) = "stat" => k = "enroll"
         /\ FirstStep(k) = "claim" => k \in PreviewKinds
         /\ FirstStep(k) = "lock" => k = "models"
         /\ FirstStep(k) = "cancel" => k \in ControlKinds
         /\ FirstStep(k) \in {"stat", "claim", "lock", "cancel"}
BY KindsAssumption DEF FirstStep, AllKinds, AuthKinds, PreviewKinds, ControlKinds

LEMMA AfterLockLabels ==
  ASSUME NEW r \in Req, kind[r] \in AuthKinds \cup PreviewKinds \cup {"enroll"}
  PROVE  /\ AfterLock(r) \in {"gate", "prepare", "acquire"}
         /\ AfterLock(r) = "gate" => kind[r] \in AuthKinds
         /\ AfterLock(r) = "prepare" => kind[r] = "enroll"
         /\ AfterLock(r) = "acquire" => kind[r] \in PreviewKinds
BY DEF AfterLock, AuthKinds, PreviewKinds

LEMMA CaptureInit == Init => CaptureInv
BY DEF Init, CaptureInv, PcKinds, Mutex, SlotHeld, LockedPcs, StreamPcs

LEMMA CaptureStep ==
  ASSUME TypeInv, CaptureInv, [Next]_vars
  PROVE  CaptureInv'
<1>0. /\ pc \in [Req -> Pcs] /\ kind \in [Req -> AllKinds \cup {"none"}]
      /\ guard \in [Req -> BOOLEAN] /\ busy \in BOOLEAN
  BY DEF TypeInv, TypeOK
<1> USE <1>0 DEF CaptureInv, PcKinds, Mutex, SlotHeld, callVars, slotVars, Goto, End,
                 Conclude, At, LockedPcs, StreamPcs, AuthKinds, PreviewKinds, ControlKinds
<1>1. ASSUME NEW r \in Req, Refused(r) \/ LockTimeout(r) PROVE CaptureInv'
  BY <1>1 DEF Refused, LockTimeout
<1>2. ASSUME NEW r \in Req, ArriveAuth(r) PROVE CaptureInv'
  BY <1>2, KindsAssumption DEF ArriveAuth
<1>3. ASSUME NEW r \in Req, ArriveOther(r) PROVE CaptureInv'
  BY <1>3, FirstStepLabels DEF ArriveOther
<1>4. ASSUME NEW r \in Req, ReloadStep(r) \/ InstallHandler(r) PROVE CaptureInv'
  BY <1>4, ReloadMoves DEF ReloadPcs
<1>5. ASSUME NEW r \in Req, SnapshotPolicy(r) \/ EnvironmentChecks(r) PROVE CaptureInv'
  BY <1>5 DEF SnapshotPolicy, EnvironmentChecks
<1>6. ASSUME NEW r \in Req, LockHandler(r) PROVE CaptureInv'
  BY <1>6, AfterLockLabels, NoneAssumption DEF LockHandler
<1>7. ASSUME NEW r \in Req, GateAdmits(r) PROVE CaptureInv'
  BY <1>7 DEF GateAdmits
<1>8. ASSUME NEW r \in Req, GateRefuses(r) \/ ClaimRefused(r) PROVE CaptureInv'
  BY <1>8 DEF GateRefuses, ClaimRefused
<1>9. ASSUME NEW r \in Req, ClaimSlot(r) PROVE CaptureInv'
  BY <1>9 DEF ClaimSlot
<1>10. ASSUME NEW r \in Req, Publish(r) PROVE CaptureInv'
  BY <1>10 DEF Publish, Install, InstallUnlessCancelledSince
<1>11. ASSUME NEW r \in Req, Prepare(r) \/ Acquire(r) PROVE CaptureInv'
  BY <1>11 DEF Prepare, Acquire
<1>12. ASSUME NEW r \in Req, Discard(r) PROVE CaptureInv'
  BY <1>12 DEF Discard, AfterDiscard
<1>13. ASSUME NEW r \in Req,
              LoopHead(r) \/ OneFrame(r) \/ CommitEnrollment(r)
       PROVE  CaptureInv'
  BY <1>13 DEF LoopHead, OneFrame, CommitEnrollment
<1>14. ASSUME NEW r \in Req,
              RefuseBinding(r) \/ Finish(r) \/ PreviewCapture(r)
       PROVE  CaptureInv'
  BY <1>14 DEF RefuseBinding, Finish, PreviewCapture
<1>15. ASSUME NEW r \in Req, Panic(r) PROVE CaptureInv'
  BY <1>15 DEF Panic
<1>16. ASSUME NEW r \in Req, ChangeModels(r) \/ ReleaseOrShutdown(r) PROVE CaptureInv'
  BY <1>16 DEF ChangeModels, ReleaseOrShutdown
<1>17. ASSUME NEW r \in Req, CancelInFlight(r) \/ DropEntry(r) PROVE CaptureInv'
  BY <1>17 DEF CancelInFlight, DropEntry
<1>18. ASSUME NEW r \in Req, DropSlot(r) PROVE CaptureInv'
  BY <1>18 DEF DropSlot
<1>19. ASSUME NEW r \in Req, DropHandler(r) PROVE CaptureInv'
  BY <1>19, NoneAssumption DEF DropHandler
<1>20. ASSUME NEW r \in Req, Reply(r) \/ Depart(r) PROVE CaptureInv'
  BY <1>20 DEF Reply, Depart
<1>21. CASE Edit \/ Tick \/ Suspend \/ SuspendStep
  BY <1>21 DEF Edit, Tick, Suspend, SuspendStep, SuspendRelease, SuspendGivesUp
<1>22. CASE Poll \/ Stop \/ UNCHANGED vars
  BY <1>22 DEF Poll, Stop, PollExpire, PollExit, vars
<1> HIDE DEF CaptureInv
<1> QED
  BY <1>1, <1>2, <1>3, <1>4, <1>5, <1>6, <1>7, <1>8, <1>9, <1>10, <1>11, <1>12, <1>13,
     <1>14, <1>15, <1>16, <1>17, <1>18, <1>19, <1>20, <1>21, <1>22
     DEF Next, Arrive, Step

(* OneCapture holds in every reachable state: the busy flag, the capture guards
   and the handler mutex never let two calls drive the camera. *)
THEOREM OneCaptureHolds == Spec => []OneCapture
<1>1. CaptureInv => OneCapture
  BY DEF CaptureInv, Mutex, SlotHeld, OneCapture, LockedPcs
<1> QED
  BY InitType, NextType, CaptureInit, CaptureStep, <1>1, PTL DEF Spec

-----------------------------------------------------------------------------
(* The phases of a call, for what is proved about tokens and gates. *)

(* r has not published its token yet. *)
Unpublished(r) ==
  \/ pc[r] \in ReloadPcs \cup {"new", "snapshot", "checks", "gate", "claim", "publish",
                             "cancel", "done"}
  \/ pc[r] = "lock" /\ kind[r] \in AuthKinds

Preflight == ReloadPcs \cup {"snapshot", "checks", "lock", "gate", "claim", "publish"}

Admitted == {"claim", "publish"}

Scanning == {"prepare", "acquire"} \cup StreamPcs

(* Most steps only take a call onward, within its phase or out of it. *)
Onward ==
  /\ UNCHANGED <<currentVars, kind, departed, verdict, cfg, guard>>
  /\ \A r \in Req : pc'[r] # pc[r] =>
       /\ pc'[r] # "new"
       /\ Unpublished(r)' => Unpublished(r)
       /\ kind[r] \in AuthKinds =>
            /\ pc'[r] \in Preflight => pc[r] \in Preflight \ {"publish"}
            /\ pc'[r] \in Admitted => pc[r] \in Admitted
            /\ pc'[r] \in Scanning => pc[r] \in Scanning

LEMMA PhaseSteps ==
  ASSUME TypeInv, CaptureInv, [Next]_vars
  PROVE  \/ Onward
         \/ Suspend
         \/ \E r \in Req :
              \/ ArriveAuth(r) \/ ArriveOther(r) \/ InstallHandler(r) \/ EnvironmentChecks(r)
              \/ GateAdmits(r) \/ ClaimSlot(r) \/ Publish(r) \/ CancelInFlight(r)
              \/ DropEntry(r) \/ DropSlot(r) \/ Reply(r) \/ Depart(r)
<1>0. pc \in [Req -> Pcs] /\ kind \in [Req -> AllKinds \cup {"none"}]
  BY DEF TypeInv, TypeOK
<1> USE <1>0 DEF Onward, Unpublished, Preflight, Admitted, Scanning, ReloadPcs, StreamPcs,
                 AuthKinds, Goto, End, Conclude, At
<1>1. ASSUME NEW r \in Req, ReloadStep(r) PROVE Onward
  <2>1. cfg' = cfg
    BY <1>1
       DEF ReloadStep, StatFile, StatConfig, CheckMtime, ClaimMtime, KeepHandler, Rebuild,
                RebuildOk, RebuildFails, ConfirmMtime, ConfirmClaim, DiscardStale
  <2> QED
    BY <1>1, <2>1, ReloadMoves DEF slotVars
<1>2. ASSUME NEW r \in Req, LockHandler(r) PROVE Onward
  BY <1>2, AfterLockLabels DEF LockHandler, reloadVars, slotVars, PreviewKinds
<1>3. ASSUME NEW r \in Req, Refused(r) \/ LockTimeout(r) \/ SnapshotPolicy(r) PROVE Onward
  BY <1>3 DEF Refused, LockTimeout, SnapshotPolicy, reloadVars, slotVars
<1>4. ASSUME NEW r \in Req, GateRefuses(r) \/ ClaimRefused(r) \/ Prepare(r) PROVE Onward
  BY <1>4 DEF GateRefuses, ClaimRefused, Prepare, reloadVars, slotVars
<1>5. ASSUME NEW r \in Req, Acquire(r) \/ Discard(r) \/ RefuseBinding(r) PROVE Onward
  BY <1>5 DEF Acquire, Discard, AfterDiscard, RefuseBinding, reloadVars, slotVars
<1>6. ASSUME NEW r \in Req, LoopHead(r) \/ OneFrame(r) \/ CommitEnrollment(r) PROVE Onward
  BY <1>6 DEF LoopHead, OneFrame, CommitEnrollment, reloadVars, slotVars
<1>7. ASSUME NEW r \in Req, Finish(r) \/ PreviewCapture(r) \/ Panic(r) PROVE Onward
  BY <1>7 DEF Finish, PreviewCapture, Panic, reloadVars, slotVars
<1>8. ASSUME NEW r \in Req, ChangeModels(r) \/ ReleaseOrShutdown(r) PROVE Onward
  BY <1>8 DEF ChangeModels, ReleaseOrShutdown, reloadVars, slotVars
<1>9. ASSUME UNCHANGED <<currentVars, pc, kind, departed, verdict, cfg, guard>> PROVE Onward
  BY <1>9, Zenon
<1> HIDE <1>0 DEF Onward, Unpublished, Preflight, Admitted, Scanning, ReloadPcs, StreamPcs,
                  AuthKinds, Goto, End, Conclude, At
<1>10. ASSUME NEW r \in Req, DropHandler(r) PROVE Onward
  BY <1>9, <1>10 DEF DropHandler, callVars, reloadVars, slotVars
<1>11. CASE Edit \/ Tick
  BY <1>9, <1>11 DEF Edit, EditConfig, Tick, callVars, reloadVars, slotVars
<1>12. CASE SuspendStep
  BY <1>9, <1>12
     DEF SuspendStep, SuspendRelease, SuspendGivesUp, callVars, reloadVars, slotVars
<1>13. CASE Poll
  BY <1>9, <1>13 DEF Poll, PollExpire, PollExit, callVars, reloadVars, slotVars
<1>14. CASE Stop
  BY <1>9, <1>14 DEF Stop, callVars, reloadVars, slotVars
<1>15. CASE UNCHANGED vars
  BY <1>9, <1>15 DEF vars, callVars, reloadVars, slotVars
<1> QED
  BY <1>1, <1>2, <1>3, <1>4, <1>5, <1>6, <1>7, <1>8, <1>10, <1>11, <1>12, <1>13, <1>14,
     <1>15
     DEF Next, Arrive, Step
=============================================================================
