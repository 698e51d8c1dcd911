------------------------------- MODULE Daemon -------------------------------
(***************************************************************************)
(* The D-Bus daemon: concurrent calls, the handler mutex, the capture      *)
(* slot, cancellation, live reload, the camera lease, the suspend watcher  *)
(* and the 250 ms poll (server.rs, handler.rs).                            *)
(*                                                                         *)
(* zbus runs every call in its own task; each call is a small program      *)
(* whose program counter is pc[r].  A step is what the code does between   *)
(* two points where another thread can observe or change shared state.     *)
(***************************************************************************)
EXTENDS CurrentRequest, CameraLease, ConfigReload

CONSTANTS
  Kinds,      \* the methods callers use, a subset of AllKinds
  MaxFrames,  \* bound: frames a capture loop takes before its timeout
  MaxSleeps,  \* bound: suspends
  Events      \* what may happen besides: "depart", a caller leaves; "panic", a
              \* capture panics; "stop", SIGTERM, SIGINT or the idle timeout

(* "auth" is Authenticate and AuthenticateSilent, "test" TestAuthenticate,
   "detect" PreviewDetectFrame, "models" RemoveModel and ClearModels.
   ListModels, ListDevices and Ping change nothing and are left out. *)
AuthKinds == {"auth", "test"}
PreviewKinds == {"preview", "detect"}
ControlKinds == {"release", "shutdown"}
AllKinds == AuthKinds \cup PreviewKinds \cup ControlKinds \cup {"enroll", "models"}

ASSUME KindsAssumption == Kinds \subseteq AllKinds
ASSUME BoundsAssumption ==
  /\ MaxFrames \in Nat /\ MaxSleeps \in Nat
  /\ Events \subseteq {"depart", "panic", "stop"}

VARIABLES
  pc,        \* where each call is
  kind,      \* its method
  outcome,   \* how it ended, or "none"
  departed,  \* its caller's bus connection is gone
  policy,    \* policy[r]: the gates r snapshotted
  verdict,   \* verdict[r]: what r's environment checks answered
  frames,    \* frames[r]: frames r has captured
  lock,      \* the request that holds the handler mutex
  poisoned,  \* a thread panicked while holding the handler mutex
  busy,      \* CaptureSlot.busy
  guard,     \* guard[r]: r owns the CaptureGuard
  store,     \* version of the enrolled templates
  cache,     \* version decrypted for the preview session, 0 = none
  stopping,  \* Handler.shutdown_requested
  sleep,     \* the suspend watcher: "idle" or "releasing"
  sleeps,    \* suspends so far
  stuck,     \* the request the suspend watcher last gave up on
  alive      \* the process runs

callVars == <<pc, kind, outcome, departed, policy, verdict, frames>>
slotVars == <<busy, guard>>
dataVars == <<store, cache, stopping>>
sleepVars == <<sleep, sleeps, stuck>>
vars == <<currentVars, leaseVars, reloadVars, callVars, lock, poisoned,
          slotVars, dataVars, sleepVars, alive>>

(* "denied" is a session that is remote, unresolved or whose check was
   cancelled: all three are refused alike. *)
LidReadings == {"open", "closed", "unavailable"}
Verdicts == [ssh : {"unchecked", "local", "denied"},
             lid : {"unchecked", "cancelled"} \cup LidReadings]
Unchecked == [ssh |-> "unchecked", lid |-> "unchecked"]

Replies == Outcomes \cup {"none", "busy", "denied", "rejected", "ok", "panic"}

(* With the handler locked, and the camera this call's. *)
StreamPcs == {"stale", "warmup", "scan", "frame", "commit", "snap", "finish"}

LockedPcs == {"gate", "prepare", "acquire"} \cup StreamPcs

Pcs == {"new", "stat", "claim_mtime", "rebuild", "confirm", "install",
        "snapshot", "checks", "claim", "publish", "cancel", "lock", "ending", "done"}
       \cup LockedPcs

TypeOK ==
  /\ CurrentTypeOK /\ LeaseTypeOK /\ ReloadTypeOK
  /\ pc \in [Req -> Pcs]
  /\ kind \in [Req -> AllKinds \cup {"none"}]
  /\ outcome \in [Req -> Replies]
  /\ departed \in [Req -> BOOLEAN]
  /\ policy \in [Req -> Gates]
  /\ verdict \in [Req -> Verdicts]
  /\ frames \in [Req -> Nat]
  /\ lock \in Req \cup {None}
  /\ poisoned \in BOOLEAN
  /\ busy \in BOOLEAN
  /\ guard \in [Req -> BOOLEAN]
  /\ store \in Nat /\ cache \in Nat
  /\ stopping \in BOOLEAN
  /\ sleep \in {"idle", "releasing"}
  /\ sleeps \in Nat
  /\ stuck \in Req \cup {None}
  /\ alive \in BOOLEAN

Init ==
  /\ CurrentInit /\ LeaseInit /\ ReloadInit
  /\ pc = [r \in Req |-> "new"]
  /\ kind = [r \in Req |-> "none"]
  /\ outcome = [r \in Req |-> "none"]
  /\ departed = [r \in Req |-> FALSE]
  /\ policy = [r \in Req |-> NoGates]
  /\ verdict = [r \in Req |-> Unchecked]
  /\ frames = [r \in Req |-> 0]
  /\ lock = None
  /\ poisoned = FALSE
  /\ busy = FALSE
  /\ guard = [r \in Req |-> FALSE]
  /\ store = 1 /\ cache = 0
  /\ stopping = FALSE
  /\ sleep = "idle" /\ sleeps = 0 /\ stuck = None
  /\ alive = TRUE

-----------------------------------------------------------------------------
(* Moving a call: to its next step, or to the end with an answer. *)

Goto(r, label) ==
  /\ pc' = [pc EXCEPT ![r] = label]
  /\ UNCHANGED outcome

End(r, answer) ==
  /\ pc' = [pc EXCEPT ![r] = "ending"]
  /\ outcome' = [outcome EXCEPT ![r] = answer]

Running ==
  /\ alive
  /\ UNCHANGED alive

At(r, label, kinds) ==
  /\ pc[r] = label
  /\ kind[r] \in kinds

-----------------------------------------------------------------------------
(* Entry: authorization and the ingress limiter, then the busy check. *)

(* authorize_method or the ingress limiter turns the call away. *)
Refused(r) ==
  /\ Running
  /\ pc[r] = "new"
  /\ Goto(r, "done")
  /\ UNCHANGED <<currentVars, leaseVars, reloadVars, kind, departed, policy, verdict,
                 frames, lock, poisoned, slotVars, dataVars, sleepVars>>

(* run_authentication up to the checkpoint. *)
ArriveAuth(r) ==
  /\ Running
  /\ pc[r] = "new"
  /\ \/ /\ busy
        /\ Goto(r, "done")
        /\ UNCHANGED <<currentVars, kind>>
     \/ /\ ~busy
        /\ kind' \in {[kind EXCEPT ![r] = k] : k \in Kinds \cap AuthKinds}
        /\ TakeCheckpoint(r)
        /\ Goto(r, "stat")
  /\ UNCHANGED <<leaseVars, reloadVars, departed, policy, verdict,
                 frames, lock, poisoned, slotVars, dataVars, sleepVars>>

FirstStep(k) ==
  CASE k = "enroll" -> "stat"
    [] k \in PreviewKinds -> "claim"
    [] k = "models" -> "lock"
    [] k \in ControlKinds -> "cancel"

(* enroll_as, preview_frame_as, preview_detect_frame_as, remove_model_as,
   clear_models_as, release_camera_as, shutdown_as: authorized. *)
ArriveOther(r) ==
  /\ Running
  /\ pc[r] = "new"
  /\ \E k \in Kinds \ AuthKinds :
       /\ kind' = [kind EXCEPT ![r] = k]
       /\ Goto(r, FirstStep(k))
  /\ UNCHANGED <<currentVars, leaseVars, reloadVars, departed, policy, verdict,
                 frames, lock, poisoned, slotVars, dataVars, sleepVars>>

-----------------------------------------------------------------------------
(* Live reload, at the entry of an authentication or an enrollment. *)

AfterReload(r) ==
  CASE kind[r] = "auth" -> "snapshot"
    [] kind[r] = "test" -> "lock"
    [] kind[r] = "enroll" -> "claim"

StatFile(r) ==
  /\ pc[r] = "stat"
  /\ StatConfig(r)
  /\ Goto(r, "claim_mtime")

CheckMtime(r) ==
  /\ pc[r] = "claim_mtime"
  /\ \/ ClaimMtime(r) /\ Goto(r, "rebuild")
     \/ KeepHandler(r) /\ Goto(r, AfterReload(r))

Rebuild(r) ==
  /\ pc[r] = "rebuild"
  /\ \/ RebuildOk(r) /\ Goto(r, "confirm")
     \/ RebuildFails(r) /\ Goto(r, AfterReload(r))

ConfirmMtime(r) ==
  /\ pc[r] = "confirm"
  /\ \/ ConfirmClaim(r) /\ Goto(r, "install")
     \/ DiscardStale(r) /\ Goto(r, AfterReload(r))

(* The steps of maybe_reload_handler that touch nothing but the reload state. *)
ReloadStep(r) ==
  /\ Running
  /\ StatFile(r) \/ CheckMtime(r) \/ Rebuild(r) \/ ConfirmMtime(r)
  /\ UNCHANGED <<currentVars, leaseVars, kind, departed, policy, verdict, frames,
                 lock, poisoned, slotVars, dataVars, sleepVars>>

(* The swap.  The old handler is dropped with its camera, its preview set and
   its shutdown flag; a poisoned mutex is recovered but stays poisoned. *)
InstallHandler(r) ==
  /\ Running
  /\ pc[r] = "install"
  /\ lock = None
  /\ InstallConfig(r)
  /\ ReleaseLease
  /\ cache' = 0
  /\ stopping' = FALSE
  /\ Goto(r, AfterReload(r))
  /\ UNCHANGED <<currentVars, kind, departed, policy, verdict, frames, lock,
                 poisoned, slotVars, store, sleepVars>>

-----------------------------------------------------------------------------
(* Authentication preflight. *)

(* The handler mutex is polled for 10 s; behind a capture an authentication
   does not wait at all.  Either way the answer is "daemon busy". *)
LockTimeout(r) ==
  /\ Running
  /\ pc[r] \in {"snapshot", "lock"}
  /\ lock # None
  /\ End(r, "busy")
  /\ UNCHANGED <<currentVars, leaseVars, reloadVars, kind, departed, policy, verdict,
                 frames, lock, poisoned, slotVars, dataVars, sleepVars>>

(* Lock, read the installed gates, unlock. *)
SnapshotPolicy(r) ==
  /\ Running
  /\ pc[r] = "snapshot"
  /\ lock = None
  /\ policy' = [policy EXCEPT ![r] = cfg.gates]
  /\ Goto(r, "checks")
  /\ UNCHANGED <<currentVars, leaseVars, reloadVars, kind, departed, verdict,
                 frames, lock, poisoned, slotVars, dataVars, sleepVars>>

(* What the session check and the lid check may answer, each with a deadline
   and abandoned by a cancel; a gate that was off is not asked about. *)
SessionAnswers(r) ==
  IF policy[r].ssh THEN {"local", "denied"} ELSE {"unchecked"}

LidAnswers(r) ==
  IF ~policy[r].lid THEN {"unchecked"}
  ELSE LidReadings \cup {a \in {"cancelled"} : token[r] \/ epoch # checkpoint[r]}

EnvironmentChecks(r) ==
  /\ Running
  /\ pc[r] = "checks"
  /\ \E s \in SessionAnswers(r), l \in LidAnswers(r) :
       verdict' = [verdict EXCEPT ![r] = [ssh |-> s, lid |-> l]]
  /\ Goto(r, "lock")
  /\ UNCHANGED <<currentVars, leaseVars, reloadVars, kind, departed, policy,
                 frames, lock, poisoned, slotVars, dataVars, sleepVars>>

AfterLock(r) ==
  CASE kind[r] \in AuthKinds -> "gate"
    [] kind[r] = "enroll" -> "prepare"
    [] kind[r] \in PreviewKinds -> "acquire"

(* Mutant: a poisoned mutex is never recovered. *)
LockHealthy(r) ==
  /\ Running
  /\ At(r, "lock", AuthKinds \cup PreviewKinds \cup {"enroll"})
  /\ lock = None /\ ~poisoned
  /\ lock' = r
  /\ Goto(r, AfterLock(r))
  /\ UNCHANGED <<currentVars, leaseVars, reloadVars, kind, departed, policy, verdict,
                 frames, poisoned, slotVars, dataVars, sleepVars>>

LockHandler(r) ==
  /\ Running
  /\ At(r, "lock", AuthKinds \cup PreviewKinds \cup {"enroll"})
  /\ lock = None
  /\ lock' = r
  /\ Goto(r, AfterLock(r))
  /\ UNCHANGED <<currentVars, leaseVars, reloadVars, kind, departed, policy, verdict,
                 frames, poisoned, slotVars, dataVars, sleepVars>>

(* Mutant: the session gate is judged against the snapshot. *)
SessionAllowedThen(r) == (kind[r] = "auth" /\ policy[r].ssh) => verdict[r].ssh = "local"

(* The gates, judged against the configuration now installed and locked. *)
SessionAllowed(r) == (kind[r] = "auth" /\ cfg.gates.ssh) => verdict[r].ssh = "local"

LidGateOn(r) == kind[r] = "auth" /\ cfg.gates.lid

(* lid_refusal: a reading login1 could not give is taken from procfs, which
   must then see an open lid. *)
LidReading(r, procfs) ==
  IF verdict[r].lid \in {"open", "closed"} THEN verdict[r].lid ELSE procfs

GateAdmits(r) ==
  /\ Running
  /\ pc[r] = "gate"
  /\ SessionAllowed(r)
  /\ \E procfs \in {"open", "closed", "absent"} :
       LET reading == LidReading(r, procfs) IN
       \/ /\ LidGateOn(r)
          /\ verdict[r].lid # "cancelled"
          /\ reading = "open"
          /\ verdict' = [verdict EXCEPT ![r].lid = reading]
       \/ /\ ~LidGateOn(r)
          /\ UNCHANGED verdict
  /\ Goto(r, "claim")
  /\ UNCHANGED <<currentVars, leaseVars, reloadVars, kind, departed, policy,
                 frames, lock, poisoned, slotVars, dataVars, sleepVars>>

(* "rejected" is any gate of pre_check_with_context: disabled, lid, no models,
   rate limited, IR required, storage error. *)
GateRefuses(r) ==
  /\ Running
  /\ pc[r] = "gate"
  /\ \/ ~SessionAllowed(r) /\ End(r, "denied")
     \/ /\ SessionAllowed(r)
        /\ LidGateOn(r) /\ verdict[r].lid = "cancelled"
        /\ End(r, "cancelled")
     \/ /\ SessionAllowed(r)
        /\ ~(LidGateOn(r) /\ verdict[r].lid = "cancelled")
        /\ End(r, "rejected")
  /\ UNCHANGED <<currentVars, leaseVars, reloadVars, kind, departed, policy, verdict,
                 frames, lock, poisoned, slotVars, dataVars, sleepVars>>

-----------------------------------------------------------------------------
(* Admission to the capture. *)

(* Mutant: the flag is set without looking at it. *)
ClaimUnchecked(r) ==
  /\ Running
  /\ pc[r] = "claim"
  /\ busy' = TRUE
  /\ guard' = [guard EXCEPT ![r] = TRUE]
  /\ Goto(r, IF kind[r] \in PreviewKinds THEN "lock" ELSE "publish")
  /\ UNCHANGED <<currentVars, leaseVars, reloadVars, kind, departed, policy, verdict,
                 frames, lock, poisoned, dataVars, sleepVars>>

(* CaptureSlot::try_acquire *)
ClaimSlot(r) ==
  /\ Running
  /\ pc[r] = "claim"
  /\ ~busy
  /\ busy' = TRUE
  /\ guard' = [guard EXCEPT ![r] = TRUE]
  /\ Goto(r, IF kind[r] \in PreviewKinds THEN "lock" ELSE "publish")
  /\ UNCHANGED <<currentVars, leaseVars, reloadVars, kind, departed, policy, verdict,
                 frames, lock, poisoned, dataVars, sleepVars>>

ClaimRefused(r) ==
  /\ Running
  /\ pc[r] = "claim"
  /\ busy
  /\ End(r, "busy")
  /\ UNCHANGED <<currentVars, leaseVars, reloadVars, kind, departed, policy, verdict,
                 frames, lock, poisoned, slotVars, dataVars, sleepVars>>

(* An authentication checks the epoch as it publishes its token, an
   enrollment does not; previews publish nothing. *)
Publish(r) ==
  /\ Running
  /\ pc[r] = "publish"
  /\ \/ /\ kind[r] \in AuthKinds
        /\ InstallUnlessCancelledSince(r)
        /\ Goto(r, "prepare")
     \/ /\ kind[r] = "enroll"
        /\ Install(r)
        /\ Goto(r, "lock")
  /\ UNCHANGED <<leaseVars, reloadVars, kind, departed, policy, verdict,
                 frames, lock, poisoned, slotVars, dataVars, sleepVars>>

(* What must succeed before the camera is touched: the sealing key, the model
   list and the decrypted templates. *)
Prepare(r) ==
  /\ Running
  /\ pc[r] = "prepare"
  /\ Goto(r, "acquire") \/ End(r, "error")
  /\ UNCHANGED <<currentVars, leaseVars, reloadVars, kind, departed, policy, verdict,
                 frames, lock, poisoned, slotVars, dataVars, sleepVars>>

-----------------------------------------------------------------------------
(* The capture, with the handler locked. *)

(* CameraLease::acquire_for, up to the first frame. *)
Acquire(r) ==
  /\ Running
  /\ pc[r] = "acquire"
  /\ \/ token[r] /\ AcquireCancelled /\ End(r, "cancelled")
     \/ ~token[r] /\ AcquireWarm /\ Goto(r, "stale")
     \/ ~token[r] /\ AcquireCold /\ Goto(r, "warmup")
     \/ ~token[r] /\ AcquireFailed /\ End(r, "error")
  /\ UNCHANGED <<currentVars, reloadVars, kind, departed, policy, verdict,
                 frames, lock, poisoned, slotVars, dataVars, sleepVars>>

AfterDiscard(r) == IF kind[r] \in PreviewKinds THEN "snap" ELSE "scan"

(* discard_frames: stale buffers of a warm stream, warm-up frames of a cold
   one.  Only a warm stream's capture error is fatal. *)
Discard(r) ==
  /\ Running
  /\ pc[r] \in {"stale", "warmup"}
  /\ \/ Goto(r, AfterDiscard(r)) /\ UNCHANGED leaseVars
     \/ token[r] /\ AbandonAcquire /\ End(r, "cancelled")
     \/ pc[r] = "stale" /\ ~token[r] /\ AbandonAcquire /\ End(r, "error")
  /\ UNCHANGED <<currentVars, reloadVars, kind, departed, policy, verdict,
                 frames, lock, poisoned, slotVars, dataVars, sleepVars>>

Conclude(r, answer) ==
  /\ pc' = [pc EXCEPT ![r] = "finish"]
  /\ outcome' = [outcome EXCEPT ![r] = answer]

(* Enrollment is refused on a camera the binding policy cannot identify, once
   the camera is open; this early return leaves the preview set alone. *)
RefuseBinding(r) ==
  /\ Running
  /\ At(r, "scan", {"enroll"})
  /\ frames[r] = 0
  /\ FinishLease("error")
  /\ End(r, "error")
  /\ UNCHANGED <<currentVars, reloadVars, kind, departed, policy, verdict,
                 frames, lock, poisoned, slotVars, dataVars, sleepVars>>

(* The head of the capture loop.  The deadline is tested before the token, and
   an authentication whose deadline has passed does not test the token again. *)
LoopHead(r) ==
  /\ Running
  /\ pc[r] = "scan"
  /\ \/ token[r] /\ Conclude(r, "cancelled")
     \/ ~token[r] /\ frames[r] < MaxFrames /\ Goto(r, "frame")
     \/ kind[r] \in AuthKinds /\ Conclude(r, "noface")
     \/ kind[r] \in AuthKinds /\ frames[r] > 0 /\ Conclude(r, "failure")
     \/ kind[r] \in AuthKinds /\ Conclude(r, "error")
     \/ kind[r] = "enroll" /\ Goto(r, "commit")
  /\ UNCHANGED <<currentVars, leaseVars, reloadVars, kind, departed, policy, verdict,
                 frames, lock, poisoned, slotVars, dataVars, sleepVars>>

(* One frame: captured, analysed, and for an authentication perhaps a match. *)
OneFrame(r) ==
  /\ Running
  /\ pc[r] = "frame"
  /\ frames' = [frames EXCEPT ![r] = @ + 1]
  /\ \/ Goto(r, "scan")
     \/ kind[r] \in AuthKinds /\ Conclude(r, "success")
  /\ UNCHANGED <<currentVars, leaseVars, reloadVars, kind, departed, policy, verdict,
                 lock, poisoned, slotVars, dataVars, sleepVars>>

(* The end of enroll and persist_enrollment: the token is looked at once more,
   then the templates are replaced in one transaction, or nothing is written. *)
CommitEnrollment(r) ==
  /\ Running
  /\ pc[r] = "commit"
  /\ \/ token[r] /\ Conclude(r, "cancelled") /\ UNCHANGED store
     \/ ~token[r] /\ Conclude(r, "error") /\ UNCHANGED store
     \/ ~token[r] /\ Conclude(r, "success") /\ store' = store + 1
  /\ UNCHANGED <<currentVars, leaseVars, reloadVars, kind, departed, policy, verdict,
                 frames, lock, poisoned, slotVars, cache, stopping, sleepVars>>

(* A failed authentication is charged here: outcome "failure" of "auth". *)
Finish(r) ==
  /\ Running
  /\ pc[r] = "finish"
  /\ FinishLease(outcome[r])
  /\ cache' = IF kind[r] = "enroll" THEN 0 ELSE cache
  /\ Goto(r, "ending")
  /\ UNCHANGED <<currentVars, reloadVars, kind, departed, policy, verdict,
                 frames, lock, poisoned, slotVars, store, stopping, sleepVars>>

(* detect_and_match loads the templates unless this user's are cached. *)
CacheAfterDetect == {store, 0} \cup {c \in {cache} : c # 0}

PreviewCapture(r) ==
  /\ Running
  /\ pc[r] = "snap"
  /\ \/ /\ TouchPreview
        /\ End(r, "ok") \/ End(r, "error")
        /\ \/ kind[r] = "preview" /\ UNCHANGED cache
           \/ kind[r] = "detect" /\ cache' \in CacheAfterDetect
     \/ /\ FinishLease("error")
        /\ End(r, "error")
        /\ UNCHANGED cache
  /\ UNCHANGED <<currentVars, reloadVars, kind, departed, policy, verdict,
                 frames, lock, poisoned, slotVars, store, stopping, sleepVars>>

(* The capture panics: the stack unwinds, dropping the guards, and with them a
   cold stream that is not yet in the lease. *)
Panic(r) ==
  /\ Running
  /\ "panic" \in Events
  /\ pc[r] \in StreamPcs
  /\ End(r, "panic")
  /\ camera' = (camera /\ pc[r] # "warmup")
  /\ UNCHANGED <<currentVars, deadline, reloadVars, kind, departed, policy, verdict,
                 frames, lock, poisoned, slotVars, dataVars, sleepVars>>

-----------------------------------------------------------------------------
(* Calls that only need the handler mutex. *)

(* Mutant: the preview set is wiped only when the rows were not changed. *)
ChangeModelsOnly(r) ==
  /\ Running
  /\ At(r, "lock", {"models"})
  /\ lock = None
  /\ \/ End(r, "ok") /\ store' = store + 1 /\ UNCHANGED cache
     \/ End(r, "error") /\ UNCHANGED store /\ cache' = 0
  /\ UNCHANGED <<currentVars, leaseVars, reloadVars, kind, departed, policy, verdict,
                 frames, lock, poisoned, slotVars, stopping, sleepVars>>

(* RemoveModel, ClearModels: the preview set goes first, then the rows. *)
ChangeModels(r) ==
  /\ Running
  /\ At(r, "lock", {"models"})
  /\ lock = None
  /\ cache' = 0
  /\ \/ End(r, "ok") /\ store' = store + 1
     \/ End(r, "error") /\ UNCHANGED store
  /\ UNCHANGED <<currentVars, leaseVars, reloadVars, kind, departed, policy, verdict,
                 frames, lock, poisoned, slotVars, stopping, sleepVars>>

(* release_camera_as and shutdown_as cancel before they queue for the mutex. *)
CancelInFlight(r) ==
  /\ Running
  /\ pc[r] = "cancel"
  /\ CancelCurrent
  /\ Goto(r, "lock")
  /\ UNCHANGED <<leaseVars, reloadVars, kind, departed, policy, verdict,
                 frames, lock, poisoned, slotVars, dataVars, sleepVars>>

ReleaseOrShutdown(r) ==
  /\ Running
  /\ At(r, "lock", ControlKinds)
  /\ lock = None
  /\ ReleaseLease
  /\ cache' = 0
  /\ stopping' = (stopping \/ kind[r] = "shutdown")
  /\ End(r, "ok")
  /\ UNCHANGED <<currentVars, reloadVars, kind, departed, policy, verdict,
                 frames, lock, poisoned, slotVars, store, sleepVars>>

-----------------------------------------------------------------------------
(* The end of a call: the guards go in the order the code drops them.  An
   authentication drops its slot entry, the capture slot, the handler; the
   others drop the handler first and, for an enrollment, the entry last. *)

DropEntry(r) ==
  /\ Running
  /\ pc[r] = "ending"
  /\ installed[r] # 0
  /\ kind[r] \in AuthKinds \/ (lock # r /\ ~guard[r])
  /\ DropCurrentGuard(r)
  /\ UNCHANGED <<leaseVars, reloadVars, callVars, lock, poisoned,
                 slotVars, dataVars, sleepVars>>

DropSlot(r) ==
  /\ Running
  /\ pc[r] = "ending"
  /\ guard[r]
  /\ IF kind[r] \in AuthKinds THEN installed[r] = 0 ELSE lock # r
  /\ busy' = FALSE
  /\ guard' = [guard EXCEPT ![r] = FALSE]
  /\ UNCHANGED <<currentVars, leaseVars, reloadVars, callVars, lock, poisoned,
                 dataVars, sleepVars>>

DropHandler(r) ==
  /\ Running
  /\ pc[r] = "ending"
  /\ lock = r
  /\ kind[r] \in AuthKinds => installed[r] = 0 /\ ~guard[r]
  /\ lock' = None
  /\ poisoned' = (poisoned \/ outcome[r] = "panic")
  /\ UNCHANGED <<currentVars, leaseVars, reloadVars, callVars,
                 slotVars, dataVars, sleepVars>>

(* The answer goes out and the task's locals with it. *)
Reply(r) ==
  /\ Running
  /\ pc[r] = "ending"
  /\ lock # r /\ ~guard[r] /\ installed[r] = 0
  /\ pc' = [pc EXCEPT ![r] = "done"]
  /\ outcome' = [outcome EXCEPT ![r] = "none"]
  /\ kind' = [kind EXCEPT ![r] = "none"]
  /\ departed' = [departed EXCEPT ![r] = FALSE]
  /\ policy' = [policy EXCEPT ![r] = NoGates]
  /\ verdict' = [verdict EXCEPT ![r] = Unchecked]
  /\ frames' = [frames EXCEPT ![r] = 0]
  /\ DropToken(r)
  /\ UNCHANGED <<leaseVars, reloadVars, lock, poisoned, slotVars, dataVars, sleepVars>>

-----------------------------------------------------------------------------
(* The environment and the daemon's own tasks. *)

(* watch_caller_departure, for the calls that watch their caller. *)
Depart(r) ==
  /\ Running
  /\ "depart" \in Events
  /\ pc[r] \notin {"new", "done"}
  /\ kind[r] \in AuthKinds \cup {"enroll"}
  /\ ~departed[r]
  /\ departed' = [departed EXCEPT ![r] = TRUE]
  /\ CancelOwnToken(r)
  /\ UNCHANGED <<leaseVars, reloadVars, pc, kind, outcome, policy, verdict, frames,
                 lock, poisoned, slotVars, dataVars, sleepVars>>

Edit ==
  /\ Running
  /\ EditConfig
  /\ UNCHANGED <<currentVars, leaseVars, callVars, lock, poisoned, slotVars,
                 dataVars, sleepVars>>

Tick ==
  /\ Running
  /\ LeaseTick
  /\ UNCHANGED <<currentVars, reloadVars, callVars, lock, poisoned, slotVars,
                 dataVars, sleepVars>>

(* watch_sleep_signals: cancel, then poll the handler mutex for a second. *)
Suspend ==
  /\ Running
  /\ sleep = "idle"
  /\ sleeps < MaxSleeps
  /\ CancelCurrent
  /\ sleep' = "releasing"
  /\ sleeps' = sleeps + 1
  /\ UNCHANGED <<leaseVars, reloadVars, callVars, lock, poisoned, slotVars,
                 dataVars, stuck>>

SuspendRelease ==
  /\ Running
  /\ sleep = "releasing"
  /\ lock = None
  /\ ReleaseLease
  /\ cache' = 0
  /\ sleep' = "idle"
  /\ UNCHANGED <<currentVars, reloadVars, callVars, lock, poisoned, slotVars,
                 store, stopping, sleeps, stuck>>

SuspendGivesUp ==
  /\ Running
  /\ sleep = "releasing"
  /\ lock # None
  /\ sleep' = "idle"
  /\ stuck' = lock
  /\ UNCHANGED <<currentVars, leaseVars, reloadVars, callVars, lock, poisoned,
                 slotVars, dataVars, sleeps>>

(* poll_shutdown's try_lock succeeds only on a mutex that is free and not
   poisoned: it honours Shutdown, or expires the lease and the preview set. *)
PollLocks == lock = None /\ ~poisoned

(* Mutant: the preview set goes only with the tick that closes the camera. *)
PollExpireOnce ==
  /\ Running
  /\ PollLocks
  /\ ~stopping
  /\ ExpireLease
  /\ cache' = IF camera /\ ~camera' THEN 0 ELSE cache
  /\ UNCHANGED <<currentVars, reloadVars, callVars, lock, poisoned, slotVars,
                 store, stopping, sleepVars>>

PollExpire ==
  /\ Running
  /\ PollLocks
  /\ ~stopping
  /\ ExpireLease
  /\ cache' = IF camera' THEN cache ELSE 0
  /\ UNCHANGED <<currentVars, reloadVars, callVars, lock, poisoned, slotVars,
                 store, stopping, sleepVars>>

PollExit ==
  /\ alive
  /\ PollLocks
  /\ stopping
  /\ alive' = FALSE
  /\ ReleaseLease
  /\ UNCHANGED <<currentVars, reloadVars, callVars, lock, poisoned, slotVars,
                 dataVars, sleepVars>>

(* SIGTERM, SIGINT or the idle timeout; the kernel closes the stream. *)
Stop ==
  /\ alive
  /\ "stop" \in Events
  /\ alive' = FALSE
  /\ ReleaseLease
  /\ UNCHANGED <<currentVars, reloadVars, callVars, lock, poisoned, slotVars,
                 dataVars, sleepVars>>

-----------------------------------------------------------------------------

(* What r's own task does once it was called. *)
Step(r) ==
  \/ ReloadStep(r) \/ InstallHandler(r)
  \/ LockTimeout(r) \/ SnapshotPolicy(r) \/ EnvironmentChecks(r) \/ LockHandler(r)
  \/ GateAdmits(r) \/ GateRefuses(r)
  \/ ClaimSlot(r) \/ ClaimRefused(r) \/ Publish(r) \/ Prepare(r)
  \/ Acquire(r) \/ Discard(r) \/ RefuseBinding(r) \/ LoopHead(r) \/ OneFrame(r)
  \/ CommitEnrollment(r) \/ Finish(r) \/ PreviewCapture(r)
  \/ ChangeModels(r) \/ CancelInFlight(r) \/ ReleaseOrShutdown(r)
  \/ DropEntry(r) \/ DropSlot(r) \/ DropHandler(r) \/ Reply(r)

Arrive(r) == Refused(r) \/ ArriveAuth(r) \/ ArriveOther(r)

SuspendStep == SuspendRelease \/ SuspendGivesUp

Poll == PollExpire \/ PollExit

Next ==
  \/ \E r \in Req : Arrive(r) \/ Step(r) \/ Depart(r) \/ Panic(r)
  \/ Edit \/ Tick \/ Suspend \/ SuspendStep \/ Poll \/ Stop

Spec == Init /\ [][Next]_vars

(* Tasks and blocking threads are scheduled, time passes, the poll and the
   suspend watcher keep running.  Nothing obliges a caller to call. *)
Fairness ==
  /\ \A r \in Req : WF_vars(Step(r))
  /\ WF_vars(Tick)
  /\ WF_vars(SuspendStep)
  /\ WF_vars(Poll)

FairSpec == Spec /\ Fairness

-----------------------------------------------------------------------------
(* Properties. *)

Capturing(r) == lock = r /\ pc[r] \in StreamPcs

(* At most one call owns the capture guard, the busy flag says exactly whether
   one does, and a call drives the camera only while it owns both the guard
   and the handler mutex.  The flag is a bare AtomicBool that every guard's
   drop clears, so a guard released twice, or claimed without the
   compare-and-swap, would let two captures overlap. *)
OneCapture ==
  /\ \A r, s \in Req : guard[r] /\ guard[s] => r = s
  /\ busy <=> \E r \in Req : guard[r]
  /\ \A r \in Req : pc[r] \in StreamPcs => lock = r /\ guard[r]

(* A cancel finds the call that is capturing: while a call that published its
   token owns the capture guard, the CurrentRequest slot names it.  A finished
   call, whose entry may outlive its guard, never clears its successor's. *)
InFlightReachable ==
  \A r \in Req : guard[r] /\ installed[r] # 0 =>
    current = [gen |-> installed[r], req |-> r]

(* Between admission and its last frame an authentication's token is set
   exactly when its caller left or a suspend, ReleaseCamera or Shutdown
   cancelled after its checkpoint: no cancel is lost in preflight, and none
   that came earlier, or was meant for another call, is inherited. *)
CancelExact ==
  \A r \in Req : kind[r] \in AuthKinds /\ pc[r] \in {"prepare", "acquire"} \cup StreamPcs =>
    (token[r] <=> departed[r] \/ epoch # checkpoint[r])

(* A suspend, ReleaseCamera or Shutdown that lands during an authentication's
   preflight prevents that call from opening the camera. *)
CancelledPreflightOpensNothing ==
  [][\A r \in Req : kind[r] \in AuthKinds /\ pc[r] = "acquire" /\ camera' /\ ~camera
       => epoch = checkpoint[r] /\ ~departed[r]]_vars

(* No authentication captures under a configuration whose session and lid
   gates it did not pass, even when the file changed and the handler was
   swapped after it had read the policy and run its checks. *)
GatesHoldAtCapture ==
  \A r \in Req : kind[r] = "auth" /\ Capturing(r) =>
    /\ cfg.gates.ssh => verdict[r].ssh = "local"
    /\ cfg.gates.lid => verdict[r].lid = "open"

(* ADR 008: every exit from an active request either sets a deadline or drops
   the camera.  An open camera that no call drives has a hold running, and
   never one longer than the configured maximum. *)
IdleCameraHasDeadline ==
  camera /\ ~(\E r \in Req : Capturing(r)) =>
    deadline \in 0 .. (PreviewHold + ReleaseAfterSuccessSecs)

(* A rebuild that was overtaken never reinstates an older configuration. *)
NeverOlderConfig == [][cfg'.ver >= cfg.ver]_vars

(* A claimed change of the file is not lost: the installed configuration is at
   least as new, or a rebuild of it is under way, or its rebuild failed (or it
   fell into the start-up window). *)
ClaimIsBacked ==
  \/ cfg.ver >= claimed
  \/ claimed \in lost
  \/ \E r \in Req : pc[r] \in {"rebuild", "confirm", "install"} /\ stat[r] = claimed

(* The decrypted preview set is never older than the enrolled templates once
   the handler is free: what was removed cannot be matched any more. *)
PreviewSetFresh == lock = None /\ cache # 0 => cache = store

(* The preview set is wiped once the camera is closed. *)
PreviewSetWiped == (cache # 0 /\ ~camera) ~> (cache = 0 \/ camera \/ ~alive)

(* Every call is answered: nobody waits for a mutex that is never released. *)
EveryCallAnswered ==
  \A r \in Req : (pc[r] # "new") ~> (pc[r] = "done" \/ ~alive)

(* The camera does not stay open: every hold runs out. *)
CameraCloses == camera ~> ~camera

-----------------------------------------------------------------------------
(* What the documentation says and the code does not do. *)

(* ADR 008 section 5: a call whose token is set ends with finish(Cancelled) and
   is not charged.  Stated of a scan whose token is set when it reaches the
   head of its loop. *)
CancelledScanEndsCancelled ==
  [][\A r \in Req : /\ kind[r] \in AuthKinds /\ token[r]
                    /\ pc[r] = "scan" /\ pc'[r] = "finish"
       => outcome'[r] = "cancelled"]_vars

(* ADR 008 section 8: when the suspend watcher gives up on a busy handler, the
   camera closes when the call that held it returns. *)
SuspendedCameraCloses ==
  [][stuck # None /\ lock = stuck /\ lock' = None => ~camera']_vars

(* A poll that misses loses nothing: a warm hold that is running ends. *)
WarmHoldExpires ==
  (camera /\ deadline # NoDeadline) ~> (~camera \/ deadline = NoDeadline)

(* A Shutdown that was acknowledged ends the daemon. *)
ShutdownHonoured ==
  \A r \in Req : (kind[r] = "shutdown" /\ outcome[r] = "ok") ~> ~alive
=============================================================================
