----------------------------- MODULE CameraLease -----------------------------
(***************************************************************************)
(* The camera stream and the warm-hold deadline that decides when it       *)
(* closes (handler.rs, CameraLease and Outcome; ADR 008).                  *)
(*                                                                         *)
(* The code keeps an absolute Instant; the model keeps the time left until *)
(* it, which LeaseTick counts down, so that the state stays finite.        *)
(***************************************************************************)
EXTENDS Integers

CONSTANTS
  ReleaseSecs,              \* device.camera_release_secs
  ReleaseAfterSuccessSecs,  \* device.camera_release_after_success_secs
  PreviewMinHold            \* PREVIEW_MIN_HOLD

ASSUME HoldAssumption ==
  /\ ReleaseSecs \in Nat
  /\ ReleaseAfterSuccessSecs \in Nat
  /\ PreviewMinHold \in Nat \ {0}

VARIABLES
  camera,   \* a stream is open
  deadline  \* time left of the warm hold, or NoDeadline

leaseVars == <<camera, deadline>>

NoDeadline == -1

LeaseTypeOK ==
  /\ camera \in BOOLEAN
  /\ deadline \in Nat \cup {NoDeadline}

LeaseInit ==
  /\ camera = FALSE
  /\ deadline = NoDeadline

(* How a capture can end: From<&AuthOutcome> and From<&EnrollOutcome> project
   these onto Outcome.  "noface" is a scan that never saw a face. *)
Outcomes == {"success", "failure", "noface", "cancelled", "error"}

(* Outcome::hold_secs *)
HoldSecs(outcome) ==
  CASE outcome \in {"failure", "noface"} -> ReleaseSecs
    [] outcome = "success" -> ReleaseAfterSuccessSecs
    [] OTHER -> 0

PreviewHold ==
  IF ReleaseSecs >= PreviewMinHold THEN ReleaseSecs ELSE PreviewMinHold

-----------------------------------------------------------------------------

(* acquire_for, up to its first blocking call: the deadline is cleared, a set
   token closes the stream, and a closed camera is opened by the factory. *)
AcquireCancelled ==
  /\ deadline' = NoDeadline
  /\ camera' = FALSE

AcquireWarm ==
  /\ camera
  /\ deadline' = NoDeadline
  /\ UNCHANGED camera

AcquireCold ==
  /\ ~camera
  /\ deadline' = NoDeadline
  /\ camera' = TRUE

AcquireFailed ==
  /\ ~camera
  /\ deadline' = NoDeadline
  /\ UNCHANGED camera

(* A discard that was cancelled, or failed on a warm stream, drops the camera. *)
AbandonAcquire ==
  /\ camera' = FALSE
  /\ UNCHANGED deadline

(* Mutant: an outcome without a hold keeps the stream. *)
FinishKeepsCamera(outcome) ==
  \/ HoldSecs(outcome) = 0 /\ UNCHANGED leaseVars
  \/ HoldSecs(outcome) > 0 /\ deadline' = HoldSecs(outcome) /\ UNCHANGED camera

(* CameraLease::finish *)
FinishLease(outcome) ==
  \/ /\ HoldSecs(outcome) = 0
     /\ camera' = FALSE
     /\ UNCHANGED deadline
  \/ /\ HoldSecs(outcome) > 0
     /\ deadline' = HoldSecs(outcome)
     /\ UNCHANGED camera

(* Mutant: a preview frame does not rearm the hold. *)
TouchForgotten == UNCHANGED leaseVars

(* CameraLease::touch_preview *)
TouchPreview ==
  /\ deadline' = PreviewHold
  /\ UNCHANGED camera

(* CameraLease::release *)
ReleaseLease ==
  /\ deadline' = NoDeadline
  /\ camera' = FALSE

(* CameraLease::expire *)
ExpireLease ==
  \/ /\ deadline = 0
     /\ ReleaseLease
  \/ /\ deadline # 0
     /\ UNCHANGED leaseVars

(* Mutant: the time left underflows. *)
TickUnderflows ==
  /\ deadline >= NoDeadline
  /\ deadline' = deadline - 1
  /\ UNCHANGED camera

(* Time passes; the time left saturates at zero. *)
LeaseTick ==
  /\ deadline > 0
  /\ deadline' = deadline - 1
  /\ UNCHANGED camera
=============================================================================
