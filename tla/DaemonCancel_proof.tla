------------------------- MODULE DaemonCancel_proof -------------------------
(***************************************************************************)
(* Proofs that a cancel finds the call that is capturing, that none is     *)
(* lost while a call is in preflight and that none is inherited.           *)
(***************************************************************************)
EXTENDS DaemonCapture_proof

-----------------------------------------------------------------------------
(* The slot names the call that is capturing. *)

(* Generations are never reused, so an entry that outlives its guard clears
   nothing but itself. *)
PublishInv ==
  /\ \A r \in Req : Unpublished(r) => installed[r] = 0
  /\ \A r \in Req : installed[r] <= generation
  /\ \A r, s \in Req : installed[r] # 0 /\ installed[r] = installed[s] => r = s
  /\ current.req # None => current.gen # 0 /\ installed[current.req] = current.gen
  /\ InFlightReachable

LEMMA PublishInit == Init => PublishInv
BY DEF Init, CurrentInit, EmptySlot, PublishInv, InFlightReachable

LEMMA PublishStep ==
  ASSUME TypeInv, CaptureInv, PublishInv, [Next]_vars
  PROVE  PublishInv'
<1>0. /\ pc \in [Req -> Pcs] /\ kind \in [Req -> AllKinds \cup {"none"}]
      /\ guard \in [Req -> BOOLEAN] /\ installed \in [Req -> Nat] /\ generation \in Nat
      /\ current \in [gen : Nat, req : Req \cup {None}]
  BY DEF TypeInv, TypeOK, CurrentTypeOK
<1> USE <1>0 DEF PublishInv, InFlightReachable, Unpublished, ReloadPcs,
            currentVars, callVars, slotVars, Goto, End, At, AuthKinds
<1>1. CASE Onward
  BY <1>1 DEF Onward
<1>2. ASSUME NEW r \in Req, ArriveAuth(r) PROVE PublishInv'
  <2>1. CASE UNCHANGED <<currentVars, kind>> /\ Goto(r, "done")
    BY <1>2, <2>1 DEF ArriveAuth
  <2>2. ASSUME NEW k \in AuthKinds, kind' = [kind EXCEPT ![r] = k], TakeCheckpoint(r),
               Goto(r, "stat")
        PROVE  PublishInv'
    BY <1>2, <2>2 DEF ArriveAuth, TakeCheckpoint
  <2> HIDE DEF PublishInv
  <2> QED
    BY <1>2, <2>1, <2>2 DEF ArriveAuth
<1>3. ASSUME NEW r \in Req, ArriveOther(r) PROVE PublishInv'
  BY <1>3, FirstStepLabels DEF ArriveOther
<1>4. ASSUME NEW r \in Req, InstallHandler(r) PROVE PublishInv'
  BY <1>4, ReloadMoves DEF slotVars
<1>5. ASSUME NEW r \in Req, EnvironmentChecks(r) PROVE PublishInv'
  BY <1>5 DEF EnvironmentChecks
<1>6. ASSUME NEW r \in Req, GateAdmits(r) PROVE PublishInv'
  BY <1>6 DEF GateAdmits
<1>7. ASSUME NEW r \in Req, ClaimSlot(r) PROVE PublishInv'
  BY <1>7 DEF ClaimSlot, PreviewKinds
<1>8. ASSUME NEW r \in Req, Publish(r) PROVE PublishInv'
  <2>1. \A s \in Req : guard[s] => s = r
    BY <1>8 DEF Publish, CaptureInv, SlotHeld
  <2>2. CASE Install(r)
    BY <1>8, <2>1, <2>2 DEF Publish, Install
  <2>3. CASE ~Install(r)
    BY <1>8, <2>1, <2>3 DEF Publish, InstallUnlessCancelledSince
  <2> QED
    BY <2>2, <2>3
<1>9. ASSUME NEW r \in Req, CancelInFlight(r) PROVE PublishInv'
  BY <1>9 DEF CancelInFlight, CancelCurrent
<1>10. ASSUME NEW r \in Req, DropEntry(r) PROVE PublishInv'
  BY <1>10 DEF DropEntry, DropCurrentGuard, EmptySlot
<1>11. ASSUME NEW r \in Req, DropSlot(r) PROVE PublishInv'
  BY <1>11 DEF DropSlot
<1>12. ASSUME NEW r \in Req, Reply(r) PROVE PublishInv'
  BY <1>12 DEF Reply, DropToken
<1>13. ASSUME NEW r \in Req, Depart(r) PROVE PublishInv'
  BY <1>13 DEF Depart, CancelOwnToken
<1>14. CASE Suspend
  BY <1>14 DEF Suspend, CancelCurrent
<1> HIDE DEF PublishInv
<1> QED
  BY <1>1, <1>2, <1>3, <1>4, <1>5, <1>6, <1>7, <1>8, <1>9, <1>10, <1>11, <1>12, <1>13,
     <1>14, PhaseSteps

-----------------------------------------------------------------------------
(* A token is set exactly when it should be. *)

(* Before it publishes, an authentication hears only of its caller; afterwards
   also of every cancel, and one that was overtaken has heard already. *)
CancelInv ==
  \A r \in Req :
    /\ pc[r] = "new" => ~token[r] /\ ~departed[r]
    /\ kind[r] \in AuthKinds => checkpoint[r] <= epoch
    /\ kind[r] \in AuthKinds /\ pc[r] \in Preflight => (token[r] <=> departed[r])
    /\ kind[r] \in AuthKinds /\ pc[r] \in Scanning /\ installed[r] = 0 =>
         epoch # checkpoint[r]
    /\ kind[r] \in AuthKinds /\ pc[r] \in Scanning =>
         (token[r] <=> departed[r] \/ epoch # checkpoint[r])

LEMMA CancelInit == Init => CancelInv
BY Zenon DEF Init, CurrentInit, CancelInv, AuthKinds

(* What a cancel does to the tokens: it reaches the call that is capturing and
   none that has not published. *)
LEMMA CancelReaches ==
  ASSUME TypeInv, CaptureInv, PublishInv, CancelCurrent, NEW s \in Req
  PROVE  /\ token'[s] \in BOOLEAN
         /\ token[s] => token'[s]
         /\ Unpublished(s) => (token'[s] <=> token[s])
         /\ pc[s] \in Scanning /\ installed[s] # 0 => token'[s]
<1>1. token \in [Req -> BOOLEAN] /\ token'[s] = (token[s] \/ s = current.req)
  BY DEF TypeInv, TypeOK, CurrentTypeOK, CancelCurrent
<1>2. Unpublished(s) => s # current.req
  BY NoneAssumption DEF PublishInv
<1>3. pc[s] \in Scanning /\ installed[s] # 0 => s = current.req
  BY DEF PublishInv, InFlightReachable, CaptureInv, SlotHeld, Scanning
<1> QED
  BY <1>1, <1>2, <1>3, Zenon

LEMMA CancelStep ==
  ASSUME TypeInv, CaptureInv, PublishInv, CancelInv, [Next]_vars
  PROVE  CancelInv'
<1>0. /\ pc \in [Req -> Pcs] /\ kind \in [Req -> AllKinds \cup {"none"}]
      /\ token \in [Req -> BOOLEAN] /\ departed \in [Req -> BOOLEAN] /\ epoch \in Nat
      /\ checkpoint \in [Req -> Nat] /\ installed \in [Req -> Nat] /\ generation \in Nat
      /\ current \in [gen : Nat, req : Req \cup {None}]
  BY DEF TypeInv, TypeOK, CurrentTypeOK
<1> USE <1>0 DEF CancelInv, Preflight, Scanning, StreamPcs, ReloadPcs,
            currentVars, callVars, Goto, End, At, AuthKinds
<1>1. CASE Onward
  BY <1>1 DEF Onward
<1>2. ASSUME NEW r \in Req, ArriveAuth(r) PROVE CancelInv'
  <2>1. CASE UNCHANGED <<currentVars, kind>> /\ Goto(r, "done")
    BY <1>2, <2>1 DEF ArriveAuth
  <2>2. ASSUME NEW k \in AuthKinds, kind' = [kind EXCEPT ![r] = k], TakeCheckpoint(r),
               Goto(r, "stat")
        PROVE  CancelInv'
    BY <1>2, <2>2 DEF ArriveAuth, TakeCheckpoint
  <2> HIDE DEF CancelInv
  <2> QED
    BY <1>2, <2>1, <2>2 DEF ArriveAuth
<1>3. ASSUME NEW r \in Req, ArriveOther(r) PROVE CancelInv'
  BY <1>3, FirstStepLabels DEF ArriveOther
<1>4. ASSUME NEW r \in Req, InstallHandler(r) PROVE CancelInv'
  BY <1>4, ReloadMoves DEF currentVars
<1>5. ASSUME NEW r \in Req, EnvironmentChecks(r) PROVE CancelInv'
  BY <1>5 DEF EnvironmentChecks
<1>6. ASSUME NEW r \in Req, GateAdmits(r) PROVE CancelInv'
  BY <1>6 DEF GateAdmits
<1>7. ASSUME NEW r \in Req, ClaimSlot(r) PROVE CancelInv'
  BY <1>7 DEF ClaimSlot, PreviewKinds
<1>8. ASSUME NEW r \in Req, Publish(r) PROVE CancelInv'
  <2>1. CASE Install(r)
    BY <1>8, <2>1 DEF Publish, Install, InstallUnlessCancelledSince
  <2>2. CASE ~Install(r)
    BY <1>8, <2>2 DEF Publish, InstallUnlessCancelledSince
  <2> HIDE DEF CancelInv
  <2> QED
    BY <2>1, <2>2
<1>9. ASSUME NEW r \in Req, CancelInFlight(r) PROVE CancelInv'
  BY <1>9, CancelReaches
     DEF CancelInFlight, CancelCurrent, Unpublished, CaptureInv, PcKinds, ControlKinds
<1>10. ASSUME NEW r \in Req, DropEntry(r) PROVE CancelInv'
  BY <1>10 DEF DropEntry, DropCurrentGuard
<1>11. ASSUME NEW r \in Req, DropSlot(r) PROVE CancelInv'
  BY <1>11 DEF DropSlot
<1>12. ASSUME NEW r \in Req, Reply(r) PROVE CancelInv'
  BY <1>12 DEF Reply, DropToken
<1>13. ASSUME NEW r \in Req, Depart(r) PROVE CancelInv'
  BY <1>13 DEF Depart, CancelOwnToken
<1>14. CASE Suspend
  BY <1>14, CancelReaches DEF Suspend, CancelCurrent, Unpublished
<1> HIDE DEF CancelInv
<1> QED
  BY <1>1, <1>2, <1>3, <1>4, <1>5, <1>6, <1>7, <1>8, <1>9, <1>10, <1>11, <1>12, <1>13,
     <1>14, PhaseSteps

-----------------------------------------------------------------------------
(* The theorems. *)

SafetyInv == TypeInv /\ CaptureInv /\ PublishInv /\ CancelInv

(* The inductive invariant that the properties below follow from. *)
THEOREM SafetyInvariant == Spec => []SafetyInv
<1>1. Init => SafetyInv
  BY InitType, CaptureInit, PublishInit, CancelInit DEF SafetyInv
<1>2. SafetyInv /\ [Next]_vars => SafetyInv'
  BY NextType, CaptureStep, PublishStep, CancelStep DEF SafetyInv
<1> QED
  BY <1>1, <1>2, PTL DEF Spec

(* InFlightReachable holds in every reachable state: a cancel always finds the
   published call that owns the capture guard. *)
THEOREM InFlightReachableHolds == Spec => []InFlightReachable
<1>1. SafetyInv => InFlightReachable
  BY DEF SafetyInv, PublishInv
<1> QED
  BY SafetyInvariant, <1>1, PTL

(* CancelExact holds in every reachable state: no cancel is lost in preflight
   and none is inherited. *)
THEOREM CancelExactHolds == Spec => []CancelExact
<1>1. SafetyInv => CancelExact
  BY DEF SafetyInv, CancelInv, CancelExact, Scanning
<1> QED
  BY SafetyInvariant, <1>1, PTL
=============================================================================
