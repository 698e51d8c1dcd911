------------------------- MODULE DaemonReload_proof -------------------------
(***************************************************************************)
(* Proofs about live reload as the daemon composes it with its calls:      *)
(* overtaken rebuilds never come back, and no claimed change is lost.      *)
(***************************************************************************)
EXTENDS Daemon_proof

RebuildPcs == {"rebuild", "confirm", "install"}

Building(r) == pc[r] \in RebuildPcs

Rebuilt(r) == pc[r] \in {"confirm", "install"}

(* Versions only grow; config_mtime is held exactly by the call that installs;
   of the rebuilds under way at most one is of any version, and the one of the
   claimed version is no older than what is installed. *)
VersionInv ==
  /\ claimed <= file.ver
  /\ cfg.ver <= file.ver
  /\ \A r \in Req :
       /\ stat[r] <= file.ver
       /\ pc[r] = "install" <=> cfgLock = r
       /\ pc[r] = "install" => stat[r] = claimed
       /\ Building(r) => stat[r] <= claimed
       /\ Rebuilt(r) => stat[r] <= built[r].ver /\ built[r].ver <= file.ver
       /\ Rebuilt(r) /\ stat[r] = claimed => cfg.ver <= built[r].ver
  /\ \A r, s \in Req : Building(r) /\ Building(s) /\ stat[r] = stat[s] => r = s

LEMMA VersionInit == Init => VersionInv
<1> SUFFICES ASSUME Init PROVE VersionInv
  OBVIOUS
<1>1. cfg.ver = 1 /\ file.ver \in {1, 2} /\ claimed \in {file.ver, 0}
  BY DEF Init, ReloadInit
<1> QED
  BY <1>1, NoneAssumption
     DEF Init, ReloadInit, VersionInv, Building, Rebuilt, RebuildPcs

(* Every step but those of the reload itself and the administrator's leaves the
   reload state alone and moves no call into or out of a rebuild. *)
Quiet ==
  /\ UNCHANGED reloadVars
  /\ \A s \in Req : pc[s] \in RebuildPcs \/ pc'[s] \in RebuildPcs => pc'[s] = pc[s]

LEMMA QuietSteps ==
  ASSUME TypeInv, [Next]_vars
  PROVE  \/ \E r \in Req : ReloadStep(r) \/ InstallHandler(r)
         \/ Edit
         \/ Quiet
<1> USE DEF Quiet, RebuildPcs, TypeInv, TypeOK, callVars, Goto, End, Conclude, At
<1>1. ASSUME NEW r \in Req, Refused(r) PROVE Quiet
  BY <1>1 DEF Refused
<1>2. ASSUME NEW r \in Req, ArriveAuth(r) PROVE Quiet
  BY <1>2 DEF ArriveAuth
<1>3. ASSUME NEW r \in Req, ArriveOther(r) PROVE Quiet
  BY <1>3, FirstStepFacts DEF ArriveOther
<1>4. ASSUME NEW r \in Req, LockTimeout(r) PROVE Quiet
  BY <1>4 DEF LockTimeout
<1>5. ASSUME NEW r \in Req, SnapshotPolicy(r) PROVE Quiet
  BY <1>5 DEF SnapshotPolicy
<1>6. ASSUME NEW r \in Req, EnvironmentChecks(r) PROVE Quiet
  BY <1>6 DEF EnvironmentChecks
<1>7. ASSUME NEW r \in Req, LockHandler(r) PROVE Quiet
  BY <1>7, AfterLockFacts DEF LockHandler
<1>8. ASSUME NEW r \in Req, GateAdmits(r) PROVE Quiet
  BY <1>8 DEF GateAdmits
<1>9. ASSUME NEW r \in Req, GateRefuses(r) PROVE Quiet
  BY <1>9 DEF GateRefuses
<1>10. ASSUME NEW r \in Req, ClaimSlot(r) PROVE Quiet
  BY <1>10 DEF ClaimSlot
<1>11. ASSUME NEW r \in Req, ClaimRefused(r) PROVE Quiet
  BY <1>11 DEF ClaimRefused
<1>12. ASSUME NEW r \in Req, Publish(r) PROVE Quiet
  BY <1>12 DEF Publish
<1>13. ASSUME NEW r \in Req, Prepare(r) PROVE Quiet
  BY <1>13 DEF Prepare
<1>14. ASSUME NEW r \in Req, Acquire(r) PROVE Quiet
  BY <1>14 DEF Acquire
<1>15. ASSUME NEW r \in Req, Discard(r) PROVE Quiet
  BY <1>15 DEF Discard, AfterDiscard
<1>16. ASSUME NEW r \in Req, RefuseBinding(r) PROVE Quiet
  BY <1>16 DEF RefuseBinding
<1>17. ASSUME NEW r \in Req, LoopHead(r) PROVE Quiet
  BY <1>17 DEF LoopHead
<1>18. ASSUME NEW r \in Req, OneFrame(r) PROVE Quiet
  BY <1>18 DEF OneFrame
<1>19. ASSUME NEW r \in Req, CommitEnrollment(r) PROVE Quiet
  BY <1>19 DEF CommitEnrollment
<1>20. ASSUME NEW r \in Req, Finish(r) PROVE Quiet
  BY <1>20 DEF Finish
<1>21. ASSUME NEW r \in Req, PreviewCapture(r) PROVE Quiet
  BY <1>21 DEF PreviewCapture
<1>22. ASSUME NEW r \in Req, Panic(r) PROVE Quiet
  BY <1>22 DEF Panic, StreamPcs
<1>23. ASSUME NEW r \in Req, ChangeModels(r) PROVE Quiet
  BY <1>23 DEF ChangeModels
<1>24. ASSUME NEW r \in Req, CancelInFlight(r) PROVE Quiet
  BY <1>24 DEF CancelInFlight
<1>25. ASSUME NEW r \in Req, ReleaseOrShutdown(r) PROVE Quiet
  BY <1>25 DEF ReleaseOrShutdown
<1>26. ASSUME NEW r \in Req, DropEntry(r) PROVE Quiet
  BY <1>26 DEF DropEntry
<1>27. ASSUME NEW r \in Req, DropSlot(r) PROVE Quiet
  BY <1>27 DEF DropSlot
<1>28. ASSUME NEW r \in Req, DropHandler(r) PROVE Quiet
  BY <1>28 DEF DropHandler
<1>29. ASSUME NEW r \in Req, Reply(r) PROVE Quiet
  BY <1>29 DEF Reply
<1>30. ASSUME NEW r \in Req, Depart(r) PROVE Quiet
  BY <1>30 DEF Depart
<1>31. CASE Tick
  BY <1>31 DEF Tick
<1>32. CASE Suspend
  BY <1>32 DEF Suspend
<1>33. CASE SuspendRelease
  BY <1>33 DEF SuspendRelease
<1>34. CASE SuspendGivesUp
  BY <1>34 DEF SuspendGivesUp
<1>35. CASE PollExpire
  BY <1>35 DEF PollExpire
<1>36. CASE PollExit
  BY <1>36 DEF PollExit
<1>37. CASE Stop
  BY <1>37 DEF Stop
<1>38. CASE UNCHANGED vars
  BY <1>38 DEF vars, reloadVars
<1> HIDE DEF Quiet
<1> QED
  BY <1>1, <1>2, <1>3, <1>4, <1>5, <1>6, <1>7, <1>8, <1>9, <1>10, <1>11, <1>12,
     <1>13, <1>14, <1>15, <1>16, <1>17, <1>18, <1>19, <1>20, <1>21, <1>22, <1>23,
     <1>24, <1>25, <1>26, <1>27, <1>28, <1>29, <1>30, <1>31, <1>32, <1>33, <1>34,
     <1>35, <1>36, <1>37, <1>38
     DEF Next, Arrive, Step, SuspendStep, Poll

(* The steps of maybe_reload_handler, with where they lead. *)
LEMMA ReloadCases ==
  ASSUME TypeInv, NEW r \in Req, ReloadStep(r) \/ InstallHandler(r)
  PROVE  \/ /\ pc[r] = "stat" /\ StatConfig(r)
            /\ pc' = [pc EXCEPT ![r] = "claim_mtime"]
         \/ /\ pc[r] = "claim_mtime" /\ ClaimMtime(r)
            /\ pc' = [pc EXCEPT ![r] = "rebuild"]
         \/ /\ pc[r] = "rebuild" /\ RebuildOk(r)
            /\ pc' = [pc EXCEPT ![r] = "confirm"]
         \/ /\ pc[r] = "confirm" /\ ConfirmClaim(r)
            /\ pc' = [pc EXCEPT ![r] = "install"]
         \/ /\ \/ pc[r] = "claim_mtime" /\ KeepHandler(r)
               \/ pc[r] = "rebuild" /\ RebuildFails(r)
               \/ pc[r] = "confirm" /\ DiscardStale(r)
               \/ pc[r] = "install" /\ InstallConfig(r)
            /\ \E l \in {"snapshot", "lock", "claim"} : pc' = [pc EXCEPT ![r] = l]
<1>1. pc[r] \in ReloadPcs
  BY DEF ReloadStep, StatFile, CheckMtime, Rebuild, ConfirmMtime, InstallHandler, ReloadPcs
<1>2. AfterReload(r) \in {"snapshot", "lock", "claim"}
  BY <1>1, AfterReloadFacts DEF TypeInv, ReloadKinds
<1> QED
  BY <1>2 DEF ReloadStep, StatFile, CheckMtime, Rebuild, ConfirmMtime, InstallHandler, Goto

LEMMA VersionStep == TypeInv /\ VersionInv /\ [Next]_vars => VersionInv'
<1> SUFFICES ASSUME TypeInv, VersionInv, [Next]_vars PROVE VersionInv'
  OBVIOUS
<1> USE DEF VersionInv, Building, Rebuilt, RebuildPcs, TypeInv, TypeOK, ReloadTypeOK, Config
<1>1. ASSUME NEW r \in Req, pc[r] = "stat", StatConfig(r),
             pc' = [pc EXCEPT ![r] = "claim_mtime"]
      PROVE  VersionInv'
  BY <1>1 DEF StatConfig
<1>2. ASSUME NEW r \in Req, pc[r] = "claim_mtime", ClaimMtime(r),
             pc' = [pc EXCEPT ![r] = "rebuild"]
      PROVE  VersionInv'
  BY <1>2, NoneAssumption DEF ClaimMtime, Changed
<1>3. ASSUME NEW r \in Req, pc[r] = "rebuild", RebuildOk(r),
             pc' = [pc EXCEPT ![r] = "confirm"]
      PROVE  VersionInv'
  BY <1>3 DEF RebuildOk
<1>4. ASSUME NEW r \in Req, pc[r] = "confirm", ConfirmClaim(r),
             pc' = [pc EXCEPT ![r] = "install"]
      PROVE  VersionInv'
  BY <1>4, NoneAssumption DEF ConfirmClaim, StillClaimed
<1>5. ASSUME NEW r \in Req, NEW l \in {"snapshot", "lock", "claim"},
             pc[r] \in {"claim_mtime", "rebuild", "confirm"},
             KeepHandler(r) \/ RebuildFails(r) \/ DiscardStale(r),
             pc' = [pc EXCEPT ![r] = l]
      PROVE  VersionInv'
  <2>1. LeaveReload(r) /\ UNCHANGED <<file, cfg, claimed, cfgLock>>
    BY <1>5 DEF KeepHandler, RebuildFails, DiscardStale
  <2> QED
    BY <1>5, <2>1 DEF LeaveReload
<1>6. ASSUME NEW r \in Req, NEW l \in {"snapshot", "lock", "claim"},
             pc[r] = "install", InstallConfig(r), pc' = [pc EXCEPT ![r] = l]
      PROVE  VersionInv'
  BY <1>6, NoneAssumption DEF InstallConfig, LeaveReload
<1>7. CASE Edit
  BY <1>7 DEF Edit, EditConfig, callVars
<1>8. CASE Quiet
  BY <1>8 DEF Quiet, reloadVars
<1> HIDE DEF VersionInv, TypeInv
<1> QED
  BY <1>1, <1>2, <1>3, <1>4, <1>5, <1>6, <1>7, <1>8, QuietSteps, ReloadCases

(* NeverOlderConfig: a rebuild that was overtaken never reinstates an older
   configuration. *)
THEOREM NeverOlderConfigHolds == Spec => NeverOlderConfig
<1>1. TypeInv /\ VersionInv /\ [Next]_vars => [cfg'.ver >= cfg.ver]_vars
  <2> SUFFICES ASSUME TypeInv, VersionInv, [Next]_vars PROVE cfg'.ver >= cfg.ver
    OBVIOUS
  <2>1. ASSUME NEW r \in Req, pc[r] = "install", InstallConfig(r) PROVE cfg'.ver >= cfg.ver
    BY <2>1 DEF InstallConfig, VersionInv, Rebuilt, TypeInv, TypeOK, ReloadTypeOK, Config
  <2>2. ASSUME cfg' = cfg PROVE cfg'.ver >= cfg.ver
    BY <2>2 DEF TypeInv, TypeOK, ReloadTypeOK, Config
  <2>3. CASE Edit \/ Quiet
    BY <2>2, <2>3 DEF Edit, EditConfig, Quiet, reloadVars
  <2>4. ASSUME NEW r \in Req, ReloadStep(r) \/ InstallHandler(r) PROVE cfg'.ver >= cfg.ver
    BY <2>1, <2>2, <2>4, ReloadCases
       DEF StatConfig, ClaimMtime, RebuildOk, ConfirmClaim, KeepHandler, RebuildFails,
           DiscardStale
  <2> QED
    BY <2>3, <2>4, QuietSteps
<1> QED
  BY InitType, NextType, VersionInit, VersionStep, <1>1, PTL DEF Spec, NeverOlderConfig

LEMMA BackedInit == Init => ClaimIsBacked
<1> SUFFICES ASSUME Init PROVE ClaimIsBacked
  OBVIOUS
<1>1. CASE file = cfg
  BY <1>1 DEF Init, ReloadInit, ClaimIsBacked
<1>2. CASE lost = {2} /\ file \in [ver : {2}, gates : Policies]
  BY <1>2 DEF Init, ReloadInit, ClaimIsBacked
<1> QED
  BY <1>1, <1>2 DEF Init, ReloadInit

LEMMA BackedStep == TypeInv /\ VersionInv /\ ClaimIsBacked /\ [Next]_vars => ClaimIsBacked'
<1> SUFFICES ASSUME TypeInv, VersionInv, ClaimIsBacked, [Next]_vars PROVE ClaimIsBacked'
  OBVIOUS
<1> USE DEF ClaimIsBacked, TypeInv, TypeOK, ReloadTypeOK, Config
<1>1. ASSUME NEW r \in Req, pc[r] = "stat", StatConfig(r),
             pc' = [pc EXCEPT ![r] = "claim_mtime"]
      PROVE  ClaimIsBacked'
  BY <1>1 DEF StatConfig
<1>2. ASSUME NEW r \in Req, pc[r] = "claim_mtime", ClaimMtime(r),
             pc' = [pc EXCEPT ![r] = "rebuild"]
      PROVE  ClaimIsBacked'
  BY <1>2 DEF ClaimMtime
<1>3. ASSUME NEW r \in Req, pc[r] = "rebuild", RebuildOk(r),
             pc' = [pc EXCEPT ![r] = "confirm"]
      PROVE  ClaimIsBacked'
  BY <1>3 DEF RebuildOk
<1>4. ASSUME NEW r \in Req, pc[r] = "confirm", ConfirmClaim(r),
             pc' = [pc EXCEPT ![r] = "install"]
      PROVE  ClaimIsBacked'
  BY <1>4 DEF ConfirmClaim
<1>5. ASSUME NEW r \in Req, NEW l \in {"snapshot", "lock", "claim"},
             pc[r] = "claim_mtime", KeepHandler(r), pc' = [pc EXCEPT ![r] = l]
      PROVE  ClaimIsBacked'
  BY <1>5 DEF KeepHandler, LeaveReload
<1>6. ASSUME NEW r \in Req, NEW l \in {"snapshot", "lock", "claim"},
             pc[r] = "rebuild", RebuildFails(r), pc' = [pc EXCEPT ![r] = l]
      PROVE  ClaimIsBacked'
  BY <1>6 DEF RebuildFails, LeaveReload
<1>7. ASSUME NEW r \in Req, NEW l \in {"snapshot", "lock", "claim"},
             pc[r] = "confirm", DiscardStale(r), pc' = [pc EXCEPT ![r] = l]
      PROVE  ClaimIsBacked'
  BY <1>7 DEF DiscardStale, StillClaimed, LeaveReload
<1>8. ASSUME NEW r \in Req, pc[r] = "install", InstallConfig(r) PROVE ClaimIsBacked'
  BY <1>8 DEF InstallConfig, VersionInv, Rebuilt
<1>9. CASE Edit
  BY <1>9 DEF Edit, EditConfig, callVars
<1>10. CASE Quiet
  BY <1>10 DEF Quiet, RebuildPcs, reloadVars
<1> HIDE DEF ClaimIsBacked, TypeInv
<1> QED
  BY <1>1, <1>2, <1>3, <1>4, <1>5, <1>6, <1>7, <1>8, <1>9, <1>10, QuietSteps, ReloadCases

(* ClaimIsBacked: a change of the file that some call claimed is installed, being
   rebuilt, or known to have failed. *)
THEOREM ClaimIsBackedHolds == Spec => []ClaimIsBacked
BY InitType, NextType, VersionInit, VersionStep, BackedInit, BackedStep, PTL DEF Spec
=============================================================================
