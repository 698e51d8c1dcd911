---------------------------- MODULE ConfigReload ----------------------------
(***************************************************************************)
(* Live configuration reload (server.rs, maybe_reload_handler{,_at}).      *)
(*                                                                         *)
(* A request stats the configuration file, claims a newer mtime under the  *)
(* config_mtime mutex, rebuilds a handler outside every lock, and installs *)
(* it only if no newer mtime was claimed meanwhile.  The mutex is held     *)
(* across the installation, which waits for the handler mutex.             *)
(*                                                                         *)
(* A configuration is its version, which stands for the file's mtime, and  *)
(* the two environment gates that an authentication reads outside and      *)
(* again inside the handler lock.                                          *)
(***************************************************************************)
EXTENDS Naturals, Requests

CONSTANTS
  Policies,  \* the settings of the two gates that the file may hold
  MaxEdits   \* bound: the last version the configuration file reaches

VARIABLES
  file,     \* what is on disk
  cfg,      \* the configuration of the installed handler
  claimed,  \* the mtime in config_mtime, 0 = None (the stat at start-up failed)
  cfgLock,  \* the request that holds config_mtime across an installation
  stat,     \* stat[r]: the mtime r observed, 0 = none (the stat failed)
  built,    \* built[r]: the configuration of the handler r rebuilt, or NotBuilt
  lost      \* the claimed versions whose contents were never built:
            \* the rebuild failed, or the file changed during start-up

reloadVars == <<file, cfg, claimed, cfgLock, stat, built, lost>>

Gates == [ssh : BOOLEAN, lid : BOOLEAN]

ASSUME PoliciesAssumption == Policies \subseteq Gates
ASSUME MaxEditsAssumption == MaxEdits \in Nat \ {0}

Config == [ver : Nat, gates : Gates]
NoGates == [ssh |-> FALSE, lid |-> FALSE]
NotBuilt == [ver |-> 0, gates |-> NoGates]

ReloadTypeOK ==
  /\ file \in Config
  /\ cfg \in Config
  /\ claimed \in Nat
  /\ cfgLock \in Req \cup {None}
  /\ stat \in [Req -> Nat]
  /\ built \in [Req -> Config]
  /\ lost \in SUBSET Nat

(* commands::daemon::run loads the configuration, builds the handler from it
   and only then stats the file: an edit in between is already claimed. *)
ReloadInit ==
  /\ cfg \in [ver : {1}, gates : Policies]
  /\ \/ file = cfg /\ lost = {}
     \/ /\ MaxEdits > 1
        /\ file \in [ver : {2}, gates : Policies]
        /\ lost = {2}
  /\ claimed \in {file.ver, 0}
  /\ cfgLock = None
  /\ stat = [r \in Req |-> 0]
  /\ built = [r \in Req |-> NotBuilt]

-----------------------------------------------------------------------------

(* The administrator saves the file. *)
EditConfig ==
  /\ file.ver < MaxEdits
  /\ file' \in [ver : {file.ver + 1}, gates : Policies]
  /\ UNCHANGED <<cfg, claimed, cfgLock, stat, built, lost>>

StatConfig(r) ==
  /\ stat' \in {[stat EXCEPT ![r] = v] : v \in {file.ver, 0}}
  /\ UNCHANGED <<file, cfg, claimed, cfgLock, built, lost>>

(* r leaves maybe_reload_handler: what it observed and built goes out of scope. *)
LeaveReload(r) ==
  /\ stat' = [stat EXCEPT ![r] = 0]
  /\ built' = [built EXCEPT ![r] = NotBuilt]

(* Without an mtime to compare with, nothing is ever reloaded. *)
Changed(r) == claimed # 0 /\ stat[r] > claimed

(* The claim is made before the rebuild starts. *)
ClaimMtime(r) ==
  /\ cfgLock = None
  /\ Changed(r)
  /\ claimed' = stat[r]
  /\ UNCHANGED <<file, cfg, cfgLock, stat, built, lost>>

KeepHandler(r) ==
  /\ cfgLock = None
  /\ ~Changed(r)
  /\ LeaveReload(r)
  /\ UNCHANGED <<file, cfg, claimed, cfgLock, lost>>

(* rebuild() parses whatever the file holds by then. *)
RebuildOk(r) ==
  /\ built' = [built EXCEPT ![r] = file]
  /\ UNCHANGED <<file, cfg, claimed, cfgLock, stat, lost>>

RebuildFails(r) ==
  /\ lost' = lost \cup {stat[r]}
  /\ LeaveReload(r)
  /\ UNCHANGED <<file, cfg, claimed, cfgLock>>

(* Mutants: no second look, and one that also insists on the file of now. *)
NeverOvertaken(r) == stat[r] = stat[r]
StillOnDisk(r) == claimed = stat[r] /\ stat[r] = file.ver

(* The second look at the claim, which keeps config_mtime when it still holds. *)
StillClaimed(r) == claimed = stat[r]

ConfirmClaim(r) ==
  /\ cfgLock = None
  /\ StillClaimed(r)
  /\ cfgLock' = r
  /\ UNCHANGED <<file, cfg, claimed, stat, built, lost>>

DiscardStale(r) ==
  /\ cfgLock = None
  /\ ~StillClaimed(r)
  /\ LeaveReload(r)
  /\ UNCHANGED <<file, cfg, claimed, cfgLock, lost>>

(* Mutant: config_mtime is not released after the swap. *)
InstallHoldsMtime(r) ==
  /\ cfg' = built[r]
  /\ LeaveReload(r)
  /\ UNCHANGED <<file, claimed, cfgLock, lost>>

(* `*guard = new_handler`, the handler mutex being free. *)
InstallConfig(r) ==
  /\ cfg' = built[r]
  /\ cfgLock' = None
  /\ LeaveReload(r)
  /\ UNCHANGED <<file, claimed, lost>>
=============================================================================
