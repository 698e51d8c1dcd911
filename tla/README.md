# A TLA+ model of facelock

facelock authenticates Linux users by face. A PAM module asks a root daemon over
D-Bus; the daemon owns the camera, the encrypted templates and the policy. This
directory models the daemon's concurrent core, checks it with TLC and proves
parts of it with TLAPS.

## The system and what models it

| Part | Source (`crates/`) | Module | State |
|---|---|---|---|
| Request lifecycle, handler mutex, capture slot, suspend watcher, poll | `facelock-daemon/src/server.rs`, `handler.rs` | `Daemon` | modelled |
| Cancel tokens, `CurrentRequest`, caller watch | `server.rs`, `cancel.rs` | `CurrentRequest` | modelled |
| Camera lease (ADR 008) | `handler.rs` | `CameraLease` | modelled |
| Live configuration reload | `server.rs`, `facelock-cli/src/commands/daemon.rs` | `ConfigReload` | modelled |
| Ingress limiter | `server.rs` | `IngressLimiter` | modelled |
| Preview session | `handler.rs` | `Daemon` | modelled |
| Authentication gates | `auth.rs`, `server.rs` | `Daemon` | session and lid gate; the others are one refusal |
| Scan loop | `auth.rs` | `Daemon` | exits and their order; matching is one answer |
| Enrollment | `enroll.rs` | `Daemon` | cancel checks and commit |
| Caller provenance | `server.rs` | `Daemon` | its answer only |
| Rate limiter, template store and migrations | `rate_limit.rs`, `facelock-store` | planned | |
| Keyring and key policy | `keyring.rs`, `key_policy.rs` | planned | |
| PAM module and one-shot fallback | `pam-facelock`, `facelock-cli/src/commands/auth.rs` | planned | |
| Re-encryption, enrollment markers, purge, PAM file installation | `facelock-cli`, `facelock-core` | planned | |
| Camera backend, face engine, TPM, parsing, CLI output | `facelock-camera`, `facelock-face`, `facelock-tpm` | not modelled: device I/O, numerics and formatting |

`PROJECT.json` lists every part, the source lines of every definition and the
hazards found in the code.

### Daemon

zbus runs each call in a task of its own. A call `r` is a small program with a
program counter `pc[r]`; a step is what the code does between two points where
another thread can observe or change shared state. `Daemon` extends three
modules, each with its own variables, and conjoins their operations:

* `CurrentRequest` - `token[r]` is `r`'s `CancelToken`; `current` is the slot,
  with the generation that says whose entry it is; `epoch` and `checkpoint[r]`
  are the handoff by which a cancel in preflight is seen when `r` publishes.
* `CameraLease` - `camera` and `deadline`. The code stores an `Instant`; the
  model stores the time left, which `LeaseTick` counts down.
* `ConfigReload` - `file`, the installed `cfg`, the `claimed` mtime. A version
  number stands for the mtime; a configuration is its version and the two gates
  that are read outside and again inside the handler lock.

`lock` is the handler mutex (`None` when free), `poisoned` its poison flag,
`busy`/`guard` the capture slot and its guards, `store`/`cache` the versions of
the enrolled templates and of the decrypted preview set. Guards are dropped one
per step, in the order the code drops them, which differs between an
authentication and the other calls.

Abstractions: a frame is one step with a nondeterministic result; the gates other
than session and lid are one refusal; the answers of login1 are nondeterministic;
authorization and the ingress limiter are the action `Refused`. Memory is
sequentially consistent: the flags shared between threads are mutex-protected or
used with acquire/release on one location.

### IngressLimiter

Buckets with integer ticks, lazy refill in whole units, pruning after the TTL
and eviction of the least recently seen (any of them on a tie, as the hash map
decides). `window` observes one UID from an instant chosen arbitrarily. The
instant is read and the bucket charged in one step; in the code two adjacent
statements separate them.

## What the runs check

All instances use `ReleaseSecs = 1`, `ReleaseAfterSuccessSecs = 0` and
`PreviewMinHold = 2`, so that holds of zero, one and several ticks occur.
Deadlock is not checked: with a bounded number of calls the daemon may fall idle.

| Run | Instance | Shows |
|---|---|---|
| `cancel` | 3 calls: authenticate, enroll, release | `OneCapture`, `InFlightReachable`, `CancelledPreflightOpensNothing` |
| `depart` | 2 calls of six methods, callers leave, 1 suspend | `TypeOK`, `CancelExact` |
| `reload` | 3 authentications, 3 versions of the file | `ClaimIsBacked`, `NeverOlderConfig` |
| `gates` | 2 calls, every setting of the gates, 2 versions | `GatesHoldAtCapture` |
| `camera` | 3 calls of six methods | `IdleCameraHasDeadline`, `PreviewSetFresh` |
| `live` | 2 calls, fair, 2 versions | `EveryCallAnswered`, `CameraCloses`, `PreviewSetWiped` |
| `panic` | 2 calls, fair, panics and process exit | `EveryCallAnswered` |
| `ingress` | 3 UIDs, 2 buckets, burst 2, interval 2, 6 ticks | `BurstBound`, `BucketsBounded`, `PatientCallerAdmitted` |

Bounds. Two calls suffice for a race between a holder and a waiter; three are
used where a third party matters (a successor to a finishing call, an overtaken
rebuild, a camera handed on twice). One frame per scan distinguishes a cancel
before, during and after the last frame. Three versions of the file are needed
for a rebuild to be overtaken. Six ticks exceed the bucket TTL of four. Calls are
interchangeable until they choose a method, so runs without liveness use
symmetry.

Fairness. `WF(Step(r))`: tokio and the blocking pool schedule every task, lock
waits poll with a timeout. `WF(Tick)`, `WF(Poll)`, `WF(SuspendStep)`: time
passes, the poll loop and the suspend watcher sleep and wake. Nobody is obliged
to call, to edit, to leave or to suspend.

Where code and documentation disagree, a run exhibits it:

* `lastframe` - ADR 008 section 5 ends a cancelled call with `finish(Cancelled)`;
  a token set during the last frame of an authentication is not read again.
* `suspend` - ADR 008 section 8 has the camera close when the call returns;
  previews publish no token, and a scan on its last frame may end warm.
* `poison` - the poll skips a poisoned mutex that every other site recovers, so
  warm holds stop running out.
* `shutdown` - a reload replaces the handler that carries the shutdown flag.

## What is proved

`IngressLimiter_proof` proves for every set of UIDs, burst, interval, ceiling and
horizon: `TypeCorrect`, `BurstBounded`, `PatientCallers` and `TableBounded`. The
bound on admissions is not inductive. Its strengthening `LimiterInv` counts the
tokens still in the bucket as spent up to the last refill (`Credit`); a bucket
that disappeared without eviction was idle for a whole TTL (`Pruned`), which is
what a fresh burst costs; instants are ordered (`Clocked`). The assumptions are
`LimiterAssumption`: positive burst, interval and ceiling, finitely many UIDs.

The proofs about `Daemon` hold for every set of calls, every set of policies,
every hold time and every bound; they use the named assumptions on the constants
and nothing else. Each proof has one step per action. Most actions do not touch
what an invariant is about, so a lemma first classifies the steps (`PhaseSteps`,
`StillSteps`, `QuietSteps`) and the invariant's own proof treats the others.

| Module | Theorem | Rests on |
|---|---|---|
| `Daemon_proof` | `TypeCorrect`: `TypeOK` | `TypeInv` adds `ReloadKinds`: only authentications and enrollments reload, so the route after a reload is defined. `LeaseOps`, `ReloadOps`, `CurrentOps` say what each component operation does to the component's own type |
| `DaemonCapture_proof` | `OneCaptureHolds` | `CaptureInv`: which methods reach which step (`PcKinds`), where a call holds the mutex (`Mutex`), that `busy` is set exactly while one call owns a guard (`SlotHeld`) |
| `DaemonCancel_proof` | `InFlightReachableHolds` | `PublishInv`: generations are unique and never exceed the counter, so a late drop clears only its own entry |
| `DaemonCancel_proof` | `CancelExactHolds` | `CancelInv`: before it publishes, a token is set only by its caller's departure and the checkpoint is in the past; afterwards a token and the epoch move together |
| `DaemonCamera_proof` | `GatesHold`: `GatesHoldAtCapture` | `GatesInv`: the verdicts satisfy the installed gates from the gate on, because the mutex keeps the configuration |
| `DaemonCamera_proof` | `CancelledPreflightOpensNothingHolds` | `CancelInv`, and that only `Acquire` opens the camera |
| `DaemonCamera_proof` | `IdleCameraHasDeadlineHolds` | `LeaseInv`; needs that no capture panics |
| `DaemonCamera_proof` | `PreviewSetFreshHolds` | `FreshInv`: the set is stale only between an enrollment's commit and the end of its capture; needs that no capture panics |
| `DaemonReload_proof` | `NeverOlderConfigHolds`, `ClaimIsBackedHolds` | `VersionInv`: what a call built is at least as new as what it observed, a call at `install` holds `config_mtime`, and the claim is at least as new as every observation under rebuild |

The assumption `"panic" \notin Events` of two theorems is needed: a capture that
panics skips `finish`, which sets the deadline and wipes the preview set. Each inductive invariant was model-checked before it was proved.

Liveness is model-checked only: it rests on fairness, which TLAPS does not
handle. So is what the four runs above show to fail.

## Plan

1. `RateLimit` and `Store`: the failure budget shared by daemon and one-shot
   processes; the replacement transaction; migrations interrupted between
   statements.
2. `KeyPolicy`: when a key may be created, primary and secondary sealers.
3. `PamModule`: replies, transport errors and the one-shot fallback against PAM
   codes.
4. `Reencrypt`, `Markers`, `Purge`, `PamFiles`: multi-step changes on disk under
   crashes and failures.
5. `Provenance` and `Capabilities`: the lookups behind the session gate and the
   start-up order.
6. Proofs about these: the failure budget, the key policy and the marker
   protocol; and that `Daemon` implements an abstract single-capture service.
