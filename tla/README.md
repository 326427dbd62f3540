# AeroGo2 in TLA+

AeroGo2 supervises a robot that walks (a Unitree Go2), folds its legs (a linear
mechanism driven by an F446 board) and flies (an ArduPilot X8 with a Pixhawk).
The supervisor is one asyncio process. Its safety rests on a state machine, on
what the manager orders the devices to do while that machine moves, and on who
may command each device. The modules here model that core; each says in its
header what it stands for, and `PROJECT.json` maps every definition to its
lines, every hazard to the properties that watch it and every property to a
mutation of the code that breaks it.

Paths are relative to `src/src/aerogo2/` unless they begin with `src/`. A line
written F:1234 is in `manager/system_manager.py`.

## 1. The system

### Components

| component | state | operations | talks to |
|---|---|---|---|
| State machine `manager/state_machine.py` | state, `_transitioning`, guards, history | `transition_to`, `replace_guards`, the commit task | subscribers, entry actions of the manager |
| Guards and permissions `manager/transition_guards.py`, `permissions.py`, `command_service.py` | none: pure over a snapshot | `evaluate`, `manual_motion_guard`, `decide` | state machine, manager |
| Manager `manager/system_manager.py` | snapshot, `_operation_lock`, flags and deadlines of every authorization, violations | operator commands, `tick`, `_fault`, entry actions, shutdown | everything |
| Safety monitor and interlocks `safety/` | dwell timers, latched faults | `evaluate` | manager's tick |
| F446 serial bridge `bridges/f446_text_bridge.py`, `f446_parser.py` | `_write_lock`, `_transaction_lock`, parsed status | `move_to_configuration`, `stop`, queries, reader and poll task | F446 firmware |
| F446 firmware `src/motor_main.c` | motion state, receive buffer, start time | `uart_poll`, `handle_line`, `control_update` | motor, limit switches |
| Pixhawk bridge `bridges/pixhawk_mavlink_bridge.py` | telemetry, pending ground-arm exchange, keepalive | `set_ground_arm_authorization`, mode and setpoint requests, reader | ArduPilot, Lua gate |
| Lua arm gate `src/ardupilot/scripts/aerogo2_arm_gate.lua` | `authorized`, lease, switch seen high | `handle_authorization`, `update` | bridge, pilot's switch |
| RC monitor `bridges/rc_monitor.py` | debounced positions of the switches | `update` | manager's snapshot |
| Control arbiter `bridges/go2_control_arbiter.py` | host file lock, epoch, leases, audit proof | `sport_lease`, `acquire_low_level`, `release_low_level` | Sport bridge, LowCmd owner, other processes |
| Go2 Sport bridge `bridges/go2_sdk_bridge.py` | RPC worker, telemetry | stand, walk stop, move | arbiter |
| LowCmd owner `bridges/go2_lowlevel_sdk_bridge.py` | owner epoch, publisher, writer thread, watchdog, handoff fence | acquire, start, submit, revoke, release, abort | arbiter, DDS, motion switcher |
| Residual link `landing/impact_aware/integration.py`, `bridges/fake_flight_controller_residual.py` | sequence, clear transaction; the controller's register, stage and watermark | `send_rotor_residual`, `clear_rotor_residual`, `watchdog` | runtime, flight controller |
| Landing runtime `landing/impact_aware/multirate.py`, `executor.py` | policy mailbox and its generation, tripped latch, joint-target lease | worker, high-rate loop, supervisor, `submit`, `revoke_mpc_control` | residual link, LowCmd owner |
| Landing coordinator `landing/impact_aware/coordinator.py`, `contact_detection.py`, `rotor_safety.py`, `admittance.py` | contacts and touchdowns, gain of the correction, compliance of each leg, latched failure | `compute`, `reset` | its caller, kinematics, solver |
| Count contact detector `landing/impact_aware/preliminary.py` | dwells, identity of the stream, trip | `update`, `reset` | the owner of the LowState feedback |
| Landing numerics, descent filter `landing/` | optimiser state, last set point | solve, filter | runtime, manager |
| Operator console `cli/`, `main.py`, `app.py` | command in progress, monitor task | dispatch, confirmation, supervised shutdown | manager |
| X8 bench `src/pixhawk_x8_cli_diag.py`, `x8_bench.py` | held outputs, safety state | motor tests, safety switch, flight test | Pixhawk over its own serial line |
| Logging `logging/` | file handle, enabled | start, stop, emit | all |
| Configuration, models `common/`; simulation and fakes | none; test state | parse, validate | all; tests |

### What is hard

* **One event loop, many awaits.** The tick, the console's command, state
  machine commits, subscribers, bridge readers and keepalives interleave at
  every await. Most operations hold `_operation_lock`; the transform commands,
  `clear_fault`, connecting and confirming do not.
* **Verdict and commit are apart.** Guards are evaluated at the request; the
  state is written by a task that runs later and suspends again afterwards.
* **Two judges of one reading.** The transition guards and the safety monitor
  are separate code; where they disagree, a state is entered and at once faulted.
* **Answers without names.** Any F446 line that arrives in time answers any
  query. Arm-gate answers carry a sequence number, heartbeats and keepalives do
  not; a bench ACK names its command, not its request.
* **Cancellation.** A termination signal cancels a command at any await; a
  half-written serial line stays in the firmware's buffer; a cancelled send may
  still take effect.
* **Threads and processes.** The arbiter, the Sport RPC worker and the LowCmd
  writer run beside the loop; other processes of the host share one lock, and an
  unlock may fail ambiguously.
* **Deadlines race answers**: the firmware's move time-out, the host's deadline,
  the lease of the gate and of the residual, the dwells of a landing.
* **Samples outlive what they say.** A Sport sample of before a release, an F446
  endpoint of before a move, a residual of contacts that are gone.

What makes each component correct is the list of properties in section 3.

## 2. The modules

| module | models | composes |
|---|---|---|
| `SystemStates` | the states and the edge table | - |
| `GuardedStates` | abstract contract of the state machine | `SystemStates` |
| `StateMachine` | callers, commit tasks, cancellation, reload of the guards | refines `GuardedStates` |
| `F446Firmware` | firmware as functions from a state and a line to a state and replies | - |
| `F446Link` | serial bridge: movers, stoppers, poll, locks, UART | `F446Firmware` |
| `Morphology` | the manager's transform commands, tick, fault and shutdown | `F446Link`, `SystemStates` |
| `ArmGate` | Lua gate, MAVLink connection, bridge's authorization | - |
| `GroundArm` | the manager's authorize, revoke, tick and subscriber | `ArmGate` |
| `ControlArbiter` | the host-wide arbiter and its lock | - |
| `LowCmdStream` | the LowCmd writer thread, mailbox, safe hold and LowState callbacks; what one frame holds | - |
| `LowCmdOwner` | acquire, revoke, release, abort and Close of the one LowCmd owner | `LowCmdStream` |
| `RcMonitor` | the automatic-landing switch and its debouncer | - |
| `Autoland` | take-off to confirmed touchdown, two kinds of landing | `RcMonitor` |
| `ResidualLease` | abstract contract of the residual link | - |
| `ResidualFc` | the flight controller's register, stage, watermark, and the link | - |
| `ResidualSink` | the host's half: send, clear, watchdog, status | `ResidualFc`; refines `ResidualLease` |
| `FootContact` | contact of the feet with hysteresis and dwell: the coordinator's detector and the one on raw counts | - |
| `LandingCycle` | one cycle of the coordinator and the commit of leg previews, as functions | `FootContact` |
| `LandingSession` | cycles and resets; samples and resets of the count detector | `LandingCycle` |
| `LowCmdExecutor` | submission and revocation of joint targets | - |
| `LandingRuntime` | worker, mailbox, high-rate loop, supervisor of a trip | `LowCmdExecutor` |
| `Handover` | who commands the legs on the ground, stop, disconnection | `SystemStates` |
| `JointLock` | connection, the wait for the joint lock, confirmation, tick | `Handover` |
| `Console` | the shell, its monitor task, signals and close | `JointLock` |
| `X8Bench` | the bench process against a lossy line | - |
| `SafetyRules` | every violation, guard and interlock over one reading | `SystemStates` |
| `Supervisor` | ticks, commands and failing devices over `SafetyRules` | `SafetyRules` |
| `*Proofs` | theorems about the module (or modules) they extend | section 5 |

`MC*` modules name the instance; their `.cfg` files give the constants.

**StateMachine.** `phase[c]` is where the commit task of caller `c` stands
(`scheduled`, `publish` before each subscriber, `entry`, `finished`); `Accept`,
`Reject` and `RejectNested` are the three outcomes of `transition_to`,
`CommitTask` one resumption of `_commit_permitted_transition`, and a failing
logger, subscriber or entry action moves the same task on to FAULT. `Cancel`
and `Return` are `wait_task_through_cancellation`. Guard answers are free,
except that an edge outside the table is refused and an edge into a safety state
granted. The modules of the manager reduce this to a transition that is
accepted, written and then finished, because `StateMachine` shows that this is
what callers may rely on.

**F446Link.** Each coroutine has a `stage` (which line of the routine it runs)
and an `io` (waiting for the write lock, sending bytes, in the post-command
delay, awaiting an answer). `Read` is the reader parsing one reply. `fw.on`
stands for a nonzero duty. A cancelled writer leaves a fragment `rx` in the
firmware's buffer, which the next line completes.

**Morphology.** The console's command is a program counter over precheck,
activation, the bridge's move, arrival and cleanup. The tick stops the outputs
and faults. What the guards ask of the other devices is one `hazard` that comes
and goes. A signal cancels the command at any await, the stop of its cleanup
included; the close that follows stops and, where the stop or what
`disconnect_all` asks for fails (a second stop, BOOT_SAFE, a device that does not
close), brings the prompt back for further commands.

**ArmGate, GroundArm.** The gate is open with a lease; the bridge has one
pending exchange behind a fair lock, a keepalive and a reader. The manager
runs one operation at a time while transitions commit beside it.

**ControlArbiter.** Every action is one section under the arbiter's guard. An
unlock or close that raises leaves the operating system's lock held or free,
and the process poisoned until it restarts.

**LowCmdStream, LowCmdOwner.** The writer thread, the callbacks of the DDS
library and the event loop meet at `_guard`, so an action is one section under
it, or one call outside it. `op.at` names the section the lifecycle operation
is about to run. The writer keeps the guard from `CycleBuildsFrame` until DDS
answers; meanwhile no section runs and a bounded one may give up
(`GuardTimesOut`). Sections that follow each other without an await and without
an effect are one action. Safe-hold generations, sequence numbers and ingress
tokens are kept as what they are compared for: was the current generation
written and reached, did a callback enter after the write that reached it, did
it cross the hand-over fence, has a younger one overtaken it. `submit` is
unconstrained: the caller may stage a target whenever the bridge accepts one.
The motion service of the robot changes only by the bridge's own requests; a
request that fails may have had its effect.

**RcMonitor, Autoland.** `op` is the locked operation in progress - the tick's
landing step, a command, an abort, a stop - at the await where it stands, and
`change` the transition being committed, which other operations may overtake.
Dwells and deadlines are the ages in `age`; telemetry comes and goes freely.

**ResidualFc, ResidualSink.** Every path of the sink is a program counter of a
caller or of the one shared clear transaction; packets may be lost, delayed
past their caller's time-out or repeated. Ticks of the controller are kept as
what is left of a lead, a lease and a deadline.

**LowCmdExecutor, LandingRuntime.** The worker's solve, activation and
publication, the high-rate loop's consumption and the supervisor's trip are
steps on one event loop; sends and submissions take effect at any time while
their call is open. Contact generations number what a policy was solved for.

**The frame** (at the end of `LowCmdStream`). The arithmetic of a frame is that of the code over integers: the
position in reach, its torque budget, the common factor of the gains, kept as
numerator and denominator. `\div` rounds the reach of the budget down, where
the code divides floats and allows 1e-8 for them. The header and the checksum
are left out.

**FootContact, LandingCycle, LandingSession.** What is not control is an input:
how a filtered force lies to the two thresholds (`level`), what the solver, the
integrators and the kinematics answer, and what is wrong with a cycle (`bad`, the
set of the places that find a defect). `Cycle` then follows `compute` in its
order: `Refused`, `Measured`, `Unsolved`, `SteppedLegs`, `Executes`, `Withheld`.
Gains are counted in steps of `GainRise`; the velocity of a leg is part of how it
moves. `LandingSession` adds the state between cycles; any number of cycles, of
any input, may come before a reset.

**The count detector.** `Admits` is every check of a sample and `Follows`
those that compare it with the last one; ticks wrap at twice `HalfTicks`. The
filter of the counts is an input as above. A sample that is refused for its type
or time changes nothing, every other defect trips.

**Handover, JointLock, Console.** Two tasks, `shell` and `monitor`, each with a
`pc` for the await it stands at and an `aim` for the command it runs. `sport` is
the last Sport sample, "old" when it was taken before the fence a release sets.
`relocked` is history: have the legs been locked since Sport got them back.

**X8Bench.** A queue each way of requests and ACKs that may be lost; `hold`
is the output that is repeated, the wait says which answer it takes.

**SafetyRules, Supervisor.** `SafetyRules` translates the monitor, the guards
and the interlocks as sets and predicates over a reading; `Supervisor` lets one
device be defective at a time, pilot and operator act, and ticks come between
the steps of a command. `guided` is what the Pixhawk is told: `external_setpoint_active`
outlives a stop that failed. The stop of the set points, the revokes of LowCmd
and of the arm gate and the outputs of a supervised stop each succeed or fail by
free choice, at any time and whether or not a defect explains it (`StopFails`,
`SetpointStopFails`, `LowCmdRevokeFails`, `RevokeFails`).

## 3. Runs

Every property has a mutant in `PROJECT.json`: a plausible bug of a modelled
definition under which the same run finds it violated.

| run | instance | distinct states | shows |
|---|---|---|---|
| `state_machine` | tick and shell, 1 subscriber, 1 reload | 171 thousand | `CommitsAreSound`: one commit at a time, its verdict still true at the write, the audit history a path of the edge table; `CallersAreFreed`; `ImplementsContract`: refinement of `GuardedStates` |
| `morphology` | all transforms, tick and shell stops, refused closes, hazards, corrupted lines, a pulled cable | 977 thousand | `ShapeIsKnown`: a state that needs a shape has it, at rest, and the host's copy lags only by unread replies; `MotionIsConfined`; `StopHonest`: success of a move or stop tells the truth |
| `morphology_live` | homing, the poll, a signal that may cancel between two bytes or in the cleanup's stop, closes that fail | 433 thousand | `TransformEnds`, `MotorComesToRest` |
| `ground_arm` | an operation and a transition on one bridge, losses, both switch positions | 225 thousand | `AuthorizationFollowsMode`, `RevokedStaysShut`, `ArmingSettles` |
| `control_arbiter` | 3 processes, 2 acquisitions, 2 leases, any lock failure | 263 up to symmetry | `OneCommander`, `AuditCounts`, `NoOrphanLock` |
| `lowcmd_owner` | one bridge, 2 callbacks in flight, any failure of a write, a Close, a mode request or the unlock; `FramesReach` | 387 thousand | `Custody`: bridge and high-level service never command together, the lock covers the endpoint, a taken robot can be given back; `ReleaseInOrder`; `HoldIsGenuine`, `RevokeMeansHold`: what the safe hold claims is true of the last frame; `LifecycleEnds` |
| `autoland` | legacy and impact-aware landings, takeover, aborts, faults | 538 thousand | `FencedIsQuiet`: nothing is sent behind recovery's fence; `ImpactIsNoLanding`: an aborted impact is not taken for a landing; `ExitIsEarned`: landings end quiet, an impact-aware one after its whole dwell; `LandingEnds` |
| `residual_sink` | 2 sequences, 1 caller, losses, delays, repeats, a reboot | 475 thousand | `RegisterIsBounded`: no lease past its command's deadline, and a confirmed clear is final; `ImplementsLease`; `CallsEnd` |
| `landing_runtime` | 2 snapshots, 2 contact changes, any number of trips; `CyclesReach`, `CountsReach` | 786 thousand | `ConfirmedFallbackHolds`, `LegsMatchRotors`, `OldResidualIsHandled`, `RotorSideEnds` |
| `console` | with and without LowCmd, signals, failing stops, a dying monitor | 489 thousand | `LegsStayHeld`: rotors arm only over legs that are held; `OwnerIsKept`: Sport is not spoken to beside an owner, a closed console leaves none; `LockIsCausal`: FLIGHT_READY is entered on the legs as they are now; `NothingIsStuck` |
| `x8_bench` | typed or scripted session, lossy line, exit, Ctrl-C, kill | 202 thousand | `BenchIsHonest`: outputs are held only while asked for, safety goes on only when they are given up; `RotorsRest` |
| `supervisor` | 12 defects one at a time, 3 configurations, every command, stops and revokes that fail | 311 thousand | `FaultIsClearable`: only set points a failed stop left active keep a fault; `StartIsFounded`: motion and flight start from a shape and a lock that are current; `NoFalseAlarm`: what guards let in, the monitor does not at once condemn, the known gaps apart; `PilotKeepsControl`: a flight ends in FAULT only over a stop or revoke that failed |

The coordinator, the count detector and the frame are functions of a state and an
input, so TLC evaluates them instead of exploring a graph: assumptions of the MC
modules take every small input after up to four others and find that each outcome
occurs and that what section 5 proves of them holds there. `CyclesReach`: five
outcomes of a cycle, and no bundle from a latched one. `CountsReach`: a contact
confirmed, released and tripped, and no answer after a trip. `FramesReach`: the
three kinds of command and their torque. The two specifications of
`LandingSession`, whose inputs are unbounded, are proved about and not run.

### Bounds

* `MaxHistory`, `MaxReloads`: a request needs at most the record it makes, the
  diagnostic of a failure and the FAULT follow-up; two callers and two records
  before a request reach nested refusals, failed commits and a FAULT behind them.
* `MaxUplink`: the longest answer to one F446 line is two replies; one more
  stands for an unread earlier one. A firmware reply waits for room.
* `MaxFlight = 1`: messages of the arm gate in flight each way. Best-effort
  sends without room are lost, which a radio may do at any time. `Lease`,
  `AckWait` and `Ttl` are one tick: the three can end in any order around a
  transition. The proofs of section 5 hold for every value of the four.
* `MaxLeases = 2` tells the first and last lease from the others; three
  processes are an owner, a rival and a third that finds the lock free.
* `MaxCallbacks = 2` lets one callback overtake another, on either side of the
  hand-over fence or of the write that reaches a hold. Operations of the
  LowCmd owner follow one another without bound.
* `Autoland`: each dwell is one or two ticks, so that it can be broken before
  and after it is complete; the completion deadline is one longer than the
  longest dwell.
* `ResidualSink`: `LastSequence = 1` gives a stage and a later one, one
  generation one reconnection, `MaxTtl = 2` a lease that ends before, at and
  after its command's deadline.
* `LandingRuntime`: two snapshots are the policy in use and the one that
  replaces it, two contact changes a policy that is outdated twice. The state
  graph has no deadlock.
* `X8Bench`: `MaxQueue = 3` messages each way hold a stale answer, the one that
  is waited for and one more.
* Deadlock is checked except where the system may really stop: a machine nobody
  asks anything, a closed console, a bench that has ended, an arbiter whose
  processes are poisoned, a vehicle that stays in FAULT.

### Assumptions of the models

* `Prompt`: what a line makes the firmware print is parsed before the 50 ms
  post-command delay of its writer is over. Without it an answer to an older
  line could be taken for a newer one's, and `StopHonest` fails: the bridge tells
  answers apart only by time. Switches of an instance (`Polls`, `Cancels`,
  `Garbles`, `Unplugs`, `Losses`) turn on one kind of disturbance; with garbled
  lines two corrupted stops and a clear-fault before the firmware's time-out
  leave the motor turning in BOOT_SAFE, and so does a move that was cancelled
  between its command and the reply: `clear_fault` does not look at the duty.
  `MotionIsConfined` excepts both.
* `Morphology`: the operator is slower than the poll. When the prompt comes back
  (`Return`), what the F446 has printed is read and, with the poll on, a fragment a
  cancelled writer left has been completed and discarded (`Drained`). A console
  that signals can reach has its poll. An F446 that was disconnected is not
  connected again.
* Messages of the arm gate do not travel for longer than a tick, and the event
  loop and the script do what is due before the next one.
* `Supervisor`: at most one defect at a time; the stick is looked at only in
  flight; a call to the F446, the gate, the LowCmd owner or the landing is one
  step with each of its outcomes, and no landing starts with LowCmd configured
  (F:3224). Landing compliance and LowCmd are not enabled together.
* `Console`: FLIGHT configuration and writing allowed; no telemetry lag of the
  armed flag; the two stops of a close are one; deadlines are longer than
  `go2_timeout_s`, so a sample as old as the fence is stale when one passes.
* `X8Bench`: motors are not told apart; an answer that is not lost arrives
  before the wait for it ends.

### Fairness

* `StateMachine`: weak fairness of a commit task and of its caller's return. The
  event loop runs ready tasks; the manager bounds every subscriber and entry
  action with a time-out.
* `F446Link`: weak fairness of a coroutine whose wait is over; strong fairness
  of taking a lock, since asyncio's locks are first come, first served; strong
  fairness of a deadline, since the loop reads the clock in every round; weak
  fairness of the firmware's move time-out, which counts in its main loop. The
  limit switch has none: the mechanism may be stuck.
* `Morphology`: the manager's own coroutines, as above. Neither the operator nor
  hazards have fairness.
* `LowCmdOwner`: weak fairness of the lifecycle operation that is under way.
  Every wait of it has a deadline and the SDK's requests have time-outs. Nothing
  is assumed of a DDS write, of a Close or of the callbacks, so `LifecycleEnds`
  covers a write that never returns.
* `GroundArm`: the bridge, gate, operations and commits that are ready; strong
  fairness where a few beats and keepalives a second leave room in between.
* `Autoland`: the tick and the operation it interrupts, commits, and time.
* `ResidualSink`: the steps of the clear transaction, of a send and of its
  callers; nothing of the link or of the controller.
* `LandingRuntime`: the rotor side of a trip, the send it may have to wait for
  and the safety pass; nothing of the legs' owner.
* `Console`: transitions, the tasks' own steps and the deadline of the wait,
  weakly; the tick strongly, as asyncio's lock serves it in order. Operator,
  pilot and samples owe nothing.
* `X8Bench`: the flight controller serves and expires, the process goes on and
  reads; the line may lose everything.

## 4. Where the code differs from its documents

No run expects a violation; these are the disagreements the modelling met. The
models follow the code.

* F:3537: losing the Pixhawk's heartbeat in AUTO_LANDING normally ends in FAULT,
  not in FLIGHT_MANUAL: the abort has to stop the set points, and the bridge
  cannot confirm the fallback mode without a heartbeat
  (`bridges/pixhawk_mavlink_bridge.py:521`, `AUTOLAND_SETPOINT_STOP_FAILED`),
  against `docs/STATE_TRANSITIONS_ZH.md:35` (any takeover or abort returns to
  FLIGHT_MANUAL); F:3744 lists `PIXHAWK_TIMEOUT` as not escalating. `PilotKeepsControl` excepts a failed stop or
  revoke for this reason.
* F:6344: set points whose stop failed still count as active in FAULT, where
  `EXTERNAL_SETPOINT_OUTSIDE_AUTOLAND` (`safety/safety_monitor.py:574`) refuses
  `fault clear` until a `stop` or a `autoland abort` succeeds. `FaultIsClearable` says
  that nothing else does.
* F:4049: `clear_fault` succeeds though the entry of BOOT_SAFE failed to stop the
  set points: the state is FAULT again, with no violation on record.
* F:333: leaving FLIGHT_READY revokes the arm gate; where the gate does not
  acknowledge, a take-off the pilot has begun ends in FAULT (`RevokeFails`).
* F:3806: the entry into compliance from FLIGHT_READY is dead code: the touchdown
  flag it asks for is set only after TOUCHDOWN_VERIFY was entered (F:5419) and
  cleared whenever FLIGHT_READY is (F:363, 4768). `TickComplies` therefore starts
  in TOUCHDOWN_VERIFY only.
* `bridges/f446_text_bridge.py:529`: `stop` decides on the last parsed status
  and writes after waiting for the write lock; a limit found in between is
  erased by the `stop` line, against the comment at line 524.
* `bridges/f446_text_bridge.py:526`: `stop` returns `F446_ALREADY_STOPPED` while
  the command of a move is still queued; the tick enters FAULT and the motor
  starts afterwards, against `docs/STATE_TRANSITIONS_ZH.md:18`.
* `aerogo2_arm_gate.lua:140`: after a rejected arm the next keepalive reopens
  the gate, against the script's own message (line 222: authorize again) and
  `docs/STATE_TRANSITIONS_ZH.md:72`.
* `bridges/go2_lowlevel_sdk_bridge.py:533` (also 540, 607, 644): a guard
  time-out between the arbiter's grant and the commit of the publisher leaves
  the epoch granted with no owner recorded, against the docstring at line 351.
  The host lock stays taken: the loss is of availability until a restart.
* F:3799: once recovery has fenced an impact-aware landing the tick no longer
  serves the pilot's takeover until touchdown or the completion deadline,
  against `docs/STATE_TRANSITIONS_ZH.md:36` and `README.md:24`.
* F:3768: with LowCmd holding the legs, the return to FLIGHT_READY after an early
  disarm is refused (`transition_guards.py:1056`), the exception ends the monitor
  and FAULT follows, against `docs/STATE_TRANSITIONS_ZH.md:34`.
* `landing/impact_aware/multirate.py:1166`: `run_once` returns a stored failed
  fallback instead of retrying, against the comment at line 1051.
* F:3371: `AUTOLAND_CONTROLLER_TIMEOUT` is re-emitted by the monitor for as long
  as it is active, and `clear_fault` refuses while it is, against
  `docs/STATE_TRANSITIONS_ZH.md:42` and `README.md:564`.
* F:2399: a maintenance motion clears the operator's endpoint mark only after the
  bridge accepted it; a motion that is not acknowledged, or Ctrl-C, keeps a mark
  that may no longer be true, against `docs/F446_CALIBRATION_ZH.md` section 5.
* F:5914: the operator's confirmation of the joint lock is not cleared on leaving
  a flight state; a later loss of the lock in telemetry is masked by it.
* X8 bench: `README.md:356` (safety is restored) fails when Ctrl-C hits the retry
  of `safety off` whose ACK was lost, or `safety on` before its ACK
  (`src/pixhawk_x8_cli_diag.py:2066`).
* `NoFalseAlarm` excepts two gaps of the guards: HOMING_TO_WALK is entered
  without ground proof and then faulted; FLIGHT_READY or BOOT_SAFE left while
  authority is being given back faults with
  `GO2_CONTROL_AUTHORITY_TRANSITION_TIMEOUT` on the next tick.

## 5. Proofs

`tlapm` checks the proof modules; the theorems hold for every value of the
constants that satisfies the named assumption of the module
(`StateMachineAssumption`, `GateAssumption` and the like: bounds are naturals,
deadlines at least one tick). TLC checked every inductive invariant below, whole,
on the state space of the run before it was proved.

| run property | theorem | holds for every |
|---|---|---|
| `CommitsAreSound` | `ManagerProofs!CommitsSound` | caller set, number of subscribers, history bound |
| safety of `ImplementsContract` | `ManagerProofs!RefinesContract` | same |
| `ShapeIsKnown`, `MotionIsConfined`, `StopHonest` | `MorphologyProofs!ShapeKnown`, `MotionConfined`, `StopIsHonest` | set of coroutines and length of the line; poll, cancellations (`StopHonest` without, the others with the poll), corruption, unplugging; all under `Prompt` |
| `LegsStayHeld`, `OwnerIsKept`, `LockIsCausal` | `ManagerProofs!LegsHeld`, `OwnerKept`, `LockCausal` | interleaving; `Console` has no constant |
| `RevokedStaysShut`, `AuthorizationFollowsMode` | `GroundArmProofs!RevokeIsFinal`, `AuthorizationLeaves` | lease, wait, life and link capacity |
| `OneCommander`, `AuditCounts`, `NoOrphanLock` | `LowCmdOwnerProofs!Exclusive`, `AuditHolds`, `LocksReturn` | number of processes, callers and epochs |
| `Custody`, `ReleaseInOrder`, `HoldIsGenuine`, `RevokeMeansHold` | `LowCmdOwnerProofs!CustodyHolds`, `ReleaseOrdered`, `HoldStaysGenuine`, `RevokeLeavesHold` | number of callbacks in flight |
| `FencedIsQuiet`, `ImpactIsNoLanding`, `ExitIsEarned` | `LandingProofs!FencedStaysQuiet`, `NoLandingFromImpact`, `ExitsAreEarned` | debounce, dwell and deadline |
| `RegisterIsBounded`, `ImplementsLease` | `ResidualSinkProofs!RegisterStaysBounded`, `SinkImplementsLease` | sequence, lease, lead, generation and caller set |
| `ConfirmedFallbackHolds`, `LegsMatchRotors`, `OldResidualIsHandled` | `LandingProofs!FallbackHolds`, `LegsFollowRotors`, `StaleResidualIsHandled` | number of snapshots and contact changes |
| `BenchIsHonest` | `X8BenchProofs!BenchStaysHonest` | length of the line, from 3 messages on |
| `FaultIsClearable`, `StartIsFounded`, `NoFalseAlarm`, `PilotKeepsControl` | `SupervisorProofs!FaultClearable`, `StartFounded`, `GuardsAgree`, `PilotStaysInControl` | set of defects and of configurations |

Of the modules that no run explores:

| about | theorems | hold for every |
|---|---|---|
| a frame of joint commands | `LowCmdOwnerProofs!FrameIsBounded`, `SlotsAreExact` | configuration that `actuation_readiness` passes, target, feedback, time since the last frame |
| cycles of the coordinator | `LandingProofs!FailureStays`, `BundleStaysWhole`, `GainStaysEarned`, `ResidualStaysScaled`, `ContactStaysDwelt`, `TouchdownStaysKnown`, `PreviewCountsOnce` | feet, rotors, dwells, gain steps, length of the session |
| samples of the count detector | `LandingProofs!CrossingStaysKnown`, `TripStaysSilent`, `ContactStaysSampled` | feet, dwells, gap, age, number of samples, tick range |

**ManagerProofs, the state machine.** `TypeCorrect` is inductive by itself.
`OneCommit` and `VerdictHolds` need each other: a second commit can only be
excluded because the flag is up exactly while one is in flight, and a verdict is
only safe because no other commit writes the state. Their conjunction with `TypeOK` (`MachineInv`) is
the inductive invariant. `AuditTrail` is proved on top of it: a step appends a
record that starts where the path ends (`TransitionExtendsPath`) or one that is
not permitted (`NotedKeepsPath`). `RefinesContract` shows that every step of the
tasks is a step or a stutter of `GuardedStates`; it needs that a commit that has
not begun has not failed.

**ManagerProofs, the console.** `Console` has no constant, so the instance TLC
checks is the whole model; the proof says why the properties hold, and does not
depend on enumerating it. `ConsoleInv` is built in layers, each kept by every
step given the ones before it.

* `Kinds`, `PlaceInv`: which command of which task can stand at which await.
* `Owning`: only the shell's acquisition has the owner acquiring, only its
  release has it releasing.
* `LegsStayHeld` is inductive on top: a release shuts the gate before the owner
  lets go, and an authorization opens it only over an owner that holds.
* `GroundInv`: a transition that was accepted still starts where it was granted
  (`Sources`), and the states in which Sport commands, or which are about to be
  entered, have no owner pending (`Unowned`).
* `AloneInv`: `SportIsAlone` and `NoOrphan`. A task goes to speak to Sport only
  where no owner is pending (`Unowned`, or its own check), and none becomes
  pending meanwhile: only the shell's `Acquire` makes one so, it waits until
  nobody holds the operation lock (`NobodySpeaks`), and the commands that speak
  to Sport without that lock are the shell's too. What leads to a closed console
  has dropped the owner and the links (`Left`).
* `CauseInv`: wherever a sample is believed it is of the time since Sport has
  the legs (`Believed`), the operator's word is given with the transition that
  rests on it (`Vouched`), and an accepted FLIGHT_READY has one or the other
  (`ReadyIsFounded`). A handover is accepted only while authority is being
  reacquired, when no sample behind the fence can be there yet; later ones are
  of after it.

`LockIsCausal` is an action property: of all steps only `WriteState` changes the
mode (`OnlyWritten`), and there `ReadyIsFounded` is what it says.

**MorphologyProofs.** The link, the manager and the wire are three layers that
each step keeps given the ones before: `LinkInv` (types, which coroutine can run
which stage, a move that has the port has the lock), `ManagerInv` (who asked for
the pending transition and where the command stands) and `WireInv` (a driven
motor seeks a limit, a recorded limit is where the mechanism is, `MirrorLags`).
`StepKinds` then reduces the steps of the system to seven, most of which leave the
wire alone. A signal may leave half a line in the firmware's buffer. `RxInv` says
that this matters only to a console that closes: otherwise the buffer is empty
(`Clean`), since the prompt that comes back finds it drained (`CleanBegins`), and a
stranded motion command is met by no state that rests, nor by one about to
(`Stranded`). On it rest:

* `History`: outside the delay after a move's own command, a firmware that seeks
  has told so and nothing else, and a limit that was told, or is about to be, is
  where the mechanism stands. This is where `Prompt` is needed: the delay is over
  only after the command's reply was parsed (`StartKnown`).
* `Believed`, `Verified`: what a query's answer says to the move that decides on
  it is still true then, and a move that succeeded leaves the mechanism parked.
* `ShapeInv`: a state that walks or flies, or is being entered, has the mechanism
  parked. Every such transition starts in a state of its kind, follows a verified
  move or adopts a shape that `History` makes true (`DueEarned`), and nothing
  but the shell's next move disturbs a parked mechanism (`StillStays`).
* `Quiet`, `BootQuiet`: without corrupted lines a fault is cleared only over a
  motor at rest.

`ShapeKnown` and `MotionConfined` assume `Prompt` and `Cancels => Polls`, and hold with
the poll, cancellations, corrupted lines and a pulled cable all on, which the run
does not combine, and for every command given after a refused close; `TypesHold`
and `MirrorHolds` assume nothing. `StopIsHonest` assumes `Prompt` and that no move is
cancelled, and TLC shows why: a move cancelled between its command and the reply
leaves the port with the motor running, and a stop whose answer came earlier
still reports success.

**GroundArmProofs.** `RevokeInv` is about messages: after an acknowledged revoke
nothing of the bridge is on its way that could open the gate (`NothingMine`),
because one client has the exchange (`OneHolder`), its revoke was the last thing
sent (`RevokeIsLast`), and a prepared exchange or a closed gate sends no
keepalive (`PreparedIsQuiet`, `ClosedIsQuiet`). `AuthorizationFollowsMode` bounds
what is left after the mode: `CallsOK` says what each client waits for and that
its wait and the queue of the link are bounded, `CommitOK` where the transition
stands, `LeaveInv` that outside FLIGHT_READY the gate is either about to be
revoked by the subscriber (`Leaving`) or fading with its lease (`Fading`), and
`FlagInv` that the manager's flag waits only for the tick that drops it.

**LowCmdOwnerProofs, the arbiter.** The properties are not inductive: a lease says nothing
of the file lock. `Covered` adds what the lock says about every use: an
unpoisoned descriptor is the operating system's lock; a lease or an acquisition
has such a descriptor; an epoch has at least a descriptor, which an ambiguous
unlock may have poisoned; two calls in one process are one. Exclusion follows
because the lock has one holder.

**LowCmdOwnerProofs, the owner.** What keeps the properties of the lock, the endpoint and
the service true is what the operation under way still holds, so the invariant
`OwnerInv` has, besides the types, `Recorded` (what outlives an operation: an
endpoint or an owner has the lock, an owner without a publisher has closed it, a
robot that was taken has an owner that knows the service), `Placed` and
`Progress` (which operation can be at a section, and what it holds there: no
writer from the fence on, the service given back once the hand-back is noted),
and `Crossing` (the handoff latch stays on until no callback is left that
crossed the Close; `UnlockIsLast` needs it). The stream is one lemma: the writer
and the callbacks change neither the owner nor the latch. The second part proves
the safe hold. `HoldInv` is inductive relative to `OwnerInv`: `Mailbox` (a hold
leaves no target behind it), `Running` and `InWrite` (what the writer took before
it let go of the guard), `OnTheWire` and `Unheld` (a claimed hold is the last
frame), `Stopped`, `FrozenHoldStands` (after the fence nothing replaces it) and
`Revoked` (what a revoke that waits has already established).

**LowCmdOwnerProofs, the frame.** `PositionInReach`: the interval a position is taken
from is never empty and lies within the range and one step of the last command,
which was itself in range (`SlewInReach` for the target). `FeasibleFits` is the
argument of the torque: a position the budget allows keeps the sum of the terms
within the ceiling, since stiffness times a quotient rounded down is at most the
budget. So the reduced gains are sent only when the feedback is of no use; the code's
second test of the torque never fires but for rounding. Where no position fits,
the factor makes the sum equal to the ceiling.

**LandingProofs, Autoland.** The state machine and the locked operation are two
processes: a transition asked for by one operation is still being committed
while others come in between. `AutolandInv` ties them together in layers.
`FenceInv`: whose each pending transition is (`Requests`), that nobody puts up a
fence between the preparation of a landing and its first update (`Unfenced`), and
that nothing is sent between the last stop and the end of the operation
(`Quiet`). `ImpactInv`: a latched impact ends the landing (`Latched`), and once
it is no longer latched airborne is unconfirmed until the vehicle has flown
(`Remembered`). `DwellInv`: which kind of landing it is stays with its cycle
(`Selected`), and the premises of an exit outlive the wait for its commit
(`Earned`), since a dwell that is long enough stays so while time passes.

**ResidualSinkProofs.** The register promises `ResidualLease` with a refinement
mapping that reads spent and reachable sequences from the packets, the stage and
the watermark. `SinkInv`: the fields (`Fields`), which packets may be on their
way (`Packets`), that stages are sent in rising order (`Ordered`) and the newest
is the caller's own (`NewestIsMine`), that no stage is sent while a clear is
under way (`NoStageMeanwhile`), that a confirmed clear's watermark covers every
older stage (`Covered`) and that every lease is within its command's deadline
(`InTime`). Every step of sink, link and controller then maps to a step or a
stutter of the contract. `ClaimIsTrue` and `NeverReplayed` are what the contract
itself implies.

**LandingProofs, LandingRuntime.** The hard part is that cancelled work still takes
effect: a residual may come up long after its send was cancelled, a joint target
long after the revoke was asked for. `RuntimeInv` says until when each of them
can, and that the second clear and the locked part of the revoke come after
that: `Latching` (a fault is latched from the first trip on and nothing is
published then), `Activation` (the one activation is the worker's, the supervisor
knows of it until it has drained, and what it brought up is its own),
`RotorSide` (a clear that succeeds without an activation, or after it has
drained, is final) and `LegSide` (behind the revoke's lock no submission is left
and none can come). `LegsMatchRotors` and `OldResidualIsHandled` are part of the
induction.

**LandingProofs, the coordinator.** `SessionInv` says of the state what one cycle
relies on: a foot is in contact when, and only when, it has a time of touchdown,
no mark of the detector is in the future and a mark means the foot was beyond its
threshold in the last sample (`DetectorInv`); the gain is no more than the last
result's, and a failure stays latched. `Sound` is what one call of `Cycle` gives
from there. `CycleSound` proves it path by path: every path without a bundle goes
through `Withheld` (`WithheldSound`), which drops the gain, and legs that had
stepped are restored to what they were. `PreviewCountsOnce` is about the previews'
tokens: a commit renews those of its legs, and so does a reset.

**LandingProofs, the count detector.** `CountInv` has, besides the types, `FootInv`
(which times and counters a foot on either side of its threshold can have) and
`Spread`: n samples in a row span at most n - 1 gaps. A dwell is therefore passed
only with enough samples, none of them missing for longer than the gap.

**X8BenchProofs.** What is held is tied to the command that runs: a loop that
repeats an output was asked for it (`LoopsAsked`), a command that switches the
safety on has given every output up (`SafeIsQuiet`), and what waits for an answer
has a request (`HasRequest`). What the bench claims of the safety is tied to what
is under way: once a safety-on was sent into a line that carried no other
switching, nothing but a safety-on can reach the controller and nothing but its
answer the bench (`AskedIsServed`), so the claim stands (`ClaimStands`).

**SupervisorProofs.** The run lets 12 of the 27 defects occur; the theorems hold
for all of them, and for each thing that may be enabled.

* `FaultClearable` needs the types only: with the devices well and Sport in
  command no group of rules raises anything but the record of a refused
  transition, which blocks nothing - and, while a stop is still owed, the rule of
  set points outside a landing, which does.
* `StartFounded` rests on `StartInv`: the operator's word is outdated only while
  a transform turns the mechanism or stands with an F446 in fault, where nobody
  reads it (`StaleWhileTurning`), a mark never is, and legs that gave way are
  locked before a state of the flight is entered (`LockedForFlight`).
* `PilotStaysInControl` adds `OwnerInv` (the legs are with LowCmd, or on the way
  back, only where it is enabled) and `GuidedInv` (the Pixhawk is guided only in a
  landing or in the FAULT it ended in, and outside FAULT no failed stop is on
  record, so that one a step records is that step's own). In the air the monitor then raises nothing that
  ends the flight (`NothingEndsTheFlight`), and the guard of the way back to the
  pilot is open whatever the landing reads (`BackToThePilot`). What remains are the failures of
  the stops themselves (`AbortExcused`).
* `GuardsAgree` is about two readings, the one a guard judges and the one the next
  tick takes. They differ in few fields (`Alike`), of which the rules make the
  same (`AlikeAgree`). A settled state says which groups of rules raise nothing
  (`SettledSays`); with what the guard of the target adds, they raise nothing
  there either (`TransformSettled`, `WalkSettled`, `ReadySettled`, `FoldSettled`,
  `FlightSettled`, `CompliantSettled`). Two conditions come from neither and are
  proved as `EntryInv`: BOOT_SAFE has no operator's word, so a shape adopted there
  is the firmware's, and an authorization under LowCmd lives only while LowCmd has
  the legs, so that arming finds an owner. FLIGHT_MANUAL is entered through
  guards that ask for neither the shape nor the lock: there it is the settled
  state before that carries the proof. The two gaps the property excepts are the
  only transitions for which neither guard nor state does.

**Only model-checked.** Every liveness property (`CallersAreFreed`,
`TransformEnds`, `MotorComesToRest`, `ArmingSettles`, `LifecycleEnds`,
`LandingEnds`, `CallsEnd`, `RotorSideEnds`, `NothingIsStuck`, `RotorsRest`) and the
liveness half of `ImplementsContract`: fairness and `ENABLED` are out of the
prover's reach. All other properties of the runs are proved.

## 6. Plan

More of the system: manual F446 positioning and parameter writes with the
firmware's remaining commands; connect and subscription generation of the LowCmd
owner; the health verdict of the multi-rate runtime and the validation of stage
feedback; the ordered event sink.

## 7. Not modelled

Optimisation, kinematics and contact models of the landing and the descent
filter (real arithmetic); configuration parsing; rendering and history of the
console; fakes and the simulated world beyond the contract they state; parameters,
DroneCAN probes and reports of the bench; telemetry parsing. The reason is with
each component in `PROJECT.json`, and a component that is partly modelled names
what is left out.
