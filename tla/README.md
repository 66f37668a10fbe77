# Verification of wings-control

TLA+ models, TLC runs and TLAPS proofs for the Python implementation under
`src/wings_control`.  wings-control runs beside an LLM inference engine (vLLM,
vLLM-Ascend, SGLang, MindIE): it writes the script the engine container runs,
supervises a proxy and a health service in front of the engine, and in a cluster
brings up one engine over several nodes.

Paths below are relative to `src/wings_control/`, "l." is a line of the file
named before it.

## 1. Inventory

### Admission gate: `proxy/queueing.py`
* State: two semaphores (Gate-0, Gate-1), a bounded `asyncio.Queue` of waiters
  with one future each, the table `_holders` from task id to layer.
* Operations: `acquire`, `release`; the timeout of `wait_for`; overflow by
  `block`, `reject` or `drop_oldest`.
* Hard: `put` and `wait_for` suspend, a future is resolved before its task runs,
  a timer may fire in between; a waiter that timed out stays in the queue.
* Correct when: slots are conserved, no waiter is lost or waits beside a free
  slot, the oldest is served first, nobody overtakes, each request is answered.

### Request forwarding: `proxy/gateway.py`
* State: per request the try it is at, the open response of the engine and the
  slot, which is owned by the *task* that took it.
* Operations: admission in early or held mode, the retried call, streaming and
  whole answers, errors.  It calls the gate at both ends of a request.
* Hard: many exits (retry, connect error, answer, exception in the body, client
  gone), the server may run a body in a task of its own.
* Correct when: in held mode every request being served owns a slot and leaves it
  when it ends, every opened response is closed, every request ends.

### Health state: `proxy/health_router.py`, `proxy/health_service.py`
* State: status, failure counters, the SGLang scores, the times of the first probe
  and of the last success.  Every gateway worker and the health service keep
  their own copy; copies do not talk to each other.
* Operations: one probe per tick and the advance of the state; `/health` maps
  state and time to 200, 201, 502 or 503.
* Hard: thresholds on probes, milliseconds and scores, two places that decide on
  degradation, counters that are reset on some paths.
* Correct when: short outages are tolerated, long ones reported, an engine that
  was ready is never again reported as starting.

### Launcher: `wings_control.py`
* State: the managed children (handle, time of the last start, crash count, end of
  the backoff), launch attempt, stop event.
* Operations: launch attempts, `_start`, `_stop`, `_restart_if_needed`, the daemon
  loop, signals, the three roles.
* Hard: children exit between two polls, crash at start, a signal during a restart.
* Correct when: no child is lost, none is left behind but by a launch attempt that
  failed, the backoff is kept, an exit is acted upon.

### Node registry: `distributed/monitor.py`, `distributed/worker.py`
* State: at the master the nodes with their last heartbeat and count of misses;
  at the worker its attempts, its backoff and its node id (new at each start).
* Operations: registration with retries, heartbeats, the check round, removal.
* Hard: lost calls and lost answers, two clocks, restarts of either side.
* Correct when: a node is charged only for its present silence, a silent node
  goes in bounded time, a few lost calls do no harm.

### Distributed rollout: `wings_control.py` (master and worker mode), `worker.py`
* State: the registration poll, probes and posts of the master's thread; at a
  worker the requests it is working on and `start_command.sh` on the volume
  it shares with its engine container.
* Hard: calls that time out and are still worked on, retries, restarts, a file
  read by one container while another writes it.
* Correct when: no two pods run one rank, none starts before all have registered,
  a rollout reported as good is good, it ends.

### Engine script: `core/wings_entry.py`
* State: at run time `advanced_features.json`, the engine's process, the process id
  of the analyzer; across starts of the container, the files on its volume.
* Operations: overrides, installations of patches with their fallbacks, start,
  wait, one fallback or retry after a crash, the trap, the end.
* Hard: `set -e` with a trap, files written by the launcher, the script and the
  analyzer, SIGTERM at any point, a container that starts again on old files.
* Correct when: one engine runs at a time, the flags do not claim what the engine
  has not got, a failure is recorded, the engine is started whatever was installed.

### Log analyzer: `log_analyzer/`
* State: the place in the log, phase and progress, the time without a line, and
  the last line of the progress file.
* Operations: catching up with the log, following it, timeouts with a probe.
* Hard: a log written by two engines in turn, errors that end the analysis,
  silence that is or is not a failure, a progress file with two writers.
* Correct when: a completed start is one of this container, an engine that serves is
  reported, and is not reported as failed for its silence (where the probe reaches it).

### Launch plan: `core/config_loader.py`, `core/wings_entry.py`, `engines/vllm_*.py`
* State: the parameters, merged once from defaults, arguments, file and environment and
  then read and *written* by the adapter, twice; flags, commands and patches.
* Operations: choice of engine and backend, merge with its guards, the adapter's
  setters, the fallback or retry command and then the main one, the patches.
* Hard: some seventy rules over model, hardware, engine and switches; order of the
  layers; a shallow copy; one decision taken in three places.
* Correct when: the commands do not disturb each other, the fallback is plain, what
  is told, installed and started agrees, sizes fit the cards, ranks are shared out,
  what was given arrives and what is forbidden does not, with the exceptions of section 7.

### Components left out
* `distributed/scheduler.py`: chooses a node from the registry and uses it after it was
  read; on failure another one, up to three attempts.  Its one user,
  `/api/inference`, has no counterpart on the worker.
* `rag_acc/`: one request after the other, then a combined one; its queue
  (`non_blocking_queue.py`) is used by nothing.
* The exchange of device addresses in `engines/mindie_adapter.py` (TCP, with retries).
* `proxy/proxy_config.py`: reading the environment, and the quota split.
* `proxy/monitor_proxy.py`: a stateless pass-through.
* `core/start_args_compat.py`, `core/port_plan.py`: parsing, no state that outlives a call.
* `engines/sglang_adapter.py` and the rest of `engines/mindie_adapter.py`: they render the
  parameters they get.
* `utils/` but for the shared-volume files: environment, hardware lookup, logging.

### How they interact
The launcher makes the launch plan, starts the proxy (gateway, gate and a health
monitor per worker) and the health service, and writes the engine's script, which
starts the log analyzer beside the engine; the health service reads what it writes.  Clients reach the engine
through the gateway; the platform asks the health service.  In master mode the
launcher also runs the API with the registry and scheduler, and the thread that
sends the start commands; in worker mode it runs the worker's API, registration
and heartbeats, and the health service only.

## 2. Modules

| Module | Code | Uses |
|---|---|---|
| `SlotPool` | abstract promise of the gate | |
| `QueueGate` | `proxy/queueing.py` | refines `SlotPool` |
| `QueueGateProofs` | theorems about `QueueGate` | extends it |
| `Gateway`, `MC_Gateway` | `proxy/gateway.py` | instance of `QueueGate` |
| `GatewayProofs` | theorems about `Gateway` | extends it, instance of `QueueGateProofs` |
| `HealthState` | `proxy/health_router.py` | |
| `HealthStateProofs` | theorems about `HealthState` | extends it |
| `Supervisor`, `MC_Supervisor` | `wings_control.py`, processes | |
| `SupervisorProofs` | theorems about `Supervisor` | extends it |
| `Lease` | abstract promise of the registry | |
| `Registry` | `distributed/monitor.py`, `worker.py` | refines `Lease` |
| `RegistryProofs` | theorems about `Registry` | extends it |
| `Rollout`, `MC_Rollout` | `wings_control.py`, `worker.py`, start of the engine | |
| `RolloutProofs` | theorems about `Rollout` | extends it |
| `LogAnalyzer` | `log_analyzer/log_analyzer.py` | |
| `EngineStart`, `MC_EngineStart` | the script of `core/wings_entry.py` | extends `LogAnalyzer` |
| `EngineStartProofs` | theorems about both | extends `EngineStart` |
| `LaunchConfig` | the merge of `core/config_loader.py` | |
| `LaunchCommand` | `engines/vllm_adapter.py`, `vllm_distributed.py` | extends `LaunchConfig` |
| `Launch`, `MC_Launch` | the plan of `core/wings_entry.py` | extends `LaunchCommand` |
| `LaunchProofs` | theorems about `Launch` | extends it |

The comment at the head of each module names what a step is and what is left
out.  The `map` of `PROJECT.json` gives the lines of every definition.  The
definitions whose comment begins with "Mutant" are plausible mistakes; with one in
place of the original, the property it is listed for fails.

**QueueGate.**  One worker is one event loop, so a step is what a task does between
two suspensions.  `AcquireDirect`, `RefuseDisabled`, `RefuseFull`, `Enqueue`,
`EnqueueDropping` and `BlockInPut` are the first stretch of `acquire`; `ResumePut`
continues after `put`; `Timeout` and `InheritOccupy` are the two ends of
`wait_for`; `Release` is `release`, with the loop that skips dead entries and hands
the slot over.  The settings are a variable that never changes, so that one run
covers all of them.

**SlotPool** knows only where a request stands and which slot it owns.  In the
refinement mapping a slot belongs to a waiter from the moment its future is
resolved, before its task has run.

**Gateway** adds the life of a request to the gate's steps.  In early mode the slot
is given back in the step that took it, in held mode at each exit.
`StreamInChildTask` says which task iterates a streaming body: the choice of the server.
The repository serves with uvicorn, which announces ASGI 2.3, and for that Starlette
iterates the body of a `StreamingResponse` in a child task, so TRUE is the deployed case and the one
the runs use.  `release` then looks for the slot of a task that has none.

**HealthState.**  A tick is one step, as nothing after the answer of a probe is
awaited.  Time passes between any two ticks, in quarters of the probe timeout.
`Code` is what `/health` answers.

**Supervisor.**  The launcher is one thread with a step for each process it looks
at; exits, time and signals come between any two steps.  `orphans` counts running
children no record refers to.

**Registry.**  Time counts in units of 7.5 s.  A call arrives or not and its answer
arrives or not.  A call is the instant at which it arrives or is given up; the time it takes
before and after that (`CallTime`: 10 s to connect and 10 s for the answer,
`HEARTBEAT_TIMEOUT`) is added to the waits, up to twice where it arrives.  A worker that
restarts is another node.

**Lease** keeps of a member only the time since it was heard of.  It has no counter and
no check rounds: those who have been silent for longer than `Patience` are removed at some
moment of their own, each within `Grace` of it.

**Rollout.**  The master's thread, its API, the workers' FIFO handler of start
commands with its two-step write, and the engine containers.  When workers
register or are removed is left open: that is `Registry`'s matter.

**EngineStart** is the script with the analyzer beside it.  The engine may go as far as it likes
while the analyzer boots or catches up.  An engine is `chatty` while it writes lines
no pattern matches more often than the analyzer's timeout: each of them sets the silence to 0
(`_monitor_new_content`), so while it is there is no timeout.  A plan is `reached` when
the address the analyzer probes is one the engine answers at in time; where it is not,
`Answers` leaves open what the probe of a serving engine finds.

**Launch** takes one launch through the plan of `core/wings_entry.py`: the merge
(`LaunchConfig`), the flags, the spare command and the main one (`LaunchCommand`, which
writes to the parameters both share), the patches.  The launch is chosen in the initial
state.

## 3. What the runs show

| Run | Result | States | Shows |
|---|---|---|---|
| `gate` | holds | 88,555 | conservation, order, no barging, refusals only when busy, refinement, every waiter answered, unless `put` blocks (section 7) |
| `gateway` | holds | 94,291 | who is served owns a slot and leaves it but in one way, slots and responses add up, requests end |
| `gateway_child` | violated | | in held mode the slot of a stream does not come back |
| `health` | holds | 52,856 | tolerance, reporting and agreement of the health state |
| `supervisor` | holds | 107,543 | children, backoff, giving up, exits and signals |
| `supervisor_worker` | violated | | worker mode does not restart its health service |
| `registry` | holds | 3,473,881 | charging, refinement of the lease, two lost calls survived |
| `rollout` | holds | 541,216 | ranks, order, truth of the report, termination |
| `startup` | holds | 725,862 | one engine at a time, honest flags, fair verdicts where the probe reaches, scripts that give up and engines that fall silent reported |
| `startup_accel` | violated | | the analyzer's lines in the flags file end the script before the engine |
| `startup_probe` | violated | | an engine that serves on the Pod IP is reported as failed for its silence |
| `launch` | holds | 480,056 | the seven properties of the launch plan, over 91,260 launches |

A property that names several (`AccountsBalance`, `EnginesTakeTurns`, ...) is the
conjunction of the type invariant with the relations listed above it.

## 4. Bounds

* `gate`: five requests are two in their slots, two in the queue and one that
  arrives, the fewest with which every path of overflow, dropping and barging
  occurs; queues of none, one and two places; every policy with every overflow mode.
* `gateway`: three requests on one slot with a queue of one place, two tries: one
  serves, one waits, one arrives; bodies in child tasks.
* `health`: the thresholds keep the order of the code's defaults and are small
  multiples of a quarter of the timeout.  Clocks and counters stop one step past
  the largest threshold that reads them.
* `supervisor`: two services (one in worker mode), `MaxRetries` 1, backoff at most
  3 units; `CrashCap` is where 2^n reaches that.
* `registry`: the numbers of the code (30 s checks, 10 misses, 30 s heartbeats,
  backoff to 300 s, 30 attempts) in units of 7.5 s, calls of up to 22.5 s (the next
  multiple above twice 10 s), one worker, as workers share nothing but the
  check round, and two lives of worker and master.
* `rollout`: two workers, one worker listed twice, or none; two polls, probes and
  posts; two API crashes and one worker restart.
* `startup`: six launches, one for each way through the installations (no
  feature on a worker and with a probe that need not reach the engine, two patches, a dependency alone, the user's
  override, no installer); `MaxLog` 3 lines, enough for one of an earlier engine, one
  of this and one of the patches (lines that match no pattern are not kept, so an engine
  may go on with those); `MaxSilence` 2, a
  warning and a verdict; two starts of the container.
* `launch`: 15 models, one of each kind the code tells apart and a GLM-5.2 declared as an
  embedding, with their defaults from
  `config/defaults`; 13 hosts (nvidia 8 cards with each engine, without cards and with MIG;
  Ascend with 4, 8 and 16 cards, A3, 310); one node, two nodes, two with RoCE; every
  switch with every environment, every layer of parameters with every other, and a
  given type of the KV cache beside the switch that sets one.

Deadlock is checked except in `Supervisor`, `Rollout`, `EngineStart` and `Launch`, whose
programs end, and in `gateway`, where with every slot kept by a task that has ended and
every other request blocked in `put` nothing can happen any more.

## 5. Fairness

* `QueueGate`: a task that is ready runs, a timer fires, a holder ends its request.
  Nothing says that another request comes, nor that `put` wakes up.
* `Gateway`: in addition every call of the engine ends somehow.  The proxy does not
  enforce this for streams (their read timeout is `None`); it is an assumption
  about the engine or the client.
* `HealthState`: the monitor loop goes on (it catches every exception) and time
  passes.
* `Supervisor`: the launcher's thread runs and time passes.  Children owe nothing.
* `Rollout`: the master's thread runs; each of its calls has a timeout.  Workers and
  API owe nothing.
* `EngineStart`: the script runs (`ScriptStep`), and so does the analyzer (`Analyzes`), as
  processes of a running container do; it has no step while it waits for a timeout that the
  lines of a chatty engine put off.  The engine owes nothing, nor does anybody
  who signals or restarts.
* `Launch` has no liveness: it is a sequential program.
* `Registry` needs none: its bounds follow from the fact that a thread whose wait
  is over runs before the next unit of time.

## 6. Proofs

`QueueGateProofs`, under `QueueGateAssumption` (finitely many tasks, capacities in
Nat, `Dead` no task), for every number of tasks, every capacity and mode:

* `TypeCorrect`, `SlotsConserved`, `NoWaiterLost` follow from `IInv`, the
  conjunction of `TypeOK`, `WaitersTracked`, `OneStanding` and `SlotConservation`.
  `OneStanding` (a future has a result exactly until its task runs, and a task that
  holds a slot is not in `acquire`) is what the others lack to be inductive:
  without it a hand-over could overwrite a slot its receiver owns already.
* `NeverStranded` and `NeverBarged` need `PutInv` besides.  They are about the modes
  in which nobody blocks in `put`, and say so.
* `FirstComeFirstServed` follows from `IInv` for each action: what leaves the queue is
  its first live entry, and with no ticket left conservation says that all slots are owned.
* `NoWakeupLost` counts.  A `put` that drops several dead entries at once wakes as many
  blocked tasks, so the set of woken tasks grows by exactly the number of entries popped:
  a bijection between positions of `putters` and the tasks woken, since no task stands there
  twice (`WaitersTracked`).
* `GateImplementsPool` is the refinement: the initial states map to initial states,
  and each action maps to a step of the pool or a stutter.

`GatewayProofs`, under `GatewayAssumption` and `GateAssumption` (the gate's own), for any
number of requests, capacities and retries.  A step of the gateway is a step of the gate or
leaves the gate alone, so the gate's `IInv` holds of it; the invariant adds the types of a
request, `Apart` (a request being served is not in `acquire`), `TryLeft` and `ResponsesClosed`.

* `AccountsAlwaysBalance`: types, slots and responses add up, in both modes and whichever
  task iterates the body.  It counts a slot whose owner has ended as owned.
* `SlotsFollowRequests`, in both modes and whichever task iterates the body: who is served owns
  a slot, and leaves it on every way out but that of a body in a child task.  It assumes at
  least one slot; without any a request would wait even in early mode.
* `SlotsComeBack` says that no ended request owns a slot, and needs the body to be
  iterated in the request's own task, as `release` goes by the current task.  The deployed
  server does not (run `gateway_child`): the theorem shows that this is the only reason.
* `GatewayUsesGate`: the gateway is one of the gate's environments.  Early mode's slot,
  taken and given back in one step, is a step the gate does not see.  Hence
  `GatewayKeepsPromises`: the theorems about the gate alone, order and refinement included.
* `RequestsRunOut`: each step of an admitted request lowers `StepsLeft`.

`HealthStateProofs`, under `HealthAssumption`, for any thresholds, grace periods and bounds:
`TypeCorrect`, `DegradationAgrees`, `ShortOutageTolerated`, `StartsOnce`.  Degradation is decided
twice, when a failure is counted and when `/health` is asked, so the invariant says that status and
counter move together (`Linked`), that failures never outnumber the probes that failed in a row
(`Counted`), and that the warmup is started with the first success (`WarmedUp`).  The counter
stops at a bound in the model only; the assumption puts that bound past the thresholds.

`SupervisorProofs`, under `SupervisorAssumption` (no service listed twice) and `PowersAssumption`,
for any services, limits and thresholds: `EveryChildAccounted`, `NoStartInBackoff`,
`GivesUpInTheEnd`.  The invariant goes along the launcher's thread.  A running child has a
handle and a handle no backoff (`Held`); a launch attempt starts each process once, none being
left from the last (`Fresh`); what was polled or stopped earlier in this round is still down
(`Passed`), because only the thread itself starts a process.  The last is why giving up is right
although the polls are not simultaneous.  A failed attempt, the last one too, leaves at most one
child of each service that no record refers to, so at the end there are no more of them than
attempts that failed (`EndsItsChildren`).

`RegistryProofs`, under `RegistryAssumption`, for any number of workers and any
intervals: `NodesChargedForSilence` and `RegistryImplementsLease`.  Ages grow between
two checks while counts do not, so neither bound on a count is inductive; the invariant states
both for the time of the last check (`ChargedAtCheck`, `BoundedAtCheck`)
together with the part of the type invariant that concerns the master.  From them follows what the
refinement turns on: at a check the counter reaches `MaxMissed` exactly when the silence
exceeds `Patience` (`CheckedByAge`), and between two checks none has been silent for a check
interval longer (`WithinGrace`).  `TypeCorrect` adds
the workers, under `PowersAssumption`.  `TwoLostCallsSurvived` is a race between two clocks: the
silence so far and what is left of the worker's wait never exceed the waits there were since the last
call that arrived, the time of the calls included (`HeardOfInTime`), and a check removes a node only
when its silence exceeds `Patience`.  So it holds for any intervals and call times in which the
first (`LongestWait`) are not longer than the second, which it assumes: 210 s of waits and at
most 80 s of calls against 315 s in the code.

`PowersAssumption`, of `Registry` and `Supervisor`, says that the powers of two of the backoff are
numbers: the provers know no exponents, and TLC evaluates it.

`RolloutProofs`, under `RolloutAssumption` and `UniqueAssumption`, for any topologies, workers and
limits: `RanksStayApart`, `AllMetFirst`, `ReportIsTrue`.  That `Unique` leaves no duplicates is
induction over its fold, so it is assumed of the topologies and evaluated by TLC.  The invariant
follows a rank from the master's list through the request and the file to the container
(`Ranked`), since a retried or late request can arrive when the master is past it; `Met` ties
the list that is worked off to those who have registered; `AllDone` says of every worker
already passed without a failure that its file is whole and no request is left to truncate it.
`ThreadRunsOut` counts what the thread has before it (`StepsLeft`): the workers behind the current
one at their full price of probes and posts, and the attempts left with this one.

`RequestsRunOut` and `ThreadRunsOut` are the part of `EveryRequestEnds` and `RolloutEnds` that can be
proved: the steps are bounded whatever the others do.  That they are taken is fairness,
which only TLC's runs can use.

`EngineStartProofs`, under `PlansAssumption`, `BoundsAssumption` and
`SilenceAssumption`, for every plan, any length of log and number of starts of the
container.  Its invariant has four parts, each kept by every step with the help of
those before it:

* types (`TypeCorrect`), with `Placed` and `Patient`: between two lives of the container
  no analyzer runs, an update belongs to the installation that comes first, and a
  running analyzer has patience left;
* the second engine (`OneEngineAtATime`): which engine there can be at each place of the
  script.  "Only after a crash" alone is not inductive: it must be known that the
  script is past its first wait;
* the flags (`FlagsAreHonest`): a feature that has failed and whose flag is still set
  belongs to the update that is due, so past the installations there is none; and
  from the restart on no flag is set;
* what "completed" means (`CompletedIsOfThisStart`): it is not enough to look at the
  record, since the analyzer completes from a line it has still to read.  The
  invariant says of every line of the log and of the analyzer's phase that what says
  "checking" or "ready" was written by an engine of this start, which needs that
  the old log is gone before the analyzer reads.

* the verdict (`AnalyzerIsFair`, for plans whose engine the probe reaches), with three parts more.  What the analyzer knows is what
  the last telling line it has read says (`ReadInv`); an engine that got as far as being
  checked has written the last telling line of the log (`ToldInv`), which needs that two
  engines never run beside each other; and the record says "completed" only when the analyzer
  has stopped, or still catches up behind a ready line (`EarlyInv`), after which it stops.

`LaunchProofs`, under `LaunchAssumption` (numbers of cards and nodes are integers, and a parallel
size someone wrote down is positive), for every set of models, hosts, topologies and
requests.  All seven invariants of the run are theorems.

* `GuardsAlwaysHold`: the guards come last in the merge, so the difficulty is in what
  follows: two commands are built from the merged parameters and write to them.  The proof
  bounds what building can add to the parameters (`BuiltKeys`), through every setter that returns
  parameters, and shows that no guarded key is among it (`CommandKeeps`,
  `BuiltKeysAreHarmless`); and it bounds what the adapter adds to its copy of them, which is the
  command (`AdapterKeys`), where the prefix cache of V4 Flash and GLM-5 is the one exception.
* `CommandsAlwaysIndependent`: the second command is built from what the first has left.
  The setters are taken one by one (which keys each leaves alone), then as the chain in
  which the adapter applies them: applied to its own result the chain changes nothing
  more.  With that, a command is a function of the launch in closed form, and the
  invariant `PlanInv` says so of every command there is, at every stage of the plan.
* `FallbackAlwaysPlain`, `FeaturesAlwaysAgree`, `GivenAlwaysReaches`: facts about that
  function.  They rest on where a value of the merged `engine_config` comes from: a layer wrote
  it or the launcher computed it (`Written`, `Computed`, `Traced`).
* `TopologyAlwaysFits`, `RanksAlwaysPartition`: arithmetic of products and quotients, for any number
  of cards, nodes and ranks, from the sizes that the merge and the chain can yield.  For DeepSeek
  FP8 these are 4 and 4 (`SoftFp8Sets`, `Fp8Sizes`), which fit 16 cards in all or, with
  a data parallel group over nodes, 4 in each (`Fp8Fits`).

Nothing about a run's properties is left to TLC alone but liveness (`EventuallyAnswered`,
`EveryRequestEnds`, `OutageIsReported`, `EventsAreHandled`, `RolloutEnds`,
`OutcomeIsReported`): liveness under fairness and `ENABLED` are outside what TLAPS proves.
`TwoLostCallsSurvived`, `SlotsFollowRequests` and `SlotsComeBack` have hypotheses, which the paragraphs
above name; the runs' constants satisfy those of the first two.

## 7. What the code does that its text does not say

Shown by a run (quoted in `PROJECT.json`, "findings"):

1. `proxy/gateway.py` l. 789: the body of a stream gives its slot back under the id of the
   task that iterates it, which under uvicorn is a child of the request's and owns none.  In held
   mode (`GATE_EARLY_RELEASE=false`) each streamed answer lowers the limit by one for good.
   The default is early mode, though l. 575 calls held mode the default.
2. `wings_control.py` l. 941: a process in its backoff counts as gone, so in worker
   mode the first crash of the health service ends the launcher.
3. `core/wings_entry.py` l. 848: the analyzer appends its lines to
   `advanced_features.json`; an installation that fails afterwards can no longer read the
   file, and `set -e` ends the script before the engine is started.
4. `log_analyzer/log_analyzer.py` l. 457: the probe that should keep a serving engine from being
   reported as timed out asks `BACKEND_HOST`, else 127.0.0.1, within 5 s; the engine listens
   on the Pod IP (`core/wings_entry.py` l. 131), and the script sets no `BACKEND_HOST`.

Definitions that fail when checked with the run's cfg, without a run of their own:

* `QueueGate`, `AlwaysAnswered` (`proxy/queueing.py` l. 335, under `FairSpec`; mode `block`
  without `drop_oldest`): l. 12 says that a request waits until woken or timed out, but `put` has no
  timeout, and entries that timed out fill the queue until a `release`; with no slot held, the
  request never wakes.  Three shallower effects of `block` are visible in `QueueGate`: a
  blocked request may be overtaken, one woken after a release may wait beside a free slot,
  and under the default policy `drop_oldest` overflow still drops (l. 110).
* `Rollout`, `ScriptRunWhole`: the worker writes its script without `atomic=True`
  (`distributed/worker.py` l. 194), and the engine container runs the file as soon as it exists, so
  it may run it empty; `wings_control.py` l. 507 gives that very reason for writing it
  atomically, on the master only.
* `Gateway`, `PersistentErrorNotRelayed` and `NonstreamNotRetried`: a 5xx that persists is
  relayed, where l. 342 speaks of an error; l. 529 retries nonstream requests, where
  l. 185 does not.
* `HealthState`, `TimeoutsAreConsecutive`: a failure of another kind does not reset
  `consecutive_timeouts` (`proxy/health_router.py` l. 391).
* `Supervisor`, `NoneOutlivesTheLauncher`: an attempt that raises never returns its list, so
  `_stop_processes` gets `[]` (`wings_control.py` l. 1209 to 1227) and the children it
  started run on, after the last attempt beyond the launcher's own end.
* `Registry`, `RemovedAfterMaxMissedLost`: three heartbeats lost in a row, not ten, remove a
  running worker, as its wait doubles with each (`distributed/monitor.py` l. 125).
* `EngineStart`, `ChattyIsReported`: any line sets the silence to 0 (`log_analyzer.py` l. 523), so an
  engine whose ready line no pattern matches is never reported while it goes on writing.
* `EngineStart`, `FailureStays`: the analyzer outlives the kill of its subshell and may write
  "running" or "warning" over a failure that the script has recorded.
* `EngineStart`, `ServingIsReported` without `~Overtaken`: where the start-up lines of a second
  engine follow the ready line of the first in the log that is caught up with (l. 499 to 513),
  "completed" is taken back to "running" and the analyzer stops.
* `Launch`, `FlagsAreTrue`: a flag is set and the main command is without the feature: `kv_offload` of
  GLM-5.1 with vLLM (the flag comes from `LMCACHE_OFFLOAD`, the connector is removed,
  `core/config_loader.py` l. 1066 and 1127), native offload in the distributed script, sparse
  KV on Ascend.
* `Launch`, `ComputedSizesFit`: DeepSeek FP8 on Ascend gets TP 4 and DP 4 whatever the cards.
  `core/config_loader.py` l. 611 says "from device_count", which is never in these parameters;
  l. 649 says that they are fixed.
* `Launch`, `PoolingReachesTheEngine`: a V4 Flash or GLM-5 model declared as an embedding gets the
  prefix cache back from the adapter.
* `Launch`, `FallbackDropsFeatures`: the fallback of a V4 Pro (w4a8) with KV offload, of a V4
  Flash on A3 and of GLM-4.7 W8A8 still has a feature, where the docstring of
  `core/wings_entry.py` l. 1285 promises none.
* `Launch`, `Glm51WithoutExpertParallel`: in a distributed start of GLM-5.1 on Ascend the rule
  that forces expert parallelism off is followed by one that sets it
  (`engines/vllm_adapter.py` l. 1802 and l. 2230).

Seen while modelling, in the gate, the gateway and the launcher:

* `proxy/queueing.py` l. 317: dead entries may be taken out and the request refused
  all the same; without `drop_oldest` they fill the queue and live requests are refused for them.
* `proxy/proxy_config.py` l. 118: with `WORKER_INDEX` unset every worker gets the quotient
  and the remainder of the global limit, so together they admit more than it.
* `wings_control.py` l. 301: the first `_start` sets no `last_start_ts`, so the first
  exit is a crash however long the child ran.  A restart whose `Popen` fails leaves no handle
  and is tried again in the next round; `EventsAreHandled` counts each as an attempt made.
* `wings_control.py` l. 840: `nnodes` counts a worker listed twice twice, though it is
  started once.
* `distributed/worker.py` l. 285: a node that was removed, or forgotten by a master that
  restarted, is not registered again: its heartbeats are answered 200.  L. 338:
  when registration gives up, `sys.exit` ends a thread and the pod stays up.

In the engine script and the analyzer (`EngineStart` has each of these as behaviour):

* `LOG_ANALYZER_PID` is a subshell: killing it leaves the analyzer running.
* SIGTERM that interrupts the wait counts as a crash: the script starts the second
  engine.  A failure of the fallback's own commands is recorded nowhere.
* Fallback clears all flags in the file; when the container starts again, the script
  installs and starts the engine with its features, and the flags stay false.  A
  failed override by the user, or a missing `install.py`, clears none.
* An error line ends the analysis, so a successful second engine stays "failed"; and
  "completed" stays while the second engine loads.
* vLLM's "Starting vLLM server on" and "Available routes are" count as ready before the
  engine serves.

Outside the models: `/v1/startup/accel` reads `accel_features.jsonl`, which nothing writes
(`config/settings.py` l. 65, `proxy/health_service.py` l. 298); the analyzer's plugin for
MindIE is never chosen; the comment of the distributed plugin says 23 to 35 % where its
code says 10 to 20.

In the launch plan:

* `check_pcie_cards` returns three values and `core/config_loader.py` l. 1520 unpacks two, so
  the rule for the 300I A2 (tensor parallel 4) never applies.
* Arguments do not win over the config file for SGLang and MindIE, nor over keys the
  merged config has not got: a given tensor parallel size is lost with
  `dp_deployment`.  In an SGLang config file `enable_prefix_caching` is renamed to a
  key of the opposite sense and not inverted.
* Flags and command differ: a V4 Flash on A3 speculates with its flag off; `kv_offload` is
  on for SGLang and MindIE, which have none (and see `FlagsAreTrue`); flags stay written when no command can be built.

`TopologyFits`, `FallbackIsPlain`, `FeaturesAgree`, `GuardsHold` and `GivenReachesTheEngine` leave out
what their definitions name: `FixedTopology` (sizes in a layer, and those of GLM-4.7 W8A8 and of
V4 Flash on Ascend, constants of the adapter for the machines they are meant for),
`Fp8Overcommits` (DeepSeek FP8 where 4 x 4 does not fit), `OwnFeatures` (models that bring a
feature of their own), `DroppedFeatures` (flags whose feature the code drops from the
command), `OwnConnector` (a connector from file or request), `OwnPrefixCache` (V4 Flash and GLM-5),
and the three rules that override a given value on purpose (expert parallelism of GLM and
Kimi, the tensor parallel size of the Ray pipeline, the type of the KV cache with sparse KV).

## 8. Plan

Done, in this order: `SlotPool`, `QueueGate` and its proofs; `Gateway`; `HealthState`;
`Supervisor`; `Registry` and its proofs; `Rollout`; `LogAnalyzer`, `EngineStart` and their
proofs; `LaunchConfig`, `LaunchCommand`, `Launch`; the proofs of `HealthState`,
`Rollout`, `Supervisor` and `Gateway`; those of `Launch`; the action properties of `Registry` and
`EngineStart`; `Lease` and its refinement; the gate's theorems for the gateway.

Left, the most important first:

1. Measures like `StepsLeft` behind the other liveness properties (`EventuallyAnswered`,
   `OutageIsReported`, `EventsAreHandled`, `OutcomeIsReported`).
2. `AddressExchange`: TCP rendezvous with retries.  Wanted: whoever finishes has all
   addresses, nobody waits for ever.
3. `Scheduler` on top of `Registry`: choice from a stale list, retry on another node.
4. `Quota`: `_split_strict` against its definition: the shares add up to the limit when
   every worker has its index.
5. The reader of the progress file in the health service, which keeps a maximum of its own over
   requests: after a restart of the engine it shows the old one.

`rag_acc` was planned and dropped: its requests are sent one after the other, and its queue
is used by nothing, so there is nothing concurrent to check.  So was a module between `Registry` and
`Rollout`: all `Rollout` assumes of the registry is that whoever is known has registered.

## 9. Not modelled

* Gate and gateway: cancellation of tasks when the server shuts down, reuse of a
  task id, the flush policy of relayed bytes, `/metrics`, `/v1/models`, `/v1/version`,
  the RAG branch, observation headers.  When the client disconnects, Starlette cancels the
  child task of a suspended body, or leaves its generator to be closed later; the `finally` of
  `_stream_gen` then runs in one or the other, and finds no slot either way.
* Health: the warmup request itself, response bodies, agreement of the copies of the
  state in different processes (`proxy/health_service.py` l. 86), which the code does not
  promise.
* Launcher: a child that outlives SIGKILL, a signal before the handlers are
  installed, environment and arguments of the children.
* Cluster: a pod replaced with its volume, two names for one node,
  `/api/start_engine` of `distributed/master.py` (a second way to dispatch that
  nothing in the repository uses), `stop()` of the monitor, which is called nowhere.
* Engine script: environment lines, MindIE's own script, Ray's start-up commands but for their
  failure, the wait for the log file, a variant of the monitor that nothing calls.
* Launch plan: argument parsing, the port plan, VRAM checks, environment variables of the
  engines, what the SGLang and MindIE adapters render from their parameters.
* Formatting, logging and the text of commands throughout.
