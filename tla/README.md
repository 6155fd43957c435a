# FGGB in TLA+

FGGB is a resident controller that keeps a Frida agent (the *bridge*) injected
into GameGuardian (GG). The bridge gives GG's Lua scripts a `frida` table; a
call of that table becomes a request to the controller, which attaches Frida to
a target process, runs code there and answers the script.

This directory holds TLA+ modules that model it, the TLC configurations that
check them, and TLAPS proofs about the core. Paths such as `engine/mod.rs` are
under `src/src/`.

## 1. The system

| component | source | state | operations |
|---|---|---|---|
| engine actor | `engine/mod.rs`, `command.rs`, `live.rs` | `registry`, `next_id`, the command channel, the Frida objects of each session | `InjectBridge`, `BridgeMessage` (run, pull, kill, anything else), `Shutdown`; `inject_with`, `drain_values`, `kill`, `post_to_session`, `shutdown_all` |
| message handlers | `engine/session.rs` | a buffer per session (`Mutex<VecDeque>`) and its `seq` | `BufferHandler::on_message`, `ForwardHandler::on_message` |
| bridge agent | `agent/bridge.js` | the request counter, `gg.getTargetInfo` once it has been found, and in GG the tables it has put into LuaJ `Globals` | the installation: wait for the application, scan, hook; the functions of the `frida` table: number, `send`, `recv().wait()` |
| watchdog | `main.rs` | `injected` (pid and session id) | start-up, tick, injection, ctrl-c, shutdown |
| GG discovery | `gg.rs` | none (the file system, `/proc`) | `find_package`, `version`, `find_pid` |
| build script | `build.rs` | none | locate the devkit and the bundled agent |
| frida-java-bridge | bundled in `agent/bridge.js` | third party | |

How they interact. The engine is one thread that owns every Frida object and
serves a bounded `tokio::mpsc` channel (`COMMAND_BUFFER`). main() sends to it
with `send().await`, which waits for room, and gets its answer on a oneshot.
frida-core's dispatcher threads run the two handlers beside it: `BufferHandler`
shares a session's buffer with the engine thread through a mutex;
`ForwardHandler` turns a bridge's message into a command with `try_send`, whose
error is ignored. The engine answers a request by posting a message to the
bridge's script, where a Lua thread is blocked in `recv().wait()`. All of it
lives on processes that come and go without telling anybody.

What is hard about it:

- three kinds of threads and the processes interleave around every Frida call
  of the engine: messages and requests arrive for a session before it is
  registered, its process dies while it is loading, its bridge is gone when the
  reply is posted;
- `inject_with` has four places to fail, each with something to undo;
- the channel and the buffers are bounded, and drop;
- sessions, request numbers and pids are names that must not come to mean
  something else: session ids are kept by scripts, request numbers are shared
  by the threads of a process, pids are reused by the system and narrowed by the
  code;
- the watchdog decides from what it saw one step ago, and remembers injections
  that somebody else may have undone;
- the agent installs itself while GG starts and GG's threads create the very
  objects it is looking for, and it outlives none of the tables it leaves;
- discovery reads markers and `/proc` one entry at a time, while they change;
- liveness: scripts block until answered, the watchdog blocks until answered,
  and shutdown waits behind both.

What makes each component correct:

- engine: every loaded agent can be detached and is by Shutdown
  (`AgentsRegistered`); an id names one session for ever (`IdsNeverReused`);
  code runs where it was asked to (`RunsWhereAsked`); one-shot sessions leave
  nothing behind (`OneShotGone`); it implements a simple session service
  (`ImplementsService`);
- buffers: a pull returns exactly what came since the last one, in order, or
  the newest of it when there was too much (`BufferExact`, `HeardOnce`,
  `NothingLost`);
- bridge protocol: replies reach the thread that asked (`RepliesAwaited`), a
  blocked thread is owed something (`WaitingAccounted`), every call returns
  (`CallReturns`), and all of it is a simple table of calls (`ImplementsCalls`);
- watchdog: what it remembers is so (`RemembersBridge`), one bridge in a
  process (`OneBridgePerProcess`, `OneBridgeIfSeen`), a GG that stays up has a bridge
  (`BridgeKept`), injections and shutdown are answered (`InjectAnswered`,
  `ShutdownCompletes`);
- agent: which `Globals` get its table (`DueHaveTable`, `EarlyMissesNone`), that
  the tables of earlier bridges go (`NoStaleTable`), when it can read GG's target
  (`TargetSeen`, `TargetReadable`), and that it installs itself at all
  (`BridgeInstalls`, `EarlyInstalls`);
- discovery: a bridge is forgotten only when its process has gone
  (`ForgetsOnlyTheGone`);
- build script: the search finds the archive that comes first, within the depth
  (`FindsTheFirst`), roots are tried in order (`SearchInOrder`), and it links the
  archive if any root has it (`LinksIfThere`).

`PROJECT.json` lists the hazards one by one with the line where each bites, and
for those without a property the reason.

## 2. The modules

```
SessionService   <-- refined by --   Engine   -- extends -->   MessageBuffer
                                     /    \
    CallService  <-- refined by --  Bridge    Watchdog      Agent     FindFile
        MCEngine, MCBridge, MCWatchdog, MCFindFile: constants for TLC

        MessageBufferProofs --> EngineProofs --> BridgeProofs --> ReplyProofs --> ChannelProofs
                                            \--> WatchdogProofs
        AgentProofs             FindFileProofs
        (A --> B: B extends A; each also extends the module it is about)
```

**MessageBuffer** has `Push`, what `BufferHandler::on_message` does to a queue,
and `Newest(h, d)`, what the queue must be when the handler has seen `h`
messages and `d` of them had been seen at the last drain. A message is the number
the handler stamps on it. A push is one step: the number is stamped outside the
lock, but only the one dispatcher thread that has the handler sees the counter,
so the step is the one under the lock.

**Engine** is the actor and everything it talks to, in an open environment:
bridges send any request at any time (a script numbers its outstanding requests
apart), targets emit messages, processes start and die, main() injects
into any process and may quit.

| TLA+ | code |
|---|---|
| `queue`, `Capacity` | the mpsc channel, `COMMAND_BUFFER` |
| `actor` | where the engine thread is: `boot` (opening the device), `recv` (`blocking_recv`), `load` (inside `script.load()`), `settle` (the `RUN_SETTLE` sleep), `drained` (the lock is released, with what was drained in `messages`), `stopped` |
| `registry`, `nextId`, `pidOf`, `forward` | `Engine.registry`, `next_id`, `LiveSession.pid`, which handler the script has |
| `handled`, `buffer` | `BufferHandler.seq`, the session's `MessageBuffer` |
| `attached`, `alive`, `inbox` | Frida and the system: the agents loaded in running processes, the running processes, replies posted and not yet received |
| `main` | main()'s side of `ready_rx` and of the oneshots |
| `drained` | history: `handled` at the last drain |
| `BeginInject`, `InjectFails`, `LoadSucceeds`, `LoadFails` | `inject_with`, cut at `script.load()` |
| `HandleInjectBridge`, `HandleRun`, `DrainRun`, `FinishRun`, `HandlePull`, `HandleKill`, `HandleMalformed`, `HandleDiagnostic`, `HandleShutdown` | the arms of `dispatch` and `route_bridge_op` |
| `Drain`, `Kill`, `Post` | `drain_values`, `kill`, `post_to_session` |
| `BufferMessage`, `Forward`, `TrySend` | the two `on_message` |
| `SendInjectBridge`, `MainResumes`, `CtrlC`, `SendShutdown` | main()'s sends and receives |

A handler is one action where the engine thread does not wait inside it.
`inject_with` waits in `load()`, during which the session's handler already
runs and the process may die, and a run waits in `RUN_SETTLE`, so these are cut
there: nothing any other thread can see happens between the other calls of
`inject_with`. A run is cut once more, where `drain_values` releases the buffer's
lock: the handler may push, and the process may die, between the drain and the
kill. A pull has nothing after its drain but the reply. A request answered with an error before anything is done (an
unknown op, missing or ill-typed arguments) is one kind, `malformed`. Attaching
may fail at any time for Frida's own reasons, and so may the rest. The command
variants that nothing in the crate sends (`Inject`, `Rpc`, `DrainMessages`,
`ListExports`, `Kill`, `ListSessions`) are left out.

**SessionService** is what the engine promises about sessions with none of
that: begin, burn an id, commit, abort, close, lose an agent, stop. `Engine`
instantiates it as `Service`, with `nextId` for the ids issued, the registry for
the open sessions, and the session in `load` for the one being opened.

**Bridge** closes the engine with the scripts: Lua threads that call the table
(`Call`), the messages on their way to the `ForwardHandler` in the order of
their sending (`flight`, `Deliver`), diagnostics without an op (`Diagnose`), and
`recv().wait()` which returns a reply (`Return`) or throws because the script is
unloaded (`Unloaded`). Threads die with their process (`Exit`).

**CallService** is what the table promises its callers: a call waits for its
bridge, is answered at most once, keeps its answer until it is received, and fails
only with its bridge. `Bridge` instantiates it as `Calls`, with the replies that a
thread expects for its answers and the loaded sessions for the bridges.

**Watchdog** closes the engine with the loop of main() and the discovery of
`gg.rs`. GG starts and exits at any time, in particular during a look and between
a look and its injection. The engine's bridges and processes stay as open as in
Engine.

| TLA+ | code |
|---|---|
| `injected`, `target` | main()'s `injected`, and the `pid` of the tick that is injecting |
| `Marked`, `Override`, `FindPackage` | `/data/data` in directory order, `FGGB_GG_PACKAGE`, `find_package` |
| `look`: `LookBegins`, `ReadEntry`, `LookEnds`, `NoPackageFound` | a tick up to `find_pid`'s result; `left` are the entries of `/proc` not yet read |
| `SeesPid`, `SkipsPid` | the comparison of `cmdline`, and the `continue`s before it |
| `IsNew`, `Inject`, `InjectReturns`, `Outcome` | the match on `injected` and what the answer leaves there |
| `Quit` | the `select!` on ctrl-c, which is polled between ticks only, and the shutdown after the loop |
| `misses`, `MaxMisses` | markers and entries that could not be read although they are there |

A look begins with the processes that run. `read_dir` lists `/proc` while it is
read, so a process that starts ahead of the reader (`look.at`) may be listed too
or not (`MayBeListed`); one that starts behind the reader is missed. A package is
found in one step, for the markers do not change; the markers that cannot be read
in a row are one disturbance (`Unreadable`).

**Agent** is the agent's side of an injection, in one process. The agent's
JavaScript thread runs from `perform` to `bridge-ready`; GG's threads go on while
it is inside the VM, which it is during every call of Java. So each such call is
a step: asking for the application, hooking `getPackageInfo`, the scan, a visit,
the end of the scan, hooking the constructor.

| TLA+ | code |
|---|---|
| `app` | GG's start: before `handleBindApplication` asks for its package, after, and `currentApplication()` set |
| `env` | a LuaJ `Globals`: not there, inside its constructor, constructed, with `gg` in it |
| `table`, `captured` | `frida` in a `Globals`, and the agent's `gg.getTargetInfo` |
| `pc`, `todo` | where `perform`, `choose` and the agent's function are, and what `choose` still has to visit |
| `onApp` | the work runs inside the hook, on a thread of GG, whose call it holds up |
| `AskApplication`, `HookPackageInfo`, `GetOwnPackage`, `GetForeignPackage` | `_performPendingVmOpsWhenReady` and the hook of `getPackageInfo` in frida-java-bridge |
| `ScanThrows` | an exception of `use`, `registerClass`, `$new` or `choose`, which ends `perform`'s function with nothing installed |
| `Scan`, `Visit`, `VisitEnds` | `choose`, its `onMatch` (`b()`) and `onComplete` |
| `HookConstructor`, `NewGlobals`, `Constructed` | the replacement of `luaj.Globals.$init` and a call through it |
| `Load`, `Unload` | the engine's `script.load()`, and `detach_session` with the bundle's `_dispose`, which reverts the hooks |

`began` and `scanned` are history. What the code relies on outside of itself: GG
puts `gg` into a `Globals` after constructing it; its start asks for its own
package before it has an application or any `Globals`; screens and services ask
for it again; unloading a script reverts its hooks and waits for the threads that
run its code. The hook of `handleBindApplication` that the library installs as
well only tells applications under instrumentation apart, and is left out.

**FindFile** is `build.rs`: the check of the target, the candidate roots one by
one, and `find_file` as a recursive function on a file system (`Ways`: what it
returns for every directory at every depth; `WayFrom` is one call), against a
definition by paths (`Hits`, `Before`). Every directory has a listing, with an order
of its own; as `is_dir()` follows links, directories may form circles, list
themselves, and be listed twice. The search goes depth first, so a way is earlier
than another where the directory at which they part lists it first, however long
it is.

## 3. The runs

| run | question | expected |
|---|---|---|
| `bridge` | two Lua threads, two sessions, every operation, among them a script that kills its own bridge, a blank run and a malformed request, and two pulls of a kept session that emits three messages into a buffer of two. All engine properties with the inductive invariants `IInv` and `OneMainCommand`, all safety properties of the calls with `SysInv`, and both refinements. | pass |
| `bridge_live` | every call returns, with room in the channel and a diagnostic in it | pass |
| `bridge_full` | every call returns, with a channel of one and a diagnostic in it | `CallReturns` violated |
| `engine_wide` | Engine in its open environment, with a request whose pid does not fit in the engine's width | `RunsWhereAsked` violated |
| `watchdog` | GG starts twice under two pids, another GG package is installed, processes come and go during a look, markers and entries cannot be read, scripts run code in GG and send diagnostics into a channel of one. All safety properties, the inductive invariant `WatchInv` and the liveness of the watchdog. | pass |
| `watchdog_miss` | one look misses a running GG | `OneBridgePerProcess` violated |
| `watchdog_kill` | a script kills session 1 | `BridgeKept` violated |
| `agent` | two bridges in one process, one after the other, three `Globals` created at any time, an injection before, during or after GG's start. The agent's properties. | pass |
| `agent_missed` | every `Globals` has the table once the bridge is ready | `EveryEnvHasTable` violated |
| `agent_target` | a script that has the table and `gg` has its target read | `TargetSeen` violated |
| `agent_waits` | a bridge that is loaded installs itself | `BridgeInstalls` violated |
| `find_file` | file systems of four directories with eight possible listings each, every set of them with the archive, up to two roots | pass |

The engine is checked in `bridge`, with the scripts as its environment and main()
injecting into any GG process; `SysImplementsEngine` says that this is one of the
environments of `Engine`, and `EngineProofs` proves the engine's properties for the
open one.

Every property of a passing run has a mutation of the code (the definitions
introduced by "Mutation of ...") that makes the run fail.

### Bounds, and why they are enough

- Sessions: `MaxSessions` 2 in Bridge (a bridge and either a target or a second
  bridge), 3 in Watchdog (and one that comes after one of them has gone). When the
  ids are used up the engine can open nothing more; `BridgeKept` says so explicitly
  (`Spent`). `EngineProofs` and the others have no bound on them.
- Processes: two or three; GG's and a target's. Two sessions in one process
  occur in all of them.
- In `bridge`, the run about buffers, `MaxBuffered` is 2 and `MaxMessages` 3, so
  that messages have an order and buffers overflow, before and after a drain. In
  the others messages play no part and are left out.
- `Capacity` is 1 in `watchdog`, so that main() finds the channel full of what
  bridges send. In `bridge` it is 5: a thread has one request at a time, but the
  requests of a bridge that has been unloaded stay in the channel, so the worst case
  is threads times bridges, and one more for main(). `bridge_live` adds the
  diagnostic: 6. With fewer the channel can be full, and `bridge_full` shows what
  that does.
- The two threads of `bridge` are alike and its properties are all safety
  properties, so it uses their symmetry; the liveness runs use none.
- `PidModulus` is 4 in place of 2^32: pid 7 is the pid that does not fit.
- `MaxDiagnostics` bounds the diagnostics in Bridge. `Engine` and `Watchdog`
  have no such bound: a bridge that floods the channel is among their behaviours.
- `MaxStarts` 2: one restart. `MaxMisses` 2 in `watchdog`: markers twice, or
  markers and an entry, or the entry twice; 1 is enough for `watchdog_miss`.
- GG's pids are 2 and 3 and the target's is 1, so that an entry is read before
  GG's, the target comes and goes behind the reader, and the new pid of a GG that
  restarts during a look is ahead of the reader or behind it.
- `Envs` 3: one `Globals` of the scan, one created between the scan and the hook,
  one created through the hook; `MaxBridges` 2: a table of an earlier bridge. The
  safety properties are proved for every number of both. One `Globals` and one
  bridge are enough for `agent_waits`.
- `Depth` 3 with four directories, against 8 in the code: a way may be shorter
  than, exactly at and beyond the bound, meet a circle within it and branch. The
  listings are none, one directory, and two in either order, and one of them makes
  the first directory list itself.

`CHECK_DEADLOCK FALSE` is in every configuration: the system stops for good after
Shutdown with no process left to run, and a Lua thread blocked on a dropped
request is what `CallReturns` is about.

### Fairness

- The engine thread keeps running and Frida's calls return (`WF` of
  `ActorStep`). The code has no timeout around them and does rely on it: the
  mutation `LoadFailsIfAlive` is what happens without it.
- main() gets room in the channel in its turn (`SF` of its sends): tokio's
  channel is a fair semaphore that hands a freed slot to the first waiter,
  before any `try_send`. Weak fairness would not do, as a full channel disables
  the send again and again. This holds for `ShutdownCompletes` and
  `InjectAnswered` against a flood of diagnostics.
- Messages reach their handler, and a thread whose wait can end goes on.
- Scripts owe nothing: no call is ever forced.
- In `Agent` the agent's thread, or the thread of GG that does its work, keeps
  running, and GG's start goes on. Nothing is assumed of GG, or of its user, once it
  is up: it need not ask for its package again, and `Globals` are never forced into
  being.
- The build script runs to its end.
- `BridgeKept` needs attaching and loading not to fail forever (`SF` of the two
  successes), which the code has no hand in. `CallReturns`, `ShutdownCompletes`
  and `InjectAnswered` hold with every failure allowed at every time.

### What the failing runs show

1. `engine_wide`. `engine/mod.rs:232` narrows a pid with `as u32`. A request for
   a pid above 2^32 attaches to the process with its low bits, and the
   documentation says `runpid` runs in the given pid.
2. `bridge_full`. `engine/session.rs:106` ignores `try_send`'s error. The request
   is dropped and its script blocks for ever, where the documentation says that
   every call blocks until FGGB replies, then returns. The real channel has 256
   places.
3. `watchdog_kill`. `engine/mod.rs:310` kills any session, the bridge's own too.
   The watchdog still remembers it as injected and never injects again while GG
   lives.
4. `watchdog_miss`. `main.rs:68` takes a look that fails for a GG that has gone
   (line 64 does so where no package is found), and the next tick injects a second
   bridge beside the first.
5. `agent_missed`. The agent lists the existing `Globals` first and hooks their
   constructor second. One that is created in between, or whose constructor is
   running during the scan, never gets the table, where the README says that
   every new script env does.
6. `agent_target`. `b()` looks for `gg.getTargetInfo` in the `Globals` it is called
   for and at that time only; a hooked constructor calls it before GG has put `gg`
   there. A bridge that finds no filled `Globals` at its injection therefore answers
   "no target selected" for ever, in scripts that have its table, where the
   documentation says that the functions work on the process selected in GG.
   `TargetReadable` is what does hold: one filled `Globals` in the scan is enough.
7. `agent_waits`. When GG's start goes past the agent between `AskApplication` and
   `HookPackageInfo`, the installation waits for a call of `getPackageInfo` that
   nobody owes it; and when the first one is for a foreign package (the trace of the
   run), `use` throws with the foreign class loader and it is not tried again. The
   watchdog counts the bridge as injected. The README says that FGGB injects `frida`
   into GG and that it then is available. `EarlyInstalls` is what does hold: a hook
   that is in place before GG asks for its own package does the work.

Two more are known from these models, each from one changed constant, and no run
has them. With `PidReuse` TRUE `BridgeKept` fails: `main.rs:75` knows a process by
its pid alone, and a GG that comes back with its old pid between two ticks counts as
injected. With the other package first in `Marked` it fails as well: the first marked
package is watched, whichever is running.

`watchdog`, `bridge_live` and `agent` pass with limits in their properties or
bounds: `OneBridgeIfSeen` and `ForgetsOnlyTheGone` ask that every entry could be
read, pids are new and no script kills a bridge in `watchdog`, the channel has room
in `bridge_live`. `NothingLost` speaks of the time in which every bridge is loaded:
what a pull has drained does go with its bridge. `NoStaleTable` holds from the end
of the scan on: between an unload and the next bridge the old tables are there with
nobody behind them. `DueHaveTable` and the others promise nothing to a `Globals` that
is under construction during the scan, and nothing to later ones when hooking the
constructor failed (`unhooked`).

## 4. The proofs

### The engine

`EngineProofs` proves about `Engine`, for all values of its constants that
satisfy `EngineAssumption` and `MaxBufferedAssumption`:

| theorem | says |
|---|---|
| `Invariance` | `Spec => []IInv` |
| `TypeCorrect` | types, and a channel never over its capacity |
| `NoOrphanAgents` | `AgentsRegistered` |
| `BuffersExact` | `BufferExact`, for every cap |
| `IdsUnique` | `IdsNeverReused` |
| `RunsWhereAskedIfNarrow` | `RunsWhereAsked`, if every pid that is asked for is below `PidModulus` |
| `EngineImplementsService` | `Spec => Service!Spec` |
| `MainSendsOneCommand` | `OneMainCommand` |

The argument. `AgentsRegistered` and `BufferExact` are not inductive alone.
`IInv` adds `ActorInv`: a session in `load` carries the last id issued, is not in
the registry and has the handler that its command calls for, so that a failed
load takes back just that session and a successful one makes a fresh entry;
a settling run is registered; its process is the one its narrowed pid names.
And `IssuedInv`: the registry has only ids that were issued, so that the next id
is nobody's, and a drain is never ahead of the handler, so that `Newest` is
defined. Each action has a lemma that it preserves `IInv`; `NextInv` joins them.
`OutsideInv` serves all the actions that touch neither sessions nor buffers.
`RunsWhereAskedIfNarrow` is `ActorInv` with the lemma `Narrowing`; `engine_wide`
shows that its hypothesis is needed. `IdsUnique` follows from a fact about one
step, under `IInv` before it.

For the refinement each engine action is shown to be a step of the service or to
leave it alone: `BeginInject` is `Begin`, a spent id `Burn`, `LoadSucceeds`
`Commit`, `LoadFails` `Abort`, a kill `Close`, a dying process `Lose`, Shutdown
`Stop`. `IInv` is needed for `Stop`, which must find no agent outside the
registry, and for `Abort` and `Commit`.

`MainSendsOneCommand` is an invariant of its own, `OneMainCommand`: main() is a
loop that waits for each answer, so at most one of its commands is in the
channel, none while the actor loads a bridge, and the actor is in `boot` exactly
when main() is. Bridge's bound on the channel and the watchdog's bookkeeping both
rest on it.

`MessageBufferProofs` has the facts about buffers; the one that matters is
`PushKeepsNewest`: `Push(Newest(h, d), h + 1) = Newest(h + 1, d)` for every cap.

### The agent

`AgentProofs` proves about `Agent`, for every set of `Globals` and any number of
bridges (`AgentAssumption`):

| theorem | says |
|---|---|
| `AgentInvariance` | `AgentSpec => []AgentInv` |
| `AgentTypeCorrect` | types; nothing is left to visit outside the visits |
| `DueGlobalsHaveTable` | `DueHaveTable` |
| `EarlyInjectionMissesNone` | `EarlyMissesNone` |
| `StaleTablesGo` | `NoStaleTable` |
| `TargetReadableIfScanned` | `TargetReadable` |

The four properties speak of the time after the installation, so that none is
inductive. `AgentInv` says what has been achieved on the way. `VisitInv`: from
the scan on, whatever is not in `todo` has this bridge's table or none, and what
was constructed at the scan and is not in `todo` has it. `HookInv`: what was
entered through the hook has it once constructed. `StorageInv`: a `Globals`
without storage has no table, so that a new one brings no old table with it.
`EarlyInv`: an installation that began before GG had its own package runs inside
GG's call, so that GG stays where it is and has no `Globals` until the hook is in
place. `CaptureInv` relates `captured` to what was visited. Each action has a
lemma that it keeps `AgentInv`; `EarlyInjectionMissesNone` then joins `EarlyInv`
with `HookInv`.

### The engine with its scripts

`BridgeProofs`, `ReplyProofs` and `ChannelProofs` prove about `Bridge`, for every
finite set of threads, any number of sessions, processes and messages, every cap
and every capacity (`BridgeAssumption` and the engine's two):

| theorem | says |
|---|---|
| `SysTypeCorrect` | types |
| `SysImplementsEngine` | `SysSpec => Spec`: scripts are one environment of the engine, so that every theorem above holds with them |
| `EveryReplyAwaited` | `RepliesAwaited` |
| `OneShotsGone` | `OneShotGone` |
| `MessagesHeardOnce` | `HeardOnce` |
| `NoMessageLost` | `NothingLost` |
| `SysImplementsCalls` | `SysSpec => Calls!Spec` |
| `SysInvariance` | `SysSpec => []SysInv` |
| `CallsAccounted` | `WaitingAccounted` in every behaviour in which the channel always has room for a request under way: `SysSpec /\ []Room => []WaitingAccounted` |
| `RequestsFindRoom` | `[](FewUnderWay => Room)`, where `FewUnderWay` says that the busy bridges (those with a request under way) times the threads, and the diagnostics under way, are fewer than `Capacity` |
| `NoCallForgotten` | `SysSpec /\ []FewUnderWay => []WaitingAccounted` |

The argument. A reply is matched with its call by a number alone, so everything
rests on where a number can be. `CallInv`, the inductive invariant of the first
half, says it place by place: a request is a bridge's, was numbered by it, and
is on its way, in the channel, being served or answered, never in two of them and
never twice in one (`FlightInv`, `QueueInv`, `ServiceInv`, `InboxInv`); as long as
the bridge is loaded a thread waits for it, and no two threads wait for the same
number (`ThreadInv`). Each handler of the engine either takes a request and posts
its answer (`CallsPosted`), takes it and forgets it because the bridge has gone
(`CallsTaken`), or leaves it where it is (`CallsQuiet`); the scripts' actions are
proved one by one. `RepliesAwaited` follows from `InboxInv` and `ThreadInv`;
`SysImplementsEngine` from `FlightInv`, for the engine's environment forwards a
request only under a number that is not in use.

`ReplyProofs` adds what an answer says (`Tells`): a handler posts at most one
reply, to the thread that asked, with the session and the messages that its step
closed or drained. `OneShotInv` keeps a one-shot session closed from the reply
on, because ids are never issued twice. `HeardInv`: what was received or is on its
way was drained, and was drained once. `ToldInv` is the converse while all
bridges are loaded: what was drained is received or on its way. With `BufferExact`
the last two give `HeardOnce` and `NothingLost`. `FreshInv` starts the count of a new
session at zero.

For the refinement to `CallService` every step is of one of four kinds (`SysKinds`):
a call, the receipt of an answer, an answer to one thread, or none of these, which
leaves the replies to loaded bridges alone (`LeftKept`). `CallInv` is needed for the
answer, which must find its thread without one and no other thread that expects it,
and for the loss of a bridge, whose session must not be loaded again.

`ChannelProofs` shows that a thread that waits is owed something (`OwedInv`): the
actor lets go of a request of a loaded bridge only with an answer, and
`ForwardMessage` loses a request only when the channel is full. `bridge_full`
shows that this hypothesis is needed. `FewUnderWay` discharges it by counting. Each
thread has one request under way, so a bridge has no more of them than there are
threads (`OwnersInv`, which for a bridge that has been unloaded holds because its
requests only leave); a bridge with none does not count, however many sessions there
have been; main() has one command in the channel. `FewUnderWay` is about what is
under way in one state: with one bridge at work and one just replaced, 256 places do
for 127 threads and a diagnostic; a flood of diagnostics is what breaks it. The runs `bridge` and
`bridge_live` have the least capacity at which it holds in every state.

### The watchdog

`WatchdogProofs` proves about `Watchdog`, for every set of processes, packages and
requests and every number of restarts (`WatchdogAssumption` and the engine's two):

| theorem | says |
|---|---|
| `WatchTypeCorrect` | types; no look while main() waits for the engine |
| `WatchInvariance` | `WatchSpec => []WatchInv` |
| `WatchdogImplementsEngine` | `WatchSpec => Spec` |
| `RemembersUnlessKilled` | `RemembersBridge` in every behaviour in which no script kills a bridge: `WatchSpec /\ []BridgesSpared => []RemembersBridge` |
| `OneBridgeIfNoneMissed` | `OneBridgeIfSeen`, if not `PidReuse` |
| `ForgetsTheGone` | `ForgetsOnlyTheGone`, if not `PidReuse` |

The argument. `TickInv` ties what main() has under way to the tick: whatever is in
the channel, with the actor or in the answer is for `target`, and the session
answered or remembered is a bridge in that process. `ProcessInv` says that agents
live in running processes. `HistoryInv`: the target is never the process remembered and,
where pids are not used again, that one has gone. `LookInv` is about a look
that is not over: the process remembered, if it runs, is among the entries still to
be read, so a look that ends without it proves it gone, whatever came and went
meanwhile. From these, `BridgesInv`: a loaded bridge is the one remembered,
the one main() is being told of, or the one that is loading; `HistoryInv` keeps the
second and the third out of the first one's process.

The hypotheses are those that a run shows to be needed. `misses = 0`:
`watchdog_miss` violates `OneBridgePerProcess` with one missed look.
`~PidReuse`: pids are all that main() knows a process by. `BridgesSpared`:
`kill` takes the number of any session, and a killed bridge stays remembered
(`watchdog_kill`).

### The build script

`FindFileProofs` proves about `FindFile`, for every file system on any directories,
every depth and every list of roots (`FindFileAssumption`):

| theorem | says |
|---|---|
| `BuildTypeCorrect` | `BuildTypeOK`: types; no way is longer than the depth |
| `SearchFindsTheFirst` | `FindsTheFirst` |
| `RootsSearchedInOrder` | `SearchInOrder` |

The argument is an induction over the depth. The library's induction theorems take
an operator, which the provers cannot instantiate, so it goes by sets of numbers:
`LeastNumber` and `EveryNumber` follow from the well-foundedness of `<`.
`WaysDefined` shows that the recursion defines a function, and `WaysStep` gives its
equations. `HitHere`, `HitBelow` and `HitAbove` say what the ways of one directory
more are; `FirstIsEarliest`, that the entry which `find_file` follows is the earliest
that leads to the archive; `FirstFound`, that one call returns the first of the ways
when the calls for the subdirectories do.

### What stays with TLC

- `CallReturns`, `BridgeKept`, `ShutdownCompletes`, `InjectAnswered`,
  `EarlyInstalls` and `LinksIfThere`: liveness under fairness is beyond the prover.
  `NoCallForgotten` is the safety half of `CallReturns`, `RootsSearchedInOrder` that of
  `LinksIfThere`.
- The seven violations, which are behaviours of small instances.

## 5. What is not modelled

- The contents of messages, of agents' results and of errors; formatting and
  logging; the poll period and the length of `RUN_SETTLE` (a message may come at
  any time, in it or after).
- Two threads of the actor's own making do not exist; `Mutex` poisoning cannot
  happen, for no code panics with the lock held.
- In the agent: the texts of the fourteen functions of the table and of what they
  send, and the pid a call reads from GG (`partly` in `PROJECT.json`); requests
  carry any pid. Two bridges at work in one process at once, which `watchdog_miss`
  shows to be possible: `Agent` has one after the other.
- `Agent` and `Bridge` are not composed: a call needs a table, and nothing that a
  call does comes back to the installation.
- frida-java-bridge, but for the paths that the agent takes in `perform` and
  `choose`. `agent/bridge.js` is a bundle: the agent itself is line 49 and those
  paths are in lines 72 and 88. The other lines are a manifest, source maps,
  separators, and third-party libraries that talk to ART, JNI and DEX files, whose
  operations the agent does not see. They are left out on purpose, though they
  are most of the file's lines.
- The engine thread between `inject_with`'s calls (`next_id`, `create_script`,
  `handle_message`): no other thread sees a difference.
- In `build.rs`, how environment variables and the NDK's versions name the roots,
  and the directives that are printed; in `gg.rs`, `version()`, which is logged.
- frida-core: external, modelled by what the code relies on. An agent lives
  until it is detached or its process dies; a script's messages are handled one
  at a time and in order; dropping a session detaches it; a message under way
  when its process dies may still be handled.

## 6. Plan

Done: MessageBuffer, Engine, SessionService, Bridge, CallService, Watchdog with the
discovery, Agent, FindFile, their runs and the proofs about each: every safety
property that a passing run checks is a theorem, under the hypotheses that section 4
names.

Next: the watchdog's theorems with reused pids (which of them hold of a process that
comes back under its old pid), and a composition of `Agent` with the watchdog, in
which a bridge that never installs is seen next to what `injected` says.
