# remote-rider in TLA+

remote-rider is a control hub for terminals, Claude sessions and services on
several machines. One FastAPI program (`main.py`) runs on every machine; one of
them, the *control hub*, also keeps the list of workspaces and a queue of
prompts. A single-page script (`static/app.js`) is the user interface, and small
commands (`rr-queue`, `rr-init`, `rr-notes`, ...) are used by people and agents.

This directory holds TLA+ models of the parts where actors meet over shared
state, TLC configurations that check them on small instances, and TLAPS proofs
for every instance. Section 1 is the inventory of the system, section 2 the
modules, sections 3 to 7 the parts modelled, section 8 the proofs, section 9
what is left out.

    tlc -workers 2 -config TaskQueueRace.cfg MCTaskQueue
    tlapm TaskQueueProofs.tla

## 1. The system

| Component | State | Operations | Talks to |
|---|---|---|---|
| Task queue (`queue_store.py`, `/queue...` in `main.py`) | `queue.json`, `_LOCK`, `_queue_reaped_at` | add, list, next, done, release, heartbeat, edit, cancel, reap | every machine's `/claude/alive`; `rr-queue`, the Latest view |
| Workspace list (`storage.py`, `/sessions...` in `main.py`) | `sessions.json`, `SESSIONS_LOCK` | get, versioned put, add or remove a tab | pages, agents, `rr-init`, `tmux.py` |
| Page (`static/app.js`) | list, version, dirty and deleted names, `unsavedChanges`, timer, one save in flight, cache | edit, create, delete, reorder, close a tab; save, rebase, poll, load | the control hub |
| `rr-queue` | the task in hand per folder, in a file | next, done, release, heartbeat, add, edit | `/queue...` |
| Agent registry (`tmux.py`) | `agent_registry.json`, tmux sessions, `AGENT_LOCK` | start, stop, list (cleans up) | tmux, other hubs |
| Service registry and sandboxes (`services.py`, `sandbox.py`) | `services.json`, containers, ports, `SERVICE_LOCK` | register, snapshot, stop, create, clone | docker, `rr-notes`, `rr-skill`, which write the file without the lock |
| Machine inventory (`main.py`, `storage.py`) | `machines.json`, `SERVERS_LOCK` | add, remove, reorder, read (without the lock) | all of the above |
| Claude launch (`claude_sessions.py`, `/claude/...` in `main.py`) | tmux windows, prompt files, priorities | start, attach, list, priority | tmux, `/proc`, other hubs |
| Gateway (`gateway.py`) | none of its own, reads `machines.json` and `sessions.json` | proxy HTTP and websockets | browsers, machines |
| Fleet update (`updates.py`, `update-remote.sh`, `start-remote.sh`) | git checkouts, running hubs | check, update one, update all | other hubs |
| Notes, skills and files (`workspace_builtins.py`) | files of a workspace | read, write, move, delete | agents, pages |

What is hard here: the hub answers each request in a thread of a pool, so a
handler's unlocked part (the reaper's network calls) interleaves with all
others; a page's script runs its user's clicks, timers and polls at every
`await`; machines disappear and come back; the hub restarts; several kinds of
writers rewrite the same file. What makes each part correct:

* Queue: a task is with at most one taker, comes back when its taker is gone and
  not before, goes out in order, is not handed out forever, and closed work
  never returns.
* Workspace list: nobody's save undoes what it has not seen, no edit is lost,
  and all pages end up with the same list.
* Agent registry: what runs has a row, and a stop ends it and nothing else.
* Services and sandboxes: what runs stays in the list until it is stopped, and a
  stop by port means one service.
* Claude launch: the answer to a start agrees with what the start left, the prompt
  reaches its window and no other, a background session is shown in one window.
* Inventory: concurrent changes keep each other's profiles, and a removal ends no
  session still in use.
* Gateway: only machines of the inventory that are addresses of the tailnet are
  reached, those that are listed get in, and no half-closed connection stays.
* Update: the updated machine has its hub back, with the API it had, and a sweep
  over all machines is not cut short by its own last step.

`PROJECT.json` lists each hazard with its line and the properties against it.

## 2. Modules

| Module | Models | Proofs |
|---|---|---|
| `TaskBoard` | what the queue promises, abstractly | |
| `TaskQueue` | `queue_store.py` and its callers | `TaskQueueProofs` |
| `SessionSync` | hub, pages, agents and `rr-init` on the workspace list | `SessionSyncProofs`, `SessionEditsProofs` |
| `AgentRegistry` | agents of one machine against tmux | `AgentRegistryProofs` |
| `ClaudeLaunch` | extends `AgentRegistry` with requests for Claude; implements it | `ClaudeLaunchProofs` |
| `ServiceRegistry` | services and sandboxes of one machine | `ServiceRegistryProofs` |
| `ProfileList` | what the inventory promises, abstractly | |
| `MachineInventory` | `machines.json`; implements `ProfileList` | `MachineInventoryProofs` |
| `Gateway` | extends `MachineInventory` with the gateway | |
| `FleetUpdate` | extends `Gateway` with the updates of all hubs: the composition that is run | `FleetUpdateProofs` |

Each `MC...` module gives one of them its small instance. The order in which they
were written is that of the table: first the two parts whose loss costs work
already done, then the registries of one machine, then the machines. Where a
component uses another, the model does: `ClaudeLaunch` runs beside agents and
crashes of the same hub, `Gateway` reads the inventory while it is being changed,
and an update kills the hub that serves both.

## 3. The task queue

### 3.1 TaskQueue

`queue` is `queue.json`: per task id a record, `Absent` (never used) or `Pruned`
(dropped by `_save` after two weeks). A mutating call (`add`, `finish`,
`release`, `heartbeat`, `update`, `cancel`) loads, changes and atomically
replaces the file under `_LOCK` and is one action; `Save` is part of each of
them, the pruning included. A call the code refuses (404, 409) changes nothing
and is a stuttering step. None of the calls checks who makes it, so any of them
may happen to any task at any time.

`GET /queue` and `POST /queue/next` are several actions of a server thread,
because the reaper they may run first reads the file without the lock and makes
network calls:

    Begin -> [Snapshot -> Ask* -> EndAsk -> Apply] -> List | TakeNext | TakeNothing

`Begin` reads `_queue_reaped_at` and `Snapshot` writes it, as the code does
without a lock. `Ask` is one machine's answer for its whole group; a machine that
is not in `reachable` gives none. `Apply` is the locked half of `reap`.
`RequestFails` is a request that ends with a 500: `_machine_host`, which the reap calls
outside its `try` (`main.py:594`), and `_queue_machine` read `machines.json` without its
lock, and it does not parse while it is being rewritten. Nothing of the reap is
applied then, not even the leases it saw expired.

Times are abstracted to what the code compares with the clock: a lease runs or
has expired, a finished task is recent or old, a reap is due or not, and
`created_at` is the rank of the add. Three facts of time are thereby set aside:
that two tasks can share a `created_at`; that a clock set back between two adds
swaps their turns; and that a lease that expired at the very moment of a heartbeat
may still count as running.

The world: processes end (`Exit`; a pid that is reused has another start time
and counts as another process), other hubs become unreachable and reachable, and
the hub restarts, which loses the requests and `_queue_reaped_at`. A request
whose process has died since it was sent is served all the same.

`handouts` and `born` are history variables, which only the properties read: how often
a task was handed out since somebody last unstuck it, and how many tasks were added
before it.

`TaskBoard` is the abstract specification: tasks with a phase and a budget of
handouts, each moving on its own. `ImplementsBoard` maps `queue` and `handouts`
to it.

### 3.2 Runs

| Run | Instance | Shows |
|---|---|---|
| `TaskQueueRace` | 1 task, 2 processes on a machine that may be unreachable, 2 threads, 1 restart; MAX_REQUEUES 2 | types; only processes that are gone count as dead; the bound on handouts and its inductive form; the reaper takes a task from a live process only after it changed hands; the board |
| `TaskQueueOrder` | 2 tasks, 2 priorities, addresses by machine, workspace and folder; MAX_REQUEUES 1 | no overtaking: a task keeps the turn its add gave it through handouts, releases, reaps and edits |
| `TaskQueueLive` | 1 task, a process and a taker without a pid, 2 threads, 1 restart, fairness | the task of a dead process or a silent taker does not stay taken by it |
| `TaskQueueStaleReap` | as the race | **violated**: a task stays taken while its taker lives |

One task is enough for the race: the code treats tasks independently, and two
threads with two processes give every order of two reaps around a hand-over. The
order needs two tasks and no more, as it compares pairs; `NoOvertaking` compares them by
`born`, so a task whose date a release, an edit or a reap reset would be overtaken; in
this run a task that comes back is stuck until an edit lets it go out again.
MAX_REQUEUES is smaller than the 3 of the code so that the limit is reached, passed by
and reset within the run; the proofs hold for any value. `RequeueCap` bounds how often an edit
with an explicit `stuck: null` can extend a task's life in the model.

**Fairness** (`TaskQueueLive`): requests run to their end, since every call has a
timeout; time passes; and somebody keeps listing the queue, which the open Latest
view does every few seconds. This last one is needed: the hub has no thread of
its own for the reaper. Nothing is assumed about processes or machines, so
`DeadTakerIsReaped` has the premise that machines answer for good in the end. Both
properties have the premise `InventoryParses`: from some time on no request finds
`machines.json` unparsable. An update that dies in the middle of a save of that file
(section 7) makes it so for good, and then no task with a pid comes back.

**Finding.** `reap` re-checks under the lock that a task it found dead is
taken, not that the same taker still has it. If the task is released (or
requeued by a concurrent reap) and taken again while the reaper waits for
answers, up to 3 s per machine, a live session loses it and it can be handed out
twice. `LiveHolderLosesOnlyWhatChangedHands` says that this is the only way it
happens.

`OnlyTheGoneAreReaped` needs takers that name their own machine (`HonestTakers`).
`/queue/next` records the machine named in the request as the place of the pid,
so after `rr-queue next --machine other` the reaper asks `other` about a pid of
this machine, and requeues the task of a live session.

`rr-queue` itself is not modelled. It remembers the task in hand per folder, so of
two sessions that took tasks in one folder the first one's `done` closes the task of
the second (`rr-queue:163`), which `rr-queue:16` says stays its own. And when the
answer of `/queue/next` is lost or later than the client's 15 s, a session holds a
task it never learned of until it ends. In the model anybody may close any task at
any time and no taker knows what it holds, so its properties cover both.

## 4. The workspace list

### 4.1 SessionSync

`server` is `sessions.json`. A list maps each workspace name to its content (a
*mark*, which stands for what users set and is new with every edit, and the tabs)
or to `None`. `Order` is one more key: its row has no tabs and its mark says which
of two orders the list has. The version is a hash
of the content, so in the model a version *is* the list: an edit that is undone
restores the version too.

Each hub call is one action, as it runs under `SESSIONS_LOCK`. The page is a record
with the fields of `state` and of the timer and save-in-flight variables of `app.js`.
A page runs its handlers one at a time, and everything may happen between a request
and its answer, so a save is `TimerFires` (or `Poll`), then `ServePut`, then
`PutAccepted` or `PutRejected`, and a poll `Poll`, `ServeGet`, `GetAnswered`.
`deleteSessionAndKill`, the Delete of a workspace, is `BeginDelete` and `EndDelete`:
it awaits `/tmux/kill` and the user's answer to an alert, and only then, in any case,
drops the workspace (`app.js:1842-1859`). (`deleteSession`, `app.js:1824`, has no
caller and is left out.) A save the network loses before or after the hub has served
it is `LosePut`. `Reload` leaves behind the saves that were on their way (`keepalive`,
`pagehide`), which the hub may serve any time later.

`touched` and `unsent` are history variables: what the page's user changed since
the page last adopted a list, and what no accepted save has delivered. A page is `late`
once `EndDelete` came while one of its requests was under way.

Bounds: `MaxMark` user actions, `MaxTabOps` agent calls, `MaxLosses` lost
messages, `MaxReloads` reloads, one GET of a page at a time.

`Careful` and `late` separate two questions. A careful user begins to act only while
none of the page's requests, deletions or tab closings is under way (those take
milliseconds on a good network) and names new workspaces as nobody else does: with a
name that is in no list, cache, request or answer. What even such a user cannot avoid
is a deletion that ends while the page's poll or save is under way, as its `await` and
alert may last as long as they like. The passing runs assume careful users, and their
properties are of a page until that happens to it (`Prompt`); they still have every
interleaving of pages, saves, answers, losses, reloads, agents and `rr-init`, and of
deletions that end between the page's requests. `SessionSyncLateEdit` and
`SessionSyncPollStomps` show what the page loses beyond that.

### 4.2 Runs

| Run | Instance | Shows |
|---|---|---|
| `SessionSyncOnePage` | 1 careful page, 2 names, 2 user actions, closing tabs among them, 3 agent calls, `rr-init`, 1 loss, 1 reload, also from the cache | no step of the page undoes an edit before it was delivered; a page with an undelivered edit knows it; at most two retries |
| `SessionSyncTwoPages` | 2 careful pages, 2 user actions, 1 agent call, 1 reload, deletion in the panel editor too, fairness | a page differs from its version only where its user touched it, hence a versioned save changes only that; a page with nothing to save shows the very list of its version; in the end all pages show the server's list |
| `SessionSyncLateEdit` | 1 page, user acts any time | **violated** (`UnsavedUntilDelivered`): an undelivered edit keeps `unsavedChanges` |
| `SessionSyncPollStomps` | 1 careful page | **violated** (`NoEditIsUndone`): a poll never replaces an edit |

**Findings.** The acknowledgement of a save clears the marks of edits made since it was
sent (`app.js:251`); if their timer fires while the save is under way nothing is sent, and
nothing saves them later. And the poll checks for pending writes before its `await` and
adopts the answer after it (`app.js:282`). An edit made in between is undone; so is the
deletion of a careful user, when the hub's answer to `/tmux/kill` or the user's to the
alert comes while the poll is under way, and `app.js:1859` deletes the workspace from a
list that is about to be replaced.

Two user actions and an agent's call are what a conflict takes; three agent calls
use up the retries of one save. The conflict rules treat each workspace alone, so
two names (one used, one free) suffice. `SessionSyncTwoPages` loses no message, since
each loss multiplies its states; `SessionSyncOnePage` does. `Converges` is about the end
of all that: it sets aside pages that stay `late`, whose reload puts them right.

`SavesKeepWhatOthersChanged` is about saves with a version and leaves out two things
the code does not keep: a workspace deleted elsewhere can come back through a rebase,
which takes it for one created in this page, and a rebase takes the page's order even
if its user moved nothing. It is checked without `closeTab`, which leaves the
workspace marked dirty after the deletion has been synchronised; a later rebase of
another edit then overwrites what agents did to that workspace since. A deletion in
the panel editor does not enter `pendingDeletedSessions`, so a conflict undoes it;
`EditsSurvive` is therefore checked and proved with the other ways to delete.

Two more weaknesses met on the way, which the properties leave room for:

* Writes without a version are not checked at all (`main.py:796`). A page started
  from its cache makes them (`app.js:602`), and so does `rr-init`, which reads the list
  and writes it back in a second call (`rr-init:118`). Either can undo what others
  saved in between. The one-page run has both: a page's own edits survive them.
* A closed tab disappears from the page whether or not its DELETE reached the hub
  (`app.js:2359`). If it was lost, the page's list and version differ, the next poll
  sees the same version and adopts nothing, and the tab stays hidden in this page
  only. `Converges` is therefore checked without closing tabs.

**Fairness** (`SessionSyncTwoPages`): timers fire, the hub serves requests, the page
handles answers, the poll runs every 4 s, and saves on their way arrive. Users and
agents stop by the bounds.

## 5. Agents of a machine

### 5.1 AgentRegistry

`runs` says what runs at each place, a tmux session name or, where tmux is
missing, a pid. `file` is `agent_registry.json`: the place of each agent with a
row. `call` is the one call that holds `AGENT_LOCK`, in steps because what runs
does not wait for the lock and because the hub may die in between:

    BeginStart -> Launch -> Truncate -> Write
    BeginStop  -> Kill   -> Truncate -> Write
    BeginList            -> Truncate -> Write

The first step loads the rows and drops those whose agent looks gone
(`Cleaned`); a call that then answers "exists" or "not_found" changes nothing. `Truncate`
and `Write` are the two halves of `write_text`; a file caught in between loads as
no rows. A launch that fails leaves the file alone.

`Target` is what `-t name` leads to in tmux: the session of that name, or else
the only one whose name begins with it. Other sessions and processes come
(`Opens`) and go (`Ends`) at any time, `/tmux/ensure` and `/tmux/kill` included. An
ended child of the hub may stay a zombie (`Leftovers`) and looks alive. `lost` is a
history variable: agents that run without their row because the hub died.

Set aside: the cleanup looks at one row after the other, here in one step; the
launcher does not change while the system runs; ending an agent's shell ends its
command; a name given to `-t` contains no pattern characters.

### 5.2 Runs

| Run | Instance | Shows |
|---|---|---|
| `ClaudeLaunch` (5.3) | 1 agent, 2 places, the name of one beginning with the other's; tmux or processes; crashes in any call | what runs has a row with its place unless a crash lost it; a stop ends its agent, and if that still ran nothing else |
| `AgentRegistryByobu` | 2 agents, 3 places, `byobu-tmux` | **violated**: a stop ends its agent |

An agent and two places let the agent end, its name be reused by a session that is
none of the hub's, and something run at a longer name. Agents on their own need no
passing run: `ClaudeLaunch` implements `AgentRegistry` (`ImplementsAgents`) and
checks its properties beside the requests for Claude. Nothing is bounded: the
instance is finite.

**Finding.** `_start_agent_local` prefers `byobu-tmux` and records it as the
backend, and `_stop_agent_local` handles `tmux` and pids only. On such a machine a
stop drops the row, answers `not_found`, and the agent runs on, unlisted.

Two weaknesses the properties make room for: a crash before the end of a save
(`lost`), and an agent that has ended while a session with a longer name, or
something else at the same name or pid, runs: its row stays, and a stop ends that
other thing. `StopEndsItAlone` says that this needs the agent to have ended.

### 5.3 ClaudeLaunch

`ClaudeLaunch` extends `AgentRegistry` with what `/claude/start` and `/claude/attach`
do on the same machine without a lock. `request[r]` is one request, with what it
leaves: the window, the prompt file and the priority of the session.

    start:   look -> [create] -> write -> open -> opened | failed -> done
    attach:  look -> [open] -> opened | failed -> done

`Ensure` is `_ensure_tmux_session`, which takes a session with a longer name for the
workspace's own; `Create` fails when somebody opened the session since. `OpenWindow`
asks for the exact name (`-t =name`), so after a wrong "exists" it fails, and does not
open elsewhere. `WindowRuns` is the window's own command, which reads and removes the
prompt file. `caller` is what the control hub told the user: `ok`; `failed`; `lost`
for a start on another machine that was given up after 15 s while that machine
carries on; or `spoilt`, a 500 after the launch has worked, when `machines.json`, which
`claude_start` reads for the name in its answer (`main.py:582`, outside the `try`), does
not parse. Sessions come and go, the agents' calls run (`AgentsAndUsers`), and a hub
dies with all its requests (`HubDies`).

`newer` is a history variable: the windows opened since an attach listed them.

| Run | Instance | Shows |
|---|---|---|
| `ClaudeLaunch` | 1 agent, 2 places, 2 requests of either kind, crashes; 1.8 million states | the properties of agents; the answer to a start agrees with its window, prompt file and priority; a window finds its prompt and prompt files do not pile up; a second window for one background session is a race only; launches are steps the agents are prepared for |

Two requests are what a second window or a lost answer with a retry takes; requests
are alike, hence the symmetry (this run checks no liveness).

What the properties leave room for: a `spoilt` answer says that a start failed whose
Claude runs, with its priority kept; a retry after it, or after a lost answer, runs
the prompt twice; two attaches at once can open two windows; an attach reuses a window
that only keeps a shell by now. While a session with a longer name runs, a workspace
whose own session has ended cannot start Claude.

Set aside: other workspaces and background sessions; what a prompt says; an exception
in the middle of writing the prompt file, which leaves the file; the answer of an attach,
which only names a window.

## 6. Services and sandboxes

`ServiceRegistry` is one machine's list of services (`service_registry.json`), its
docker containers and the `rr-notes` and `rr-skill` processes. A call of the hub is in
steps, because docker is slow and not under `SERVICE_LOCK`:

    create, clone:  pick a port -> run -> [load -> empty -> fill]
    stop:           docker -> load -> empty -> fill
    list:           load -> clean -> empty -> fill
    kill by port:   load -> clean -> [empty -> fill] -> terminate

The middle, from `load` to `fill`, holds the lock. `rr-notes` and `rr-skill` load,
empty and fill the same file with no lock at all. `torn` is a file that does not
parse, which loads as an empty list: one caught between the two halves of
`write_text`, or one in which a shorter text was written over a longer one.

`Cleaned` keeps the rows of containers docker says are running and of pids in use;
docker that fails or is slow says nothing. Things end at any time, and the pid of an
ended server may come to belong to something else (`heirs`).

`crossed` and `unseen` are history variables of a call: another writer came between
its read and its write; docker did not answer about a container.

| Run | Instance | Shows |
|---|---|---|
| `ServiceRegistry` | 2 sandboxes, 1 `rr-notes`, 2 ports, 2 threads, 1 crash | one thing per port; a stop by port drops one row and ends no service of another port, reused pids aside; what runs leaves the list by its own stop, a silent docker, or a write that crossed one without the lock |

Two threads and two sandboxes give every order of two slow calls, and the one server
every way to cross them. `MaxCrashes` bounds crashes, which lose calls halfway.

What the properties leave room for: a list request while docker is slow drops the rows
of running sandboxes for good; a container whose `docker run` timed out runs without a
row, and a clone never gets one; `stop_sandbox` drops the rows whose id begins with
what it was given whether or not docker stopped anything; the process that has the pid
of a row is terminated without a look at what it is; a stop by port of a sandbox drops
its row and leaves the container running, since its processes are docker's.

Set aside: what runs in a container; a container that was created and did not start;
the row of an earlier server of the same workspace, which `rr-notes` replaces (each
server has its own workspace here).

## 7. Machines

### 7.1 Three modules, one system

`MachineInventory` is `machines.json`: a sequence of profiles with name, host and, if
there is a Terminal panel, its tmux session. A call loads under `SERVERS_LOCK`, may
kill a session (`remove_kill`), empties and fills the file. Readers take no lock. A
file caught in between does not parse: a change that meets it ends with an error, and
after a crash it stays so.

`Gateway` extends it with the public gateway, a process of its own that reads
`machines.json` and then `sessions.json` anew for each connection and takes one that
does not parse for empty:

    auth -> machines -> sessions -> connect -> accept -> open -> closing -> closed

or `refused`, `denied`, `failed`. Of the hosts in a file only those of `Tailnet`
count, the addresses in 100.64.0.0/10 (`gateway.py:74-77`). `connect` opens the
machine's side and `accept` the browser's, and each may fail. A connection is a
websocket; HTTP goes the same way as far as the machine. `inMachines`, `inSessions`,
`seen` and `missed` are history variables on what the files said since the browser
came.

`FleetUpdate` extends both with the hubs of all machines, the detached update scripts
and the sweep that updates every machine:

    sweep:   read machines.json -> read sessions.json -> ask each -> answer -> own machine
    script:  pull -> look (which API) -> stop all hubs -> choose a port -> start

A row of the sweep is a name, and `MachineOf` is the machine it stands for. Names of
the control hub's machine that `_is_local_host` knows (`LocalHosts`) are left for the
end; under one it does not know (`Aliases`: a LAN address, a DNS name) the sweep asks
that machine like any other, and the update it schedules may kill the sweep. A name
with `/`, `?`, `#` or `@` (`Malformed`) makes `_normalize_host` raise, which ends the
sweep with a 400 (`Refuse`): the machines before it stay updated, the others are not
asked. `UpdateRemote` is a request for one machine; it needs no more than a running
hub, since the proxy call for the hub's own machine does without
`_require_runtime_api`.

`Stop` of the control hub's machine ends the requests in it, a save halfway included:
that is how a file becomes unparsable for good. The gateway lives on. `hub` says what
runs on port 7000 and on the next one; requests go to 7000, so a second hub does
nothing. `by` (who asked for it), `was`, `alone` and `mute` are history variables of a
script.

### 7.2 The run

| Run | Instance | Shows |
|---|---|---|
| `Fleet` | 2 profiles of one session on the control hub's machine (`here`), a workspace on `lan`, which is an unknown name of that machine outside the tailnet, a malformed name `far`, 2 sessions of which one has the longer name, 2 threads, 1 connection, 2 scripts, 2 requests; 318,348 states | the inventory implements the list of profiles: each save does one thing to the list of the save before; a removal ends no session a profile still names; the gateway reaches only listed addresses of the tailnet and admits those listed; half-closed connections end; an update keeps the hub and its API; a sweep is not cut short by its own last step; a machine is without a hub only while a script has yet to start one, and one runs again in the end |

`MaxRequests` bounds clients: any two among the changes of the inventory and of the
workspaces, connections, updates and the sweep; what each one leads to is not
bounded. Two are enough for every pair that meets. Two scripts are enough for two that
overlap on one machine: those of two requests, of a request and of a sweep's end, or of a
sweep that asks its own machine as `lan` and updates it again at its end. The three names
give a sweep everything that can happen to a row: left for later, asked, refused. `far` is
a machine of its own for single updates and for the gateway.
With the requests used up the system may stop, hence `CHECK_DEADLOCK FALSE`. There is
one sweep.

**Fairness** (`Fleet`): scripts run to their end, since every command in them has a
time limit or fails, and the gateway's `finally` runs once one direction has ended.
Nothing is assumed about users, browsers or machines.

What the properties leave room for:

* Updates of one machine that overlap can start a control hub as that of a remote
  machine, which loses the control API, or leave a second hub on the next port; a hub
  that takes more than a second to say what it is likewise. `UpdatesKeepTheHub` is for
  a script that met neither (`alone`, not `mute`). `DownOnlyInRestarts` and `HubComesBack`
  are for all.
* A sweep is cut short by a `sessions.json` that does not parse, by a malformed name,
  by an update somebody asked of the control hub's machine, and by its own request to
  that machine under a name the hub does not know. `SweepEndsFirst` says that there is
  nothing else, in particular not the update of its own machine, which the code
  defers.
* When the browser has left before `accept`, `ws_proxy` has not come to its `try` yet and
  leaves the machine's side open (`gateway.py:201`). `BothSidesClose` is about connections
  that were open.
* `remove_kill` looks for other profiles of its session under names that
  `_is_local_server` knows; `KillsSpareProfiles` is about those.
* A removal whose session is gone ends the only session with a longer name.
* An update of the control hub's machine in the middle of a save leaves
  `machines.json` or `sessions.json` unparsable until somebody repairs it.

The repository's `README.md:229-230` says that updates cover remote nodes only; the
code has since come to update the controller's machine too (`main.py:925-930`), which
is what is modelled.

Set aside: panels other than Terminal; tokens and keys (a yes or no); the `machines`
filter of a sweep, which the page never sends; rows without a name or host; the order
of workspaces in `sessions.json` (any); the time `pgrep` and `kill` take (one step);
new code is assumed to start.

## 8. What is proved

`TaskQueueProofs`, checked by TLAPS for any finite or infinite sets of tasks,
machines, takers and threads and any MAX_REQUEUES > 0. Assumed is only
`QueueAssumption` (the types of the constants) and, where named, `HonestTakers`
(takers with a pid name the machine they run on).

* `TypeCorrect`: `Spec => []TypeOK`, by one lemma per group of actions. Records
  have their type (`QueueOK`), and `Consistent` ties taker, lease and dates to
  the status.
* `HandoutsBounded`: `Spec => []HandoutBound`. The bound is not inductive: a
  waiting task may be handed out once more. `HandoutInv` adds to it what each
  status still allows, in terms of `requeues`; `HandoutsCounted` is
  `Spec => []HandoutInv`, which the race checks too.
* `OrderIsKept`: `Spec => NoOvertaking`. The handler compares `created_at`, the property
  `born`, which only the add sets; the invariant `KeepsItsTurn` says that they agree for
  every task in the file, whatever handouts, releases, reaps, edits and prunings it has
  been through. `TurnStep` shows it of each action.
* `QueueImplementsBoard`: `Spec => ImplementsBoard`. Both this and the bound rest
  on `NextMove`: whatever a step does to the file, each task takes one of a few
  moves, pruning and the other tasks' changes included.
* `OnlyTheGone`: `HonestTakers` implies `Spec => []OnlyTheGoneAreReaped`. The
  invariant `ReapInv` says that every holder in the file or in a reaper's
  snapshot is recorded on the machine it runs on, and that what was found dead is
  not running; processes do not come back.
* `LiveHolderLoses`: from the same invariant, the action property
  `LiveHolderLosesOnlyWhatChangedHands`.

`SessionSyncProofs`, for any sets of pages, workspaces and tabs and any values of
the bounds, from `SyncAssumption` (types of the constants, `Order` and `None` are
no workspaces):

* `SyncTypeCorrect`: `Spec => []TypeOK`, by one lemma per group of actions.
* `PagesFollow`: `CarefulUsers => (Spec => []PagesFollowTheirVersion)`, where
  careful users are `Careful` without `closeTab`. This and what follows is about pages
  that are not `late`; a late page stays so (`LateStays`) until a reload makes it a
  fresh one (`ReloadSafe`). What one would like to say,
  that a page differs from its version only where its user touched it, is not
  inductive: a poll may adopt a list and forget what was touched, a rebase trusts
  the dirty marks. `FollowsItsVersion` adds that marks are within what was touched
  and imply `unsaved`, that nothing else is under way while a poll is, and the same
  relation for the body and base of a save on its way and for the answer to it. It
  is checked by TLC as it is proved, except for types and for `closing`.
* `SavesKeep`: from the same invariant, the action property
  `SavesKeepWhatOthersChanged`. `OnlyTheHubAccepts` shows that the save is
  acknowledged by no other step than the hub's.
* `SavedPagesInStep`: `CarefulUsers => (Spec => []SavedPagesShowTheirVersion)`, the
  safety half of `Converges`: a poll compares versions, so a page that held a version
  without showing its list would never be put right. For this the invariant also says
  (`InStep`) that a timer or a save is there only with something to save, and that a
  save on its way, or the answer that accepts it, has the list the page shows.
* `RebasesCompose`: what a second conflict makes of a save that had one already, for
  any lists.

`SessionEditsProofs`, for `RecordingUsers` (`Careful` without the panel editor's Delete;
closing tabs is allowed here) and pages that are not `late`, from `NoneIsNoRow` besides:

* `EditsAreKnown`: `RecordingUsers => (Spec => []UnsavedCoversEdits)`. The invariant
  `EditsInv` says of each page that an undelivered edit implies `unsaved`, that
  nothing waits while a poll is under way, that the body of a save has what the user
  set, and that deleted names are in no list of the page. A workspace made here and
  not yet saved has no mark but its presence in the list, so a conflict must not bring
  another one of its name: `KnownOnlyTo` says that no list, cache, request or answer
  of anybody else has it. This is where careful names are needed.
* `EditsAreNotLost`: from the same invariant, `EditsSurvive`.

`AgentRegistryProofs`, for any agents, places and prefixes among names, from
`AgentAssumption` (an agent is not the absent value and not `Other`; the three
launchers) and, but for the first, `Stoppable` (the launcher is not `byobu-tmux`, for
which the theorems are false):

* `AgentTypeCorrect`: `Spec => []TypeOK`.
* `AgentsRegistered`: `Stoppable => (Spec => []RunningIsRegistered)`. The rows in
  force, the file's or those in the hands of the call, name the place of what
  runs. That alone is not inductive: a launch that fails, or a crash before the
  save, falls back to the file, so `RegInv` adds that until then the file names
  them too. Rows dropped by the cleanup are of agents that do not run, because a
  place where something runs leads to itself (`TargetOK`).
* `StopsAlone`: from the same invariant, `StopEndsItAlone`.

`ClaudeLaunchProofs`, for any requests, from `LaunchAssumption` (the workspace's session
is a place) besides:

* `LaunchesAreUsers`: `LaunchSpec => ImplementsAgents`. A request touches sessions only
  by `new-session` for a free name, which is what users may do anyway; a dying hub is
  the agents' `Crash`, or a stutter when no call of theirs is under way.
* `AgentsBesideLaunches`: hence `Stoppable` and `LaunchSpec` imply
  `RunningIsRegistered` and `StopEndsItAlone` with no further proof.
* `LaunchTypeCorrect`, `OutcomesHold`, `PromptsRead`, `SecondWindows`: from `LaunchInv`,
  which adds to the three checked invariants `Agreement`, what each step of a request
  implies for its window, prompt and caller, and `Knowing`: an attach about to open a
  window knows of the ones that are open.

`ServiceRegistryProofs`, from `ServiceAssumption` (sandboxes are no servers, ports are
numbers, `None` is none of them):

* `ServiceTypeCorrect`, `RowsStay`, `OneRowPerPort`. `RegistryInv` says that rows are
  only of things that were started, and that a call (or server) which nobody crossed
  holds in its hands every listed thing that runs, but for what it drops on purpose.
  `OneRowPerPort` needs that running things have distinct ports, which the clean
  restores to the list.
* `StopsAreAimed`: `Spec => StopsStayOnTheirPort`. Between its look at the list and the
  kill a stop holds rows but neither lock nor port. `AimInv` adds that these rows are of
  things started on its port, which stays theirs (`PortsStay`).

`MachineInventoryProofs` has the lemmas on lists of profiles (what adding, moving,
removing and reordering do to distinct names), `FleetUpdateProofs` the theorems of the
composed system, from `InventoryAssumption`, `BootstrapAssumption`, `GatewayAssumption`
and `FleetAssumption` (names are finitely many, the controller is one of the local
hosts, aliases and malformed names are none of them; addresses of the tailnet are any of
the names):

* `FleetTypeCorrect`, `GatewayKeepsToTheList`, `GatewayAdmitsTheList`,
  `RemovalsSpareProfiles`, `LoneUpdatesKeepTheHub`, `SweepsEndFirst`. `FleetInv` adds to
  the types `KillsUnshared` (no profile that stays has the session a removal is about
  to kill, and the list cannot change since the lock is held), `ConnsOK` (what a
  connection's record says of the files is so, and that it came past them only to an
  address of the tailnet) and `ScriptsOK` (a lone script has the
  machine to itself, so its hub is down from its stop to its start; the script of a
  sweep's end comes after the sweep, which is why it is none of the four things in
  `SweepEndsFirst` that cut one).
* `InventoryImplementsProfileList`: `Spec => ImplementsProfileList`. A call asks when
  it takes the lock and answers when it fills the file; emptying the file, killing a
  session and everything outside the inventory are stutters, and a dying control hub
  drops what was asked. The invariant needed is `Pending`: what a call in the lock is
  about to save is still one change of the list there is now. `CallsBegin` shows that
  of each request's rows, whatever the list: a tab call changes or appends, a removal of
  the changed row is a removal of the old one (`RemovedChanged`), an order that has all
  the names and as many is a list of the same profiles (`ReorderedOutcome`, by counting).
* `HubsDownOnlyInRestarts`: `Spec => []DownOnlyInRestarts`. A script gives up
  port 7000 only because a hub was there when it looked; if that hub is down later,
  another script has stopped it and sees to it. `DownKept` shows it step by step, from
  `StepsOfScripts`, what a step may do to hubs and scripts.

Model-checked only: liveness (`DeadTakerIsReaped`, `SilentTakerIsReaped`, `Converges`,
`BothSidesClose`, `HubComesBack`), which is beyond the prover. Every other property of
a passing run is the statement of a theorem. Of `Converges` and `HubComesBack` the part
that is safety is a property of its own and proved.

## 9. Not modelled

* `rr-queue`: one call and an exit, and a file per folder (see 3.2).
* Notes, skills and files of a workspace: each request reads or writes one file and
  keeps nothing; the last writer wins.
* The Latest view and the other panels of the page render what the hub answers; their
  requests to the queue are those of `TaskQueue`.
* Configuration, helpers, `rr-files`, the install and boot scripts: stateless, or
  straight-line shell run by hand.

Of the modelled parts, besides what their sections set aside: fields no decision reads
(prompts, names, notes, colours); priorities that a save omits and the hub carries
over; priorities set by hand and the list of Claude sessions shown to users; the two
seeds of an empty server, which are writes without a version; the panel editor's copy
of the tabs, made when it opens and saved over tabs added since; a read error of
`queue.json`, which turns it into an empty queue; a crash in the middle of
`sessions.json` in `SessionSync` (it is in `Fleet`), after which every save fails until
somebody repairs the file; keys and actions sent to sessions and the proxies to other
hubs; the version check shown to users, restarts by hand, and the other programs an
update restarts.
