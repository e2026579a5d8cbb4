------------------------------ MODULE TaskQueue ------------------------------
(***************************************************************************)
(* The task queue of the control hub: queue_store.py, its HTTP handlers in *)
(* main.py and the probe claude_sessions.procs_alive.                      *)
(*                                                                         *)
(* A mutating call is one action: the code loads queue.json, changes it    *)
(* and replaces it atomically under _LOCK.  A request for /queue or        *)
(* /queue/next is several: it may first run a reap, which reads the file   *)
(* without the lock, asks each machine about its processes, and only then  *)
(* takes the lock.  Each request runs in a thread of the server's pool, so *)
(* those steps interleave with every other call.                           *)
(*                                                                         *)
(* Calls the code refuses (404, 409) or answers without a change leave the *)
(* state as it is and are the stuttering steps of this specification.      *)
(***************************************************************************)
EXTENDS Naturals, SequencesExt

CONSTANTS
    Tasks,        \* task ids; an id is never used twice (uuid4)
    Machines,     \* machines of the inventory
    HubMachine,   \* the machine the control hub itself runs on
    PidTakers,    \* Claude processes: one element per (pid, start time)
    LeaseTakers,  \* takers that report no pid
    Home,         \* [Takers -> Machines]: where a taker really runs
    AskFor,       \* [Takers -> SUBSET Machines]: the machines it may name
    Place,        \* [Takers -> [workspace, folder]] sent with /queue/next
    Scopes,       \* addresses [machine, workspace, folder] of tasks
    Priorities,   \* 0 is P0, 1 is P1, 2 is P2 and 3 stands for none
    Threads,      \* threads of the server that run /queue and /queue/next
    MaxRequeues,  \* MAX_REQUEUES
    RequeueCap,   \* bound: Update clears `stuck` with null below this count
    MaxRestarts,  \* bound: restarts of the hub
    None          \* an absent value

Takers == PidTakers \cup LeaseTakers

ASSUME QueueAssumption ==
    /\ HubMachine \in Machines
    /\ PidTakers \cap LeaseTakers = {}
    /\ Home \in [Takers -> Machines]
    /\ AskFor \in [Takers -> SUBSET Machines]
    /\ Priorities \subseteq Nat
    /\ MaxRequeues \in Nat \ {0}
    /\ RequeueCap \in Nat
    /\ MaxRestarts \in Nat
    /\ None \notin Takers

VARIABLES
    queue,      \* queue.json: [Tasks -> a record, Absent or Pruned]
    adds,       \* how many tasks were ever added; stands for created_at
    running,    \* takers whose process is running
    reachable,  \* machines whose hub answers the control hub within 3 s
    due,        \* at least _QUEUE_REAP_EVERY_S passed since _queue_reaped_at
    thread,     \* local state of the request in each thread
    restarts,   \* restarts of the hub so far
    handouts,   \* history: times a task was taken since it was last unstuck
    born        \* history: how many tasks were added before it

vars == <<queue, adds, running, reachable, due, thread, restarts, handouts, born>>

-----------------------------------------------------------------------------
(* Task records.  Times are kept only as far as the code compares them     *)
(* with the clock: a lease runs or has expired, a finished task is recent  *)
(* or older than KEEP_FINISHED_S, and created_at is the rank of the add.   *)

Holders == [taker : Takers, machine : Machines]

Absent == [status |-> "absent"]   \* the id was never used
Pruned == [status |-> "pruned"]   \* _save dropped the finished task

TaskRecords ==
    [status : {"waiting", "taken", "done", "cancelled"},
     stuck : BOOLEAN,
     requeues : Nat,
     priority : Priorities,
     scope : Scopes,
     created_at : Nat,
     taken_by : Holders \cup {None},
     lease : {"none", "runs", "expired"},
     done_at : {"none", "recent", "old"}]

Finished(task) == task.status \in {"done", "cancelled"}

\* _save drops the finished tasks that are older than KEEP_FINISHED_S.
Save(tasks) ==
    queue' = [t \in Tasks |-> IF Finished(tasks[t]) /\ tasks[t].done_at = "old"
                              THEN Pruned ELSE tasks[t]]

SaveTask(t, task) == Save([queue EXCEPT ![t] = task])

\* Mutant: the task is flagged one requeue too late.
ToWaitingLate(task) ==
    [task EXCEPT !.status = "waiting", !.taken_by = None, !.lease = "none",
                 !.requeues = @ + 1, !.stuck = task.requeues >= MaxRequeues]

\* Mutant: a task that comes back waits behind the others.
ToWaitingAtTheBack(task) ==
    [task EXCEPT !.status = "waiting", !.taken_by = None, !.lease = "none",
                 !.requeues = @ + 1, !.created_at = adds,
                 !.stuck = @ \/ task.requeues + 1 >= MaxRequeues]

\* Mutant: the taker stays in the record.
ToWaitingKeepingTaker(task) ==
    [task EXCEPT !.status = "waiting", !.lease = "none", !.requeues = @ + 1,
                 !.stuck = @ \/ task.requeues + 1 >= MaxRequeues]

\* _to_waiting: the task lost its taker.
ToWaiting(task) ==
    [task EXCEPT !.status = "waiting",
                 !.taken_by = None,
                 !.lease = "none",
                 !.requeues = @ + 1,
                 !.stuck = @ \/ task.requeues + 1 >= MaxRequeues]

\* matches: may a taker at this machine, workspace and folder take the task?
Matches(scope, machine, place) ==
    /\ scope.machine = machine
    /\ scope.workspace \in {None, place.workspace}
    /\ \/ scope.folder = None
       \/ /\ place.folder # None
          /\ IsPrefix(scope.folder, place.folder)

\* Mutant: the 409 of a closed task is missing.
KnownTask(task) == task.status \notin {"absent", "pruned"}

\* finish and cancel refuse a task that is done or cancelled, whoever holds it.
Closable(task) == task.status \in {"waiting", "taken"}

Closed(task, status) ==
    [task EXCEPT !.status = status, !.done_at = "recent", !.lease = "none"]

\* _order: most urgent first, then oldest.
Before(a, b) ==
    \/ a.priority < b.priority
    \/ a.priority = b.priority /\ a.created_at < b.created_at

-----------------------------------------------------------------------------
(* Requests for /queue and /queue/next, by thread.                         *)

ListRequest == [taker |-> None, machine |-> None]
Requests == Holders \cup {ListRequest}

\* group: the tasks of the reap whose machine is still to be asked.
\* dead: what the reap will requeue.  The code keeps only the task ids; the
\* holder each task had in the reap's snapshot is kept for the properties.
ThreadStates ==
    [pc : {"idle", "reap", "ask", "apply", "serve"},
     request : Requests,
     group : SUBSET (Tasks \X Holders),
     dead : SUBSET (Tasks \X Holders)]

IdleThread == [pc |-> "idle", request |-> ListRequest, group |-> {}, dead |-> {}]

\* The fields of a record agree with its status: who holds a task and how.
Consistent(task) ==
    /\ task.status = "waiting" =>
          task.taken_by = None /\ task.lease = "none" /\ task.done_at = "none"
    /\ task.status = "taken" =>
          /\ task.taken_by \in Holders /\ ~task.stuck /\ task.done_at = "none"
          /\ task.lease = "none" <=> task.taken_by.taker \in PidTakers
    /\ Finished(task) => task.lease = "none" /\ task.done_at # "none"

\* Types, and the records consistent.
TypeOK ==
    /\ \A t \in Tasks : Consistent(queue[t])
    /\ queue \in [Tasks -> TaskRecords \cup {Absent, Pruned}]
    /\ adds \in Nat
    /\ running \subseteq Takers
    /\ reachable \subseteq Machines
    /\ due \in BOOLEAN
    /\ thread \in [Threads -> ThreadStates]
    /\ restarts \in 0..MaxRestarts
    /\ handouts \in [Tasks -> Nat]
    /\ born \in [Tasks -> Nat]

Init ==
    /\ queue = [t \in Tasks |-> Absent]
    /\ adds = 0
    /\ running = Takers
    /\ reachable = Machines
    /\ due = TRUE
    /\ thread = [th \in Threads |-> IdleThread]
    /\ restarts = 0
    /\ handouts = [t \in Tasks |-> 0]
    /\ born = [t \in Tasks |-> 0]

-----------------------------------------------------------------------------
(* Mutating calls: one locked read-modify-write of the file each.  None of *)
(* them knows who calls, so any client may do any of them to any task.     *)

Add(t, priority, scope) ==
    /\ queue[t] = Absent
    /\ SaveTask(t, [status |-> "waiting", stuck |-> FALSE, requeues |-> 0,
                    priority |-> priority, scope |-> scope, created_at |-> adds,
                    taken_by |-> None, lease |-> "none", done_at |-> "none"])
    /\ adds' = adds + 1
    /\ born' = [born EXCEPT ![t] = adds]
    /\ UNCHANGED <<running, reachable, due, thread, restarts, handouts>>

Finish(t) ==
    /\ Closable(queue[t])
    /\ SaveTask(t, Closed(queue[t], "done"))
    /\ UNCHANGED <<adds, running, reachable, due, thread, restarts, handouts, born>>

Cancel(t) ==
    /\ Closable(queue[t])
    /\ SaveTask(t, Closed(queue[t], "cancelled"))
    /\ UNCHANGED <<adds, running, reachable, due, thread, restarts, handouts, born>>

Release(t) ==
    /\ queue[t].status = "taken"
    /\ SaveTask(t, ToWaiting(queue[t]))
    /\ UNCHANGED <<adds, running, reachable, due, thread, restarts, handouts, born>>

Heartbeat(t) ==
    /\ queue[t].status = "taken"
    /\ SaveTask(t, [queue[t] EXCEPT !.lease = IF @ = "none" THEN @ ELSE "runs"])
    /\ UNCHANGED <<adds, running, reachable, due, thread, restarts, handouts, born>>

\* `stuck` in the body of a PATCH: not sent, true, false, or an explicit null,
\* which bool() makes false but which is not `False`, so requeues is kept.
StuckFields == {"unset", "true", "false", "null"}

Update(t, priority, scope, stuck) ==
    /\ queue[t].status = "waiting"
    /\ stuck = "null" => queue[t].requeues < RequeueCap
    /\ SaveTask(t, [queue[t] EXCEPT
                      !.priority = priority,
                      !.scope = scope,
                      !.stuck = IF stuck = "unset" THEN @ ELSE stuck = "true",
                      !.requeues = IF stuck = "false" THEN 0 ELSE @])
    /\ handouts' = IF stuck = "false" \/ (stuck = "null" /\ queue[t].stuck)
                   THEN [handouts EXCEPT ![t] = 0] ELSE handouts
    /\ UNCHANGED <<adds, running, reachable, due, thread, restarts, born>>

-----------------------------------------------------------------------------
(* The steps of a request for /queue or /queue/next in thread th.          *)

\* _queue_reap reads _queue_reaped_at; the write comes in a later step, so
\* two requests can both find that a reap is due.
Begin(th, request) ==
    /\ thread[th].pc = "idle"
    /\ thread' = [thread EXCEPT ![th].pc = IF due THEN "reap" ELSE "serve",
                                ![th].request = request]
    /\ UNCHANGED <<queue, adds, running, reachable, due, restarts, handouts, born>>

HeldTasks == {t \in Tasks : queue[t].status = "taken"}

\* Mutant: a task without a lease counts as expired, with or without a pid.
NoRunningLease(task) == task.lease # "runs"

\* A taker without a pid holds its task until the lease runs out.
Expired(task) == task.taken_by.taker \notin PidTakers /\ task.lease = "expired"

\* reap reads the file without the lock: tasks of takers with a pid are to be
\* asked about, tasks whose lease has run out are given up at once.
Snapshot(th) ==
    /\ thread[th].pc = "reap"
    /\ due' = FALSE
    /\ thread' = [thread EXCEPT
          ![th].pc = "ask",
          ![th].group = {<<t, queue[t].taken_by>> : t \in
              {u \in HeldTasks : queue[u].taken_by.taker \in PidTakers}},
          ![th].dead = {<<t, queue[t].taken_by>> : t \in
              {u \in HeldTasks : Expired(queue[u])}}]
    /\ UNCHANGED <<queue, adds, running, reachable, restarts, handouts, born>>

\* Mutant: the pid exists on that machine, whatever process has it now.
PidInUse(machine, taker) == Home[taker] = machine

\* procs_alive on that machine: is exactly this process (pid and start time)
\* running here?  A pid that belongs to another machine is not.
AliveOn(machine, taker) == taker \in running /\ Home[taker] = machine

\* Mutant: a machine that does not answer has no live process.
BlipFoundDead(asked, machine) ==
    {g \in asked : machine \in reachable => ~AliveOn(machine, g[2].taker)}

\* A machine that does not answer (unreachable, too slow, not in the inventory)
\* says nothing about its processes, and their tasks stay taken.
FoundDead(asked, machine) ==
    {g \in asked : machine \in reachable /\ ~AliveOn(machine, g[2].taker)}

\* One machine answers for its whole group.
Ask(th, machine) ==
    LET asked == {g \in thread[th].group : g[2].machine = machine} IN
    /\ thread[th].pc = "ask"
    /\ asked # {}
    /\ thread' = [thread EXCEPT ![th].group = @ \ asked,
                                ![th].dead = @ \cup FoundDead(asked, machine)]
    /\ UNCHANGED <<queue, adds, running, reachable, due, restarts, handouts, born>>

\* machines.json does not parse while another call rewrites it: _machine_host in
\* the reap, or _queue_machine after it, raises, and the request ends with a 500.
\* Of the reap nothing is applied, not even the leases it saw expired.
RequestFails(th) ==
    /\ \/ thread[th].pc = "ask" /\ thread[th].group # {}
       \/ thread[th].pc = "serve" /\ thread[th].request # ListRequest
    /\ thread' = [thread EXCEPT ![th] = IdleThread]
    /\ UNCHANGED <<queue, adds, running, reachable, due, restarts, handouts, born>>

\* All answers are in; with nothing to requeue reap returns without the lock.
EndAsk(th) ==
    /\ thread[th].pc = "ask" /\ thread[th].group = {}
    /\ thread' = [thread EXCEPT
          ![th].pc = IF thread[th].dead = {} THEN "serve" ELSE "apply"]
    /\ UNCHANGED <<queue, adds, running, reachable, due, restarts, handouts, born>>

\* The locked half of reap: of the tasks found dead, those that are taken now.
Requeued(th) == {t \in HeldTasks : \E d \in thread[th].dead : d[1] = t}

Apply(th) ==
    /\ thread[th].pc = "apply"
    /\ IF Requeued(th) = {} THEN UNCHANGED queue
       ELSE Save([t \in Tasks |-> IF t \in Requeued(th) THEN ToWaiting(queue[t])
                                 ELSE queue[t]])
    /\ thread' = [thread EXCEPT ![th].pc = "serve", ![th].dead = {}]
    /\ UNCHANGED <<adds, running, reachable, due, restarts, handouts, born>>

\* /queue answers with the list.
List(th) ==
    /\ thread[th].pc = "serve" /\ thread[th].request = ListRequest
    /\ thread' = [thread EXCEPT ![th] = IdleThread]
    /\ UNCHANGED <<queue, adds, running, reachable, due, restarts, handouts, born>>

\* Mutant: stuck tasks are handed out too.
StuckCandidates(request) ==
    {t \in Tasks : /\ queue[t].status = "waiting"
                   /\ Matches(queue[t].scope, request.machine, Place[request.taker])}

Candidates(request) ==
    {t \in Tasks : /\ queue[t].status = "waiting"
                   /\ ~queue[t].stuck
                   /\ Matches(queue[t].scope, request.machine, Place[request.taker])}

\* Mutant: the taker without a pid gets no lease.
NoLease(taker) == "none"

LeaseFor(taker) == IF taker \in PidTakers THEN "none" ELSE "runs"

\* take_next.  The process that asked may be gone by now; the task is taken
\* in its name all the same.
TakeNext(th, t) ==
    LET request == thread[th].request
    IN /\ thread[th].pc = "serve" /\ request # ListRequest
       /\ t \in Candidates(request)
       /\ \A u \in Candidates(request) : ~Before(queue[u], queue[t])
       /\ SaveTask(t, [queue[t] EXCEPT
             !.status = "taken",
             !.taken_by = request,
             !.lease = LeaseFor(request.taker)])
       /\ handouts' = [handouts EXCEPT ![t] = @ + 1]
       /\ thread' = [thread EXCEPT ![th] = IdleThread]
       /\ UNCHANGED <<adds, running, reachable, due, restarts, born>>

\* 204: nothing waits for this taker.
TakeNothing(th) ==
    /\ thread[th].pc = "serve" /\ thread[th].request # ListRequest
    /\ Candidates(thread[th].request) = {}
    /\ thread' = [thread EXCEPT ![th] = IdleThread]
    /\ UNCHANGED <<queue, adds, running, reachable, due, restarts, handouts, born>>

-----------------------------------------------------------------------------
(* The world the queue runs in.                                            *)

\* A taker's process ends; it never comes back (a new one has a new start time).
Exit(p) ==
    /\ p \in running
    /\ running' = running \ {p}
    /\ UNCHANGED <<queue, adds, reachable, due, thread, restarts, handouts, born>>

\* Another machine's hub stops or starts answering.
LinkChanges(machine) ==
    /\ machine # HubMachine
    /\ reachable' = IF machine \in reachable THEN reachable \ {machine}
                    ELSE reachable \cup {machine}
    /\ UNCHANGED <<queue, adds, running, due, thread, restarts, handouts, born>>

\* Time: a lease runs out, a finished task gets old, a new reap is due.
LeaseExpires(t) ==
    /\ queue[t].status = "taken" /\ queue[t].lease = "runs"
    /\ queue' = [queue EXCEPT ![t].lease = "expired"]
    /\ UNCHANGED <<adds, running, reachable, due, thread, restarts, handouts, born>>

GrowsOld(t) ==
    /\ Finished(queue[t]) /\ queue[t].done_at = "recent"
    /\ queue' = [queue EXCEPT ![t].done_at = "old"]
    /\ UNCHANGED <<adds, running, reachable, due, thread, restarts, handouts, born>>

ReapDue ==
    /\ ~due
    /\ due' = TRUE
    /\ UNCHANGED <<queue, adds, running, reachable, thread, restarts, handouts, born>>

\* The hub restarts: its requests and _queue_reaped_at are lost, the file stays.
Restart ==
    /\ restarts < MaxRestarts
    /\ restarts' = restarts + 1
    /\ thread' = [th \in Threads |-> IdleThread]
    /\ due' = TRUE
    /\ UNCHANGED <<queue, adds, running, reachable, handouts, born>>

-----------------------------------------------------------------------------

Client ==
    \E t \in Tasks :
        \/ \E priority \in Priorities, scope \in Scopes :
              \/ Add(t, priority, scope)
              \/ \E stuck \in StuckFields : Update(t, priority, scope, stuck)
        \/ Finish(t) \/ Cancel(t) \/ Release(t) \/ Heartbeat(t)

NextRequest(th, p) ==
    /\ p \in running
    /\ \E machine \in AskFor[p] :
          Begin(th, [taker |-> p, machine |-> machine])

Request(th) ==
    \/ Begin(th, ListRequest)
    \/ \E p \in Takers : NextRequest(th, p)

Reap(th) ==
    \/ Snapshot(th) \/ EndAsk(th) \/ Apply(th)
    \/ \E machine \in Machines : Ask(th, machine)

Serve(th) == List(th) \/ TakeNothing(th) \/ \E t \in Tasks : TakeNext(th, t)

World ==
    \/ \E p \in Takers : Exit(p)
    \/ \E machine \in Machines : LinkChanges(machine)
    \/ \E t \in Tasks : LeaseExpires(t) \/ GrowsOld(t)
    \/ ReapDue
    \/ Restart

Next ==
    \/ Client
    \/ \E th \in Threads : Request(th) \/ Reap(th) \/ Serve(th) \/ RequestFails(th)
    \/ World

Spec == Init /\ [][Next]_vars

-----------------------------------------------------------------------------
(* Safety.                                                                 *)

\* Takers name the machine they run on: rr-queue without --machine, where the
\* hub works the machine out from the caller's address.
HonestTakers == \A p \in PidTakers : AskFor[p] \subseteq {Home[p]}

\* What a reap is about to requeue was held, when the reap read the file, by a
\* process that is gone by now: an unreachable machine, a restart or a slow
\* answer never makes a live process count as dead (reap, _queue_alive and
\* procs_alive together).  Takers with a lease are known by their lease only.
OnlyTheGoneAreReaped ==
    \A th \in Threads : \A d \in thread[th].dead :
        d[2].taker \in PidTakers => d[2].taker \notin running

\* A task is handed out at most MAX_REQUEUES times between two decisions of a
\* person to unstick it, however the releases, deaths, expiries and concurrent
\* reaps fall (take_next, _to_waiting, update).
HandoutBound == \A t \in Tasks : handouts[t] <= MaxRequeues

\* The same, per status: the inductive form.  A task that an explicit null
\* unstuck keeps its requeues and has a single handout left.
Allowance(t) ==
    LET task == queue[t] IN
    /\ task.status = "absent" => handouts[t] = 0
    /\ task.status = "waiting" /\ ~task.stuck =>
          \/ handouts[t] = 0
          \/ handouts[t] <= task.requeues /\ task.requeues < MaxRequeues
    /\ task.status = "taken" =>
          \/ handouts[t] <= 1
          \/ handouts[t] <= task.requeues + 1 /\ task.requeues < MaxRequeues

HandoutInv == HandoutBound /\ \A t \in Tasks : Allowance(t)

\* The reap step of some request is what happens.
Reaping(th) == thread[th].pc = "apply" /\ thread'[th].pc = "serve"

Held(t) == queue[t].status = "taken"
HeldBy(t, p) == Held(t) /\ queue[t].taken_by.taker = p

\* The reaper takes a task away from a process that still runs only if the task
\* changed hands since the reap read the file (reap re-checks the status under
\* the lock, not the taker).
LiveHolderLosesOnlyWhatChangedHands ==
    [][\A t \in Tasks, th \in Threads, p \in PidTakers :
         Reaping(th) /\ HeldBy(t, p) /\ p \in running /\ ~HeldBy(t, p)' =>
            \E d \in thread[th].dead : d[1] = t /\ d[2].taker # p]_vars

\* What the queue's own documentation says, without that exception: while the
\* process that took a task is alive the reaper leaves it taken.
StaysTakenWhileAlive ==
    [][\A t \in Tasks, th \in Threads, p \in PidTakers :
         Reaping(th) /\ HeldBy(t, p) /\ p \in running => HeldBy(t, p)']_vars

\* A taker gets none of the tasks it may have while a more urgent one, or one as
\* urgent that was added before it, waits for it too: whatever either went through
\* since, handouts, releases, reaps and edits of address or priority, a task keeps
\* the turn its add gave it (add, _order, take_next, _to_waiting, update).
NoOvertaking ==
    [][\A t, u \in Tasks :
         /\ ~Held(t) /\ Held(t)'
         /\ queue[u].status = "waiting" /\ ~queue[u].stuck
         /\ LET holder == queue'[t].taken_by
            IN Matches(queue[u].scope, holder.machine, Place[holder.taker])
         => \/ queue[t].priority < queue[u].priority
            \/ queue[t].priority = queue[u].priority /\ born[t] <= born[u]]_vars

-----------------------------------------------------------------------------
(* What the queue promises about each task: the abstract board.            *)

Phase(task) ==
    CASE task.status = "absent" -> "unposted"
      [] task.status = "waiting" -> "waiting"
      [] task.status = "taken" -> "out"
      [] Finished(task) -> task.status
      [] OTHER -> "forgotten"

Board == INSTANCE TaskBoard WITH
    MaxHandouts <- MaxRequeues,
    phase <- [t \in Tasks |-> Phase(queue[t])],
    budget <- [t \in Tasks |-> MaxRequeues - handouts[t]]

\* Every run of the queue is a run of the board: tasks are never lost, finished
\* work never comes back, and the handouts stay within the budget, although one
\* save may prune and a reap may requeue several tasks at once.
ImplementsBoard == Board!Spec

-----------------------------------------------------------------------------
(* Liveness.                                                               *)

\* Requests run to their end (every call has a timeout), time passes, and
\* somebody keeps listing the queue: the Latest view polls while it is open,
\* and only a request for /queue or /queue/next ever reaps.
Fairness ==
    /\ WF_vars(ReapDue)
    /\ \A th \in Threads :
          WF_vars(Reap(th)) /\ WF_vars(Serve(th)) /\ WF_vars(Begin(th, ListRequest))
    /\ \A t \in Tasks : WF_vars(LeaseExpires(t))

FairSpec == Spec /\ Fairness

\* From some time on, machines.json parses whenever a request reads it.
InventoryParses == <>[][\A th \in Threads : ~RequestFails(th)]_vars

\* A task whose process died does not stay taken by it, once the machines answer
\* and machines.json parses for good: whatever crashed, failed, was unreachable or
\* raced before.
DeadTakerIsReaped ==
    \A t \in Tasks, p \in PidTakers :
        InventoryParses /\ <>[](reachable = Machines) =>
            (HeldBy(t, p) /\ p \notin running ~> ~HeldBy(t, p))

\* A taker without a pid that stops sending heartbeats loses the task in the end.
SilentTakerIsReaped ==
    \A t \in Tasks, p \in LeaseTakers :
        InventoryParses /\ <>[][~Heartbeat(t)]_vars =>
            (HeldBy(t, p) ~> ~HeldBy(t, p))

=============================================================================
