--------------------------- MODULE TaskQueueProofs ---------------------------
(* Theorems about TaskQueue, for every value of its constants. *)
EXTENDS TaskQueue, TLAPS

QueueOK(tasks) ==
    /\ tasks \in [Tasks -> TaskRecords \cup {Absent, Pruned}]
    /\ \A t \in Tasks : Consistent(tasks[t])

-----------------------------------------------------------------------------
(* Lemmas about records and about the save every mutation ends with. *)

\* An id with a live status has a full record.
LEMMA RecordOf ==
    ASSUME TypeOK, NEW t \in Tasks,
           queue[t].status \in {"waiting", "taken", "done", "cancelled"}
    PROVE  queue[t] \in TaskRecords /\ Consistent(queue[t])
  BY DEF TypeOK, Absent, Pruned

\* Dropping the old finished tasks keeps the file well formed.
LEMMA SaveOK ==
    ASSUME NEW tasks, QueueOK(tasks), Save(tasks)
    PROVE  QueueOK(queue')
  BY DEF Save, QueueOK, Pruned, Consistent, Finished

\* So does replacing one record by a consistent one.
LEMMA SaveTaskOK ==
    ASSUME TypeOK, NEW t \in Tasks, NEW task \in TaskRecords, Consistent(task),
           SaveTask(t, task)
    PROVE  QueueOK(queue')
<1>1. QueueOK([queue EXCEPT ![t] = task])
  BY DEF TypeOK, QueueOK
<1> QED BY <1>1, SaveOK DEF SaveTask

\* A requeued task is a consistent waiting task.
LEMMA ToWaitingOK ==
    ASSUME NEW task \in TaskRecords, task.status = "taken", Consistent(task)
    PROVE  /\ ToWaiting(task) \in TaskRecords
           /\ Consistent(ToWaiting(task))
           /\ ToWaiting(task).status = "waiting"
<1> USE QueueAssumption
<1>1. ToWaiting(task) \in TaskRecords
  <2>1. task.requeues \in Nat /\ task.stuck \in BOOLEAN
    BY DEF TaskRecords
  <2>2. task.requeues + 1 \in Nat
    BY <2>1
  <2>3. (task.stuck \/ task.requeues + 1 >= MaxRequeues) \in BOOLEAN
    OBVIOUS
  <2> QED BY <2>2, <2>3, Zenon DEF ToWaiting, TaskRecords
<1>2. Consistent(ToWaiting(task)) /\ ToWaiting(task).status = "waiting"
  BY DEF ToWaiting, TaskRecords, Consistent, Finished
<1> QED BY <1>1, <1>2

\* A closed task is a consistent finished task.
LEMMA ClosedOK ==
    ASSUME NEW task \in TaskRecords, NEW status \in {"done", "cancelled"}
    PROVE  /\ Closed(task, status) \in TaskRecords
           /\ Consistent(Closed(task, status))
           /\ Closed(task, status).status = status
<1>1. Closed(task, status) \in TaskRecords
  BY DEF Closed, TaskRecords
<1>2. Consistent(Closed(task, status)) /\ Closed(task, status).status = status
  BY DEF Closed, TaskRecords, Consistent, Finished
<1> QED BY <1>1, <1>2

-----------------------------------------------------------------------------
(* Type correctness. *)

LEMMA InitType == Init => TypeOK
  BY QueueAssumption DEF Init, TypeOK, Absent, Pruned, Consistent, Finished,
     ThreadStates, IdleThread, ListRequest, Requests

\* Whoever holds a task is a pair of a taker and a machine.
LEMMA HeldOK ==
    ASSUME TypeOK, NEW t \in HeldTasks
    PROVE  /\ t \in Tasks /\ queue[t] \in TaskRecords /\ queue[t].status = "taken"
           /\ queue[t].taken_by \in Holders
  BY RecordOf DEF HeldTasks, Consistent

\* The mutating calls.
LEMMA ClientType == ASSUME TypeOK, Client PROVE TypeOK'
<1> USE QueueAssumption
<1>1. ASSUME NEW t \in Tasks, NEW priority \in Priorities, NEW scope \in Scopes,
             Add(t, priority, scope)
      PROVE  TypeOK'
  <2> DEFINE task == [status |-> "waiting", stuck |-> FALSE, requeues |-> 0,
                    priority |-> priority, scope |-> scope, created_at |-> adds,
                    taken_by |-> None, lease |-> "none", done_at |-> "none"]
  <2>1. task \in TaskRecords /\ Consistent(task)
    BY DEF TypeOK, TaskRecords, Consistent, Finished
  <2>2. SaveTask(t, task)
    BY <1>1 DEF Add
  <2> HIDE DEF task
  <2>3. QueueOK(queue')
    BY <2>1, <2>2, SaveTaskOK
  <2>4. adds' \in Nat /\ born' \in [Tasks -> Nat]
    BY <1>1 DEF Add, TypeOK
  <2> QED BY <1>1, <2>3, <2>4 DEF Add, TypeOK, QueueOK
<1>2. ASSUME NEW t \in Tasks, NEW priority \in Priorities, NEW scope \in Scopes,
             NEW stuck \in StuckFields, Update(t, priority, scope, stuck)
      PROVE  TypeOK'
  <2> DEFINE task == [queue[t] EXCEPT
                      !.priority = priority,
                      !.scope = scope,
                      !.stuck = IF stuck = "unset" THEN @ ELSE stuck = "true",
                      !.requeues = IF stuck = "false" THEN 0 ELSE @]
  <2>1. queue[t] \in TaskRecords /\ Consistent(queue[t])
    BY <1>2, RecordOf DEF Update
  <2>2. task \in TaskRecords
    BY <2>1 DEF TaskRecords
  <2>3. Consistent(task)
    BY <1>2, <2>1 DEF Update, TaskRecords, Consistent, Finished
  <2>4. SaveTask(t, task)
    BY <1>2 DEF Update
  <2> HIDE DEF task
  <2>5. QueueOK(queue')
    BY <2>2, <2>3, <2>4, SaveTaskOK
  <2> QED BY <1>2, <2>5 DEF Update, TypeOK, QueueOK
<1>3. ASSUME NEW t \in Tasks, Finish(t) \/ Cancel(t) PROVE TypeOK'
  <2>1. queue[t] \in TaskRecords
    BY <1>3, RecordOf DEF Finish, Cancel, Closable
  <2>2. QueueOK(queue')
    BY <1>3, <2>1, ClosedOK, SaveTaskOK DEF Finish, Cancel
  <2> QED BY <1>3, <2>2 DEF Finish, Cancel, TypeOK, QueueOK
<1>4. ASSUME NEW t \in Tasks, Release(t) PROVE TypeOK'
  <2>1. queue[t] \in TaskRecords /\ Consistent(queue[t]) /\ queue[t].status = "taken"
    BY <1>4, RecordOf DEF Release
  <2>2. QueueOK(queue')
    BY <1>4, <2>1, ToWaitingOK, SaveTaskOK DEF Release
  <2> QED BY <1>4, <2>2 DEF Release, TypeOK, QueueOK
<1>5. ASSUME NEW t \in Tasks, Heartbeat(t) PROVE TypeOK'
  <2> DEFINE task == [queue[t] EXCEPT !.lease = IF @ = "none" THEN @ ELSE "runs"]
  <2>1. queue[t] \in TaskRecords /\ Consistent(queue[t]) /\ queue[t].status = "taken"
    BY <1>5, RecordOf DEF Heartbeat
  <2>2. task \in TaskRecords
    BY <2>1 DEF TaskRecords
  <2>3. Consistent(task)
    BY <2>1 DEF TaskRecords, Consistent, Finished
  <2>4. SaveTask(t, task)
    BY <1>5 DEF Heartbeat
  <2> HIDE DEF task
  <2>5. QueueOK(queue')
    BY <2>2, <2>3, <2>4, SaveTaskOK
  <2> QED BY <1>5, <2>5 DEF Heartbeat, TypeOK, QueueOK
<1> QED BY <1>1, <1>2, <1>3, <1>4, <1>5 DEF Client

\* The steps of a request.
LEMMA RequestType ==
    ASSUME TypeOK, NEW th \in Threads,
           Request(th) \/ Reap(th) \/ Serve(th) \/ RequestFails(th)
    PROVE  TypeOK'
<1> USE QueueAssumption
<1>0. thread[th] \in ThreadStates /\ IdleThread \in ThreadStates
  BY DEF TypeOK, ThreadStates, IdleThread, ListRequest, Requests
<1>1. ASSUME NEW request \in Requests, Begin(th, request) PROVE TypeOK'
  BY <1>0, <1>1 DEF Begin, TypeOK, ThreadStates
<1>2. ASSUME NEW p \in Takers, NextRequest(th, p) PROVE TypeOK'
  BY <1>1, <1>2 DEF NextRequest, Requests, Holders, Takers
<1>3. CASE Snapshot(th)
  <2>1. {<<t, queue[t].taken_by>> : t \in
            {u \in HeldTasks : queue[u].taken_by.taker \in PidTakers}}
          \subseteq Tasks \X Holders
    BY HeldOK
  <2>2. {<<t, queue[t].taken_by>> : t \in {u \in HeldTasks : Expired(queue[u])}}
          \subseteq Tasks \X Holders
    BY HeldOK
  <2>3. thread' \in [Threads -> ThreadStates]
    BY <1>3, <1>0, <2>1, <2>2 DEF Snapshot, TypeOK, ThreadStates
  <2> QED BY <1>3, <2>3 DEF Snapshot, TypeOK
<1>4. ASSUME NEW machine \in Machines, Ask(th, machine) PROVE TypeOK'
  <2> DEFINE asked == {g \in thread[th].group : g[2].machine = machine}
  <2>1. FoundDead(asked, machine) \subseteq Tasks \X Holders
    BY <1>0 DEF FoundDead, ThreadStates
  <2>2. thread' = [thread EXCEPT ![th].group = @ \ asked,
                                 ![th].dead = @ \cup FoundDead(asked, machine)]
    BY <1>4 DEF Ask
  <2> HIDE DEF asked
  <2>3. thread' \in [Threads -> ThreadStates]
    BY <1>0, <2>1, <2>2 DEF TypeOK, ThreadStates
  <2> QED BY <1>4, <2>3 DEF Ask, TypeOK
<1>5. CASE EndAsk(th)
  BY <1>0, <1>5 DEF EndAsk, TypeOK, ThreadStates
<1>6. CASE Apply(th)
  <2> DEFINE tasks == [t \in Tasks |-> IF t \in Requeued(th) THEN ToWaiting(queue[t])
                                      ELSE queue[t]]
  <2>1. QueueOK(tasks)
    <3>1. ASSUME NEW t \in Requeued(th)
          PROVE  ToWaiting(queue[t]) \in TaskRecords /\ Consistent(ToWaiting(queue[t]))
      BY HeldOK, ToWaitingOK DEF Requeued, TypeOK
    <3> QED BY <3>1 DEF TypeOK, QueueOK
  <2>2. Save(tasks) \/ UNCHANGED queue
    BY <1>6 DEF Apply
  <2> HIDE DEF tasks
  <2>3. QueueOK(queue')
    BY <2>1, <2>2, SaveOK DEF TypeOK, QueueOK
  <2>4. thread' \in [Threads -> ThreadStates]
    BY <1>0, <1>6 DEF Apply, TypeOK, ThreadStates
  <2> QED BY <1>6, <2>3, <2>4 DEF Apply, TypeOK, QueueOK
<1>7. CASE List(th) \/ TakeNothing(th) \/ RequestFails(th)
  BY <1>0, <1>7 DEF List, TakeNothing, RequestFails, TypeOK
<1>8. ASSUME NEW t \in Tasks, TakeNext(th, t) PROVE TypeOK'
  <2> DEFINE request == thread[th].request
             task == [queue[t] EXCEPT !.status = "taken", !.taken_by = request,
                                      !.lease = LeaseFor(request.taker)]
  <2>1. request \in Holders
    BY <1>0, <1>8 DEF TakeNext, ThreadStates, Requests
  <2>2. queue[t].status = "waiting" /\ ~queue[t].stuck
    BY <1>8 DEF TakeNext, Candidates
  <2>3. queue[t] \in TaskRecords /\ Consistent(queue[t])
    BY <2>2, RecordOf
  <2>4. task \in TaskRecords
    BY <2>1, <2>3 DEF TaskRecords, LeaseFor
  <2>5. Consistent(task)
    BY <2>1, <2>2, <2>3 DEF TaskRecords, Consistent, Finished, LeaseFor
  <2>6. SaveTask(t, task)
    BY <1>8 DEF TakeNext
  <2> HIDE DEF task
  <2>7. QueueOK(queue')
    BY <2>4, <2>5, <2>6, SaveTaskOK
  <2>8. thread' \in [Threads -> ThreadStates]
    BY <1>0, <1>8 DEF TakeNext, TypeOK
  <2>9. handouts' \in [Tasks -> Nat]
    BY <1>8 DEF TakeNext, TypeOK
  <2> QED BY <1>8, <2>7, <2>8, <2>9 DEF TakeNext, TypeOK, QueueOK
<1> QED BY <1>1, <1>2, <1>3, <1>4, <1>5, <1>6, <1>7, <1>8
        DEF Request, Reap, Serve, Requests

\* Processes, links, clocks and restarts.
LEMMA WorldType == ASSUME TypeOK, World PROVE TypeOK'
<1> USE QueueAssumption
<1>1. ASSUME NEW p \in Takers, Exit(p) PROVE TypeOK'
  BY <1>1 DEF Exit, TypeOK
<1>2. ASSUME NEW machine \in Machines, LinkChanges(machine) PROVE TypeOK'
  BY <1>2 DEF LinkChanges, TypeOK
<1>3. ASSUME NEW t \in Tasks, LeaseExpires(t) PROVE TypeOK'
  <2>1. queue[t] \in TaskRecords /\ Consistent(queue[t])
    BY <1>3, RecordOf DEF LeaseExpires
  <2>2. [queue[t] EXCEPT !.lease = "expired"] \in TaskRecords
    BY <2>1 DEF TaskRecords
  <2>3. Consistent([queue[t] EXCEPT !.lease = "expired"])
    BY <1>3, <2>1 DEF LeaseExpires, TaskRecords, Consistent, Finished
  <2> QED BY <1>3, <2>2, <2>3 DEF LeaseExpires, TypeOK
<1>4. ASSUME NEW t \in Tasks, GrowsOld(t) PROVE TypeOK'
  <2>1. queue[t] \in TaskRecords /\ Consistent(queue[t])
    BY <1>4, RecordOf DEF GrowsOld, Finished
  <2>2. [queue[t] EXCEPT !.done_at = "old"] \in TaskRecords
    BY <2>1 DEF TaskRecords
  <2>3. Consistent([queue[t] EXCEPT !.done_at = "old"])
    BY <1>4, <2>1 DEF GrowsOld, TaskRecords, Consistent, Finished
  <2> QED BY <1>4, <2>2, <2>3 DEF GrowsOld, TypeOK
<1>5. CASE ReapDue
  BY <1>5 DEF ReapDue, TypeOK
<1>6. CASE Restart
  BY <1>6 DEF Restart, TypeOK, ThreadStates, IdleThread, ListRequest, Requests
<1> QED BY <1>1, <1>2, <1>3, <1>4, <1>5, <1>6 DEF World

LEMMA TypeCorrectStep == TypeOK /\ [Next]_vars => TypeOK'
<1> SUFFICES ASSUME TypeOK, [Next]_vars PROVE TypeOK'
  OBVIOUS
<1>1. CASE Next
  BY <1>1, ClientType, RequestType, WorldType DEF Next
<1>2. CASE UNCHANGED vars
  BY <1>2 DEF vars, TypeOK
<1> QED BY <1>1, <1>2

\* Every reachable state is well typed, and every task record agrees with its
\* status: waiting tasks have no holder, held tasks a lease exactly when their
\* taker has no pid, finished tasks a date.
THEOREM TypeCorrect == Spec => []TypeOK
<1> QED BY InitType, TypeCorrectStep, PTL DEF Spec

-----------------------------------------------------------------------------
(* How one step may move one task.  The bound on handouts and the            *)
(* refinement of the board both follow from these moves alone.               *)

Stays(t) ==
    /\ queue'[t].status = queue[t].status
    /\ queue[t].status \in {"waiting", "taken"} =>
          queue'[t].stuck = queue[t].stuck /\ queue'[t].requeues = queue[t].requeues
    /\ queue[t].status = "taken" => queue'[t].taken_by = queue[t].taken_by
    /\ handouts'[t] = handouts[t]

IsPosted(t) ==
    /\ queue[t].status = "absent" /\ queue'[t].status = "waiting"
    /\ handouts'[t] = handouts[t]

IsHandedOut(t) ==
    /\ queue[t].status = "waiting" /\ ~queue[t].stuck
    /\ queue'[t].status = "taken" /\ queue'[t].requeues = queue[t].requeues
    /\ \E th \in Threads : /\ thread[th].request # ListRequest
                          /\ queue'[t].taken_by = thread[th].request
    /\ handouts'[t] = handouts[t] + 1

ComesBack(t) ==
    /\ queue[t].status = "taken" /\ queue'[t].status = "waiting"
    /\ queue'[t].requeues = queue[t].requeues + 1
    /\ queue[t].requeues + 1 >= MaxRequeues => queue'[t].stuck
    /\ handouts'[t] = handouts[t]

IsUnstuck(t) ==
    /\ queue[t].status = "waiting" /\ queue'[t].status = "waiting"
    /\ handouts'[t] = 0

IsSetAside(t) ==
    /\ queue[t].status = "waiting" /\ queue'[t].status = "waiting"
    /\ queue'[t].stuck
    /\ handouts'[t] = handouts[t]

IsClosed(t) ==
    /\ queue[t].status \in {"waiting", "taken"}
    /\ queue'[t].status \in {"done", "cancelled"}
    /\ handouts'[t] = handouts[t]

IsForgotten(t) ==
    /\ queue[t].status \in {"done", "cancelled"} /\ queue'[t].status = "pruned"
    /\ handouts'[t] = handouts[t]

Move(t) ==
    \/ Stays(t) \/ IsPosted(t) \/ IsHandedOut(t) \/ ComesBack(t)
    \/ IsUnstuck(t) \/ IsSetAside(t) \/ IsClosed(t) \/ IsForgotten(t)

\* A save leaves every task as it was given, or forgets a finished one.
LEMMA SaveMove ==
    ASSUME NEW tasks, Save(tasks), NEW t \in Tasks
    PROVE  \/ queue'[t] = tasks[t]
           \/ /\ tasks[t].status \in {"done", "cancelled"} /\ tasks[t].done_at = "old"
              /\ queue'[t].status = "pruned"
  BY DEF Save, Finished, Pruned

\* Saving one task that is not old: it gets its record, the others stay or are
\* forgotten.
LEMMA SaveTaskMove ==
    ASSUME TypeOK, NEW t \in Tasks, NEW task, SaveTask(t, task), task.done_at # "old",
           NEW u \in Tasks
    PROVE  /\ u = t => queue'[u] = task
           /\ u # t => \/ queue'[u] = queue[u]
                       \/ /\ queue[u].status \in {"done", "cancelled"}
                          /\ queue'[u].status = "pruned"
<1> DEFINE tasks == [queue EXCEPT ![t] = task]
<1>1. Save(tasks)
  BY DEF SaveTask
<1>2. /\ u = t => tasks[u] = task
      /\ u # t => tasks[u] = queue[u]
  BY DEF TypeOK
<1> HIDE DEF tasks
<1> QED BY <1>1, <1>2, SaveMove

LEMMA ClientMove == ASSUME TypeOK, Client, NEW u \in Tasks PROVE Move(u)
<1>1. ASSUME NEW t \in Tasks, NEW priority \in Priorities, NEW scope \in Scopes,
             Add(t, priority, scope)
      PROVE  Move(u)
  <2> DEFINE task == [status |-> "waiting", stuck |-> FALSE, requeues |-> 0,
                    priority |-> priority, scope |-> scope, created_at |-> adds,
                    taken_by |-> None, lease |-> "none", done_at |-> "none"]
  <2>1. SaveTask(t, task) /\ handouts' = handouts /\ queue[t] = Absent
    BY <1>1 DEF Add
  <2>2. task.done_at # "old" /\ task.status = "waiting"
    OBVIOUS
  <2> HIDE DEF task
  <2>3. CASE u = t
    BY <2>1, <2>2, <2>3, SaveTaskMove DEF Move, IsPosted, Absent
  <2>4. CASE u # t
    BY <2>1, <2>2, <2>4, SaveTaskMove DEF Move, Stays, IsForgotten
  <2> QED BY <2>3, <2>4
<1>2. ASSUME NEW t \in Tasks, NEW priority \in Priorities, NEW scope \in Scopes,
             NEW stuck \in StuckFields, Update(t, priority, scope, stuck)
      PROVE  Move(u)
  <2> DEFINE task == [queue[t] EXCEPT
                      !.priority = priority,
                      !.scope = scope,
                      !.stuck = IF stuck = "unset" THEN @ ELSE stuck = "true",
                      !.requeues = IF stuck = "false" THEN 0 ELSE @]
  <2>1. queue[t] \in TaskRecords /\ Consistent(queue[t]) /\ queue[t].status = "waiting"
    BY <1>2, RecordOf DEF Update
  <2>2. SaveTask(t, task)
    BY <1>2 DEF Update
  <2>3. /\ task.done_at # "old" /\ task.status = "waiting"
        /\ stuck = "unset" => task.stuck = queue[t].stuck
        /\ stuck # "unset" => task.stuck = (stuck = "true")
        /\ stuck # "false" => task.requeues = queue[t].requeues
    BY <2>1 DEF TaskRecords, Consistent
  <2>4. queue[t].stuck \in BOOLEAN
    BY <2>1 DEF TaskRecords
  <2>5. handouts' = IF stuck = "false" \/ (stuck = "null" /\ queue[t].stuck)
                    THEN [handouts EXCEPT ![t] = 0] ELSE handouts
    BY <1>2 DEF Update
  <2>6. handouts \in [Tasks -> Nat]
    BY DEF TypeOK
  <2> HIDE DEF task
  <2>7. CASE u # t
    BY <2>2, <2>3, <2>5, <2>6, <2>7, SaveTaskMove DEF Move, Stays, IsForgotten
  <2>8. CASE u = t
    <3>1. queue'[t] = task
      BY <2>2, <2>3, SaveTaskMove
    <3>2. CASE stuck = "unset"
      BY <2>1, <2>3, <2>5, <2>8, <3>1, <3>2 DEF Move, Stays
    <3>3. CASE stuck = "true"
      BY <2>1, <2>3, <2>5, <2>8, <3>1, <3>3 DEF Move, IsSetAside
    <3>4. CASE stuck = "false" \/ (stuck = "null" /\ queue[t].stuck)
      BY <2>1, <2>3, <2>5, <2>6, <2>8, <3>1, <3>4 DEF Move, IsUnstuck
    <3>5. CASE stuck = "null" /\ ~queue[t].stuck
      <4>1. task.stuck = FALSE /\ queue[t].stuck = FALSE
        BY <2>3, <2>4, <3>5
      <4> QED BY <2>1, <2>3, <2>5, <2>8, <3>1, <3>5, <4>1 DEF Move, Stays
    <3> QED BY <3>2, <3>3, <3>4, <3>5 DEF StuckFields
  <2> QED BY <2>7, <2>8
<1>3. ASSUME NEW t \in Tasks, Finish(t) \/ Cancel(t) PROVE Move(u)
  <2>1. queue[t] \in TaskRecords /\ queue[t].status \in {"waiting", "taken"}
    BY <1>3, RecordOf DEF Finish, Cancel, Closable
  <2>2. PICK status \in {"done", "cancelled"} : SaveTask(t, Closed(queue[t], status))
    BY <1>3 DEF Finish, Cancel
  <2>3. Closed(queue[t], status).done_at # "old" /\ Closed(queue[t], status).status = status
    BY <2>1 DEF Closed, TaskRecords
  <2>4. handouts' = handouts
    BY <1>3 DEF Finish, Cancel
  <2>5. CASE u = t
    BY <2>1, <2>2, <2>3, <2>4, <2>5, SaveTaskMove DEF Move, IsClosed
  <2>6. CASE u # t
    BY <2>2, <2>3, <2>4, <2>6, SaveTaskMove DEF Move, Stays, IsForgotten
  <2> QED BY <2>5, <2>6
<1>4. ASSUME NEW t \in Tasks, Release(t) PROVE Move(u)
  <2>1. queue[t] \in TaskRecords /\ Consistent(queue[t]) /\ queue[t].status = "taken"
    BY <1>4, RecordOf DEF Release
  <2>2. /\ ToWaiting(queue[t]).status = "waiting" /\ ToWaiting(queue[t]).done_at # "old"
        /\ ToWaiting(queue[t]).requeues = queue[t].requeues + 1
        /\ queue[t].requeues + 1 >= MaxRequeues => ToWaiting(queue[t]).stuck
    BY <2>1 DEF ToWaiting, TaskRecords, Consistent
  <2>3. SaveTask(t, ToWaiting(queue[t])) /\ handouts' = handouts
    BY <1>4 DEF Release
  <2>4. CASE u = t
    BY <2>1, <2>2, <2>3, <2>4, SaveTaskMove DEF Move, ComesBack
  <2>5. CASE u # t
    BY <2>2, <2>3, <2>5, SaveTaskMove DEF Move, Stays, IsForgotten
  <2> QED BY <2>4, <2>5
<1>5. ASSUME NEW t \in Tasks, Heartbeat(t) PROVE Move(u)
  <2> DEFINE task == [queue[t] EXCEPT !.lease = IF @ = "none" THEN @ ELSE "runs"]
  <2>1. queue[t] \in TaskRecords /\ Consistent(queue[t]) /\ queue[t].status = "taken"
    BY <1>5, RecordOf DEF Heartbeat
  <2>2. /\ task.status = queue[t].status /\ task.done_at # "old"
        /\ task.requeues = queue[t].requeues /\ task.stuck = queue[t].stuck
        /\ task.taken_by = queue[t].taken_by
    BY <2>1 DEF TaskRecords, Consistent
  <2>3. SaveTask(t, task) /\ handouts' = handouts
    BY <1>5 DEF Heartbeat
  <2> HIDE DEF task
  <2> QED BY <2>1, <2>2, <2>3, SaveTaskMove DEF Move, Stays, IsForgotten
<1> QED BY <1>1, <1>2, <1>3, <1>4, <1>5 DEF Client

LEMMA RequestMove ==
    ASSUME TypeOK, NEW th \in Threads,
           Request(th) \/ Reap(th) \/ Serve(th) \/ RequestFails(th),
           NEW u \in Tasks
    PROVE  Move(u)
<1>1. CASE UNCHANGED <<queue, handouts>>
  BY <1>1 DEF Move, Stays
<1>2. CASE Apply(th) /\ ~UNCHANGED queue
  <2> DEFINE tasks == [t \in Tasks |-> IF t \in Requeued(th) THEN ToWaiting(queue[t])
                                      ELSE queue[t]]
  <2>1. Save(tasks) /\ handouts' = handouts
    BY <1>2 DEF Apply
  <2>2. CASE u \notin Requeued(th)
    <3>1. tasks[u] = queue[u]
      BY <2>2
    <3> HIDE DEF tasks
    <3> QED BY <2>1, <3>1, SaveMove DEF Move, Stays, IsForgotten
  <2>3. CASE u \in Requeued(th)
    <3>1. tasks[u] = ToWaiting(queue[u])
      BY <2>3
    <3>2. queue[u] \in TaskRecords /\ Consistent(queue[u]) /\ queue[u].status = "taken"
      BY <2>3, HeldOK DEF Requeued, TypeOK
    <3>3. /\ ToWaiting(queue[u]).status = "waiting"
          /\ ToWaiting(queue[u]).requeues = queue[u].requeues + 1
          /\ queue[u].requeues + 1 >= MaxRequeues => ToWaiting(queue[u]).stuck
      BY <3>2 DEF ToWaiting, TaskRecords
    <3> HIDE DEF tasks
    <3>4. queue'[u] = ToWaiting(queue[u])
      BY <2>1, <3>1, <3>3, SaveMove
    <3> QED BY <2>1, <3>2, <3>3, <3>4 DEF Move, ComesBack
  <2> QED BY <2>2, <2>3
<1>3. ASSUME NEW t \in Tasks, TakeNext(th, t) PROVE Move(u)
  <2> DEFINE request == thread[th].request
             task == [queue[t] EXCEPT !.status = "taken", !.taken_by = request,
                                      !.lease = LeaseFor(request.taker)]
  <2>1. queue[t].status = "waiting" /\ ~queue[t].stuck
    BY <1>3 DEF TakeNext, Candidates
  <2>2. queue[t] \in TaskRecords /\ Consistent(queue[t])
    BY <2>1, RecordOf
  <2>3. SaveTask(t, task) /\ handouts' = [handouts EXCEPT ![t] = @ + 1]
    BY <1>3 DEF TakeNext
  <2>4. /\ task.done_at # "old" /\ task.status = "taken"
        /\ task.requeues = queue[t].requeues /\ task.taken_by = request
    BY <2>1, <2>2 DEF TaskRecords, Consistent
  <2>9. request # ListRequest
    BY <1>3 DEF TakeNext
  <2>5. handouts \in [Tasks -> Nat]
    BY DEF TypeOK
  <2> HIDE DEF task
  <2>6. CASE u = t
    BY <2>1, <2>3, <2>4, <2>5, <2>6, <2>9, SaveTaskMove DEF Move, IsHandedOut
  <2>7. CASE u # t
    BY <2>3, <2>4, <2>5, <2>7, SaveTaskMove DEF Move, Stays, IsForgotten
  <2> QED BY <2>6, <2>7
<1> QED BY <1>1, <1>2, <1>3
        DEF Request, NextRequest, Reap, Serve, Begin, Snapshot, EndAsk, Apply, Ask,
            List, TakeNothing, RequestFails

LEMMA WorldMove == ASSUME TypeOK, World, NEW u \in Tasks PROVE Move(u)
<1>1. CASE UNCHANGED <<queue, handouts>>
  BY <1>1 DEF Move, Stays
<1>2. ASSUME NEW t \in Tasks, LeaseExpires(t) \/ GrowsOld(t) PROVE Move(u)
  <2>1. queue[t] \in TaskRecords
    BY <1>2, RecordOf DEF LeaseExpires, GrowsOld, Finished
  <2>2. CASE LeaseExpires(t)
    <3>1. queue' = [queue EXCEPT ![t] = [queue[t] EXCEPT !.lease = "expired"]]
      BY <2>2 DEF LeaseExpires
    <3> QED BY <2>1, <2>2, <3>1 DEF LeaseExpires, TypeOK, TaskRecords, Move, Stays
  <2>3. CASE GrowsOld(t)
    <3>1. queue' = [queue EXCEPT ![t] = [queue[t] EXCEPT !.done_at = "old"]]
      BY <2>3 DEF GrowsOld
    <3> QED BY <2>1, <2>3, <3>1 DEF GrowsOld, TypeOK, TaskRecords, Move, Stays
  <2> QED BY <1>2, <2>2, <2>3
<1> QED BY <1>1, <1>2 DEF World, Exit, LinkChanges, ReapDue, Restart

LEMMA NextMove == TypeOK /\ [Next]_vars => \A u \in Tasks : Move(u)
<1> SUFFICES ASSUME TypeOK, [Next]_vars, NEW u \in Tasks PROVE Move(u)
  OBVIOUS
<1>1. CASE Next
  BY <1>1, ClientMove, RequestMove, WorldMove DEF Next
<1>2. CASE UNCHANGED vars
  BY <1>2 DEF vars, Move, Stays
<1> QED BY <1>1, <1>2

-----------------------------------------------------------------------------
(* The order. *)

\* Only a request for the next task hands one out.
LEMMA OnlyTakeNextHandsOut ==
    ASSUME TypeOK, [Next]_vars, NEW t \in Tasks, ~Held(t), Held(t)'
    PROVE  \E th \in Threads : TakeNext(th, t)
<1>1. IsHandedOut(t)
  BY NextMove DEF Move, Held, Stays, IsPosted, ComesBack, IsUnstuck, IsSetAside, IsClosed,
     IsForgotten
<1>2. handouts \in [Tasks -> Nat] /\ handouts'[t] = handouts[t] + 1
  BY <1>1 DEF IsHandedOut, TypeOK
<1>3. handouts'[t] # handouts[t] /\ handouts'[t] # 0
  BY <1>2
<1>4. Next
  BY <1>3 DEF vars
<1>5. ~Client
  <2>1. ASSUME NEW u \in Tasks, NEW priority \in Priorities, NEW scope \in Scopes,
               NEW stuck \in StuckFields, Update(u, priority, scope, stuck)
        PROVE  FALSE
    <3>1. handouts' = [handouts EXCEPT ![u] = 0] \/ handouts' = handouts
      BY <2>1 DEF Update
    <3> QED BY <1>2, <1>3, <3>1
  <2> QED BY <1>3, <2>1 DEF Client, Add, Finish, Cancel, Release, Heartbeat
<1>6. ~World
  BY <1>3 DEF World, Exit, LinkChanges, LeaseExpires, GrowsOld, ReapDue, Restart
<1>7. PICK th \in Threads : Request(th) \/ Reap(th) \/ Serve(th) \/ RequestFails(th)
  BY <1>4, <1>5, <1>6 DEF Next
<1>8. PICK u \in Tasks : TakeNext(th, u)
  BY <1>3, <1>7 DEF Request, NextRequest, Begin, Reap, Snapshot, Ask, EndAsk, Apply,
     Serve, List, TakeNothing, RequestFails
<1>9. handouts' = [handouts EXCEPT ![u] = @ + 1]
  BY <1>8 DEF TakeNext
<1>10. u = t
  BY <1>2, <1>3, <1>9
<1> QED BY <1>8, <1>10

\* The date a task is ordered by is the date of its add.
Dated(t) ==
    queue[t].status \in {"waiting", "taken", "done", "cancelled"} =>
        queue[t].created_at = born[t]

KeepsItsTurn == \A t \in Tasks : Dated(t)

\* A saved task keeps its turn if its record names it, and the others keep theirs.
LEMMA SaveKeepsTurns ==
    ASSUME TypeOK, KeepsItsTurn, UNCHANGED born, NEW t \in Tasks,
           NEW task, task.created_at = born[t], task.done_at # "old", SaveTask(t, task)
    PROVE  KeepsItsTurn'
<1> SUFFICES ASSUME NEW u \in Tasks PROVE Dated(u)'
  BY DEF KeepsItsTurn
<1>1. CASE u = t
  BY <1>1, SaveTaskMove DEF Dated
<1>2. CASE u # t
  <2>1. \/ queue'[u] = queue[u]
        \/ queue'[u].status = "pruned"
    BY <1>2, SaveTaskMove
  <2> QED BY <2>1 DEF Dated, KeepsItsTurn
<1> QED BY <1>1, <1>2

LEMMA TurnStep == TypeOK /\ KeepsItsTurn /\ [Next]_vars => KeepsItsTurn'
<1> SUFFICES ASSUME TypeOK, KeepsItsTurn, [Next]_vars PROVE KeepsItsTurn'
  OBVIOUS
<1> USE QueueAssumption
<1>1. CASE UNCHANGED <<queue, born>>
  BY <1>1 DEF KeepsItsTurn, Dated
<1>2. ASSUME NEW t \in Tasks, NEW priority \in Priorities, NEW scope \in Scopes,
             Add(t, priority, scope)
      PROVE  KeepsItsTurn'
  <2> DEFINE task == [status |-> "waiting", stuck |-> FALSE, requeues |-> 0,
                    priority |-> priority, scope |-> scope, created_at |-> adds,
                    taken_by |-> None, lease |-> "none", done_at |-> "none"]
  <2>1. SaveTask(t, task) /\ task.created_at = adds /\ task.done_at # "old"
    BY <1>2 DEF Add
  <2>2. /\ born \in [Tasks -> Nat] /\ born' = [born EXCEPT ![t] = adds]
    BY <1>2 DEF Add, TypeOK
  <2> HIDE DEF task
  <2>3. SUFFICES ASSUME NEW u \in Tasks PROVE Dated(u)'
    BY DEF KeepsItsTurn
  <2>4. CASE u = t
    BY <2>1, <2>2, <2>4, SaveTaskMove DEF Dated
  <2>5. CASE u # t
    <3>1. queue'[u] = queue[u] \/ queue'[u].status = "pruned"
      BY <2>1, <2>5, SaveTaskMove
    <3>2. born'[u] = born[u]
      BY <2>2, <2>5
    <3> QED BY <3>1, <3>2 DEF Dated, KeepsItsTurn
  <2> QED BY <2>4, <2>5
<1>3. ASSUME NEW t \in Tasks, NEW priority \in Priorities, NEW scope \in Scopes,
             NEW stuck \in StuckFields, Update(t, priority, scope, stuck)
      PROVE  KeepsItsTurn'
  <2> DEFINE task == [queue[t] EXCEPT
                      !.priority = priority,
                      !.scope = scope,
                      !.stuck = IF stuck = "unset" THEN @ ELSE stuck = "true",
                      !.requeues = IF stuck = "false" THEN 0 ELSE @]
  <2>1. queue[t] \in TaskRecords /\ Consistent(queue[t]) /\ queue[t].status = "waiting"
    BY <1>3, RecordOf DEF Update
  <2>2. SaveTask(t, task) /\ UNCHANGED born
    BY <1>3 DEF Update
  <2>3. task.created_at = born[t] /\ task.done_at # "old"
    BY <2>1 DEF TaskRecords, Consistent, KeepsItsTurn, Dated
  <2> HIDE DEF task
  <2> QED BY <2>2, <2>3, SaveKeepsTurns
<1>4. ASSUME NEW t \in Tasks, Finish(t) \/ Cancel(t) PROVE KeepsItsTurn'
  <2>1. queue[t] \in TaskRecords /\ queue[t].status \in {"waiting", "taken"}
    BY <1>4, RecordOf DEF Finish, Cancel, Closable
  <2>2. PICK status \in {"done", "cancelled"} : SaveTask(t, Closed(queue[t], status))
    BY <1>4 DEF Finish, Cancel
  <2>3. /\ Closed(queue[t], status).created_at = born[t]
        /\ Closed(queue[t], status).done_at # "old"
    BY <2>1 DEF Closed, TaskRecords, KeepsItsTurn, Dated
  <2> QED BY <1>4, <2>2, <2>3, SaveKeepsTurns DEF Finish, Cancel
<1>5. ASSUME NEW t \in Tasks, Release(t) PROVE KeepsItsTurn'
  <2>1. queue[t] \in TaskRecords /\ Consistent(queue[t]) /\ queue[t].status = "taken"
    BY <1>5, RecordOf DEF Release
  <2>2. ToWaiting(queue[t]).created_at = born[t] /\ ToWaiting(queue[t]).done_at # "old"
    BY <2>1 DEF ToWaiting, TaskRecords, Consistent, KeepsItsTurn, Dated
  <2> QED BY <1>5, <2>2, SaveKeepsTurns DEF Release
<1>6. ASSUME NEW t \in Tasks, Heartbeat(t) PROVE KeepsItsTurn'
  <2> DEFINE task == [queue[t] EXCEPT !.lease = IF @ = "none" THEN @ ELSE "runs"]
  <2>1. queue[t] \in TaskRecords /\ Consistent(queue[t]) /\ queue[t].status = "taken"
    BY <1>6, RecordOf DEF Heartbeat
  <2>2. task.created_at = born[t] /\ task.done_at # "old"
    BY <2>1 DEF TaskRecords, Consistent, KeepsItsTurn, Dated
  <2>3. SaveTask(t, task) /\ UNCHANGED born
    BY <1>6 DEF Heartbeat
  <2> HIDE DEF task
  <2> QED BY <2>2, <2>3, SaveKeepsTurns
<1>7. ASSUME NEW th \in Threads, Apply(th), ~UNCHANGED queue PROVE KeepsItsTurn'
  <2> DEFINE tasks == [t \in Tasks |-> IF t \in Requeued(th) THEN ToWaiting(queue[t])
                                      ELSE queue[t]]
  <2>1. Save(tasks) /\ UNCHANGED born
    BY <1>7 DEF Apply
  <2>2. SUFFICES ASSUME NEW u \in Tasks PROVE Dated(u)'
    BY DEF KeepsItsTurn
  <2>3. CASE u \notin Requeued(th)
    <3>1. tasks[u] = queue[u]
      BY <2>3
    <3> HIDE DEF tasks
    <3> QED BY <2>1, <3>1, SaveMove DEF KeepsItsTurn, Dated
  <2>4. CASE u \in Requeued(th)
    <3>1. tasks[u] = ToWaiting(queue[u])
      BY <2>4
    <3>2. queue[u] \in TaskRecords /\ queue[u].status = "taken"
      BY <2>4, HeldOK DEF Requeued, TypeOK
    <3>3. ToWaiting(queue[u]).created_at = born[u] /\ ToWaiting(queue[u]).status = "waiting"
      BY <3>2 DEF ToWaiting, TaskRecords, KeepsItsTurn, Dated
    <3> HIDE DEF tasks
    <3> QED BY <2>1, <3>1, <3>3, SaveMove DEF Dated
  <2> QED BY <2>3, <2>4
<1>8. ASSUME NEW th \in Threads, NEW t \in Tasks, TakeNext(th, t) PROVE KeepsItsTurn'
  <2> DEFINE task == [queue[t] EXCEPT !.status = "taken", !.taken_by = thread[th].request,
                                      !.lease = LeaseFor(thread[th].request.taker)]
  <2>1. queue[t].status = "waiting" /\ queue[t] \in TaskRecords /\ Consistent(queue[t])
    BY <1>8, RecordOf DEF TakeNext, Candidates
  <2>2. task.created_at = born[t] /\ task.done_at # "old"
    BY <2>1 DEF TaskRecords, Consistent, KeepsItsTurn, Dated
  <2>3. SaveTask(t, task) /\ UNCHANGED born
    BY <1>8 DEF TakeNext
  <2> HIDE DEF task
  <2> QED BY <2>2, <2>3, SaveKeepsTurns
<1>9. ASSUME NEW t \in Tasks, LeaseExpires(t) \/ GrowsOld(t) PROVE KeepsItsTurn'
  <2>1. queue[t] \in TaskRecords
    BY <1>9, RecordOf DEF LeaseExpires, GrowsOld, Finished
  <2>2. PICK task \in {[queue[t] EXCEPT !.lease = "expired"],
                       [queue[t] EXCEPT !.done_at = "old"]} :
           queue' = [queue EXCEPT ![t] = task]
    BY <1>9 DEF LeaseExpires, GrowsOld
  <2>3. task.created_at = queue[t].created_at /\ task.status = queue[t].status
    BY <2>1, <2>2 DEF TaskRecords
  <2>4. UNCHANGED born
    BY <1>9 DEF LeaseExpires, GrowsOld
  <2> QED BY <2>2, <2>3, <2>4 DEF TypeOK, KeepsItsTurn, Dated
<1>10. CASE UNCHANGED vars
  BY <1>1, <1>10 DEF vars
<1>11. CASE Client
  BY <1>2, <1>3, <1>4, <1>5, <1>6, <1>11 DEF Client
<1>12. CASE World
  BY <1>1, <1>9, <1>12 DEF World, Exit, LinkChanges, ReapDue, Restart
<1>13. ASSUME NEW th \in Threads, Request(th) \/ Reap(th) \/ Serve(th) \/ RequestFails(th)
       PROVE  KeepsItsTurn'
  <2>1. CASE Apply(th) \/ \E t \in Tasks : TakeNext(th, t)
    <3>1. Apply(th) => UNCHANGED born
      BY DEF Apply
    <3> QED BY <1>1, <1>7, <1>8, <2>1, <3>1
  <2>2. CASE ~(Apply(th) \/ \E t \in Tasks : TakeNext(th, t))
    <3>1. UNCHANGED <<queue, born>>
      BY <1>13, <2>2 DEF Request, NextRequest, Reap, Serve, Begin, Snapshot, EndAsk, Ask,
         List, TakeNothing, RequestFails
    <3> QED BY <1>1, <3>1
  <2> QED BY <2>1, <2>2
<1> QED BY <1>10, <1>11, <1>12, <1>13 DEF Next

\* Whatever was edited, released, reaped or handed out before, nobody gets a task
\* while another one it may have waits that is more urgent, or as urgent and added
\* earlier (add, _order, take_next, _to_waiting, update).
THEOREM OrderIsKept == Spec => NoOvertaking
<1>1. TypeOK /\ KeepsItsTurn /\ [Next]_vars =>
        \A t, u \in Tasks :
          /\ ~Held(t) /\ Held(t)'
          /\ queue[u].status = "waiting" /\ ~queue[u].stuck
          /\ LET holder == queue'[t].taken_by
             IN Matches(queue[u].scope, holder.machine, Place[holder.taker])
          => \/ queue[t].priority < queue[u].priority
             \/ queue[t].priority = queue[u].priority /\ born[t] <= born[u]
  <2> SUFFICES ASSUME TypeOK, KeepsItsTurn, [Next]_vars, NEW t \in Tasks, NEW u \in Tasks,
                      ~Held(t), Held(t)',
                      queue[u].status = "waiting", ~queue[u].stuck,
                      Matches(queue[u].scope, queue'[t].taken_by.machine,
                              Place[queue'[t].taken_by.taker])
               PROVE  \/ queue[t].priority < queue[u].priority
                      \/ queue[t].priority = queue[u].priority /\ born[t] <= born[u]
    OBVIOUS
  <2>1. PICK th \in Threads : TakeNext(th, t)
    BY OnlyTakeNextHandsOut
  <2> DEFINE request == thread[th].request
             task == [queue[t] EXCEPT !.status = "taken", !.taken_by = request,
                                      !.lease = LeaseFor(request.taker)]
  <2>2. t \in Candidates(request)
    BY <2>1 DEF TakeNext
  <2>3. queue[t] \in TaskRecords /\ queue[u] \in TaskRecords /\ Consistent(queue[t])
    BY <2>2, RecordOf DEF Candidates
  <2>4. queue'[t].taken_by = request
    <3>1. task.taken_by = request /\ task.done_at # "old"
      BY <2>2, <2>3 DEF TaskRecords, Consistent, Candidates
    <3>2. SaveTask(t, task)
      BY <2>1 DEF TakeNext
    <3> HIDE DEF task
    <3> QED BY <3>1, <3>2, SaveTaskMove
  <2>5. u \in Candidates(request)
    BY <2>4 DEF Candidates
  <2>6. ~Before(queue[u], queue[t])
    BY <2>1, <2>5 DEF TakeNext
  <2>7. /\ queue[t].priority \in Nat /\ queue[u].priority \in Nat
        /\ queue[t].created_at \in Nat /\ queue[u].created_at \in Nat
    BY <2>3, QueueAssumption DEF TaskRecords
  <2>8. queue[t].created_at = born[t] /\ queue[u].created_at = born[u]
    BY <2>2 DEF KeepsItsTurn, Dated, Candidates
  <2> QED BY <2>6, <2>7, <2>8 DEF Before
<1>2. Init => KeepsItsTurn
  BY DEF Init, KeepsItsTurn, Dated, Absent
<1> QED BY <1>1, <1>2, TurnStep, TypeCorrect, PTL DEF Spec, NoOvertaking

-----------------------------------------------------------------------------
(* The bound on handouts. *)

LEMMA HandoutStep == TypeOK /\ HandoutInv /\ [Next]_vars => HandoutInv'
<1> SUFFICES ASSUME TypeOK, HandoutInv, [Next]_vars PROVE HandoutInv'
  OBVIOUS
<1> USE QueueAssumption
<1>1. TypeOK'
  BY TypeCorrectStep
<1>2. SUFFICES ASSUME NEW t \in Tasks PROVE handouts'[t] <= MaxRequeues /\ Allowance(t)'
  BY DEF HandoutInv, HandoutBound
<1>3. /\ handouts[t] \in Nat /\ handouts[t] <= MaxRequeues
      /\ handouts'[t] \in Nat
      /\ Allowance(t)
  BY <1>1 DEF TypeOK, HandoutInv, HandoutBound
<1>4. queue[t].status = "taken" => ~queue[t].stuck
  BY RecordOf DEF Consistent
<1>5. /\ queue[t].status \in {"waiting", "taken"} => queue[t].requeues \in Nat
      /\ queue'[t].status \in {"waiting", "taken"} => queue'[t].requeues \in Nat
  BY <1>1 DEF TypeOK, TaskRecords, Absent, Pruned
<1>6. Move(t)
  BY NextMove
<1>7. CASE Stays(t)
  BY <1>3, <1>5, <1>7 DEF Stays, Allowance
<1>8. CASE IsPosted(t)
  BY <1>3, <1>8 DEF IsPosted, Allowance
<1>9. CASE IsHandedOut(t)
  BY <1>3, <1>5, <1>9 DEF IsHandedOut, Allowance
<1>10. CASE ComesBack(t)
  BY <1>3, <1>4, <1>5, <1>10 DEF ComesBack, Allowance
<1>11. CASE IsUnstuck(t) \/ IsSetAside(t) \/ IsClosed(t) \/ IsForgotten(t)
  BY <1>3, <1>11 DEF IsUnstuck, IsSetAside, IsClosed, IsForgotten, Allowance
<1> QED BY <1>6, <1>7, <1>8, <1>9, <1>10, <1>11 DEF Move

\* Whatever the interleaving of takers, releases, restarts and concurrent reaps,
\* the handouts of a task are covered by the requeues counted for it and the
\* decisions to unstick it (take_next, _to_waiting, update).
THEOREM HandoutsCounted == Spec => []HandoutInv
<1>1. Init => HandoutInv
  BY QueueAssumption DEF Init, HandoutInv, HandoutBound, Allowance, Absent
<1> QED BY <1>1, HandoutStep, TypeCorrect, PTL DEF Spec

\* So a task is handed out at most MAX_REQUEUES times before a person has to
\* unstick it (queue_store.py, MAX_REQUEUES).
THEOREM HandoutsBounded == Spec => []HandoutBound
<1>1. HandoutInv => HandoutBound
  BY DEF HandoutInv
<1> QED BY <1>1, HandoutsCounted, PTL

-----------------------------------------------------------------------------
(* Refinement of the board. *)

\* The initial queue is an initial board, and every step of the queue moves
\* every task by a step of the board: one save may prune, and one reap requeue,
\* several tasks at once.
THEOREM QueueImplementsBoard == Spec => ImplementsBoard
<1> USE QueueAssumption
<1>1. Init => Board!Init
  <2>1. Phase(Absent) = "unposted"
    BY DEF Phase, Absent, Finished
  <2>2. MaxRequeues - 0 = MaxRequeues
    OBVIOUS
  <2> QED BY <2>1, <2>2 DEF Init, Board!Init
<1>2. TypeOK /\ HandoutInv /\ [Next]_vars => [Board!Next]_(Board!vars)
  <2> SUFFICES ASSUME TypeOK, HandoutInv, [Next]_vars PROVE Board!Next
    OBVIOUS
  <2>1. TypeOK' /\ HandoutInv'
    BY TypeCorrectStep, HandoutStep
  <2>2. ASSUME NEW t \in Tasks PROVE Board!TaskStep(t)
    <3>1. /\ handouts[t] \in Nat /\ handouts'[t] \in Nat
          /\ handouts[t] <= MaxRequeues /\ handouts'[t] <= MaxRequeues
      BY <2>1 DEF TypeOK, HandoutInv, HandoutBound
    <3>2. Move(t)
      BY NextMove
    <3> USE <3>1 DEF Board!TaskStep, Board!Moves, Phase, Finished
    <3>3. CASE Stays(t)
      BY <3>3 DEF Stays, Board!Rests
    <3>4. CASE IsPosted(t)
      BY <3>4 DEF IsPosted, Board!Post
    <3>5. CASE IsHandedOut(t)
      BY <3>5 DEF IsHandedOut, Board!HandOut
    <3>6. CASE ComesBack(t)
      BY <3>6 DEF ComesBack, Board!ComeBack
    <3>7. CASE IsUnstuck(t)
      BY <3>7 DEF IsUnstuck, Board!Renew
    <3>8. CASE IsSetAside(t)
      BY <3>8 DEF IsSetAside, Board!Rests
    <3>9. CASE IsClosed(t)
      BY <3>9 DEF IsClosed, Board!Close
    <3>10. CASE IsForgotten(t)
      BY <3>10 DEF IsForgotten, Board!Forget
    <3> QED BY <3>2, <3>3, <3>4, <3>5, <3>6, <3>7, <3>8, <3>9, <3>10 DEF Move
  <2> QED BY <2>2 DEF Board!Next
<1>3. Init => HandoutInv
  BY DEF Init, HandoutInv, HandoutBound, Allowance, Absent
<1> QED BY <1>1, <1>2, <1>3, HandoutStep, TypeCorrect, PTL
        DEF Spec, ImplementsBoard, Board!Spec

-----------------------------------------------------------------------------
(* The reaper and the living. *)

\* Every holder the queue or a request knows of runs where it said it runs.
AtHome(holder) == holder.taker \in PidTakers => holder.machine = Home[holder.taker]

ReapInv ==
    /\ \A t \in HeldTasks : AtHome(queue[t].taken_by)
    /\ \A th \in Threads :
          /\ thread[th].request # ListRequest => AtHome(thread[th].request)
          /\ \A g \in thread[th].group : AtHome(g[2])
    /\ OnlyTheGoneAreReaped

LEMMA ReapStep == HonestTakers /\ TypeOK /\ ReapInv /\ [Next]_vars => ReapInv'
<1> SUFFICES ASSUME HonestTakers, TypeOK, ReapInv, [Next]_vars PROVE ReapInv'
  OBVIOUS
<1> DEFINE Holding == \A t \in HeldTasks : AtHome(queue[t].taken_by)
           Asking == \A th \in Threads :
                       /\ thread[th].request # ListRequest => AtHome(thread[th].request)
                       /\ \A g \in thread[th].group : AtHome(g[2])
<1>1. Holding'
  <2> SUFFICES ASSUME NEW t \in Tasks, queue'[t].status = "taken"
               PROVE  AtHome(queue'[t].taken_by)
    BY DEF HeldTasks, AtHome
  <2>1. CASE IsHandedOut(t)
    BY <2>1 DEF IsHandedOut, ReapInv
  <2>2. CASE Stays(t)
    BY <2>2 DEF Stays, ReapInv, HeldTasks
  <2> QED BY <2>1, <2>2, NextMove
          DEF Move, IsPosted, ComesBack, IsUnstuck, IsSetAside, IsClosed, IsForgotten
<1> DEFINE AskingOK(th) ==
             /\ thread'[th].request # ListRequest => AtHome(thread'[th].request)
             /\ \A g \in thread'[th].group : AtHome(g[2])
           DeadOK(th) ==
             \A d \in thread'[th].dead :
                d[2].taker \in PidTakers => d[2].taker \notin running'
<1>2. running' \subseteq running
  BY DEF Next, Client, Request, NextRequest, Reap, Serve, World, Add, Update, Finish,
     Cancel, Release, Heartbeat, Begin, Snapshot, Ask, EndAsk, Apply, List, TakeNothing,
     TakeNext, RequestFails, Exit, LinkChanges, LeaseExpires, GrowsOld, ReapDue, Restart, vars
<1>3. ASSUME NEW th \in Threads, thread'[th] = thread[th]
      PROVE  AskingOK(th) /\ DeadOK(th)
  BY <1>2, <1>3 DEF ReapInv, OnlyTheGoneAreReaped
<1>4. ASSUME NEW th \in Threads, thread'[th] = IdleThread
      PROVE  AskingOK(th) /\ DeadOK(th)
  BY <1>4 DEF IdleThread
<1>5. ASSUME NEW th \in Threads, NEW request \in Requests, Begin(th, request),
             request # ListRequest => AtHome(request)
      PROVE  AskingOK(th) /\ DeadOK(th)
  <2>1. /\ thread'[th].request = request
        /\ thread'[th].group = thread[th].group /\ thread'[th].dead = thread[th].dead
    BY <1>5 DEF Begin, TypeOK, ThreadStates
  <2> QED BY <1>2, <1>5, <2>1 DEF ReapInv, OnlyTheGoneAreReaped
<1>6. ASSUME NEW th \in Threads, NEW p \in Takers, NextRequest(th, p)
      PROVE  AskingOK(th) /\ DeadOK(th)
  <2>1. PICK machine \in AskFor[p] : Begin(th, [taker |-> p, machine |-> machine])
    BY <1>6 DEF NextRequest
  <2>2. machine \in Machines
    BY <2>1, QueueAssumption
  <2>3. /\ [taker |-> p, machine |-> machine] \in Requests
        /\ AtHome([taker |-> p, machine |-> machine])
    BY <2>1, <2>2 DEF Requests, Holders, AtHome, HonestTakers
  <2> QED BY <1>5, <2>1, <2>3
<1>7. ASSUME NEW th \in Threads, Snapshot(th) PROVE AskingOK(th) /\ DeadOK(th)
  <2>1. /\ thread'[th].request = thread[th].request
        /\ \A g \in thread'[th].group : \E t \in HeldTasks : g[2] = queue[t].taken_by
        /\ \A d \in thread'[th].dead : d[2].taker \notin PidTakers
    <3> DEFINE asked == {<<t, queue[t].taken_by>> : t \in
                          {u \in HeldTasks : queue[u].taken_by.taker \in PidTakers}}
               lapsed == {<<t, queue[t].taken_by>> : t \in
                          {u \in HeldTasks : Expired(queue[u])}}
    <3>1. /\ thread'[th].request = thread[th].request
          /\ thread'[th].group = asked /\ thread'[th].dead = lapsed
      BY <1>7 DEF Snapshot, TypeOK, ThreadStates
    <3>2. \A g \in asked : \E t \in HeldTasks : g[2] = queue[t].taken_by
      OBVIOUS
    <3>3. \A d \in lapsed : d[2].taker \notin PidTakers
      BY DEF Expired
    <3> QED BY <3>1, <3>2, <3>3
  <2> QED BY <2>1 DEF ReapInv
<1>8. ASSUME NEW th \in Threads, NEW machine \in Machines, Ask(th, machine)
      PROVE  AskingOK(th) /\ DeadOK(th)
  <2> DEFINE asked == {g \in thread[th].group : g[2].machine = machine}
  <2>1. /\ thread'[th].request = thread[th].request
        /\ thread'[th].group = thread[th].group \ asked
        /\ thread'[th].dead = thread[th].dead \cup FoundDead(asked, machine)
    BY <1>8 DEF Ask, TypeOK, ThreadStates
  <2>2. ASSUME NEW d \in FoundDead(asked, machine), d[2].taker \in PidTakers
        PROVE  d[2].taker \notin running
    BY <2>2 DEF FoundDead, AliveOn, ReapInv, AtHome
  <2> QED BY <1>2, <2>1, <2>2 DEF ReapInv, OnlyTheGoneAreReaped
<1>9. ASSUME NEW th \in Threads, EndAsk(th) \/ Apply(th) PROVE AskingOK(th) /\ DeadOK(th)
  <2>1. /\ thread'[th].request = thread[th].request
        /\ thread'[th].group = thread[th].group
        /\ thread'[th].dead \subseteq thread[th].dead
    BY <1>9 DEF EndAsk, Apply, TypeOK, ThreadStates
  <2> QED BY <1>2, <2>1 DEF ReapInv, OnlyTheGoneAreReaped
<1>10. ASSUME NEW th \in Threads PROVE AskingOK(th) /\ DeadOK(th)
  <2> USE DEF TypeOK
  <2>1. CASE UNCHANGED thread
    BY <2>1, <1>3
  <2>2. CASE Restart
    BY <2>2, <1>4 DEF Restart
  <2>3. ASSUME NEW other \in Threads, other # th,
               Request(other) \/ Reap(other) \/ Serve(other) \/ RequestFails(other)
        PROVE  thread'[th] = thread[th]
    BY <2>3 DEF Request, NextRequest, Reap, Serve, Begin, Snapshot, Ask, EndAsk, Apply,
       List, TakeNothing, TakeNext, RequestFails
  <2>4. CASE Serve(th) \/ RequestFails(th)
    BY <2>4, <1>4 DEF Serve, List, TakeNothing, TakeNext, RequestFails
  <2>5. CASE Request(th)
    BY <2>5, <1>5, <1>6 DEF Request, Requests
  <2>6. CASE Reap(th)
    BY <2>6, <1>7, <1>8, <1>9 DEF Reap
  <2> QED BY <1>3, <2>1, <2>2, <2>3, <2>4, <2>5, <2>6
          DEF Next, Client, World, Add, Update, Finish, Cancel, Release, Heartbeat, Exit,
              LinkChanges, LeaseExpires, GrowsOld, ReapDue, vars
<1> QED BY <1>1, <1>10 DEF ReapInv, OnlyTheGoneAreReaped, AtHome

LEMMA ReapInit == Init => ReapInv
  BY DEF Init, ReapInv, OnlyTheGoneAreReaped, IdleThread, HeldTasks, Absent

\* If takers name the machine they run on, then no machine that fails to answer,
\* no restart and no race ever puts a process that still runs among those a reap
\* is about to requeue (reap, _queue_alive, procs_alive).
THEOREM OnlyTheGone ==
    ASSUME HonestTakers PROVE Spec => []OnlyTheGoneAreReaped
<1>1. ReapInv => OnlyTheGoneAreReaped
  BY DEF ReapInv
<1>2. TypeOK /\ ReapInv /\ [Next]_vars => ReapInv'
  BY ReapStep
<1> QED BY <1>1, <1>2, ReapInit, TypeCorrect, PTL DEF Spec

\* Hence the reaper takes a task from a live process only when the task changed
\* hands after the reap read the file (reap).
THEOREM LiveHolderLoses ==
    ASSUME HonestTakers PROVE Spec => LiveHolderLosesOnlyWhatChangedHands
<1>1. TypeOK /\ ReapInv /\ [Next]_vars =>
        \A t \in Tasks, th \in Threads, p \in PidTakers :
           Reaping(th) /\ HeldBy(t, p) /\ p \in running /\ ~HeldBy(t, p)' =>
              \E d \in thread[th].dead : d[1] = t /\ d[2].taker # p
  <2> SUFFICES ASSUME TypeOK, ReapInv, [Next]_vars,
                      NEW t \in Tasks, NEW th \in Threads, NEW p \in PidTakers,
                      Reaping(th), HeldBy(t, p), p \in running, ~HeldBy(t, p)'
               PROVE  \E d \in thread[th].dead : d[1] = t /\ d[2].taker # p
    OBVIOUS
  <2>1. Apply(th)
    <3> USE DEF Reaping, TypeOK, ThreadStates, IdleThread
    <3>1. thread'[th] # thread[th] /\ thread[th].pc = "apply" /\ thread'[th].pc = "serve"
      OBVIOUS
    <3>2. ~Client /\ ~World
      <4>1. Client => thread' = thread
        BY DEF Client, Add, Update, Finish, Cancel, Release, Heartbeat
      <4>2. World => thread' = thread \/ thread'[th] = IdleThread
        BY DEF World, Exit, LinkChanges, LeaseExpires, GrowsOld, ReapDue, Restart
      <4>3. IdleThread.pc = "idle"
        OBVIOUS
      <4> QED BY <3>1, <4>1, <4>2, <4>3
    <3>3. ASSUME NEW other \in Threads,
                 Request(other) \/ Reap(other) \/ Serve(other) \/ RequestFails(other)
          PROVE  other = th
      BY <3>1, <3>3 DEF Request, NextRequest, Reap, Serve, Begin, Snapshot, Ask, EndAsk,
         Apply, List, TakeNothing, TakeNext, RequestFails
    <3>4. Request(th) \/ Reap(th) \/ Serve(th) \/ RequestFails(th)
      <4>1. Next
        BY <3>1 DEF vars
      <4> QED BY <4>1, <3>2, <3>3 DEF Next
    <3>5. ~Request(th) /\ ~Serve(th) /\ ~RequestFails(th)
      BY <3>1 DEF Request, NextRequest, Serve, Begin, List, TakeNothing, TakeNext,
         RequestFails
    <3>6. ~Snapshot(th) /\ ~EndAsk(th) /\ \A machine \in Machines : ~Ask(th, machine)
      BY <3>1 DEF Snapshot, EndAsk, Ask
    <3> QED BY <3>4, <3>5, <3>6 DEF Reap
  <2>2. queue[t].status = "taken" /\ queue[t].taken_by.taker = p
    BY DEF HeldBy, Held
  <2>3. t \in Requeued(th)
    <3>1. CASE t \notin Requeued(th)
      <4> DEFINE tasks == [u \in Tasks |-> IF u \in Requeued(th) THEN ToWaiting(queue[u])
                                          ELSE queue[u]]
      <4>1. Save(tasks) \/ UNCHANGED queue
        BY <2>1 DEF Apply
      <4>2. tasks[t] = queue[t]
        BY <3>1
      <4> HIDE DEF tasks
      <4>3. queue'[t] = queue[t]
        BY <2>2, <4>1, <4>2, SaveMove
      <4> QED BY <2>2, <4>3 DEF HeldBy, Held
    <3> QED BY <3>1
  <2>4. PICK d \in thread[th].dead : d[1] = t
    BY <2>3 DEF Requeued
  <2>5. d[2].taker # p
    BY <2>4 DEF ReapInv, OnlyTheGoneAreReaped
  <2> QED BY <2>4, <2>5
<1>2. TypeOK /\ ReapInv /\ [Next]_vars => ReapInv'
  BY ReapStep
<1> QED BY <1>1, <1>2, ReapInit, TypeCorrect, PTL
        DEF Spec, LiveHolderLosesOnlyWhatChangedHands

=============================================================================
