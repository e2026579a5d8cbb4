---------------------------- MODULE ServiceRegistry ----------------------------
(***************************************************************************)
(* Services and sandboxes of one machine (services.py, sandbox.py): docker *)
(* containers that the hub runs, pages served by rr-notes and rr-skill,    *)
(* and service_registry.json, the list of both.                            *)
(*                                                                         *)
(* The hub rewrites the list under SERVICE_LOCK, but runs and stops        *)
(* containers outside it; rr-notes and rr-skill rewrite the same file with *)
(* no lock at all.  Every save empties the file first, and a file read at  *)
(* that moment loads as an empty list.                                     *)
(***************************************************************************)
EXTENDS Naturals, FiniteSets

CONSTANTS
    Sandboxes,   \* containers; each is run once and never restarted
    Servers,     \* rr-notes and rr-skill processes, each in its own workspace
    Ports,       \* the ports from the first one _pick_sandbox_port tries
    Threads,     \* threads of the hub's server
    MaxCrashes,  \* bound: crashes of the hub
    None         \* an absent value

ASSUME ServiceAssumption ==
    /\ Sandboxes \cap Servers = {}
    /\ Ports \subseteq Nat /\ None \notin Ports \cup Sandboxes \cup Servers
    /\ MaxCrashes \in Nat

Things == Sandboxes \cup Servers

VARIABLES
    port,      \* the port each thing was started on, None before
    running,   \* the things that run
    heirs,     \* ended servers whose pid belongs to some other process by now
    listed,    \* the rows of the last save that was finished
    torn,      \* a save has emptied or spoilt the file: it does not parse
    call,      \* the request in each thread of the hub
    server,    \* how far each rr-notes or rr-skill has got with its own row
    crashes    \* crashes of the hub so far

vars == <<port, running, heirs, listed, torn, call, server, crashes>>

\* rows: what the call will save.  crossed, for the properties: a writer without
\* the lock, or a crash, changed the file since the call read it.  unseen, also:
\* sandboxes docker said nothing about when the call cleaned its rows.
Steps == {"none", "run", "docker", "load", "clean", "empty", "fill", "terminate"}

Calls ==
    [op : {"none", "create", "clone", "stop", "kill", "list"}, step : Steps,
     things : SUBSET Things, port : Ports \cup {None}, rows : SUBSET Things,
     crossed : BOOLEAN, unseen : SUBSET Sandboxes]

Idle == [op |-> "none", step |-> "none", things |-> {}, port |-> None,
         rows |-> {}, crossed |-> FALSE, unseen |-> {}]

ServerStates ==
    [step : {"none", "load", "empty", "fill", "serve", "gone"},
     rows : SUBSET Things, crossed : BOOLEAN]

InLock(th) == call[th].step \in {"clean", "empty", "fill"}

NotStarted == [step |-> "none", rows |-> {}, crossed |-> FALSE]
Serving == [NotStarted EXCEPT !.step = "serve"]
Gone == [NotStarted EXCEPT !.step = "gone"]

\* Types; a port is taken by one thing at a time, and SERVICE_LOCK by one call.
TypeOK ==
    /\ port \in [Things -> Ports \cup {None}]
    /\ running \subseteq Things /\ heirs \subseteq Servers /\ listed \subseteq Things /\ torn \in BOOLEAN
    /\ call \in [Threads -> Calls] /\ server \in [Servers -> ServerStates]
    /\ crashes \in 0..MaxCrashes
    /\ \A x \in running : port[x] # None
    /\ \A x, y \in running : port[x] = port[y] => x = y
    /\ \A th, other \in Threads : InLock(th) /\ InLock(other) => th = other

Init ==
    /\ port = [x \in Things |-> None]
    /\ running = {} /\ heirs = {} /\ listed = {} /\ torn = FALSE
    /\ call = [th \in Threads |-> Idle]
    /\ server = [q \in Servers |-> NotStarted]
    /\ crashes = 0

-----------------------------------------------------------------------------
(* The file.                                                               *)

\* _load_service_registry: a file that does not parse is an empty list.
Loaded == IF torn THEN {} ELSE listed

\* A server's read or write between a call's read and its write.
Cross(calls) ==
    [th \in Threads |->
        IF calls[th].step \in {"clean", "empty", "fill"}
        THEN [calls[th] EXCEPT !.crossed = TRUE] ELSE calls[th]]

CrossServers(others) ==
    [q \in Servers |->
        IF q \in others /\ server[q].step \in {"empty", "fill"}
        THEN [server[q] EXCEPT !.crossed = TRUE] ELSE server[q]]

\* Mutant: a call does not wait for SERVICE_LOCK.
NotLocked == TRUE

\* SERVICE_LOCK is held from the load to the end of the save.
Unlocked == \A th \in Threads : ~InLock(th)

-----------------------------------------------------------------------------
(* Requests of the hub, up to the list.                                    *)

\* A request of this machine's page, or of another hub that passes one on.
Begin(th, op, step, things, p) ==
    /\ call[th] = Idle
    /\ call' = [call EXCEPT ![th] =
                   [Idle EXCEPT !.op = op, !.step = step, !.things = things, !.port = p]]
    /\ UNCHANGED <<port, running, heirs, listed, torn, server, crashes>>

Busy(p) == \E x \in running : port[x] = p

\* _pick_sandbox_port: the first port that can be bound now, long before docker
\* binds it.
Picked == {p \in Ports : ~Busy(p) /\ \A q \in Ports : q < p => Busy(q)}

\* create_sandbox, and branch_sandbox for the same source; clone_sandbox picks the
\* port before it commits the image.
BeginCreate(th, c, op) ==
    /\ port[c] = None
    /\ \E p \in Picked : Begin(th, op, "run", {c}, p)

\* docker run: fails when the port was taken meanwhile, or for reasons of its own.
\* After a timeout the container may run although the call gives up.  A clone is
\* never registered.
RunContainer(th, c) ==
    /\ call[th].step = "run" /\ call[th].things = {c}
    /\ \/ /\ ~Busy(call[th].port) /\ port[c] = None
          /\ port' = [port EXCEPT ![c] = call[th].port]
          /\ running' = running \cup {c}
          /\ \E step \in {"load", "none"} :
                call' = [call EXCEPT ![th] =
                            IF step = "load" /\ @.op = "create"
                            THEN [@ EXCEPT !.step = step, !.port = None] ELSE Idle]
       \/ call' = [call EXCEPT ![th] = Idle] /\ UNCHANGED <<port, running>>
    /\ UNCHANGED <<heirs, listed, torn, server, crashes>>

\* stop_sandbox: docker stops and removes the container that is meant, unless the
\* id is the beginning of several or docker takes too long.  The rows go anyway.
StopContainer(th) ==
    /\ call[th].step = "docker"
    /\ \/ /\ Cardinality(call[th].things) = 1
          /\ running' = running \ call[th].things
       \/ UNCHANGED running
    /\ call' = [call EXCEPT ![th].step = "load"]
    /\ UNCHANGED <<port, heirs, listed, torn, server, crashes>>

-----------------------------------------------------------------------------
(* The part of each request under SERVICE_LOCK.                            *)

\* Mutant: a stop drops the rows of all sandboxes.
AfterLoadDropping(op, things, rows) ==
    CASE op = "create" -> [step |-> "empty", rows |-> rows \cup things]
      [] op = "stop" -> [step |-> "empty", rows |-> rows \ Sandboxes]
      [] OTHER -> [step |-> "clean", rows |-> rows]

\* What a call does with the rows: a new sandbox is added, the rows a stop names are
\* dropped, other calls clean the list first.
AfterLoad(op, things, rows) ==
    CASE op = "create" -> [step |-> "empty", rows |-> rows \cup things]
      [] op = "stop" -> [step |-> "empty", rows |-> rows \ things]
      [] OTHER -> [step |-> "clean", rows |-> rows]

Load(th) ==
    LET after == AfterLoad(call[th].op, call[th].things, Loaded) IN
    /\ call[th].step = "load" /\ Unlocked
    /\ call' = [call EXCEPT ![th].step = after.step, ![th].rows = after.rows,
                            ![th].crossed = torn]
    /\ UNCHANGED <<port, running, heirs, listed, torn, server, crashes>>

\* Mutant: any container that can be inspected counts as running.
KnownToDocker(rows, unseen) ==
    {x \in rows : x \in running \cup heirs \cup Sandboxes /\ x \notin unseen}

\* _cleanup_service_registry: rows of containers that run and of pids that are in
\* use.  Docker that fails or takes longer than 30 s counts as "not running".
Cleaned(rows, unseen) == {x \in rows : x \in running \cup heirs /\ x \notin unseen}

\* Mutant: the row to end is looked up in the list that was just saved.
ToTerminateFromList(c) ==
    [Idle EXCEPT !.op = c.op, !.step = "terminate", !.things = c.rows, !.port = c.port]

\* Of its rows a kill keeps the one it found, for the process to end.
ToTerminate(c) ==
    [Idle EXCEPT !.op = c.op, !.step = "terminate", !.things = c.things, !.port = c.port]

\* A kill drops every row of its port; with no such row it saves nothing.
Clean(th) ==
    /\ call[th].step = "clean"
    /\ \E unseen \in SUBSET (call[th].rows \cap Sandboxes \cap running) :
       LET alive == Cleaned(call[th].rows, unseen)
           hit == {x \in alive : port[x] = call[th].port}
       IN call' = [call EXCEPT ![th] =
              IF @.op = "kill" /\ hit = {} THEN ToTerminate(@)
              ELSE [@ EXCEPT !.step = "empty", !.things = hit,
                             !.rows = alive \ hit, !.unseen = unseen]]
    /\ UNCHANGED <<port, running, heirs, listed, torn, server, crashes>>

\* Over what another writer filled in since this one emptied the file, a shorter text
\* leaves the end of the longer one.
Filled == torn' \in IF torn THEN {FALSE} ELSE BOOLEAN

\* _save_service_registry: write_text empties the file, then fills it.
Empty(th) ==
    /\ call[th].step = "empty"
    /\ torn' = TRUE
    /\ call' = [call EXCEPT ![th].step = "fill"]
    /\ server' = CrossServers(Servers)
    /\ UNCHANGED <<port, running, heirs, listed, crashes>>

Fill(th) ==
    /\ call[th].step = "fill"
    /\ listed' = call[th].rows /\ Filled
    /\ call' = [call EXCEPT ![th] = IF @.op = "kill" THEN ToTerminate(@) ELSE Idle]
    /\ server' = CrossServers(Servers)
    /\ UNCHANGED <<port, running, heirs, crashes>>

\* Things stop running, or the processes that have their pids; of a server's own call
\* nothing is left.
Ending(things) ==
    /\ running' = running \ things
    /\ heirs' = heirs \ things
    /\ server' = [q \in Servers |-> IF q \in things THEN Gone ELSE server[q]]

\* The process that has the pid of the row, if there is one; else the process that
\* listens on the port now.  The port of a sandbox belongs to docker, whose processes
\* the hub may not end.
Victims(p, row) ==
    IF row \in Servers \cap (running \cup heirs) THEN {row}
    ELSE {x \in running \cap Servers : port[x] = p}

\* target is the first row of the port, one of those that were dropped.
Terminate(th) ==
    LET rows == call[th].things IN
    /\ call[th].step = "terminate"
    /\ \E row \in IF rows = {} THEN {None} ELSE rows : Ending(Victims(call[th].port, row))
    /\ call' = [call EXCEPT ![th] = Idle]
    /\ UNCHANGED <<port, listed, torn, crashes>>

-----------------------------------------------------------------------------
(* rr-notes and rr-skill: bind a port, then register_local_service.        *)

StartServer(q) ==
    /\ server[q].step = "none"
    /\ \E p \in Ports : ~Busy(p) /\ port' = [port EXCEPT ![q] = p]
    /\ running' = running \cup {q}
    /\ server' = [server EXCEPT ![q].step = "load"]
    /\ UNCHANGED <<heirs, listed, torn, call, crashes>>

ServerLoads(q) ==
    /\ server[q].step = "load"
    /\ server' = [server EXCEPT ![q] =
                     [step |-> "empty", rows |-> Loaded \cup {q}, crossed |-> torn]]
    /\ UNCHANGED <<port, running, heirs, listed, torn, call, crashes>>

ServerEmpties(q) ==
    /\ server[q].step = "empty"
    /\ torn' = TRUE
    /\ call' = Cross(call)
    /\ server' = [CrossServers(Servers \ {q}) EXCEPT ![q].step = "fill"]
    /\ UNCHANGED <<port, running, heirs, listed, crashes>>

ServerFills(q) ==
    /\ server[q].step = "fill"
    /\ listed' = server[q].rows /\ Filled
    /\ call' = Cross(call)
    /\ server' = [CrossServers(Servers \ {q}) EXCEPT ![q] = Serving]
    /\ UNCHANGED <<port, running, heirs, crashes>>

-----------------------------------------------------------------------------
(* The world.                                                              *)

\* A container or a process ends by itself, or somebody ends it.
Ends(x) ==
    /\ x \in running \cup heirs
    /\ Ending({x})
    /\ UNCHANGED <<port, listed, torn, call, crashes>>

\* Some other process of the user gets the pid of a server that has ended.
PidReused(q) ==
    /\ server[q].step = "gone" /\ q \notin heirs
    /\ heirs' = heirs \cup {q}
    /\ UNCHANGED <<port, running, listed, torn, call, server, crashes>>

\* The hub is killed or restarted.
Crash ==
    /\ crashes < MaxCrashes
    /\ crashes' = crashes + 1
    /\ call' = [th \in Threads |-> Idle]
    /\ UNCHANGED <<port, running, heirs, listed, torn, server>>

-----------------------------------------------------------------------------

List(th) == Begin(th, "list", "load", {}, None)

ServiceRequest(th) ==
    \/ List(th)
    \/ \E p \in Ports : Begin(th, "kill", "load", {}, p)

\* The beginning of an id, one character at least, may name several containers.
SandboxRequest(th) ==
    \/ \E c \in Sandboxes, op \in {"create", "clone"} : BeginCreate(th, c, op)
    \/ \E named \in SUBSET Sandboxes : Begin(th, "stop", "docker", named, None)

Work(th) ==
    \/ \E c \in Sandboxes : RunContainer(th, c)
    \/ StopContainer(th)
    \/ Load(th) \/ Clean(th) \/ Empty(th) \/ Fill(th) \/ Terminate(th)

Register(q) == ServerLoads(q) \/ ServerEmpties(q) \/ ServerFills(q)

Next ==
    \/ \E th \in Threads : ServiceRequest(th) \/ SandboxRequest(th) \/ Work(th)
    \/ \E q \in Servers : StartServer(q) \/ Register(q) \/ PidReused(q)
    \/ \E x \in Things : Ends(x)
    \/ Crash

Spec == Init /\ [][Next]_vars

-----------------------------------------------------------------------------

\* The save that a thread finishes, and the one that a server finishes.
Saves(th) == call[th].step = "fill" /\ listed' = call[th].rows /\ call' # call
ServerSaves(q) == server[q].step = "fill" /\ server'[q].step = "serve"

\* Whatever runs and is in the list leaves it only through a call that stops it, or
\* because docker did not answer about it, or because a writer without the lock (or a
\* crash in a save) came between: the hub's own requests never lose each other's
\* rows, however their slow docker calls interleave.
RunningStaysListed ==
    [][\A x \in listed \cap running : x \notin listed' =>
          \/ \E th \in Threads : /\ Saves(th)
                                 /\ x \in call[th].things \cup call[th].unseen \/ call[th].crossed
          \/ \E q \in Servers : ServerSaves(q) /\ server[q].crossed]_vars

\* A stop by port drops one row at most, those of reused pids aside: although ports are
\* used again and rows outlive what they name, a cleaned list has a port once.
OnePortOneRow ==
    [][\A th \in Threads : call[th].step = "clean" /\ call'[th].op = "kill" =>
          Cardinality(call'[th].things \ heirs) <= 1]_vars

\* Of all services a stop by port ends only one that was started on that port, the
\* listed one or, if it has ended, its successor: however long it waits between its look
\* at the list and the kill, and whatever ends, starts and takes ports meanwhile, no
\* other one goes, reused pids aside (_kill_service_by_port).
StopsStayOnTheirPort ==
    [][\A th \in Threads : call[th].step = "terminate" /\ call'[th] = Idle =>
          \A x \in running \ running' : x \in Servers /\ port[x] = call[th].port]_vars

=============================================================================
