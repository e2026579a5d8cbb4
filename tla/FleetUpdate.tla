------------------------------ MODULE FleetUpdate ------------------------------
(***************************************************************************)
(* Updates of the hubs (updates.py, update_all in main.py, update-remote.sh *)
(* and start-remote.sh), over the control hub's inventory and beside its   *)
(* gateway, which an update does not restart.                              *)
(*                                                                         *)
(* A hub starts a detached script that pulls the code, finds out in which  *)
(* mode the hub runs, kills it and starts another.  Nothing keeps two      *)
(* scripts of one machine apart.                                           *)
(***************************************************************************)
EXTENDS Gateway

CONSTANTS
    Controller,   \* the machine of the control hub
    Aliases,      \* names of that machine that _is_local_host does not know
    Malformed,    \* names that _normalize_host refuses: with a / ? # or @
    Scripts       \* runs of update-remote.sh, in the order in which they are scheduled

ASSUME FleetAssumption ==
    /\ Controller \in LocalHosts
    /\ Aliases \subseteq Hosts \ LocalHosts /\ Malformed \subseteq Hosts \ LocalHosts
    /\ Scripts \subseteq Nat /\ IsFiniteSet(Hosts)

VARIABLES
    hub,      \* what runs on each machine, on port 7000 and on the next free one
    script,   \* the scripts
    sweep     \* the request to update all machines

vars == <<inventoryVars, gatewayVars, hub, script, sweep>>

Modes == {"control", "remote", "all", "down"}

\* The machine that a name stands for.
MachineOf(h) == IF h \in LocalHosts \cup Aliases THEN Controller ELSE h

HubMachines == {MachineOf(h) : h \in Hosts}

\* mode: what start-remote.sh will start.  For the properties: by, a request of a client or
\* of a sweep for another machine, the request of a sweep to its own machine under a name
\* it does not know, or what a sweep does for its own machine when it is over; was, the
\* mode of the hub that the script met; alone, no other script has restarted the hub of
\* this machine since this one looked; mute, the hub did not answer in time.
ScriptStates ==
    [step : {"none", "scheduled", "pulled", "looked", "stopped", "start", "start next",
             "done", "failed"},
     host : HubMachines \cup {None}, by : {"none", "request", "alias", "sweep"},
     mode : Modes, was : Modes, alone : BOOLEAN, mute : BOOLEAN]

NoScript == [step |-> "none", host |-> None, by |-> "none", mode |-> "down",
             was |-> "down", alone |-> FALSE, mute |-> FALSE]

SweepSteps == {"none", "sessions", "ask", "answered", "done", "cut"}

HubRuns(h) == hub[h].main # "down"

\* Types; and requests are only under way in a hub that runs.
TypeOK ==
    /\ InventoryTypeOK /\ GatewayTypeOK
    /\ hub \in [HubMachines -> [main : Modes, next : Modes]]
    /\ script \in [Scripts -> ScriptStates]
    /\ sweep.step \in SweepSteps /\ sweep.todo \in Seq(Hosts)
    /\ ~HubRuns(Controller) =>
          /\ \A th \in Threads : ~InLock(th)
          /\ saving = None /\ sweep.step \in {"none", "done", "cut"}

Init ==
    /\ InventoryInit /\ GatewayInit
    /\ \E mode \in {"control", "all"} :
          hub = [h \in HubMachines |->
                    [main |-> IF h = Controller THEN mode ELSE "remote", next |-> "down"]]
    /\ script = [u \in Scripts |-> NoScript]
    /\ sweep = [step |-> "none", todo |-> <<>>]

-----------------------------------------------------------------------------
(* Requests to update.                                                     *)

\* _schedule_remote_update_local: `sleep`, then update-remote.sh, in a session of its own.
Scheduled(u, h, by) ==
    /\ script[u] = NoScript /\ \A v \in Scripts : v < u => script[v] # NoScript
    /\ script' = [script EXCEPT ![u] =
                     [NoScript EXCEPT !.step = "scheduled", !.host = h, !.by = by]]

\* _require_runtime_api.
TakesUpdates(h) == hub[h].main \in {"remote", "all"}

\* /admin/update-remote, or /admin/update-remote/proxy for the hub's own machine, which
\* does without _require_runtime_api.
UpdateRemote(u, h) ==
    /\ Request /\ HubRuns(h)
    /\ Scheduled(u, h, "request")
    /\ UNCHANGED <<machines, torn, live, call, gatewayVars, hub, sweep>>

SweepTo(step, todo) == sweep' = [step |-> step, todo |-> todo]

\* admin_update_all_remotes: reads the inventory without its lock; a file that does not
\* parse ends the request.
BeginSweep ==
    /\ Request /\ sweep.step = "none" /\ hub[Controller].main \in {"control", "all"}
    /\ ~torn
    /\ SweepTo("sessions", [i \in DOMAIN machines |-> machines[i].host])
    /\ UNCHANGED <<machines, torn, live, call, gatewayVars, hub, script>>

\* The machines of workspaces are added, once each, in the order of sessions.json.
MergeSessions ==
    /\ sweep.step = "sessions" /\ saving = None
    /\ IF sessionsTorn THEN SweepTo("cut", <<>>)
       ELSE \E more \in SetToSeqs(sessionHosts \ ToSet(sweep.todo)) :
                SweepTo("ask", sweep.todo \o more)
    /\ UNCHANGED <<inventoryVars, gatewayVars, hub, script>>

\* The next machine to update has one of these names.
NextIsOf(hosts) == sweep.step = "ask" /\ sweep.todo # <<>> /\ Head(sweep.todo) \in hosts

\* _normalize_host raises, and the request ends with a 400: the machines before stay
\* updated, those after it and the control hub's own are not.
Refuse ==
    /\ NextIsOf(Malformed)
    /\ SweepTo("cut", <<>>)
    /\ UNCHANGED <<inventoryVars, gatewayVars, hub, script>>

\* _schedule_remote_update_proxy: the machine may be out of reach, or the answer may be
\* lost or late; the sweep goes on.  The control hub, under a name it does not know as its
\* own, is asked like the others, and updates itself while the sweep goes on.
AskRemote(u) ==
    LET h == MachineOf(Head(sweep.todo)) IN
    /\ NextIsOf(Hosts \ (LocalHosts \cup Malformed))
    /\ SweepTo("ask", Tail(sweep.todo))
    /\ \/ TakesUpdates(h) /\ Scheduled(u, h, IF h = Controller THEN "alias" ELSE "request")
       \/ UNCHANGED script
    /\ UNCHANGED <<inventoryVars, gatewayVars, hub>>

\* Mutant: the control hub's machine is updated like the others.
ScheduleAtOnce(u) == Scheduled(u, Controller, "sweep")

\* The control hub's own machine is left for later.
Defer(u) == UNCHANGED script

AskLocal(u) ==
    /\ NextIsOf(LocalHosts)
    /\ SweepTo("ask", Tail(sweep.todo))
    /\ Defer(u)
    /\ UNCHANGED <<inventoryVars, gatewayVars, hub>>

Respond ==
    /\ sweep.step = "ask" /\ sweep.todo = <<>>
    /\ SweepTo("answered", <<>>)
    /\ UNCHANGED <<inventoryVars, gatewayVars, hub, script>>

\* The background task, after the answer was sent.
UpdateSelf(u) ==
    /\ sweep.step = "answered"
    /\ SweepTo("done", <<>>)
    /\ Scheduled(u, Controller, "sweep")
    /\ UNCHANGED <<inventoryVars, gatewayVars, hub>>

-----------------------------------------------------------------------------
(* update-remote.sh and start-remote.sh.                                   *)

ScriptTo(u, step) == script' = [script EXCEPT ![u].step = step]

\* git pull fails when it cannot fast-forward, when another pull is under way, or when
\* the network is down; then `set -e` ends the script.
Pull(u) ==
    /\ script[u].step = "scheduled"
    /\ ScriptTo(u, "pulled") \/ ScriptTo(u, "failed")
    /\ UNCHANGED <<inventoryVars, gatewayVars, hub, sweep>>

\* Mutant: the hub is always started again as that of a remote machine.
AlwaysRemote(mode) == "remote"

\* A hub with the control API comes back as "all", so that it keeps it.
ModeFor(mode) == IF mode \in {"control", "all"} THEN "all" ELSE "remote"

\* Others of the machine that have yet to start a hub.
Restarting(u) ==
    {v \in Scripts \ {u} : /\ script[v].host = script[u].host
                           /\ script[v].step \in {"looked", "stopped", "start", "start next"}}

\* "Detect if a control hub is already running before we stop anything": /api/info, for
\* a second.
Look(u) ==
    LET main == hub[script[u].host].main IN
    /\ script[u].step = "pulled"
    /\ \E answers \in BOOLEAN :
          script' = [v \in Scripts |->
              IF v = u
              THEN [script[u] EXCEPT !.step = "looked", !.was = main,
                       !.mode = IF answers THEN ModeFor(main) ELSE "remote",
                       !.mute = ~answers, !.alone = Restarting(u) = {}]
              ELSE IF v \in Restarting(u) THEN [script[v] EXCEPT !.alone = FALSE]
              ELSE script[v]]
    /\ UNCHANGED <<inventoryVars, gatewayVars, hub, sweep>>

\* stop_pidfile hub and stop_matching "uvicorn main:app": all of them.
Stopped == [main |-> "down", next |-> "down"]

\* With the control hub its requests die, a save of theirs in the middle; the gateway
\* is a process of its own.
Stop(u) ==
    LET h == script[u].host
        dies == h = Controller
    IN /\ script[u].step = "looked"
       /\ hub' = [hub EXCEPT ![h] = Stopped]
       /\ ScriptTo(u, "stopped")
       /\ call' = IF dies THEN [th \in Threads |-> Idle] ELSE call
       /\ saving' = IF dies THEN None ELSE saving
       /\ IF dies /\ sweep.step \in {"sessions", "ask", "answered"}
          THEN SweepTo("cut", <<>>) ELSE UNCHANGED sweep
       /\ UNCHANGED <<machines, torn, live, requests, sessionHosts, sessionsTorn, conn>>

\* Mutant: the port of the hub that was just stopped counts as busy.
NeverFree(h) == "start next"

\* choose_port: 7000 if it is free.
PortFor(h) == IF HubRuns(h) THEN "start next" ELSE "start"

ChoosePort(u) ==
    /\ script[u].step = "stopped"
    /\ ScriptTo(u, PortFor(script[u].host))
    /\ UNCHANGED <<inventoryVars, gatewayVars, hub, sweep>>

\* uvicorn: ends at once if the port was taken since.
Start(u) ==
    LET h == script[u].host
        Started(old) == IF old = "down" THEN script[u].mode ELSE old
    IN /\ script[u].step \in {"start", "start next"}
       /\ hub' = [hub EXCEPT ![h] =
             IF script[u].step = "start"
             THEN [hub[h] EXCEPT !.main = Started(hub[h].main)]
             ELSE [hub[h] EXCEPT !.next = Started(hub[h].next)]]
       /\ ScriptTo(u, "done")
       /\ UNCHANGED <<inventoryVars, gatewayVars, sweep>>

ScriptStep(u) == Pull(u) \/ Look(u) \/ Stop(u) \/ ChoosePort(u) \/ Start(u)

-----------------------------------------------------------------------------

\* Requests that change the files are served by the control hub.
FileRequests ==
    /\ HubRuns(Controller)
    /\ \/ \E th \in Threads : InventoryCall(th) /\ UNCHANGED <<sessionHosts, sessionsTorn, saving>>
       \/ FillSessions /\ UNCHANGED inventoryVars
    /\ Watched
    /\ UNCHANGED <<hub, script, sweep>>

Clients ==
    /\ \/ SessionChanges /\ UNCHANGED gatewayVars
       \/ HubRuns(Controller) /\ EmptySessions
       \/ \E c \in Connections : Proxy(c) \/ Leaves(c) \/ \E h \in Hosts : Connect(c, h)
    /\ UNCHANGED <<hub, script, sweep>>

Sweeping(u) ==
    \/ MergeSessions \/ Refuse \/ Respond
    \/ AskRemote(u) \/ AskLocal(u) \/ UpdateSelf(u)

Next ==
    \/ FileRequests \/ Clients \/ BeginSweep
    \/ \E u \in Scripts :
          Sweeping(u) \/ ScriptStep(u) \/ \E h \in HubMachines : UpdateRemote(u, h)

Spec == Init /\ [][Next]_vars

\* Scripts run to their end, since every command of theirs has a time limit or fails;
\* so does the closing of a connection.
Fairness ==
    /\ \A u \in Scripts : WF_vars(ScriptStep(u))
    /\ \A c \in Connections :
          WF_vars((CloseUpstream(c) \/ CloseClient(c)) /\ UNCHANGED <<hub, script, sweep>>)

FairSpec == Spec /\ Fairness

-----------------------------------------------------------------------------

\* An update that no other update of the machine overlaps, and whose question was
\* answered, leaves one hub there, on port 7000, which has the control API if the hub
\* had it before ("both APIs stay available").
UpdatesKeepTheHub ==
    [][\A u \in Scripts :
          /\ script[u].step \in {"start", "start next"} /\ script'[u].step = "done"
          /\ script[u].alone /\ ~script[u].mute
          => hub'[script[u].host] =
                [main |-> IF script[u].was \in {"control", "all"} THEN "all" ELSE "remote",
                 next |-> "down"]]_vars

\* "Defer local machine update via background task so the response is sent first": what a
\* sweep does for its own machine never cuts it short.  What does: a file or a name that it
\* refuses, an update that somebody asked of the control hub's machine, and the sweep's own
\* request to that machine under a name that _is_local_host does not know.
SweepEndsFirst ==
    [][sweep'.step = "cut" /\ sweep.step # "cut" =>
          \/ sessionsTorn
          \/ NextIsOf(Malformed)
          \/ \E u \in Scripts : /\ script[u].step = "looked" /\ script'[u].step = "stopped"
                                /\ script[u].host = Controller
                                /\ script[u].by \in {"request", "alias"}]_vars

\* A hub is down on port 7000 only while a script has yet to start one there: no order
\* of two scripts' steps leaves a machine without a hub and without a script that sees
\* to it (start-remote.sh).
DownOnlyInRestarts ==
    \A h \in HubMachines : ~HubRuns(h) =>
        \E u \in Scripts : script[u].host = h /\ script[u].step \in {"stopped", "start"}

Restored(u) == script[u].host # None /\ HubRuns(script[u].host)

\* Once an update has stopped the hub of a machine, a hub runs there again in the end,
\* on port 7000, however many updates of that machine overlap.
HubComesBack == \A u \in Scripts : script[u].step = "stopped" ~> Restored(u)

=============================================================================
