---------------------------- MODULE AgentRegistry ----------------------------
(***************************************************************************)
(* Agents of one machine (tmux.py): commands that run in tmux sessions, or *)
(* as processes where tmux is missing, and the registry that says which    *)
(* agent runs where.                                                       *)
(*                                                                         *)
(* The hub starts, stops and lists agents under AGENT_LOCK, one call at a  *)
(* time.  What runs on the machine does not wait for the lock: commands    *)
(* end, and users open and close sessions of any name at any moment.       *)
(***************************************************************************)
EXTENDS Naturals, FiniteSets

CONSTANTS
    Agents,     \* names of agents
    Places,     \* tmux session names, or pids where there is no tmux
    Extends,    \* pairs <<s, t>> of places: the name s begins with the name t
    Launchers,  \* what _tmux_launcher may find: one of them, for the whole run
    Other,      \* something that runs and is no agent
    None        \* an absent value

ASSUME AgentAssumption ==
    /\ None \notin Agents \cup Places /\ Other \notin Agents /\ Other # None
    /\ Extends \subseteq Places \X Places
    /\ Launchers \subseteq {"byobu-tmux", "tmux", "process"}

VARIABLES
    launcher,   \* what starts agents on this machine
    runs,       \* what runs at each place
    file,       \* agent_registry.json: the place of each agent that has a row
    call,       \* the call that holds AGENT_LOCK
    lost        \* history: running agents whose row a crash of the hub lost

vars == <<launcher, runs, file, call, lost>>

Rows == [Agents -> Places \cup {None}]
NoRows == [a \in Agents |-> None]
Idle == [step |-> "none", op |-> "none", agent |-> None, at |-> None, rows |-> NoRows]

Calls == [step : {"none", "launch", "kill", "save", "write"},
          op : {"none", "start", "stop", "list"},
          agent : Agents \cup {None}, at : Places \cup {None}, rows : Rows]

TypeOK ==
    /\ launcher \in Launchers
    /\ runs \in [Places -> Agents \cup {Other, None}]
    /\ file \in Rows /\ call \in Calls /\ lost \subseteq Agents
    /\ call.step = "none" => call = Idle
    /\ call.step = "launch" => call.agent # None /\ call.at # None /\ call.rows[call.agent] = None
    /\ call.step = "kill" => call.agent # None /\ call.rows[call.agent] # None

Init ==
    /\ launcher \in Launchers
    /\ runs \in [Places -> {Other, None}]
    /\ file = NoRows /\ call = Idle /\ lost = {}

-----------------------------------------------------------------------------
(* tmux and processes.                                                     *)

\* Where `-t place` leads: to the session of that name, else to the only running
\* one whose name begins with it.  A pid leads to its process alone.
Longer(place) == {s \in Places : <<s, place>> \in Extends /\ runs[s] # None}

Target(place) ==
    IF runs[place] # None THEN {place}
    ELSE IF launcher # "process" /\ Cardinality(Longer(place)) = 1 THEN Longer(place)
    ELSE {}

\* _agent_entry_alive, _cleanup_agent_registry.
Cleaned(rows) ==
    [a \in Agents |-> IF rows[a] # None /\ Target(rows[a]) # {} THEN rows[a] ELSE None]

\* Agents that a step leaves running.
StillRunning(agents) == {a \in agents : \E place \in Places : runs'[place] = a}

\* What is at a place after a kill: a process that the hub started stays a zombie
\* until the hub starts another one.
Leftovers == IF launcher = "process" THEN {None, Other} ELSE {None}

\* A command ends by itself, or somebody ends it; its session lives on while another
\* window is open in it.
Ends(place) ==
    /\ runs[place] # None
    /\ \E left \in {None, Other} : runs' = [runs EXCEPT ![place] = left]
    /\ lost' = StillRunning(lost)
    /\ UNCHANGED <<launcher, file, call>>

\* Somebody opens a session of that name, or a new process gets the pid.
Opens(place) ==
    /\ runs[place] = None
    /\ runs' = [runs EXCEPT ![place] = Other]
    /\ UNCHANGED <<launcher, file, call, lost>>

-----------------------------------------------------------------------------
(* The hub.                                                                *)

Holds(op, step, agent, place, rows) ==
    call' = [op |-> op, step |-> step, agent |-> agent, at |-> place, rows |-> rows]

\* Mutant: start does not look for a row of that name.
StartAnyway(a, rows) == TRUE

\* _start_agent_local answers "exists" when a row of that name is left.
MayStart(a, rows) == rows[a] = None

BeginStart(a, place) ==
    /\ call = Idle /\ MayStart(a, Cleaned(file))
    /\ Holds("start", "launch", a, place, Cleaned(file))
    /\ UNCHANGED <<launcher, runs, file, lost>>

\* A new process gets a pid nobody has; new-session refuses a name that is in use,
\* and the call then fails and saves nothing.
StartsAt == {place \in Places : runs[place] = None /\ (launcher = "process" \/ place = call.at)}

Launch ==
    /\ call.step = "launch"
    /\ \/ \E place \in StartsAt :
             /\ runs' = [runs EXCEPT ![place] = call.agent]
             /\ call' = [call EXCEPT !.step = "save", !.rows[call.agent] = place]
       \/ StartsAt = {} /\ call' = Idle /\ UNCHANGED runs
    /\ UNCHANGED <<launcher, file, lost>>

\* Mutant: stop does not look whether a row of that name is left.
StopAnyway(a, rows) == TRUE

\* _stop_agent_local answers "not_found" unless a row of that name is left.
MayStop(a, rows) == rows[a] # None

BeginStop(a) ==
    /\ call = Idle /\ MayStop(a, Cleaned(file))
    /\ Holds("stop", "kill", a, None, Cleaned(file))
    /\ UNCHANGED <<launcher, runs, file, lost>>

\* Mutant: agents that run as processes are only dropped.
VictimsInTmux == IF launcher = "tmux" THEN Target(call.rows[call.agent]) ELSE {}

\* Rows of the backends "tmux" and "process" are stopped, others only dropped.
Victims == IF launcher = "byobu-tmux" THEN {} ELSE Target(call.rows[call.agent])

Kill ==
    /\ call.step = "kill"
    /\ \E left \in Leftovers :
          runs' = [place \in Places |-> IF place \in Victims THEN left ELSE runs[place]]
    /\ call' = [call EXCEPT !.step = "save", !.rows[call.agent] = None]
    /\ lost' = StillRunning(lost)
    /\ UNCHANGED <<launcher, file>>

\* _list_local_agents.
BeginList ==
    /\ call = Idle
    /\ Holds("list", "save", None, None, Cleaned(file))
    /\ UNCHANGED <<launcher, runs, file, lost>>

\* _save_agent_registry: write_text empties the file and then fills it; a file left
\* empty loads as no rows.
Truncate ==
    /\ call.step = "save"
    /\ file' = NoRows
    /\ call' = [call EXCEPT !.step = "write"]
    /\ UNCHANGED <<launcher, runs, lost>>

Write ==
    /\ call.step = "write"
    /\ file' = call.rows
    /\ call' = Idle
    /\ UNCHANGED <<launcher, runs, lost>>

\* The hub is killed or restarted; what runs goes on.
Crash ==
    /\ call # Idle
    /\ call' = Idle
    /\ lost' = lost \cup {a \in Agents : \E place \in Places :
                              runs[place] = a /\ file[a] # place}
    /\ UNCHANGED <<launcher, runs, file>>

-----------------------------------------------------------------------------

World == \E place \in Places : Ends(place) \/ Opens(place)

Hub ==
    \/ \E a \in Agents : BeginStop(a) \/ \E place \in Places : BeginStart(a, place)
    \/ Launch \/ Kill \/ BeginList \/ Truncate \/ Write

Next == World \/ Hub \/ Crash

Spec == Init /\ [][Next]_vars

-----------------------------------------------------------------------------

\* These rows name the place of every agent that runs, the lost ones aside.
Covers(where, gone, rows) ==
    \A a \in Agents \ gone, place \in Places : where[place] = a => rows[a] = place

RowsInForce == IF call = Idle THEN file ELSE call.rows

\* Every agent that runs has a row, in the file or in the hands of the call that is
\* about to write it, which names the place where it runs: it can be listed and
\* stopped, and no second one of that name is started.  Only a crash of the hub
\* before the end of a save loses it (_start_agent_local, _save_agent_registry).
RunningIsRegistered == Covers(runs, lost, RowsInForce)

\* "stop an agent on this host": after the kill of a stop call the agent no longer
\* runs, and if it was still running nothing else was ended (_stop_agent_local).
Kills == call.step = "kill" /\ call'.step = "save"

StopEndsItAlone ==
    [][Kills /\ call.agent \notin lost =>
        /\ \A place \in Places : runs'[place] # call.agent
        /\ (\E place \in Places : runs[place] = call.agent) =>
              \A place \in Places : runs[place] # call.agent => runs'[place] = runs[place]]_vars

=============================================================================
