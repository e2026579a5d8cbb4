----------------------------- MODULE ClaudeLaunch -----------------------------
(***************************************************************************)
(* Starting Claude in a workspace (main.py, claude_sessions.py), beside    *)
(* the agents of the same machine: a request makes sure that the           *)
(* workspace's tmux session is there and opens a window in it, which runs  *)
(* a new Claude with a prompt or shows a background one.                   *)
(*                                                                         *)
(* Each request is a few tmux commands without a lock, against sessions    *)
(* that agents and users open and end; a start on another machine is also  *)
(* given up after 15 seconds, while that machine carries on.               *)
(***************************************************************************)
EXTENDS AgentRegistry

CONSTANTS
    Requests,   \* calls of /claude/start and /claude/attach
    Workspace   \* the tmux session of the workspace they are for

ASSUME LaunchAssumption == Workspace \in Places

VARIABLES
    job,      \* the background Claude runs, or its file is a leftover
    request   \* each request, with the window, the prompt file and the priority it left

launchVars == <<vars, job, request>>

\* caller: what the control hub told the user of a start.  "failed" and "lost" are errors of
\* the launch, "spoilt" is one after it.  newer: the windows opened since an attach listed them.
RequestStates ==
    [kind : {"none", "local", "remote", "attach"},
     step : {"none", "look", "create", "write", "open", "opened", "failed", "done", "crashed"},
     caller : {"none", "waits", "ok", "spoilt", "failed", "lost", "gone"},
     window : {"none", "new", "runs", "shell", "closed"},
     prompt : BOOLEAN, priority : BOOLEAN, newer : SUBSET Requests]

Unsent == [kind |-> "none", step |-> "none", caller |-> "none", window |-> "none",
           prompt |-> FALSE, priority |-> FALSE, newer |-> {}]

Starting(r) == request[r].kind \in {"local", "remote"}
Open(r) == request[r].window \in {"new", "runs", "shell"}

LaunchTypeOK ==
    /\ job \in {"runs", "ended"}
    /\ request \in [Requests -> RequestStates]
    /\ \A r \in Requests : Open(r) => runs[Workspace] # None

LaunchInit ==
    /\ Init
    /\ job = "runs"
    /\ request = [r \in Requests |-> Unsent]

\* The steps of a request that leave the machine's sessions alone.
Only(r, step) ==
    /\ request' = [request EXCEPT ![r].step = step]
    /\ UNCHANGED <<vars, job>>

-----------------------------------------------------------------------------
(* /claude/start.                                                          *)

\* claude_start sets the priority of the new session before it is launched.
BeginLaunch(r) ==
    /\ request[r].kind = "none"
    /\ \E kind \in {"local", "remote"} :
          request' = [request EXCEPT ![r].kind = kind, ![r].step = "look",
                                     ![r].caller = "waits", ![r].priority = TRUE]
    /\ UNCHANGED <<vars, job>>

\* _ensure_tmux_session: has-session takes a longer name for the session.
Ensure(r) ==
    /\ Starting(r) /\ request[r].step = "look"
    /\ Only(r, IF launcher = "process" THEN "failed"
               ELSE IF Target(Workspace) # {} THEN "write" ELSE "create")

\* Mutant: with the session gone, the registry is cleaned on the way, without AGENT_LOCK.
CreateCleaning(r) ==
    /\ request[r].step = "create" /\ runs[Workspace] = None
    /\ runs' = [runs EXCEPT ![Workspace] = Other]
    /\ file' = Cleaned(file)
    /\ request' = [request EXCEPT ![r].step = "write"]
    /\ UNCHANGED <<launcher, call, lost, job>>

\* new-session fails when somebody has opened the session meanwhile.
Create(r) ==
    /\ request[r].step = "create"
    /\ \/ /\ Opens(Workspace)
          /\ request' = [request EXCEPT ![r].step = "write"]
          /\ UNCHANGED job
       \/ runs[Workspace] # None /\ Only(r, "failed")

\* launch_window: the prompt goes through a file that the window removes.
WritePrompt(r) ==
    /\ request[r].step = "write"
    /\ request' = [request EXCEPT ![r].step = "open", ![r].prompt = TRUE]
    /\ UNCHANGED <<vars, job>>

\* Mutant: the prompt is removed in any case.
DropsPrompt(r, opened) == FALSE

\* What launch_window leaves of the prompt file.
PromptAfter(r, opened) == opened /\ request[r].prompt

\* Mutant: new-window also goes to a session with a longer name.
AnySession == Target(Workspace) # {}

\* new-window -t =name: only the session of exactly that name.
CanOpen == runs[Workspace] # None

OpenWindow(r) ==
    /\ request[r].step = "open"
    /\ request' = [s \in Requests |->
          IF s = r
          THEN [request[r] EXCEPT !.step = IF CanOpen THEN "opened" ELSE "failed",
                                  !.window = IF CanOpen THEN "new" ELSE "none",
                                  !.prompt = PromptAfter(r, CanOpen), !.newer = {}]
          ELSE IF CanOpen /\ request[s].step = "open" /\ request[s].kind = "attach"
          THEN [request[s] EXCEPT !.newer = @ \cup {r}]
          ELSE request[s]]
    /\ UNCHANGED <<vars, job>>

\* The command of the window: cat the prompt, remove the file, run Claude.
WindowRuns(r) ==
    /\ request[r].window = "new"
    /\ request' = [request EXCEPT ![r].window = "runs", ![r].prompt = FALSE]
    /\ UNCHANGED <<vars, job>>

\* Claude, or the attach, ends; the window keeps a shell until it is closed.
WindowMoves(r) ==
    /\ \/ request[r].window = "runs" /\ request' = [request EXCEPT ![r].window = "shell"]
       \/ Open(r) /\ request' = [request EXCEPT ![r].window = "closed"]
    /\ UNCHANGED <<vars, job>>

\* Mutant: the priority stays although nothing was started.
PriorityStays(r, caller) == request[r].priority

\* claude_start clears the priority when the launch raised, whatever came of it.
PriorityAfter(r, caller) == request[r].priority /\ caller \in {"ok", "spoilt"}

\* What comes of a launch.  The answer to one that worked names the machine, which claude_start
\* looks up in machines.json, outside its try: when the file does not parse because another
\* call rewrites it, the user gets a 500 although Claude was started.
Outcomes(r) == IF request[r].step = "opened" THEN {"ok", "spoilt"} ELSE {"failed"}

Told(r, caller, step) ==
    /\ request' = [request EXCEPT ![r].caller = caller, ![r].step = step,
                                  ![r].priority = PriorityAfter(r, caller)]
    /\ UNCHANGED <<vars, job>>

Answer(r) ==
    /\ request[r].step \in {"opened", "failed"}
    /\ IF request[r].caller # "waits" THEN Only(r, "done")   \* nobody waits, or an attach
       ELSE \E caller \in Outcomes(r) : Told(r, caller, "done")

\* _hub_call: the request or its answer is lost, or the answer takes too long.
Lose(r) ==
    /\ request[r].kind = "remote" /\ request[r].caller = "waits"
    /\ \E step \in {request[r].step} \cup (IF request[r].step = "look" THEN {"done"} ELSE {}) :
          Told(r, "lost", step)

-----------------------------------------------------------------------------
(* /claude/attach.                                                         *)

\* list_sessions: the process is still the one the file names, with the same start
\* time, and no other that has its pid by now.
Listed == job = "runs"

BeginAttach(r) ==
    /\ request[r].kind = "none" /\ Listed
    /\ request' = [request EXCEPT ![r].kind = "attach", ![r].step = "look"]
    /\ UNCHANGED <<vars, job>>

\* Mutant: only windows that still show the job count.
Showing == {s \in Requests : request[s].kind = "attach" /\ request[s].window \in {"new", "runs"}}

\* attach_window: the windows that were started with `claude attach` of the job, also
\* those that only keep a shell by now.
AttachWindows == {s \in Requests : request[s].kind = "attach" /\ Open(s)}

LookForWindow(r) ==
    /\ request[r].kind = "attach" /\ request[r].step = "look"
    /\ Only(r, IF launcher = "process" THEN "failed"
               ELSE IF AttachWindows # {} THEN "opened" ELSE "open")

JobEnds ==
    /\ job = "runs" /\ job' = "ended"
    /\ UNCHANGED <<vars, request>>

-----------------------------------------------------------------------------

\* With the session its windows go.
Surviving ==
    [r \in Requests |->
        IF Open(r) /\ runs'[Workspace] = None
        THEN [request[r] EXCEPT !.window = "closed"] ELSE request[r]]

AgentsAndUsers ==
    /\ World \/ Hub
    /\ request' = Surviving /\ UNCHANGED job

\* The machine's hub dies with every request in it; a control hub elsewhere waits on.
HubDies ==
    /\ Crash \/ (call = Idle /\ UNCHANGED vars)
    /\ request' = [r \in Requests |->
          IF request[r].step \in {"none", "done", "crashed"} THEN request[r]
          ELSE [request[r] EXCEPT !.step = "crashed",
                                  !.caller = IF request[r].kind = "local" THEN "gone" ELSE @]]
    /\ UNCHANGED job

RequestStep(r) ==
    \/ BeginLaunch(r) \/ Ensure(r) \/ Create(r) \/ WritePrompt(r) \/ OpenWindow(r)
    \/ WindowRuns(r) \/ WindowMoves(r) \/ Answer(r) \/ Lose(r)
    \/ BeginAttach(r) \/ LookForWindow(r)

LaunchNext ==
    \/ AgentsAndUsers \/ HubDies \/ JobEnds
    \/ \E r \in Requests : RequestStep(r)

LaunchSpec == LaunchInit /\ [][LaunchNext]_launchVars

-----------------------------------------------------------------------------

\* Launches never do to sessions what the agents of the machine are not prepared for.
ImplementsAgents == Spec

\* The answer to a start, its window, prompt file and priority agree, whatever sessions end
\* or appear and wherever the hub dies.  An error of the launch means that nothing is left of
\* it, neither window nor prompt file nor priority; every other answer, the 500 for a
\* machines.json that does not parse after the launch too, means that a window was opened and
\* has its priority; and a start that was given up has none (claude_start, launch_window).
OutcomesAgree ==
    \A r \in Requests : Starting(r) =>
        /\ request[r].caller \in {"ok", "spoilt"} =>
              request[r].window # "none" /\ request[r].priority
        /\ request[r].caller = "failed" =>
              request[r].window = "none" /\ ~request[r].prompt /\ ~request[r].priority
        /\ request[r].caller = "lost" => ~request[r].priority

\* The window of a start finds its prompt, and prompt files do not pile up: one is
\* there only until the window has read it, unless the hub died before it opened the
\* window or the window was closed first.
PromptsAreRead ==
    \A r \in Requests : Starting(r) =>
        /\ request[r].window = "new" => request[r].prompt
        /\ request[r].prompt =>
              request[r].step \in {"open", "crashed"} \/ request[r].window \in {"new", "closed"}

\* A second window for the same background session is only opened by a request that
\* looked before the first one was there.
SecondWindowsAreRaces ==
    [][\A r \in Requests :
          request[r].kind = "attach" /\ request[r].window = "none" /\ request'[r].window = "new" =>
             {s \in Requests : request[s].kind = "attach" /\ Open(s)}
                \subseteq request[r].newer]_launchVars

=============================================================================
