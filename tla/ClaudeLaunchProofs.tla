-------------------------- MODULE ClaudeLaunchProofs --------------------------
(***************************************************************************)
(* Proofs about ClaudeLaunch, for any requests, sessions and names among   *)
(* them: launches are steps the agents of the machine are prepared for,    *)
(* and what users are told, windows, prompts and priorities agree.         *)
(***************************************************************************)
EXTENDS ClaudeLaunch, AgentRegistryProofs

\* What the step of a request says of the rest of it.
StepsAgree(r) ==
    LET q == request[r] IN
    /\ q.kind = "none" => q = Unsent
    /\ q.step \in {"look", "create", "write"} => q.window = "none" /\ ~q.prompt
    /\ q.step \in {"create", "write"} => Starting(r)
    /\ q.step = "open" => q.window = "none" /\ (Starting(r) => q.prompt)
    /\ q.step = "opened" /\ Starting(r) => q.window # "none"
    /\ q.step = "failed" => q.window = "none" /\ ~q.prompt
    /\ q.caller = "waits" => q.priority /\ q.step # "done"
    /\ q.caller \in {"ok", "spoilt", "failed"} => q.step = "done"

Agreement == \A r \in Requests : StepsAgree(r)

\* A request that is about to open a window for the background session knows of those
\* that are open.
Knowing ==
    \A r \in Requests :
        request[r].step = "open" /\ request[r].kind = "attach" =>
            {s \in Requests : request[s].kind = "attach" /\ Open(s)} \subseteq request[r].newer

LaunchInv ==
    /\ TypeOK /\ LaunchTypeOK /\ Agreement
    /\ OutcomesAgree /\ PromptsAreRead /\ Knowing

-----------------------------------------------------------------------------
(* Launches among the agents.                                              *)

LEMMA LaunchIsAgents == [LaunchNext]_launchVars => [Next]_vars
<1> SUFFICES ASSUME [LaunchNext]_launchVars PROVE [Next]_vars
  OBVIOUS
<1>1. CASE UNCHANGED launchVars \/ JobEnds
  BY <1>1 DEF launchVars, JobEnds
<1>2. CASE AgentsAndUsers
  BY <1>2 DEF AgentsAndUsers, Next
<1>3. CASE HubDies
  BY <1>3 DEF HubDies, Next
<1>4. ASSUME NEW r \in Requests, RequestStep(r) PROVE [Next]_vars
  <2>1. CASE Create(r)
    BY <2>1, LaunchAssumption DEF Create, Only, Next, World
  <2>2. CASE BeginLaunch(r) \/ Ensure(r) \/ WritePrompt(r) \/ OpenWindow(r) \/ WindowRuns(r)
    BY <2>2 DEF BeginLaunch, Ensure, Only, WritePrompt, OpenWindow, WindowRuns
  <2>3. CASE WindowMoves(r) \/ Answer(r) \/ Lose(r) \/ BeginAttach(r) \/ LookForWindow(r)
    BY <2>3 DEF WindowMoves, Answer, Lose, Told, Only, BeginAttach, LookForWindow
  <2> QED BY <1>4, <2>1, <2>2, <2>3 DEF RequestStep
<1> QED BY <1>1, <1>2, <1>3, <1>4 DEF LaunchNext

\* Whatever requests for Claude do to the sessions of a machine is what users may do to
\* them anyway, so what holds of the agents holds beside any number of such requests
\* (claude_sessions.py over tmux.py).
THEOREM LaunchesAreUsers == LaunchSpec => ImplementsAgents
<1>1. LaunchInit => Init
  BY DEF LaunchInit
<1> QED BY <1>1, LaunchIsAgents, PTL DEF LaunchSpec, ImplementsAgents, Spec

\* So the theorems about agents hold of the machine that launches, too.
THEOREM AgentsBesideLaunches ==
    /\ LaunchSpec => []TypeOK
    /\ Stoppable => (LaunchSpec => []RunningIsRegistered /\ StopEndsItAlone)
BY LaunchesAreUsers, AgentTypeCorrect, AgentsRegistered, StopsAlone DEF ImplementsAgents

-----------------------------------------------------------------------------
(* The invariant.                                                          *)

LEMMA LaunchInitInv == LaunchInit => LaunchInv
<1> SUFFICES ASSUME LaunchInit PROVE LaunchInv
  OBVIOUS
<1>1. TypeOK
  BY AgentInit DEF LaunchInit, RegInv
<1>2. Unsent \in RequestStates
  BY DEF Unsent, RequestStates
<1>3. \A r \in Requests : request[r] = Unsent
  BY DEF LaunchInit
<1>4. LaunchTypeOK
  BY <1>2, <1>3 DEF LaunchInit, LaunchTypeOK, Open, Unsent
<1> QED BY <1>1, <1>3, <1>4 DEF LaunchInv, Agreement, StepsAgree, OutcomesAgree,
        PromptsAreRead, Knowing, Starting, Unsent

\* A step that closes windows of a request, and leaves the rest of it.
Closes(r) ==
    /\ request'[r].kind = request[r].kind /\ request'[r].step = request[r].step
    /\ request'[r].caller = request[r].caller /\ request'[r].prompt = request[r].prompt
    /\ request'[r].priority = request[r].priority /\ request'[r].newer = request[r].newer
    /\ request'[r].window = "closed" /\ Open(r)

LEMMA SurvivingInv ==
    ASSUME LaunchInv, TypeOK', job' = job, request' = Surviving
    PROVE  LaunchInv'
<1> USE DEF LaunchInv
<1>1. /\ request' \in [Requests -> RequestStates]
      /\ \A r \in Requests :
            \/ request'[r] = request[r] /\ (Open(r) => runs'[Workspace] # None)
            \/ Closes(r)
  <2> SUFFICES ASSUME NEW r \in Requests
               PROVE  /\ Surviving[r] \in RequestStates
                      /\ \/ request'[r] = request[r] /\ (Open(r) => runs'[Workspace] # None)
                         \/ Closes(r)
    BY DEF Surviving
  <2>1. request[r] \in RequestStates
    BY DEF LaunchTypeOK
  <2> QED BY <2>1 DEF Surviving, RequestStates, Closes
<1>2. LaunchTypeOK'
  <2> SUFFICES ASSUME NEW r \in Requests, Open(r)' PROVE (runs[Workspace] # None)'
    BY <1>1 DEF LaunchTypeOK
  <2>1. ~Closes(r)
    BY DEF Closes, Open
  <2>2. request'[r] = request[r] /\ (Open(r) => runs'[Workspace] # None)
    BY <1>1, <2>1
  <2> QED BY <2>2 DEF Open
<1>3. Agreement'
  <2> SUFFICES ASSUME NEW r \in Requests PROVE StepsAgree(r)'
    BY DEF Agreement
  <2>1. StepsAgree(r)
    BY DEF Agreement
  <2>2. CASE request'[r] = request[r]
    BY <2>1, <2>2 DEF StepsAgree, Starting
  <2>3. CASE Closes(r)
    BY <2>1, <2>3 DEF StepsAgree, Starting, Closes, Open, Unsent
  <2> QED BY <1>1, <2>2, <2>3
<1>4. OutcomesAgree' /\ PromptsAreRead'
  BY <1>1 DEF OutcomesAgree, PromptsAreRead, Starting, Closes, Open
<1>5. Knowing'
  <2>1. \A r \in Requests :
          /\ request'[r].kind = request[r].kind /\ request'[r].step = request[r].step
          /\ request'[r].newer = request[r].newer /\ (Open(r)' => Open(r))
    BY <1>1 DEF Closes, Open
  <2> QED BY <2>1 DEF Knowing
<1> QED BY <1>2, <1>3, <1>4, <1>5

\* A step of one request, which opens no window for the background session.
Answered(r) ==
    Starting(r) =>
       /\ request[r].caller \in {"ok", "spoilt"} =>
             request[r].window # "none" /\ request[r].priority
       /\ request[r].caller = "failed" =>
             request[r].window = "none" /\ ~request[r].prompt /\ ~request[r].priority
       /\ request[r].caller = "lost" => ~request[r].priority
       /\ request[r].window = "new" => request[r].prompt
       /\ request[r].prompt =>
             request[r].step \in {"open", "crashed"} \/ request[r].window \in {"new", "closed"}

Fits(r) ==
    /\ StepsAgree(r) /\ Answered(r)
    /\ Open(r) => runs[Workspace] # None
    /\ request[r].step = "open" /\ request[r].kind = "attach" =>
          {s \in Requests : request[s].kind = "attach" /\ Open(s)} \subseteq request[r].newer

LEMMA FitsAll ==
    LaunchInv <=> /\ TypeOK /\ job \in {"runs", "ended"} /\ request \in [Requests -> RequestStates]
                  /\ \A r \in Requests : Fits(r)
BY DEF LaunchInv, LaunchTypeOK, Agreement, OutcomesAgree, PromptsAreRead, Knowing, Fits, Answered

LEMMA OneRequest ==
    ASSUME LaunchInv, TypeOK', job' = job, runs[Workspace] # None => runs'[Workspace] # None,
           NEW r \in Requests, NEW state \in RequestStates,
           request' = [request EXCEPT ![r] = state],
           request'[r].kind = "attach" /\ Open(r)' => request[r].kind = "attach" /\ Open(r),
           Fits(r)'
    PROVE  LaunchInv'
<1>1. /\ TypeOK /\ job \in {"runs", "ended"} /\ request \in [Requests -> RequestStates]
      /\ \A s \in Requests : Fits(s)
  BY FitsAll
<1>2. request' \in [Requests -> RequestStates]
  BY <1>1
<1>3. ASSUME NEW s \in Requests, s # r PROVE Fits(s)'
  <2>1. request'[s] = request[s]
    BY <1>1, <1>3
  <2>2. \A q \in Requests : request'[q].kind = "attach" /\ Open(q)' =>
                              request[q].kind = "attach" /\ Open(q)
    BY <1>1 DEF Open
  <2>3. Fits(s)
    BY <1>1
  <2> QED BY <2>1, <2>2, <2>3 DEF Fits, Answered, StepsAgree, Starting, Open
<1> QED BY <1>1, <1>2, <1>3 DEF LaunchInv, LaunchTypeOK, Agreement, OutcomesAgree,
        PromptsAreRead, Knowing, Fits, Answered

LEMMA RequestInv ==
    ASSUME LaunchInv, TypeOK', NEW r \in Requests, RequestStep(r)
    PROVE  LaunchInv'
<1>0. /\ TypeOK /\ request \in [Requests -> RequestStates] /\ request[r] \in RequestStates
      /\ Fits(r)
  BY FitsAll
<1> DEFINE q == request[r]
<1>1. ASSUME NEW new \in RequestStates, request' = [request EXCEPT ![r] = new],
             job' = job, runs[Workspace] # None => runs'[Workspace] # None,
             Fits(r)', request'[r].kind = "attach" /\ Open(r)' => q.kind = "attach" /\ Open(r)
      PROVE  LaunchInv'
  BY <1>1, OneRequest
<1> DEFINE Given(new) ==
      /\ new \in RequestStates /\ request' = [request EXCEPT ![r] = new]
      /\ request'[r] = new
<1>2. CASE BeginLaunch(r)
  <2>1. q = Unsent
    BY <1>0, <1>2 DEF Fits, StepsAgree, BeginLaunch
  <2>2. PICK kind \in {"local", "remote"} :
          request' = [request EXCEPT ![r] = [q EXCEPT !.kind = kind, !.step = "look",
                                               !.caller = "waits", !.priority = TRUE]]
    BY <1>2 DEF BeginLaunch
  <2> DEFINE new == [q EXCEPT !.kind = kind, !.step = "look", !.caller = "waits", !.priority = TRUE]
  <2>3. Given(new)
    BY <1>0, <2>2 DEF RequestStates
  <2>4. Fits(r)' /\ ~Open(r)'
    BY <1>0, <2>1, <2>3 DEF Fits, Answered, StepsAgree, Open, Starting, Unsent, RequestStates
  <2> QED BY <1>1, <1>2, <2>3, <2>4 DEF BeginLaunch, vars
<1>3. ASSUME NEW step \in {"look", "create", "write", "open", "opened", "failed", "done", "crashed"},
             request' = [request EXCEPT ![r].step = step], job' = job,
             runs[Workspace] # None => runs'[Workspace] # None,
             \/ q.step \in {"look", "create"} /\ step \in {"create", "write"} /\ Starting(r)
             \/ q.step \in {"look", "create"} /\ step = "failed"
             \/ q.step = "look" /\ q.kind = "attach" /\ step \in {"opened", "open"}
                   /\ (step = "open" => AttachWindows = {})
             \/ q.step \in {"opened", "failed"} /\ step = "done" /\ q.caller # "waits"
      PROVE  LaunchInv'
  <2> DEFINE new == [q EXCEPT !.step = step]
  <2>1. Given(new)
    BY <1>0, <1>3 DEF RequestStates
  <2>2. /\ request'[r].kind = q.kind /\ request'[r].step = step
        /\ request'[r].caller = q.caller /\ request'[r].window = q.window
        /\ request'[r].prompt = q.prompt /\ request'[r].priority = q.priority
        /\ request'[r].newer = q.newer
    BY <1>0, <2>1 DEF RequestStates
  <2>3. \A s \in Requests : request'[s].kind = request[s].kind /\ (Open(s)' => Open(s))
    BY <1>0, <2>1, <2>2 DEF Open
  <2>4. q.kind # "none"
    BY <1>0, <1>3 DEF Fits, StepsAgree, Unsent
  <2>5. StepsAgree(r)'
    BY <1>0, <1>3, <2>2, <2>4 DEF Fits, StepsAgree, Starting
  <2>6. step = "open" /\ q.kind = "attach" =>
          {s \in Requests : request'[s].kind = "attach" /\ Open(s)'} = {}
    BY <1>3, <2>3 DEF AttachWindows
  <2>7. Answered(r)'
    BY <1>0, <1>3, <2>2, <2>4 DEF Fits, Answered, Starting
  <2>8. request'[r].step = "open" /\ request'[r].kind = "attach" =>
          {s \in Requests : request'[s].kind = "attach" /\ Open(s)'} \subseteq request'[r].newer
    BY <2>2, <2>6
  <2>9. Fits(r)'
    BY <1>0, <1>3, <2>3, <2>5, <2>7, <2>8 DEF Fits
  <2> QED BY <1>1, <1>3, <2>1, <2>3, <2>9
<1>4. CASE Ensure(r) \/ Create(r) \/ LookForWindow(r)
  <2>1. job' = job /\ (runs[Workspace] # None => runs'[Workspace] # None)
    BY <1>4 DEF Ensure, Create, LookForWindow, Only, Opens, vars
  <2> DEFINE Allowed(step) ==
        \/ q.step \in {"look", "create"} /\ step \in {"create", "write"} /\ Starting(r)
        \/ q.step \in {"look", "create"} /\ step = "failed"
        \/ q.step = "look" /\ q.kind = "attach" /\ step \in {"opened", "open"}
              /\ (step = "open" => AttachWindows = {})
  <2>2. CASE Ensure(r)
    <3>1. \E step \in {"failed", "write", "create"} :
            request' = [request EXCEPT ![r].step = step] /\ Allowed(step)
      BY <2>2 DEF Ensure, Only
    <3> QED BY <1>3, <2>1, <3>1
  <2>3. CASE Create(r)
    <3>1. \E step \in {"failed", "write"} :
            request' = [request EXCEPT ![r].step = step] /\ Allowed(step)
      BY <1>0, <2>3 DEF Create, Only, Fits, StepsAgree
    <3> QED BY <1>3, <2>1, <3>1
  <2>4. CASE LookForWindow(r)
    <3>1. \E step \in {"failed", "opened", "open"} :
            request' = [request EXCEPT ![r].step = step] /\ Allowed(step)
      BY <2>4 DEF LookForWindow, Only
    <3> QED BY <1>3, <2>1, <3>1
  <2> QED BY <1>4, <2>2, <2>3, <2>4
<1>5. CASE WritePrompt(r)
  <2> DEFINE new == [q EXCEPT !.step = "open", !.prompt = TRUE]
  <2>1. Given(new)
    BY <1>0, <1>5 DEF WritePrompt, RequestStates
  <2>2. q.kind # "attach"
    BY <1>0, <1>5 DEF WritePrompt, Fits, StepsAgree, Starting
  <2>3. Fits(r)'
    BY <1>0, <1>5, <2>1, <2>2
       DEF WritePrompt, Fits, Answered, StepsAgree, Open, Starting, Unsent, RequestStates
  <2>4. new.kind = q.kind
    BY <1>0 DEF RequestStates
  <2>5. job' = job /\ runs' = runs
    BY <1>5 DEF WritePrompt, vars
  <2> QED BY <1>1, <2>1, <2>2, <2>3, <2>4, <2>5
<1>6. CASE OpenWindow(r)
  <2>1. job' = job /\ runs' = runs /\ q.step = "open"
    BY <1>6 DEF OpenWindow, vars
  <2>2. /\ request'[r] \in RequestStates
        /\ request'[r].kind = q.kind /\ request'[r].caller = q.caller
        /\ request'[r].step = IF CanOpen THEN "opened" ELSE "failed"
        /\ request'[r].window = IF CanOpen THEN "new" ELSE "none"
        /\ request'[r].prompt = (CanOpen /\ q.prompt)
        /\ request'[r].priority = q.priority
    BY <1>0, <1>6 DEF OpenWindow, PromptAfter, RequestStates
  <2>3. ASSUME NEW s \in Requests, s # r
        PROVE  /\ request'[s] \in RequestStates
               /\ \/ request'[s] = request[s]
                     /\ ~(CanOpen /\ request[s].step = "open" /\ request[s].kind = "attach")
                  \/ /\ request'[s] = [request[s] EXCEPT !.newer = @ \cup {r}]
                     /\ request[s].step = "open" /\ request[s].kind = "attach"
    <3>1. request[s] \in RequestStates
      BY <1>0
    <3> QED BY <1>6, <2>3, <3>1 DEF OpenWindow, RequestStates
  <2>4. request' \in [Requests -> RequestStates]
    BY <1>6, <2>2, <2>3 DEF OpenWindow
  <2>5. ASSUME NEW s \in Requests, s # r
        PROVE  /\ request'[s].kind = request[s].kind /\ request'[s].step = request[s].step
               /\ request'[s].caller = request[s].caller
               /\ request'[s].window = request[s].window
               /\ request'[s].prompt = request[s].prompt
               /\ request'[s].priority = request[s].priority
               /\ request[s].newer \subseteq request'[s].newer
               /\ request[s].step = "open" /\ request[s].kind = "attach" /\ CanOpen =>
                     r \in request'[s].newer
    <3>1. request[s] \in RequestStates
      BY <1>0
    <3>2. CASE /\ request'[s] = request[s]
               /\ ~(CanOpen /\ request[s].step = "open" /\ request[s].kind = "attach")
      BY <3>2
    <3>3. CASE request'[s] = [request[s] EXCEPT !.newer = @ \cup {r}]
      BY <3>1, <3>3 DEF RequestStates
    <3> QED BY <2>3, <2>5, <3>2, <3>3
  <2>6. Fits(r)'
    <3>0. q.kind # "none" /\ (q.caller = "waits" => q.priority) /\ q.caller \notin {"ok", "spoilt", "failed"}
      <4>1. StepsAgree(r)
        BY <1>0 DEF Fits
      <4> QED BY <2>1, <4>1 DEF StepsAgree, Unsent
    <3>1. StepsAgree(r)'
      BY <2>2, <3>0 DEF StepsAgree
    <3>2. Answered(r)'
      BY <1>0, <2>1, <2>2 DEF Fits, Answered, StepsAgree, Starting
    <3> QED BY <2>1, <2>2, <3>1, <3>2 DEF Fits, Open, CanOpen
  <2>7. ASSUME NEW s \in Requests, s # r PROVE Fits(s)'
    <3>1. Fits(s)
      BY FitsAll
    <3>2. StepsAgree(s)'
      <4>1. request[s].kind = "none" => request'[s] = request[s]
        BY <2>3, <2>7, <3>1 DEF Fits, StepsAgree, Unsent
      <4> QED BY <2>5, <2>7, <3>1, <4>1 DEF Fits, StepsAgree, Starting
    <3>3. Answered(s)'
      BY <2>5, <2>7, <3>1 DEF Fits, Answered, Starting
    <3>4. Open(s)' => runs'[Workspace] # None
      BY <2>1, <2>5, <2>7, <3>1 DEF Fits, Open
    <3>5. ASSUME request'[s].step = "open", request'[s].kind = "attach",
                 NEW x \in Requests, request'[x].kind = "attach", Open(x)'
          PROVE  x \in request'[s].newer
      <4>1. CASE x = r
        BY <2>2, <2>5, <2>7, <3>5, <4>1 DEF Open
      <4>2. CASE x # r
        BY <2>5, <2>7, <3>1, <3>5, <4>2 DEF Fits, Open
      <4> QED BY <4>1, <4>2
    <3> QED BY <3>2, <3>3, <3>4, <3>5 DEF Fits
  <2> QED BY <1>0, <2>1, <2>4, <2>6, <2>7, FitsAll DEF LaunchInv, LaunchTypeOK, Agreement,
          OutcomesAgree, PromptsAreRead, Knowing, Fits, Answered
<1>7. ASSUME NEW window \in {"runs", "shell", "closed"}, NEW prompt \in BOOLEAN,
             request' = [request EXCEPT ![r] = [q EXCEPT !.window = window, !.prompt = prompt]],
             UNCHANGED <<vars, job>>, Open(r), prompt => q.prompt,
             window = "closed" \/ ~prompt \/ q.window = "runs"
      PROVE  LaunchInv'
  <2> DEFINE new == [q EXCEPT !.window = window, !.prompt = prompt]
  <2>1. Given(new)
    BY <1>0, <1>7 DEF RequestStates
  <2>2. /\ request'[r].kind = q.kind /\ request'[r].step = q.step
        /\ request'[r].caller = q.caller /\ request'[r].window = window
        /\ request'[r].prompt = prompt /\ request'[r].priority = q.priority
    BY <1>0, <2>1 DEF RequestStates
  <2>3. q.kind # "none" /\ q.step \notin {"look", "create", "write", "open", "failed"}
    BY <1>0, <1>7 DEF Fits, StepsAgree, Unsent, Open
  <2>4. StepsAgree(r)'
    BY <1>0, <2>2, <2>3 DEF Fits, StepsAgree, Starting
  <2>5. Answered(r)'
    BY <1>0, <1>7, <2>2, <2>3 DEF Fits, Answered, Starting, Open
  <2>6. Fits(r)'
    BY <1>0, <1>7, <2>2, <2>3, <2>4, <2>5 DEF Fits, vars
  <2> QED BY <1>1, <1>7, <2>1, <2>2, <2>6 DEF vars
<1>8. CASE WindowRuns(r) \/ WindowMoves(r)
  <2>1. CASE WindowRuns(r)
    BY <1>7, <2>1 DEF WindowRuns, Open
  <2>2. CASE WindowMoves(r)
    <3>1. PICK window \in {"shell", "closed"} :
            /\ request' = [request EXCEPT ![r].window = window]
            /\ Open(r) /\ (window = "shell" => q.window = "runs")
            /\ UNCHANGED <<vars, job>>
      BY <2>2 DEF WindowMoves, Open
    <3>2. [q EXCEPT !.window = window] = [q EXCEPT !.window = window, !.prompt = q.prompt]
      BY <1>0 DEF RequestStates
    <3>3. q.prompt \in BOOLEAN
      BY <1>0 DEF RequestStates
    <3> QED BY <1>7, <3>1, <3>2, <3>3
  <2> QED BY <1>8, <2>1, <2>2
<1>9. ASSUME NEW caller \in {"ok", "spoilt", "failed", "lost"}, NEW step, Told(r, caller, step),
             q.caller = "waits",
             \/ q.step = "opened" /\ caller \in {"ok", "spoilt"} /\ step = "done"
             \/ q.step = "failed" /\ caller = "failed" /\ step = "done"
             \/ caller = "lost" /\ step = q.step
             \/ caller = "lost" /\ q.step = "look" /\ step = "done"
      PROVE  LaunchInv'
  <2> DEFINE priority == q.priority /\ caller \in {"ok", "spoilt"}
             new == [q EXCEPT !.caller = caller, !.step = step, !.priority = priority]
  <2>0. step \in {"none", "look", "create", "write", "open", "opened", "failed", "done", "crashed"}
    BY <1>0, <1>9 DEF RequestStates
  <2>1. Given(new)
    BY <1>0, <1>9, <2>0 DEF RequestStates, Told, PriorityAfter
  <2>2. /\ request'[r].kind = q.kind /\ request'[r].step = step
        /\ request'[r].caller = caller /\ request'[r].window = q.window
        /\ request'[r].prompt = q.prompt /\ request'[r].newer = q.newer
        /\ request'[r].priority = priority
    BY <1>0, <2>1 DEF RequestStates
  <2>3. \A s \in Requests : request'[s].kind = request[s].kind /\ (Open(s)' => Open(s))
    BY <1>0, <2>1, <2>2 DEF Open
  <2>4. q.kind # "none" /\ q.priority
    BY <1>0, <1>9 DEF Fits, StepsAgree, Unsent
  <2>5. StepsAgree(r)'
    BY <1>0, <1>9, <2>2, <2>4 DEF Fits, StepsAgree, Starting
  <2>6. Answered(r)'
    BY <1>0, <1>9, <2>2, <2>4 DEF Fits, Answered, StepsAgree, Starting
  <2>7. request'[r].step = "open" /\ request'[r].kind = "attach" =>
          {s \in Requests : request'[s].kind = "attach" /\ Open(s)'} \subseteq request'[r].newer
    BY <1>0, <1>9, <2>2, <2>3 DEF Fits
  <2>8. Fits(r)'
    BY <1>0, <1>9, <2>2, <2>3, <2>5, <2>6, <2>7 DEF Fits, Told, vars
  <2> QED BY <1>1, <1>9, <2>1, <2>3, <2>8 DEF Told, vars
<1>11. CASE Answer(r) \/ Lose(r)
  <2>1. CASE Answer(r)
    <3>1. CASE q.caller = "waits"
      BY <1>9, <2>1, <3>1 DEF Answer, Outcomes
    <3>2. CASE q.caller # "waits"
      BY <1>3, <2>1, <3>2 DEF Answer, Only, vars
    <3> QED BY <3>1, <3>2
  <2>2. CASE Lose(r)
    BY <1>9, <2>2 DEF Lose
  <2> QED BY <1>11, <2>1, <2>2
<1>10. CASE BeginAttach(r)
  <2> DEFINE new == [q EXCEPT !.kind = "attach", !.step = "look"]
  <2>1. q = Unsent
    BY <1>0, <1>10 DEF Fits, StepsAgree, BeginAttach
  <2>2. Given(new)
    BY <1>0, <1>10 DEF BeginAttach, RequestStates
  <2>3. Fits(r)' /\ ~Open(r)'
    BY <1>0, <2>1, <2>2 DEF Fits, Answered, StepsAgree, Open, Starting, Unsent, RequestStates
  <2>4. job' = job /\ (runs[Workspace] # None => runs'[Workspace] # None)
    BY <1>10 DEF BeginAttach, vars
  <2> QED BY <1>1, <2>2, <2>3, <2>4
<1> QED BY <1>2, <1>4, <1>5, <1>6, <1>8, <1>10, <1>11 DEF RequestStep

LEMMA HubDiesInv == ASSUME LaunchInv, TypeOK', HubDies PROVE LaunchInv'
<1>0. /\ TypeOK /\ request \in [Requests -> RequestStates]
      /\ \A r \in Requests : Fits(r)
  BY FitsAll
<1>1. job' = job /\ runs' = runs
  BY DEF HubDies, Crash, vars
<1>2. ASSUME NEW r \in Requests
      PROVE  \/ request'[r] = request[r]
             \/ /\ request'[r] = [request[r] EXCEPT !.step = "crashed", !.caller = request'[r].caller]
                /\ request[r].step \notin {"none", "done", "crashed"}
                /\ request'[r].caller \in {request[r].caller, "gone"}
  <2>1. request[r] \in RequestStates
    BY <1>0
  <2> QED BY <2>1 DEF HubDies, RequestStates
<1>3. ASSUME NEW r \in Requests
      PROVE  /\ request'[r] \in RequestStates
             /\ request'[r].kind = request[r].kind /\ request'[r].window = request[r].window
             /\ request'[r].prompt = request[r].prompt /\ request'[r].newer = request[r].newer
             /\ request'[r].priority = request[r].priority
             /\ request'[r].step \in {request[r].step, "crashed"}
             /\ request'[r].caller \in {request[r].caller, "gone"}
             /\ request'[r] # request[r] =>
                   request'[r].step = "crashed" /\ request[r].step \notin {"none", "done"}
  <2>1. request[r] \in RequestStates
    BY <1>0
  <2> QED BY <1>2, <2>1 DEF RequestStates
<1>4. request' \in [Requests -> RequestStates]
  BY <1>3 DEF HubDies
<1>5. ASSUME NEW r \in Requests PROVE Fits(r)'
  <2>1. Fits(r)
    BY <1>0
  <2>2. StepsAgree(r)'
    BY <1>3, <2>1 DEF Fits, StepsAgree, Starting, Unsent
  <2>3. Answered(r)'
    BY <1>3, <2>1 DEF Fits, Answered, Starting
  <2>4. \A s \in Requests : request'[s].kind = request[s].kind /\ (Open(s)' => Open(s))
    BY <1>3 DEF Open
  <2> QED BY <1>1, <1>3, <2>1, <2>2, <2>3, <2>4 DEF Fits
<1> QED BY <1>0, <1>1, <1>4, <1>5, FitsAll DEF LaunchInv, LaunchTypeOK, Agreement,
        OutcomesAgree, PromptsAreRead, Knowing, Fits, Answered

LEMMA LaunchStep == LaunchInv /\ [LaunchNext]_launchVars => LaunchInv'
<1> SUFFICES ASSUME LaunchInv, [LaunchNext]_launchVars PROVE LaunchInv'
  OBVIOUS
<1>1. TypeOK'
  BY LaunchIsAgents, AgentTypes DEF LaunchInv
<1>2. CASE AgentsAndUsers
  BY <1>1, <1>2, SurvivingInv DEF AgentsAndUsers
<1>3. CASE HubDies
  BY <1>1, <1>3, HubDiesInv
<1>4. CASE JobEnds \/ UNCHANGED launchVars
  <2>1. request' = request /\ runs' = runs /\ job' \in {"runs", "ended"}
    BY <1>4 DEF JobEnds, launchVars, vars, LaunchInv, LaunchTypeOK
  <2> QED BY <1>1, <2>1 DEF LaunchInv, LaunchTypeOK, Agreement, StepsAgree, OutcomesAgree,
          PromptsAreRead, Knowing, Starting, Open
<1>5. ASSUME NEW r \in Requests, RequestStep(r) PROVE LaunchInv'
  BY <1>1, <1>5, RequestInv
<1> QED BY <1>2, <1>3, <1>4, <1>5 DEF LaunchNext

-----------------------------------------------------------------------------

\* Types, and windows are only ever open in a session that is there (tmux's =name).
THEOREM LaunchTypeCorrect == LaunchSpec => []LaunchTypeOK
<1>1. LaunchInv => LaunchTypeOK
  BY DEF LaunchInv
<1> QED BY LaunchInitInv, LaunchStep, <1>1, PTL DEF LaunchSpec

\* What a start is answered, its window, prompt file and priority agree, whatever sessions
\* come and go, whatever message is lost, wherever a hub dies and also when machines.json
\* does not parse after the launch (claude_start, launch_window).
THEOREM OutcomesHold == LaunchSpec => []OutcomesAgree
<1>1. LaunchInv => OutcomesAgree
  BY DEF LaunchInv
<1> QED BY LaunchInitInv, LaunchStep, <1>1, PTL DEF LaunchSpec

\* The window of a start finds its prompt, and no prompt file outlives its window but
\* those of dead hubs and of windows closed too early (launch_window).
THEOREM PromptsRead == LaunchSpec => []PromptsAreRead
<1>1. LaunchInv => PromptsAreRead
  BY DEF LaunchInv
<1> QED BY LaunchInitInv, LaunchStep, <1>1, PTL DEF LaunchSpec

\* A request for the background session opens a second window only when the first one
\* was opened after it had looked for one (attach_window).
THEOREM SecondWindows == LaunchSpec => SecondWindowsAreRaces
<1>1. LaunchInv /\ [LaunchNext]_launchVars =>
        [\A r \in Requests :
            request[r].kind = "attach" /\ request[r].window = "none"
              /\ request'[r].window = "new" =>
            {s \in Requests : request[s].kind = "attach" /\ Open(s)}
                \subseteq request[r].newer]_launchVars
  <2> SUFFICES ASSUME LaunchInv, LaunchNext, NEW r \in Requests,
                      request[r].kind = "attach", request[r].window = "none",
                      request'[r].window = "new"
               PROVE  {s \in Requests : request[s].kind = "attach" /\ Open(s)}
                          \subseteq request[r].newer
    OBVIOUS
  <2>0. request \in [Requests -> RequestStates] /\ request[r] \in RequestStates
    BY DEF LaunchInv, LaunchTypeOK
  <2>1. request[r].step = "open"
    <3>1. CASE AgentsAndUsers
      BY <2>0, <3>1 DEF AgentsAndUsers, Surviving, RequestStates
    <3>2. CASE HubDies
      BY <2>0, <3>2 DEF HubDies, RequestStates
    <3>3. CASE JobEnds
      BY <3>3 DEF JobEnds
    <3>4. ASSUME NEW s \in Requests, RequestStep(s) PROVE request[r].step = "open"
      <4>1. CASE OpenWindow(s)
        BY <2>0, <4>1 DEF OpenWindow, RequestStates
      <4>2. CASE BeginLaunch(s)
        BY <2>0, <4>2 DEF BeginLaunch, RequestStates
      <4>3. CASE WritePrompt(s)
        BY <2>0, <4>3 DEF WritePrompt, RequestStates
      <4>4. CASE BeginAttach(s)
        BY <2>0, <4>4 DEF BeginAttach, RequestStates
      <4>5. CASE Ensure(s)
        BY <2>0, <4>5 DEF Ensure, Only, RequestStates
      <4>6. CASE Create(s)
        BY <2>0, <4>6 DEF Create, Only, RequestStates
      <4>7. CASE LookForWindow(s)
        BY <2>0, <4>7 DEF LookForWindow, Only, RequestStates
      <4>8. CASE Answer(s)
        <5>1. CASE Only(s, "done")
          BY <2>0, <5>1 DEF Only, RequestStates
        <5>2. ASSUME NEW caller, Told(s, caller, "done") PROVE request[r].step = "open"
          BY <2>0, <5>2 DEF Told, RequestStates
        <5> QED BY <4>8, <5>1, <5>2 DEF Answer
      <4>9. CASE Lose(s)
        BY <2>0, <4>9 DEF Lose, Told, RequestStates
      <4>10. CASE WindowRuns(s)
        BY <2>0, <4>10 DEF WindowRuns, RequestStates
      <4>11. CASE WindowMoves(s)
        BY <2>0, <4>11 DEF WindowMoves, RequestStates
      <4> QED BY <3>4, <4>1, <4>2, <4>3, <4>4, <4>5, <4>6, <4>7, <4>8, <4>9, <4>10, <4>11
              DEF RequestStep
    <3> QED BY <3>1, <3>2, <3>3, <3>4 DEF LaunchNext
  <2> QED BY <2>1 DEF LaunchInv, Knowing
<1> QED BY LaunchInitInv, LaunchStep, <1>1, PTL DEF LaunchSpec, SecondWindowsAreRaces

=============================================================================
