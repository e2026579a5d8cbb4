------------------------- MODULE AgentRegistryProofs -------------------------
(* Proofs about AgentRegistry, for any agents, places and names, on machines *)
(* whose launcher is tmux or none.                                           *)
EXTENDS AgentRegistry, TLAPS

\* The backends whose agents _stop_agent_local knows how to stop.
Stoppable == "byobu-tmux" \notin Launchers

RegInv ==
    /\ TypeOK
    /\ RunningIsRegistered
    /\ call.step \in {"launch", "kill"} => Covers(runs, lost, file)

LEMMA IdleOK == Idle \in Calls /\ NoRows \in Rows
BY DEF Idle, Calls, NoRows, Rows

LEMMA TargetOK ==
    ASSUME TypeOK, NEW place \in Places
    PROVE  /\ Target(place) \subseteq Places
           /\ runs[place] # None => Target(place) = {place}
BY DEF Target, Longer

LEMMA CleanedOK ==
    ASSUME TypeOK, NEW rows \in Rows
    PROVE  Cleaned(rows) \in Rows
BY DEF Cleaned, Rows

\* A cleanup keeps the row of whatever runs.
LEMMA CleanedCovers ==
    ASSUME TypeOK, Covers(runs, lost, file)
    PROVE  Covers(runs, lost, Cleaned(file))
<1> SUFFICES ASSUME NEW a \in Agents \ lost, NEW place \in Places, runs[place] = a
             PROVE  Cleaned(file)[a] = place
  BY DEF Covers
<1>1. file[a] = place /\ place # None /\ a # None
  BY AgentAssumption DEF Covers
<1>2. Target(place) = {place}
  BY <1>1, TargetOK
<1> QED BY <1>1, <1>2 DEF Cleaned

\* Where fewer agents run, the same rows cover them.
LEMMA FewerCovered ==
    ASSUME TypeOK, lost' = StillRunning(lost), NEW rows, Covers(runs, lost, rows),
           \A place \in Places : runs'[place] = runs[place] \/ runs'[place] \notin Agents
    PROVE  Covers(runs', lost', rows)
<1> SUFFICES ASSUME NEW a \in Agents \ lost', NEW place \in Places, runs'[place] = a
             PROVE  rows[a] = place
  BY DEF Covers
<1>1. a \notin lost
  BY DEF StillRunning
<1>2. runs[place] = a
  OBVIOUS
<1> QED BY <1>1, <1>2 DEF Covers

LEMMA AgentInit == Init => RegInv
<1> SUFFICES ASSUME Init PROVE RegInv
  OBVIOUS
<1>1. TypeOK
  BY IdleOK DEF Init, TypeOK, Idle
<1>2. Covers(runs, lost, file)
  BY AgentAssumption DEF Init, Covers
<1> QED BY <1>1, <1>2 DEF RegInv, RunningIsRegistered, RowsInForce, Init

LEMMA AgentTypes == TypeOK /\ [Next]_vars => TypeOK'
<1> SUFFICES ASSUME TypeOK, [Next]_vars PROVE TypeOK'
  OBVIOUS
<1> USE AgentAssumption
<1>1. CASE UNCHANGED vars
  BY <1>1 DEF vars, TypeOK
<1>2. ASSUME NEW place \in Places, Ends(place) PROVE TypeOK'
  BY <1>2 DEF Ends, StillRunning, TypeOK
<1>3. ASSUME NEW place \in Places, Opens(place) PROVE TypeOK'
  BY <1>3 DEF Opens, TypeOK
<1>4. ASSUME NEW a \in Agents, NEW place \in Places, BeginStart(a, place) PROVE TypeOK'
  <2>1. Cleaned(file) \in Rows /\ Cleaned(file)[a] = None
    BY <1>4, CleanedOK DEF BeginStart, MayStart, TypeOK
  <2> QED BY <1>4, <2>1 DEF BeginStart, Holds, Calls, TypeOK
<1>5. CASE Launch
  <2>1. CASE call' = Idle
    BY <1>5, <2>1, IdleOK DEF Launch, Idle, TypeOK
  <2>2. ASSUME NEW place \in StartsAt,
               runs' = [runs EXCEPT ![place] = call.agent],
               call' = [call EXCEPT !.step = "save", !.rows[call.agent] = place]
        PROVE  TypeOK'
    <3>1. place \in Places /\ call.agent \in Agents
      BY <1>5 DEF Launch, StartsAt, TypeOK, Calls
    <3>2. call' \in Calls /\ call'.step = "save"
      BY <2>2, <3>1 DEF TypeOK, Calls, Rows
    <3> QED BY <1>5, <2>2, <3>1, <3>2 DEF Launch, TypeOK
  <2> QED BY <1>5, <2>1, <2>2 DEF Launch
<1>6. ASSUME NEW a \in Agents, BeginStop(a) PROVE TypeOK'
  <2>1. Cleaned(file) \in Rows /\ Cleaned(file)[a] # None
    BY <1>6, CleanedOK DEF BeginStop, MayStop, TypeOK
  <2> QED BY <1>6, <2>1 DEF BeginStop, Holds, Calls, TypeOK
<1>7. CASE Kill
  <2>1. call.agent \in Agents
    BY <1>7 DEF Kill, TypeOK, Calls
  <2>2. call' \in Calls /\ call'.step = "save"
    BY <1>7, <2>1 DEF Kill, TypeOK, Calls, Rows
  <2> QED BY <1>7, <2>2 DEF Kill, Leftovers, StillRunning, TypeOK
<1>8. CASE BeginList
  BY <1>8, CleanedOK DEF BeginList, Holds, Calls, TypeOK
<1>9. CASE Truncate
  BY <1>9, IdleOK DEF Truncate, Calls, TypeOK
<1>10. CASE Write \/ Crash
  BY <1>10, IdleOK DEF Write, Crash, Calls, Idle, TypeOK
<1> QED BY <1>1, <1>2, <1>3, <1>4, <1>5, <1>6, <1>7, <1>8, <1>9, <1>10
        DEF Next, World, Hub

LEMMA AgentStep ==
    ASSUME Stoppable, RegInv, [Next]_vars
    PROVE  RegInv'
<1> USE AgentAssumption
<1>0. /\ TypeOK /\ TypeOK' /\ Covers(runs, lost, RowsInForce)
      /\ call.step \in {"launch", "kill"} => Covers(runs, lost, file)
      /\ call # Idle => call.step # "none"
  BY AgentTypes DEF RegInv, RunningIsRegistered, TypeOK
<1>1. CASE UNCHANGED vars
  BY <1>1 DEF vars, RegInv, RunningIsRegistered, RowsInForce, TypeOK
<1>2. ASSUME NEW place \in Places, Ends(place) PROVE RegInv'
  <2>1. \A p \in Places : runs'[p] = runs[p] \/ runs'[p] \notin Agents
    BY <1>0, <1>2 DEF Ends, TypeOK
  <2>2. lost' = StillRunning(lost) /\ file' = file /\ call' = call
    BY <1>2 DEF Ends
  <2>3. Covers(runs', lost', RowsInForce)
    BY <1>0, <2>1, <2>2, FewerCovered
  <2>4. call.step \in {"launch", "kill"} => Covers(runs', lost', file)
    BY <1>0, <2>1, <2>2, FewerCovered
  <2> QED BY <1>0, <2>2, <2>3, <2>4 DEF RegInv, RunningIsRegistered, RowsInForce
<1>3. ASSUME NEW place \in Places, Opens(place) PROVE RegInv'
  <2>1. \A p \in Places : runs'[p] = runs[p] \/ runs'[p] \notin Agents
    BY <1>0, <1>3 DEF Opens, TypeOK
  <2> QED BY <1>0, <1>3, <2>1
          DEF Opens, RegInv, RunningIsRegistered, RowsInForce, Covers
<1>4. ASSUME call = Idle, UNCHANGED <<runs, file, lost>>, call'.rows = Cleaned(file)
      PROVE  RegInv'
  <2>1. Covers(runs, lost, file) /\ Covers(runs, lost, Cleaned(file))
    BY <1>0, <1>4, CleanedCovers DEF RowsInForce
  <2> QED BY <1>0, <1>4, <2>1 DEF RegInv, RunningIsRegistered, RowsInForce
<1>5. ASSUME NEW a \in Agents, NEW place \in Places, BeginStart(a, place) PROVE RegInv'
  BY <1>4, <1>5 DEF BeginStart, Holds
<1>6. ASSUME NEW a \in Agents, BeginStop(a) PROVE RegInv'
  BY <1>4, <1>6 DEF BeginStop, Holds
<1>7. CASE BeginList
  BY <1>4, <1>7 DEF BeginList, Holds
<1>8. CASE Launch
  <2>0. /\ call # Idle /\ call.agent \in Agents /\ call.rows[call.agent] = None
        /\ call.rows \in Rows /\ RowsInForce = call.rows
    <3>0. call.step = "launch"
      BY <1>8 DEF Launch
    <3>1. call # Idle
      BY <3>0 DEF Idle
    <3>2. call \in Calls /\ call.agent # None /\ call.rows[call.agent] = None
      BY <1>0, <3>0 DEF TypeOK
    <3>3. call.agent \in Agents /\ call.rows \in Rows
      BY <3>2 DEF Calls
    <3> QED BY <3>1, <3>2, <3>3 DEF RowsInForce
  <2>1. CASE call' = Idle /\ runs' = runs
    BY <1>0, <1>8, <2>1 DEF Launch, Idle, RegInv, RunningIsRegistered, RowsInForce
  <2>2. ASSUME NEW place \in StartsAt,
               runs' = [runs EXCEPT ![place] = call.agent],
               call' = [call EXCEPT !.step = "save", !.rows[call.agent] = place]
        PROVE  RegInv'
    <3>1. place \in Places /\ place # None
      BY DEF StartsAt
    <3>2. /\ call'.step = "save" /\ call' # Idle /\ lost' = lost
          /\ call'.rows = [call.rows EXCEPT ![call.agent] = place]
      BY <1>0, <1>8, <2>2 DEF Launch, Idle, TypeOK, Calls
    <3>3. Covers(runs', lost', call'.rows)
      <4> SUFFICES ASSUME NEW a \in Agents \ lost, NEW p \in Places, runs'[p] = a
                   PROVE  call'.rows[a] = p
        BY <3>2 DEF Covers
      <4>1. CASE p = place
        BY <1>0, <2>0, <2>2, <3>1, <3>2, <4>1 DEF TypeOK, Rows
      <4>2. CASE p # place
        <5>1. runs[p] = a /\ call.rows[a] = p
          BY <1>0, <2>0, <2>2, <4>2 DEF TypeOK, Covers
        <5>2. a # call.agent
          BY <2>0, <5>1
        <5> QED BY <2>0, <3>2, <5>1, <5>2 DEF Rows
      <4> QED BY <4>1, <4>2
    <3> QED BY <1>0, <3>2, <3>3 DEF RegInv, RunningIsRegistered, RowsInForce
  <2> QED BY <1>8, <2>1, <2>2 DEF Launch
<1>9. CASE Kill
  <2>0. /\ call # Idle /\ call.agent \in Agents /\ call.rows[call.agent] \in Places
        /\ call.rows \in Rows /\ RowsInForce = call.rows
    BY <1>0, <1>9 DEF Kill, Idle, RowsInForce, TypeOK, Calls, Rows
  <2>1. \A p \in Places : runs'[p] = runs[p] \/ runs'[p] \notin Agents
    BY <1>0, <1>9 DEF Kill, Leftovers, TypeOK
  <2>2. Covers(runs', lost', call.rows)
    BY <1>0, <1>9, <2>0, <2>1, FewerCovered DEF Kill
  <2>3. \A p \in Places : call.agent \notin lost => runs'[p] # call.agent
    <3> SUFFICES ASSUME NEW p \in Places, call.agent \notin lost, runs'[p] = call.agent
                 PROVE  FALSE
      OBVIOUS
    <3>1. runs[p] = call.agent
      BY <2>0, <2>1
    <3>2. call.rows[call.agent] = p
      BY <1>0, <2>0, <3>1 DEF Covers
    <3>3. Victims = {p}
      BY <1>0, <2>0, <3>1, <3>2, TargetOK DEF Victims, Stoppable, TypeOK
    <3> QED BY <1>9, <2>0, <3>3 DEF Kill, Leftovers
  <2>4. /\ call' # Idle /\ call'.step = "save"
        /\ call'.rows = [call.rows EXCEPT ![call.agent] = None]
    BY <1>0, <1>9 DEF Kill, Idle, TypeOK, Calls
  <2>5. Covers(runs', lost', call'.rows)
    <3> SUFFICES ASSUME NEW a \in Agents \ lost', NEW p \in Places, runs'[p] = a
                 PROVE  call'.rows[a] = p
      BY DEF Covers
    <3>1. call.rows[a] = p /\ a \notin lost
      BY <1>9, <2>2 DEF Covers, Kill, StillRunning
    <3>2. a # call.agent
      BY <2>3, <3>1
    <3> QED BY <2>0, <2>4, <3>1, <3>2 DEF Rows
  <2> QED BY <1>0, <2>4, <2>5 DEF RegInv, RunningIsRegistered, RowsInForce
<1>10. CASE Truncate
  BY <1>0, <1>10 DEF Truncate, Idle, TypeOK, Calls, RegInv, RunningIsRegistered, RowsInForce
<1>11. CASE Write
  BY <1>0, <1>11 DEF Write, Idle, TypeOK, Calls, RegInv, RunningIsRegistered, RowsInForce
<1>12. CASE Crash
  BY <1>0, <1>12 DEF Crash, Idle, RegInv, RunningIsRegistered, RowsInForce, Covers
<1> QED BY <1>1, <1>2, <1>3, <1>5, <1>6, <1>7, <1>8, <1>9, <1>10, <1>11, <1>12
        DEF Next, World, Hub

\* Types, on any machine; and a call that is about to launch an agent has no row of
\* its name, one that is about to kill has one (_start_agent_local, _stop_agent_local).
THEOREM AgentTypeCorrect == Spec => []TypeOK
<1>1. Init => TypeOK
  BY AgentInit DEF RegInv
<1> QED BY <1>1, AgentTypes, PTL DEF Spec

\* Where the hub starts agents with tmux or as processes, every agent that runs and
\* was not lost in a crash of the hub has a row that names its place, whatever ends
\* or is opened meanwhile under whatever names (_start_agent_local and its callers).
THEOREM AgentsRegistered == Stoppable => (Spec => []RunningIsRegistered)
<1> SUFFICES ASSUME Stoppable PROVE Spec => []RunningIsRegistered
  OBVIOUS
<1>1. RegInv /\ [Next]_vars => RegInv'
  BY AgentStep
<1>2. RegInv => RunningIsRegistered
  BY DEF RegInv
<1> QED BY AgentInit, <1>1, <1>2, PTL DEF Spec

\* The same machines: a stop ends the agent it is for, and if that one still ran,
\* nothing else (_stop_agent_local, _kill_tmux_session).
THEOREM StopsAlone == Stoppable => (Spec => StopEndsItAlone)
<1> SUFFICES ASSUME Stoppable PROVE Spec => StopEndsItAlone
  OBVIOUS
<1>1. RegInv /\ [Next]_vars => RegInv'
  BY AgentStep
<1>2. RegInv /\ [Next]_vars =>
        [Kills /\ call.agent \notin lost =>
           /\ \A place \in Places : runs'[place] # call.agent
           /\ (\E place \in Places : runs[place] = call.agent) =>
                 \A place \in Places :
                    runs[place] # call.agent => runs'[place] = runs[place]]_vars
  <2> USE AgentAssumption
  <2> SUFFICES ASSUME RegInv, Next, Kills, call.agent \notin lost
               PROVE  /\ \A place \in Places : runs'[place] # call.agent
                      /\ (\E place \in Places : runs[place] = call.agent) =>
                            \A place \in Places :
                               runs[place] # call.agent => runs'[place] = runs[place]
    OBVIOUS
  <2>0. /\ TypeOK /\ call.agent \in Agents /\ call # Idle /\ RowsInForce = call.rows
        /\ call.rows[call.agent] \in Places
        /\ Covers(runs, lost, call.rows)
    BY DEF RegInv, RunningIsRegistered, RowsInForce, TypeOK, Calls, Rows, Kills, Idle
  <2>1. Kill
    BY <2>0 DEF Next, World, Hub, Kills, Ends, Opens, BeginStart, Launch, BeginStop,
                BeginList, Truncate, Write, Crash, Idle
  <2>2. ASSUME NEW p \in Places, runs[p] = call.agent PROVE Victims = {p}
    <3>1. call.rows[call.agent] = p
      BY <2>0, <2>2 DEF Covers
    <3> QED BY <2>0, <2>2, <3>1, TargetOK DEF Victims, Stoppable, TypeOK
  <2>3. PICK left \in Leftovers :
          runs' = [place \in Places |-> IF place \in Victims THEN left ELSE runs[place]]
    BY <2>1 DEF Kill
  <2>4. left \notin Agents
    BY <2>3 DEF Leftovers
  <2>5. \A place \in Places : runs'[place] # call.agent
    BY <2>0, <2>2, <2>3, <2>4
  <2>6. ASSUME NEW p \in Places, runs[p] = call.agent,
               NEW place \in Places, runs[place] # call.agent
        PROVE  runs'[place] = runs[place]
    BY <2>2, <2>3, <2>6
  <2> QED BY <2>5, <2>6
<1> QED BY AgentInit, <1>1, <1>2, PTL DEF Spec, StopEndsItAlone

=============================================================================
