--------------------------- MODULE FleetUpdateProofs ---------------------------
(***************************************************************************)
(* Safety of FleetUpdate, with MachineInventory and Gateway in it, for any *)
(* number of machines, profiles, connections and overlapping updates.      *)
(***************************************************************************)
EXTENDS FleetUpdate, MachineInventoryProofs

Restarts == {"looked", "stopped", "start", "start next"}

Askers == {"request", "alias", "sweep"}

\* What the gateway has seen of a connection's machine: while it looks, what the record
\* says of the files is so; whoever is past the files has been seen in one.
ConnOK(c) ==
    /\ Underway(c) =>
          /\ conn[c].inMachines => conn[c].host \in HostsOf(machines)
          /\ conn[c].inSessions => conn[c].host \in sessionHosts
          /\ conn[c].host \in HostsOf(machines) \/ conn[c].host \in sessionHosts => conn[c].seen
    /\ conn[c].found => conn[c].seen /\ conn[c].host \in Tailnet
    /\ conn[c].step = "sessions" /\ conn[c].inMachines /\ conn[c].host \in Tailnet =>
          conn[c].found \/ conn[c].missed
    /\ conn[c].step \in {"connect", "accept", "open", "closing", "closed", "failed"} =>
          conn[c].seen /\ conn[c].host \in Tailnet
    /\ conn[c].step = "denied" /\ conn[c].host \in Tailnet =>
          conn[c].missed \/ ~(conn[c].inMachines \/ conn[c].inSessions)

ConnsOK == \A c \in Connections : ConnOK(c)

\* A script of the sweep comes after it.  A lone script has the machine to itself: the
\* hub stays down from its stop to its start, so the port it finds is 7000.
ScriptOK(u) ==
    /\ script[u].by = "sweep" => sweep.step = "done"
    /\ script[u].step # "none" => script[u].host \in HubMachines /\ script[u].by \in Askers
    /\ script[u].step \in Restarts => script[u].mode \in {"all", "remote"}
    /\ script[u].step \in Restarts /\ ~script[u].mute => script[u].mode = ModeFor(script[u].was)
    /\ script[u].step \in Restarts /\ script[u].alone =>
          \A v \in Scripts \ {u} : script[v].host = script[u].host => script[v].step \notin Restarts
    /\ script[u].step \in {"stopped", "start"} /\ script[u].alone =>
          hub[script[u].host] = Stopped
    /\ script[u].step = "start next" => ~script[u].alone

ScriptsOK == \A u \in Scripts : ScriptOK(u)

FleetInv == TypeOK /\ KillsUnshared /\ Pending /\ ConnsOK /\ ScriptsOK /\ DownOnlyInRestarts

-----------------------------------------------------------------------------
(* The inventory in the steps of all others.                               *)

\* Steps that do not change the list of profiles, and may drop the requests of a hub.
Aside ==
    /\ machines' = machines /\ torn' = torn /\ live' \subseteq Sessions
    /\ requests' \in 0..MaxRequests
    /\ call' \in {call, [th \in Threads |-> Idle]}

LEMMA AsideOK ==
    ASSUME InventoryTypeOK, KillsUnshared, Aside
    PROVE  InventoryTypeOK' /\ KillsUnshared'
<1>1. CASE call' = call
  <2>1. InventoryTypeOK'
    BY <1>1 DEF InventoryTypeOK, Aside, InLock, Distinct
  <2>2. KillsUnshared'
    BY <1>1 DEF KillsUnshared, Aside, Local
  <2> QED BY <2>1, <2>2
<1>2. CASE call' = [th \in Threads |-> Idle]
  <2>1. Idle \in Calls /\ Idle.rows = <<>> /\ Idle.step = "none"
    BY EmptySeq DEF Idle, Calls
  <2>2. call' \in [Threads -> Calls] /\ \A th \in Threads : call'[th] = Idle
    BY <1>2, <2>1
  <2>3. \A th \in Threads : Distinct(call'[th].rows) /\ call'[th].step = "none"
    BY <2>1, <2>2 DEF Distinct
  <2>4. KillsUnshared'
    BY <2>3 DEF KillsUnshared
  <2>5. machines' \in Seq(Profiles) /\ Distinct(machines') /\ torn' \in BOOLEAN
    BY DEF Aside, InventoryTypeOK
  <2>6. live' \subseteq Sessions /\ requests' \in 0..MaxRequests
    BY DEF Aside
  <2> QED BY <2>2, <2>3, <2>4, <2>5, <2>6 DEF InventoryTypeOK, InLock
<1> QED BY <1>1, <1>2 DEF Aside

LEMMA RequestOK ==
    ASSUME InventoryTypeOK, Request
    PROVE  requests' \in 0..MaxRequests
BY InventoryAssumption DEF InventoryTypeOK, Request

\* Every step is a call of the inventory or leaves the profiles alone.
LEMMA StepsOfInventory ==
    ASSUME InventoryTypeOK, [Next]_vars
    PROVE  (\E th \in Threads : InventoryCall(th)) \/ Aside
<1>1. ASSUME UNCHANGED inventoryVars PROVE Aside
  BY <1>1 DEF Aside, inventoryVars, InventoryTypeOK
<1>2. CASE FileRequests
  BY <1>1, <1>2 DEF FileRequests
<1>3. CASE Clients
  <2>1. CASE SessionChanges
    BY <2>1, RequestOK DEF SessionChanges, Aside, InventoryTypeOK
  <2>2. CASE EmptySessions
    BY <2>2, RequestOK DEF EmptySessions, Aside, InventoryTypeOK
  <2>3. ASSUME NEW c \in Connections, NEW h \in Hosts, Connect(c, h) PROVE Aside
    BY <2>3, RequestOK DEF Connect, Aside, InventoryTypeOK
  <2>4. ASSUME NEW c \in Connections, Proxy(c) \/ Leaves(c) PROVE UNCHANGED inventoryVars
    BY <2>4 DEF Proxy, Leaves, Authorized, ReadMachines, ReadSessions, Reach, Accept, CloseUpstream,
                CloseClient, To, Moves, inventoryVars
  <2> QED BY <1>1, <1>3, <2>1, <2>2, <2>3, <2>4 DEF Clients
<1>4. CASE BeginSweep
  BY <1>4, RequestOK DEF BeginSweep, Aside, InventoryTypeOK
<1>5. ASSUME NEW u \in Scripts, NEW h \in HubMachines, UpdateRemote(u, h) PROVE Aside
  BY <1>5, RequestOK DEF UpdateRemote, Aside, InventoryTypeOK
<1>6. ASSUME NEW u \in Scripts, Sweeping(u) PROVE UNCHANGED inventoryVars
  BY <1>6 DEF Sweeping, MergeSessions, Refuse, AskRemote, AskLocal, Respond, UpdateSelf,
              inventoryVars
<1>7. ASSUME NEW u \in Scripts, ScriptStep(u) PROVE Aside
  <2>1. CASE Stop(u)
    BY <2>1 DEF Stop, Aside, InventoryTypeOK
  <2>2. CASE Pull(u) \/ Look(u) \/ ChoosePort(u) \/ Start(u)
    <3>1. UNCHANGED inventoryVars
      BY <2>2, Zenon DEF Pull, Look, ChoosePort, Start
    <3> QED BY <1>1, <3>1
  <2> QED BY <1>7, <2>1, <2>2 DEF ScriptStep
<1> QED BY <1>1, <1>2, <1>3, <1>4, <1>5, <1>6, <1>7 DEF Next, vars, inventoryVars

LEMMA InventoryKept ==
    ASSUME InventoryTypeOK, KillsUnshared, Pending, [Next]_vars
    PROVE  InventoryTypeOK' /\ KillsUnshared' /\ Pending'
<1>1. CASE Aside
  <2>1. Pending'
    BY <1>1 DEF Aside, Pending, InLock, Idle
  <2> QED BY <1>1, <2>1, AsideOK
<1> QED BY <1>1, StepsOfInventory, InventoryCallOK, KillsStayUnshared, CallsArePending

-----------------------------------------------------------------------------
(* The gateway.                                                            *)

NoMoves == conn' = conn /\ machines' = machines /\ sessionHosts' = sessionHosts

\* Every step lets the gateway watch the files, or leaves the files alone, and the
\* connections but for one.
LEMMA StepsOfGateway ==
    ASSUME TypeOK, [Next]_vars
    PROVE  /\ \/ Watched
              \/ NoMoves
              \/ \E c \in Connections : Proxy(c) \/ Leaves(c) \/ \E h \in Hosts : Connect(c, h)
           /\ sessionHosts' \subseteq Hosts /\ sessionsTorn' \in BOOLEAN
           /\ saving' \in (SUBSET Hosts) \cup {None}
<1>0. /\ sessionHosts \subseteq Hosts /\ sessionsTorn \in BOOLEAN
      /\ saving \in (SUBSET Hosts) \cup {None}
  BY DEF TypeOK, GatewayTypeOK
<1>1. CASE UNCHANGED <<inventoryVars, gatewayVars>>
  BY <1>0, <1>1 DEF inventoryVars, gatewayVars, NoMoves
<1>2. CASE FileRequests
  BY <1>0, <1>2 DEF FileRequests, FillSessions
<1>3. CASE Clients
  <2>1. CASE SessionChanges /\ UNCHANGED gatewayVars
    BY <1>0, <2>1 DEF SessionChanges, gatewayVars, NoMoves
  <2>2. CASE EmptySessions
    BY <1>0, <2>2 DEF EmptySessions, NoMoves
  <2>3. ASSUME NEW c \in Connections, NEW h \in Hosts, Connect(c, h)
        PROVE  UNCHANGED <<sessionHosts, sessionsTorn, saving>>
    BY <2>3 DEF Connect
  <2>4. ASSUME NEW c \in Connections, Proxy(c) \/ Leaves(c)
        PROVE  UNCHANGED <<sessionHosts, sessionsTorn, saving>>
    BY <2>4 DEF Proxy, Leaves, Authorized, ReadMachines, ReadSessions, Reach, Accept, CloseUpstream,
                CloseClient, To, Moves
  <2> QED BY <1>0, <1>3, <2>1, <2>2, <2>3, <2>4 DEF Clients
<1>4. CASE BeginSweep
  BY <1>0, <1>4 DEF BeginSweep, gatewayVars, NoMoves
<1>5. ASSUME NEW u \in Scripts, NEW h \in HubMachines, UpdateRemote(u, h)
      PROVE  NoMoves /\ UNCHANGED <<sessionHosts, sessionsTorn, saving>>
  BY <1>5 DEF UpdateRemote, gatewayVars, NoMoves
<1>6. ASSUME NEW u \in Scripts, Sweeping(u) PROVE UNCHANGED <<inventoryVars, gatewayVars>>
  BY <1>6 DEF Sweeping, MergeSessions, Refuse, AskRemote, AskLocal, Respond, UpdateSelf
<1>7. ASSUME NEW u \in Scripts, Stop(u)
      PROVE  NoMoves /\ UNCHANGED <<sessionHosts, sessionsTorn>> /\ saving' \in {saving, None}
  BY <1>7 DEF Stop, NoMoves
<1>8. ASSUME NEW u \in Scripts, Pull(u) \/ Look(u) \/ ChoosePort(u) \/ Start(u)
      PROVE  UNCHANGED <<inventoryVars, gatewayVars>>
  BY <1>8 DEF Pull, Look, ChoosePort, Start
<1> QED BY <1>0, <1>1, <1>2, <1>3, <1>4, <1>5, <1>6, <1>7, <1>8
        DEF Next, vars, ScriptStep

\* The files change under connections: the records of those that are looking follow.
LEMMA WatchedOK ==
    ASSUME TypeOK, ConnsOK, Watched
    PROVE  conn' \in [Connections -> Conns] /\ ConnsOK'
<1> DEFINE inM(c) == conn[c].host \in HostsOf(machines')
           inS(c) == conn[c].host \in sessionHosts'
           new(c) == [conn[c] EXCEPT !.inMachines = conn[c].inMachines /\ inM(c),
                                     !.inSessions = conn[c].inSessions /\ inS(c),
                                     !.seen = conn[c].seen \/ inM(c) \/ inS(c)]
<1>1. conn \in [Connections -> Conns]
  BY DEF TypeOK, GatewayTypeOK
<1>2. conn' = [c \in Connections |-> IF ~Underway(c) THEN conn[c] ELSE new(c)]
  BY DEF Watched
<1>3. ASSUME NEW c \in Connections
      PROVE  /\ new(c) \in Conns
             /\ new(c).step = conn[c].step /\ new(c).host = conn[c].host
             /\ new(c).found = conn[c].found /\ new(c).missed = conn[c].missed
             /\ new(c).inMachines = (conn[c].inMachines /\ inM(c))
             /\ new(c).inSessions = (conn[c].inSessions /\ inS(c))
             /\ new(c).seen = (conn[c].seen \/ inM(c) \/ inS(c))
  <2>1. conn[c] \in Conns
    BY <1>1
  <2> QED BY <2>1 DEF Conns
<1> HIDE DEF new
<1>4. ASSUME NEW c \in Connections PROVE ConnOK(c)'
  <2>1. ConnOK(c)
    BY DEF ConnsOK
  <2>2. CASE ~Underway(c)
    <3>1. conn'[c] = conn[c]
      BY <1>2, <2>2
    <3> QED BY <2>1, <2>2, <3>1 DEF ConnOK, Underway
  <2>3. CASE Underway(c)
    <3>1. conn'[c] = new(c)
      BY <1>2, <2>3
    <3>2. /\ conn'[c].step = conn[c].step /\ conn'[c].host = conn[c].host
          /\ conn'[c].found = conn[c].found /\ conn'[c].missed = conn[c].missed
          /\ conn'[c].inMachines => conn[c].inMachines /\ conn'[c].host \in HostsOf(machines')
          /\ conn'[c].inSessions => conn'[c].host \in sessionHosts'
          /\ conn[c].seen => conn'[c].seen
          /\ conn'[c].host \in HostsOf(machines') \/ conn'[c].host \in sessionHosts'
                => conn'[c].seen
      BY <1>3, <3>1
    <3> QED BY <2>1, <2>3, <3>2 DEF ConnOK, Underway
  <2> QED BY <2>2, <2>3
<1>5. conn' \in [Connections -> Conns]
  BY <1>1, <1>2, <1>3
<1> QED BY <1>4, <1>5 DEF ConnsOK

\* A connection moves while nothing else that it depends on does.
LEMMA MovesIs ==
    ASSUME conn \in [Connections -> Conns], NEW c \in Connections, NEW state, Moves(c, state)
    PROVE  /\ conn'[c] = state /\ \A d \in Connections \ {c} : conn'[d] = conn[d]
           /\ machines' = machines /\ sessionHosts' = sessionHosts
           /\ state \in Conns => conn' \in [Connections -> Conns]
BY DEF Moves, inventoryVars

LEMMA ProxyOK ==
    ASSUME TypeOK, ConnsOK, NEW c \in Connections,
           Proxy(c) \/ Leaves(c) \/ \E h \in Hosts : Connect(c, h)
    PROVE  conn' \in [Connections -> Conns] /\ ConnsOK'
<1>1. conn \in [Connections -> Conns] /\ conn[c] \in Conns /\ ConnOK(c)
  BY DEF TypeOK, GatewayTypeOK, ConnsOK
<1>2. HostsOf(machines) \subseteq Hosts
  <2>1. \A i \in DOMAIN machines : machines[i] \in Profiles
    BY TypesUse, RowsOK DEF TypeOK
  <2> QED BY <2>1 DEF HostsOf, Profiles
\* It is enough to look at this connection.
<1>3. ASSUME conn' \in [Connections -> Conns], \A d \in Connections \ {c} : conn'[d] = conn[d],
             machines' = machines, sessionHosts' = sessionHosts, ConnOK(c)'
      PROVE  conn' \in [Connections -> Conns] /\ ConnsOK'
  BY <1>3 DEF ConnsOK, ConnOK, Underway
<1>4. CASE Authorized(c)
  <2>1. conn[c].step = "auth"
    BY <1>4 DEF Authorized
  <2>2. CASE To(c, "machines")
    <3> DEFINE state == [conn[c] EXCEPT !.step = "machines"]
    <3>1. state \in Conns /\ state.step = "machines" /\ state.host = conn[c].host
          /\ state.found = conn[c].found /\ state.inMachines = conn[c].inMachines
          /\ state.inSessions = conn[c].inSessions /\ state.seen = conn[c].seen
      BY <1>1 DEF Conns
    <3>2. Moves(c, state)
      BY <2>2 DEF To
    <3> HIDE DEF state
    <3>3. ConnOK(c)'
      BY <1>1, <2>1, <3>1, <3>2, MovesIs DEF ConnOK, Underway
    <3> QED BY <1>1, <1>3, <3>1, <3>2, <3>3, MovesIs
  <2>3. CASE Moves(c, [conn[c] EXCEPT !.step = "refused", !.client = FALSE])
    <3> DEFINE state == [conn[c] EXCEPT !.step = "refused", !.client = FALSE]
    <3>1. state \in Conns /\ state.step = "refused" /\ state.host = conn[c].host
          /\ state.found = conn[c].found /\ state.seen = conn[c].seen
      BY <1>1 DEF Conns
    <3> HIDE DEF state
    <3>2. Moves(c, state)
      BY <2>3 DEF state
    <3>3. ConnOK(c)'
      BY <1>1, <3>1, <3>2, MovesIs DEF ConnOK, Underway
    <3> QED BY <1>1, <1>3, <3>1, <3>2, <3>3, MovesIs
  <2> QED BY <1>4, <2>2, <2>3 DEF Authorized
<1>5. CASE ReadMachines(c)
  <2> DEFINE found == conn[c].found \/ conn[c].host \in Readable(HostsOf(machines), torn)
             state == [conn[c] EXCEPT !.step = "sessions", !.missed = torn, !.found = found]
  <2>1. conn[c].step = "machines" /\ Moves(c, state) /\ torn \in BOOLEAN
    BY <1>5 DEF ReadMachines, TypeOK, InventoryTypeOK
  <2>2. state \in Conns /\ state.step = "sessions" /\ state.host = conn[c].host
        /\ state.found = found /\ state.inMachines = conn[c].inMachines /\ state.missed = torn
        /\ state.inSessions = conn[c].inSessions /\ state.seen = conn[c].seen
    <3>1. found \in BOOLEAN
      BY <1>1 DEF Conns
    <3> HIDE DEF found
    <3> QED BY <1>1, <2>1, <3>1 DEF Conns
  <2>3. /\ found => conn[c].seen /\ conn[c].host \in Tailnet
        /\ conn[c].inMachines /\ conn[c].host \in Tailnet => found \/ torn
    BY <1>1, <2>1 DEF ConnOK, Underway, Readable
  <2> HIDE DEF found, state
  <2>4. ConnOK(c)'
    BY <1>1, <2>1, <2>2, <2>3, MovesIs DEF ConnOK, Underway
  <2> QED BY <1>1, <1>3, <2>1, <2>2, <2>4, MovesIs
<1>6. CASE ReadSessions(c)
  <2>1. conn[c].step = "sessions"
    BY <1>6 DEF ReadSessions
  <2>2. CASE Admitted(c)
    <3> DEFINE state == [conn[c] EXCEPT !.step = "connect"]
    <3>1. Moves(c, state)
      BY <1>6, <2>2 DEF ReadSessions, To
    <3>2. state \in Conns /\ state.step = "connect" /\ state.host = conn[c].host
          /\ state.found = conn[c].found /\ state.seen = conn[c].seen
      BY <1>1 DEF Conns
    <3>3. conn[c].seen /\ conn[c].host \in Tailnet
      BY <1>1, <2>1, <2>2 DEF Admitted, Readable, ConnOK, Underway
    <3> HIDE DEF state
    <3>4. ConnOK(c)'
      BY <1>1, <3>1, <3>2, <3>3, MovesIs DEF ConnOK, Underway
    <3> QED BY <1>1, <1>3, <3>1, <3>2, <3>4, MovesIs
  <2>3. CASE ~Admitted(c)
    <3> DEFINE missed == conn[c].missed \/ sessionsTorn
               state == [conn[c] EXCEPT !.step = "denied", !.client = FALSE, !.missed = missed]
    <3>1. Moves(c, state)
      BY <1>6, <2>3 DEF ReadSessions
    <3>2. state \in Conns /\ state.step = "denied" /\ state.host = conn[c].host
          /\ state.found = conn[c].found /\ state.missed = missed
          /\ state.inMachines = conn[c].inMachines
          /\ state.inSessions = conn[c].inSessions /\ state.seen = conn[c].seen
      <4>1. missed \in BOOLEAN
        BY <1>1 DEF Conns
      <4> HIDE DEF missed
      <4> QED BY <1>1, <4>1 DEF Conns
    <3>3. conn[c].host \in Tailnet /\ ~missed => ~(conn[c].inMachines \/ conn[c].inSessions)
      BY <1>1, <2>1, <2>3 DEF Admitted, Readable, ConnOK, Underway
    <3> HIDE DEF missed, state
    <3>4. ConnOK(c)'
      BY <1>1, <3>1, <3>2, <3>3, MovesIs DEF ConnOK, Underway
    <3> QED BY <1>1, <1>3, <3>1, <3>2, <3>4, MovesIs
  <2> QED BY <2>2, <2>3
\* Past the files only the step and the two sides change.
<1>7. CASE Reach(c) \/ Accept(c) \/ Leaves(c) \/ CloseUpstream(c) \/ CloseClient(c)
  <2>1. PICK step \in {"accept", "open", "failed", "closing", "closed"}, client \in BOOLEAN,
             upstream \in BOOLEAN :
          /\ conn[c].step \in {"connect", "accept", "open", "closing"}
          /\ Moves(c, [conn[c] EXCEPT !.step = step, !.client = client, !.upstream = upstream])
    <3>1. ASSUME NEW a \in {"accept", "open", "failed", "closing", "closed"}, NEW b \in BOOLEAN,
                 NEW d \in BOOLEAN
          PROVE  /\ conn[c].client = b /\ conn[c].upstream = d =>
                       [conn[c] EXCEPT !.step = a] =
                          [conn[c] EXCEPT !.step = a, !.client = b, !.upstream = d]
                 /\ conn[c].client = b =>
                       [conn[c] EXCEPT !.step = a, !.upstream = d] =
                          [conn[c] EXCEPT !.step = a, !.client = b, !.upstream = d]
                 /\ conn[c].upstream = d =>
                       [conn[c] EXCEPT !.step = a, !.client = b] =
                          [conn[c] EXCEPT !.step = a, !.client = b, !.upstream = d]
                 /\ conn[c].step = a /\ conn[c].upstream = d =>
                       [conn[c] EXCEPT !.client = b] =
                          [conn[c] EXCEPT !.step = a, !.client = b, !.upstream = d]
                 /\ conn[c].step = a /\ conn[c].client = b =>
                       [conn[c] EXCEPT !.upstream = d] =
                          [conn[c] EXCEPT !.step = a, !.client = b, !.upstream = d]
      BY <1>1 DEF Conns
    <3>2. conn[c].client \in BOOLEAN /\ conn[c].upstream \in BOOLEAN
      BY <1>1 DEF Conns
    <3>3. CASE Reach(c)
      BY <3>1, <3>2, <3>3 DEF Reach
    <3>4. CASE Leaves(c)
      BY <3>1, <3>2, <3>4 DEF Leaves
    <3>5. CASE CloseUpstream(c)
      BY <3>1, <3>2, <3>5 DEF CloseUpstream
    <3>6. CASE CloseClient(c)
      BY <3>1, <3>2, <3>6 DEF CloseClient
    <3>7. CASE Accept(c)
      BY <3>1, <3>2, <3>7 DEF Accept, To
    <3> QED BY <1>7, <3>3, <3>4, <3>5, <3>6, <3>7
  <2> DEFINE state == [conn[c] EXCEPT !.step = step, !.client = client, !.upstream = upstream]
  <2>2. state \in Conns /\ state.step = step /\ state.host = conn[c].host
        /\ state.found = conn[c].found /\ state.seen = conn[c].seen
    BY <1>1 DEF Conns
  <2>3. conn[c].seen /\ conn[c].host \in Tailnet
    BY <1>1, <2>1 DEF ConnOK
  <2>4. Moves(c, state)
    BY <2>1
  <2> HIDE DEF state
  <2>5. ConnOK(c)'
    BY <1>1, <2>2, <2>3, <2>4, MovesIs DEF ConnOK, Underway
  <2> QED BY <1>1, <1>3, <2>2, <2>4, <2>5, MovesIs
<1>8. ASSUME NEW h \in Hosts, Connect(c, h)
      PROVE  conn' \in [Connections -> Conns] /\ ConnsOK'
  <2> DEFINE inM == h \in HostsOf(machines)
             inS == h \in sessionHosts
             state == [NoConn EXCEPT !.step = "auth", !.host = h, !.client = TRUE,
                                     !.inMachines = inM, !.inSessions = inS, !.seen = inM \/ inS]
  <2>1. conn' = [conn EXCEPT ![c] = state] /\ machines' = machines /\ sessionHosts' = sessionHosts
    BY <1>8 DEF Connect
  <2>2. state \in Conns /\ state.step = "auth" /\ state.host = h /\ ~state.found
        /\ state.inMachines = inM /\ state.inSessions = inS /\ state.seen = (inM \/ inS)
    <3>1. inM \in BOOLEAN /\ inS \in BOOLEAN
      OBVIOUS
    <3> HIDE DEF inM, inS
    <3>2. NoConn \in Conns /\ ~NoConn.found
      BY DEF Conns, NoConn
    <3> QED BY <3>1, <3>2 DEF Conns
  <2> HIDE DEF state
  <2>3. conn'[c] = state /\ \A d \in Connections \ {c} : conn'[d] = conn[d]
    BY <1>1, <2>1
  <2>4. conn' \in [Connections -> Conns]
    BY <1>1, <2>1, <2>2
  <2>5. ConnOK(c)'
    BY <2>1, <2>2, <2>3 DEF ConnOK, Underway
  <2> QED BY <1>3, <2>1, <2>3, <2>4, <2>5
<1> QED BY <1>4, <1>5, <1>6, <1>7, <1>8 DEF Proxy

LEMMA GatewayKept ==
    ASSUME TypeOK, ConnsOK, [Next]_vars
    PROVE  GatewayTypeOK' /\ ConnsOK'
<1>1. conn' \in [Connections -> Conns] /\ ConnsOK'
  <2>1. CASE NoMoves
    BY <2>1 DEF NoMoves, TypeOK, GatewayTypeOK, ConnsOK, ConnOK, Underway
  <2> QED BY <2>1, StepsOfGateway, WatchedOK, ProxyOK
<1> QED BY <1>1, StepsOfGateway DEF GatewayTypeOK

-----------------------------------------------------------------------------
(* The scripts.                                                            *)

LEMMA MachinesOfNames ==
    /\ Controller \in HubMachines
    /\ \A h \in Hosts : MachineOf(h) \in HubMachines
<1>1. Controller \in Hosts /\ MachineOf(Controller) = Controller
  BY FleetAssumption, InventoryAssumption DEF MachineOf
<1> QED BY <1>1 DEF HubMachines

Steps == {"none", "scheduled", "pulled", "looked", "stopped", "start", "start next",
          "done", "failed"}

LEMMA ScriptToIs ==
    ASSUME script \in [Scripts -> ScriptStates], NEW u \in Scripts, NEW step \in Steps,
           ScriptTo(u, step)
    PROVE  /\ script' \in [Scripts -> ScriptStates]
           /\ script'[u].step = step /\ script'[u].host = script[u].host
           /\ script'[u].by = script[u].by /\ script'[u].mode = script[u].mode
           /\ script'[u].was = script[u].was /\ script'[u].alone = script[u].alone
           /\ script'[u].mute = script[u].mute
           /\ \A v \in Scripts \ {u} : script'[v] = script[v]
<1> DEFINE new == [script[u] EXCEPT !.step = step]
<1>1. /\ script' = [script EXCEPT ![u] = new] /\ script[u] \in ScriptStates
  BY DEF ScriptTo
<1>2. /\ new \in ScriptStates /\ new.step = step /\ new.host = script[u].host
      /\ new.by = script[u].by /\ new.mode = script[u].mode
      /\ new.was = script[u].was /\ new.alone = script[u].alone /\ new.mute = script[u].mute
  BY <1>1 DEF ScriptStates, Steps
<1> HIDE DEF new
<1> QED BY <1>1, <1>2

LEMMA ScheduledIs ==
    ASSUME script \in [Scripts -> ScriptStates], NEW u \in Scripts, NEW h \in HubMachines,
           NEW asker \in Askers, Scheduled(u, h, asker)
    PROVE  /\ script' \in [Scripts -> ScriptStates]
           /\ script'[u].step = "scheduled" /\ script'[u].host = h /\ script'[u].by = asker
           /\ \A v \in Scripts \ {u} : script'[v] = script[v]
<1> DEFINE new == [NoScript EXCEPT !.step = "scheduled", !.host = h, !.by = asker]
<1>1. new \in ScriptStates /\ new.step = "scheduled" /\ new.host = h /\ new.by = asker
  BY DEF NoScript, ScriptStates, Modes, Askers
<1>2. script' = [script EXCEPT ![u] = new]
  BY DEF Scheduled
<1> HIDE DEF new
<1> QED BY <1>1, <1>2

\* What a script that has looked knows, and what those have lost that it met.
LEMMA LookIs ==
    ASSUME script \in [Scripts -> ScriptStates],
           hub \in [HubMachines -> [main : Modes, next : Modes]],
           NEW u \in Scripts, script[u].host \in HubMachines, Look(u)
    PROVE  /\ script' \in [Scripts -> ScriptStates]
           /\ script'[u].step = "looked" /\ script'[u].alone = (Restarting(u) = {})
           /\ script'[u].mode \in {"all", "remote"}
           /\ ~script'[u].mute => script'[u].mode = ModeFor(script'[u].was)
           /\ \A v \in Scripts : /\ script'[v].host = script[v].host
                                 /\ script'[v].by = script[v].by
           /\ \A v \in Scripts \ {u} :
                 /\ script'[v].step = script[v].step /\ script'[v].mode = script[v].mode
                 /\ script'[v].was = script[v].was /\ script'[v].mute = script[v].mute
                 /\ script'[v].alone = (script[v].alone /\ v \notin Restarting(u))
<1> DEFINE main == hub[script[u].host].main
           mode(answers) == IF answers THEN ModeFor(main) ELSE "remote"
           looked(answers) == [script[u] EXCEPT !.step = "looked", !.was = main,
                                  !.mode = mode(answers), !.mute = ~answers,
                                  !.alone = Restarting(u) = {}]
           met(v) == [script[v] EXCEPT !.alone = FALSE]
<1>1. PICK answers \in BOOLEAN :
          script' = [v \in Scripts |-> IF v = u THEN looked(answers)
                                       ELSE IF v \in Restarting(u) THEN met(v) ELSE script[v]]
  BY DEF Look
<1>2. main \in Modes /\ mode(answers) \in Modes /\ mode(answers) \in {"all", "remote"}
  BY DEF Modes, ModeFor
<1>3. /\ looked(answers) \in ScriptStates /\ looked(answers).step = "looked"
      /\ looked(answers).was = main /\ looked(answers).mode = mode(answers)
      /\ looked(answers).mute = ~answers /\ looked(answers).alone = (Restarting(u) = {})
      /\ looked(answers).host = script[u].host /\ looked(answers).by = script[u].by
  <2> DEFINE lone == Restarting(u) = {}
  <2>1. lone \in BOOLEAN /\ script[u] \in ScriptStates
    OBVIOUS
  <2> HIDE DEF main, mode, lone
  <2> QED BY <1>2, <2>1 DEF ScriptStates, lone
<1>4. ASSUME NEW v \in Scripts
      PROVE  /\ met(v) \in ScriptStates /\ ~met(v).alone
             /\ met(v).step = script[v].step /\ met(v).host = script[v].host
             /\ met(v).by = script[v].by /\ met(v).mode = script[v].mode
             /\ met(v).was = script[v].was /\ met(v).mute = script[v].mute
  <2>1. script[v] \in ScriptStates
    OBVIOUS
  <2> QED BY <2>1 DEF ScriptStates
<1>5. \A v \in Scripts : script[v].alone \in BOOLEAN
  BY DEF ScriptStates
<1>6. ~script'[u].mute => script'[u].mode = ModeFor(script'[u].was)
  <2>1. script'[u] = looked(answers)
    BY <1>1
  <2>2. answers => mode(answers) = ModeFor(main)
    OBVIOUS
  <2> HIDE DEF looked, mode, main
  <2> QED BY <1>3, <2>1, <2>2
<1> HIDE DEF looked, met, mode, main
<1>7. script' \in [Scripts -> ScriptStates]
  BY <1>1, <1>3, <1>4
<1>8. script'[u] = looked(answers)
  BY <1>1
<1>9. ASSUME NEW v \in Scripts \ {u}
      PROVE  /\ script'[v].host = script[v].host /\ script'[v].by = script[v].by
             /\ script'[v].step = script[v].step /\ script'[v].mode = script[v].mode
             /\ script'[v].was = script[v].was /\ script'[v].mute = script[v].mute
             /\ script'[v].alone = (script[v].alone /\ v \notin Restarting(u))
  <2>1. CASE v \in Restarting(u)
    <3>1. script'[v] = met(v)
      BY <1>1, <2>1
    <3>2. met(v).alone = FALSE
      <4>1. script[v] \in ScriptStates
        OBVIOUS
      <4> QED BY <4>1 DEF met, ScriptStates
    <3> QED BY <1>4, <2>1, <3>1, <3>2
  <2>2. CASE v \notin Restarting(u)
    <3>1. script'[v] = script[v]
      BY <1>1, <2>2
    <3> QED BY <1>5, <2>2, <3>1
  <2> QED BY <2>1, <2>2
<1> QED BY <1>2, <1>3, <1>6, <1>7, <1>8, <1>9

SweepOK == sweep.step \in SweepSteps /\ sweep.todo \in Seq(Hosts)

\* A sweep that is over stays so, however the hubs restart.
SweepStays == sweep.step = "done" => sweep'.step = "done"

LEMMA SweepToIs ==
    ASSUME NEW step \in SweepSteps, NEW todo \in Seq(Hosts), SweepTo(step, todo)
    PROVE  SweepOK' /\ sweep'.step = step
BY DEF SweepTo, SweepOK

LEMMA ScriptsStay ==
    ASSUME ScriptsOK, script' = script, hub' = hub, SweepStays
    PROVE  ScriptsOK'
BY DEF ScriptsOK, ScriptOK, SweepStays

LEMMA ScheduledOK ==
    ASSUME script \in [Scripts -> ScriptStates], ScriptsOK, NEW u \in Scripts,
           NEW h \in HubMachines, NEW asker \in Askers, Scheduled(u, h, asker), hub' = hub, SweepStays,
           asker = "sweep" => sweep'.step = "done"
    PROVE  script' \in [Scripts -> ScriptStates] /\ ScriptsOK'
<1>1. /\ script' \in [Scripts -> ScriptStates]
      /\ script'[u].step = "scheduled" /\ script'[u].host = h /\ script'[u].by = asker
      /\ \A v \in Scripts \ {u} : script'[v] = script[v]
  BY ScheduledIs
<1>2. ScriptOK(u)'
  BY <1>1 DEF ScriptOK, Restarts
<1>3. ASSUME NEW v \in Scripts \ {u} PROVE ScriptOK(v)'
  <2>1. ScriptOK(v) /\ script'[v] = script[v]
    BY <1>1 DEF ScriptsOK
  <2>2. \A w \in Scripts : script'[w].step \in Restarts => script'[w] = script[w]
    BY <1>1 DEF Restarts
  <2> QED BY <2>1, <2>2 DEF ScriptOK, SweepStays
<1> QED BY <1>1, <1>2, <1>3 DEF ScriptsOK

\* What the others know stays so when a script that has no lone other beside it moves.
LEMMA OthersStayOK ==
    ASSUME ScriptsOK, NEW u \in Scripts, script'[u].host = script[u].host,
           \A v \in Scripts \ {u} : script'[v] = script[v],
           script[u].step \in Restarts, SweepStays,
           \A h \in HubMachines : h # script[u].host => hub'[h] = hub[h]
    PROVE  \A v \in Scripts \ {u} : ScriptOK(v)'
<1> SUFFICES ASSUME NEW v \in Scripts \ {u} PROVE ScriptOK(v)'
  OBVIOUS
<1>1. ScriptOK(v) /\ script'[v] = script[v]
  BY DEF ScriptsOK
<1>2. script[v].step \in Restarts /\ script[v].alone => script[v].host # script[u].host
  BY <1>1 DEF ScriptOK
<1>3. script[v].step \in {"stopped", "start"} /\ script[v].alone =>
          hub'[script[v].host] = hub[script[v].host]
  BY <1>1, <1>2 DEF ScriptOK, Restarts
<1>4. script[v].step \in Restarts /\ script[v].alone =>
          \A w \in Scripts \ {v} : script'[w].host = script[v].host => script'[w].step \notin Restarts
  BY <1>1, <1>2 DEF ScriptOK
<1> QED BY <1>1, <1>3, <1>4 DEF ScriptOK, SweepStays

ScriptFacts ==
    /\ script \in [Scripts -> ScriptStates] /\ hub \in [HubMachines -> [main : Modes, next : Modes]]
    /\ ScriptsOK /\ SweepOK

LEMMA PullOK ==
    ASSUME ScriptFacts, NEW u \in Scripts, Pull(u)
    PROVE  ScriptFacts'
<1>1. PICK step \in {"pulled", "failed"} : ScriptTo(u, step)
  BY DEF Pull
<1>2. script[u].step = "scheduled" /\ UNCHANGED <<hub, sweep>>
  BY DEF Pull
<1>3. /\ script' \in [Scripts -> ScriptStates]
      /\ script'[u].step = step /\ script'[u].host = script[u].host
      /\ script'[u].by = script[u].by
      /\ \A v \in Scripts \ {u} : script'[v] = script[v]
  BY <1>1, ScriptToIs DEF ScriptFacts, Steps
<1>4. ScriptOK(u)'
  BY <1>2, <1>3 DEF ScriptFacts, ScriptsOK, ScriptOK, Restarts
<1>5. ASSUME NEW v \in Scripts \ {u} PROVE ScriptOK(v)'
  <2>1. ScriptOK(v) /\ script'[v] = script[v]
    BY <1>3 DEF ScriptFacts, ScriptsOK
  <2>2. \A w \in Scripts : script'[w].step \in Restarts => script'[w] = script[w]
    BY <1>3 DEF Restarts
  <2> QED BY <1>2, <2>1, <2>2 DEF ScriptOK
<1> QED BY <1>2, <1>3, <1>4, <1>5 DEF ScriptFacts, ScriptsOK, SweepOK

LEMMA LookOK ==
    ASSUME ScriptFacts, NEW u \in Scripts, Look(u)
    PROVE  ScriptFacts'
<1>1. script[u].step = "pulled" /\ UNCHANGED <<hub, sweep>> /\ script[u].host \in HubMachines
  BY DEF Look, ScriptFacts, ScriptsOK, ScriptOK
<1>2. /\ script' \in [Scripts -> ScriptStates]
      /\ script'[u].step = "looked" /\ script'[u].alone = (Restarting(u) = {})
      /\ script'[u].mode \in {"all", "remote"}
      /\ ~script'[u].mute => script'[u].mode = ModeFor(script'[u].was)
      /\ \A v \in Scripts : /\ script'[v].host = script[v].host
                            /\ script'[v].by = script[v].by
      /\ \A v \in Scripts \ {u} :
            /\ script'[v].step = script[v].step /\ script'[v].mode = script[v].mode
            /\ script'[v].was = script[v].was /\ script'[v].mute = script[v].mute
            /\ script'[v].alone = (script[v].alone /\ v \notin Restarting(u))
  BY <1>1, LookIs DEF ScriptFacts
<1>3. \A v \in Scripts \ {u} :
          v \in Restarting(u) <=> script[v].host = script[u].host /\ script[v].step \in Restarts
  BY DEF Restarting, Restarts
<1>4. ScriptOK(u)'
  <2>1. script'[u].alone => \A v \in Scripts \ {u} :
            script'[v].host = script'[u].host => script'[v].step \notin Restarts
    BY <1>2, <1>3
  <2>2. (script'[u].by = "sweep" => sweep'.step = "done") /\ script'[u].by \in Askers
    BY <1>1, <1>2 DEF ScriptFacts, ScriptsOK, ScriptOK
  <2> QED BY <1>1, <1>2, <2>1, <2>2 DEF ScriptOK
<1>5. ASSUME NEW v \in Scripts \ {u} PROVE ScriptOK(v)'
  <2>1. ScriptOK(v)
    BY DEF ScriptFacts, ScriptsOK
  <2>2. script'[v].step \in Restarts /\ script'[v].alone => script'[v].host # script'[u].host
    BY <1>2, <1>3
  <2>3. script'[v].step \in Restarts /\ script'[v].alone => \A w \in Scripts \ {v} :
            script'[w].host = script'[v].host => script'[w].step \notin Restarts
    BY <1>2, <2>1, <2>2 DEF ScriptOK
  <2> QED BY <1>1, <1>2, <2>1, <2>3 DEF ScriptOK
<1> QED BY <1>1, <1>2, <1>4, <1>5 DEF ScriptFacts, ScriptsOK, SweepOK

LEMMA StopOK ==
    ASSUME ScriptFacts, NEW u \in Scripts, Stop(u)
    PROVE  ScriptFacts'
<1>1. /\ script[u].step = "looked" /\ script[u].host \in HubMachines
      /\ hub' = [hub EXCEPT ![script[u].host] = Stopped] /\ ScriptTo(u, "stopped")
  BY DEF Stop, ScriptFacts, ScriptsOK, ScriptOK
<1>2. /\ script' \in [Scripts -> ScriptStates]
      /\ script'[u].step = "stopped" /\ script'[u].host = script[u].host
      /\ script'[u].by = script[u].by /\ script'[u].mode = script[u].mode
      /\ script'[u].was = script[u].was /\ script'[u].alone = script[u].alone
      /\ script'[u].mute = script[u].mute
      /\ \A v \in Scripts \ {u} : script'[v] = script[v]
  BY <1>1, ScriptToIs DEF ScriptFacts, Steps
<1>3. /\ hub' \in [HubMachines -> [main : Modes, next : Modes]] /\ hub'[script[u].host] = Stopped
      /\ \A h \in HubMachines : h # script[u].host => hub'[h] = hub[h]
  BY <1>1 DEF ScriptFacts, Stopped, Modes
<1>4. SweepOK' /\ SweepStays
  <2>1. CASE sweep' = sweep
    BY <2>1 DEF ScriptFacts, SweepOK, SweepStays
  <2>2. CASE sweep.step \in {"sessions", "ask", "answered"} /\ SweepTo("cut", <<>>)
    <3>1. <<>> \in Seq(Hosts) /\ "cut" \in SweepSteps
      BY EmptySeq DEF SweepSteps
    <3> QED BY <2>2, <3>1, SweepToIs DEF SweepStays
  <2> QED BY <2>1, <2>2 DEF Stop
<1>5. ScriptOK(u)'
  <2>1. ScriptOK(u) /\ script[u].step \in Restarts
    BY <1>1 DEF ScriptFacts, ScriptsOK, Restarts
  <2> QED BY <1>1, <1>2, <1>3, <1>4, <2>1 DEF ScriptOK, SweepStays
<1>6. \A v \in Scripts \ {u} : ScriptOK(v)'
  BY <1>1, <1>2, <1>3, <1>4, OthersStayOK DEF ScriptFacts, Restarts
<1> QED BY <1>2, <1>3, <1>4, <1>5, <1>6 DEF ScriptFacts, ScriptsOK

LEMMA ChoosePortOK ==
    ASSUME ScriptFacts, NEW u \in Scripts, ChoosePort(u)
    PROVE  ScriptFacts'
<1> DEFINE step == PortFor(script[u].host)
<1>1. /\ script[u].step = "stopped" /\ script[u].host \in HubMachines /\ UNCHANGED <<hub, sweep>>
      /\ step \in {"start", "start next"} /\ ScriptTo(u, step) /\ ScriptOK(u)
  BY DEF ChoosePort, PortFor, ScriptFacts, ScriptsOK, ScriptOK
\* A lone script finds the port as it left it.
<1>2. script[u].alone => step = "start"
  <2>1. script[u].alone => hub[script[u].host] = Stopped
    BY <1>1 DEF ScriptOK
  <2>2. Stopped.main = "down"
    BY DEF Stopped
  <2> QED BY <2>1, <2>2 DEF PortFor, HubRuns
<1> HIDE DEF step
<1>3. /\ script' \in [Scripts -> ScriptStates]
      /\ script'[u].step = step /\ script'[u].host = script[u].host
      /\ script'[u].by = script[u].by /\ script'[u].mode = script[u].mode
      /\ script'[u].was = script[u].was /\ script'[u].alone = script[u].alone
      /\ script'[u].mute = script[u].mute
      /\ \A v \in Scripts \ {u} : script'[v] = script[v]
  <2>1. step \in Steps
    BY <1>1 DEF Steps
  <2> QED BY <1>1, <2>1, ScriptToIs DEF ScriptFacts
<1>4. ScriptOK(u)'
  BY <1>1, <1>2, <1>3 DEF ScriptOK, Restarts
<1>5. \A v \in Scripts \ {u} : ScriptOK(v)'
  BY <1>1, <1>3, OthersStayOK DEF ScriptFacts, Restarts, SweepStays
<1> QED BY <1>1, <1>3, <1>4, <1>5 DEF ScriptFacts, ScriptsOK, SweepOK

LEMMA StartOK ==
    ASSUME ScriptFacts, NEW u \in Scripts, Start(u)
    PROVE  /\ ScriptFacts'
           /\ script[u].alone => script[u].step = "start"
           /\ script[u].step = "start" /\ hub[script[u].host] = Stopped =>
                 hub'[script[u].host] = [main |-> script[u].mode, next |-> "down"]
<1> DEFINE h == script[u].host
           Started(old) == IF old = "down" THEN script[u].mode ELSE old
           new == IF script[u].step = "start" THEN [hub[h] EXCEPT !.main = Started(hub[h].main)]
                  ELSE [hub[h] EXCEPT !.next = Started(hub[h].next)]
<1>1. /\ script[u].step \in {"start", "start next"} /\ h \in HubMachines
      /\ ScriptTo(u, "done") /\ UNCHANGED sweep /\ ScriptOK(u)
  BY DEF Start, ScriptFacts, ScriptsOK, ScriptOK
<1>2. hub' = [hub EXCEPT ![h] = new]
  BY Zenon DEF Start
<1>3. /\ new \in [main : Modes, next : Modes]
      /\ script[u].step = "start" /\ hub[h] = Stopped =>
            new = [main |-> script[u].mode, next |-> "down"]
  <2>1. hub[h] \in [main : Modes, next : Modes] /\ script[u].mode \in Modes
    BY <1>1 DEF ScriptFacts, ScriptStates
  <2> DEFINE mode == script[u].mode
             old == hub[h]
             lone == script[u].step = "start"
  <2>2. \A m \in Modes : Started(m) \in Modes
    BY <2>1
  <2>3. Started("down") = mode
    OBVIOUS
  <2> HIDE DEF h, Started, mode, old
  <2>4. /\ [old EXCEPT !.main = Started(old.main)] \in [main : Modes, next : Modes]
        /\ [old EXCEPT !.next = Started(old.next)] \in [main : Modes, next : Modes]
    BY <2>1, <2>2 DEF old
  <2>5. old = Stopped => [old EXCEPT !.main = Started(old.main)] = [main |-> mode, next |-> "down"]
    BY <2>3 DEF Stopped
  <2> QED BY <2>4, <2>5 DEF old, mode
<1> HIDE DEF new
<1>4. /\ script' \in [Scripts -> ScriptStates]
      /\ script'[u].step = "done" /\ script'[u].host = script[u].host
      /\ script'[u].by = script[u].by
      /\ \A v \in Scripts \ {u} : script'[v] = script[v]
  BY <1>1, ScriptToIs DEF ScriptFacts, Steps
<1>5. /\ hub' \in [HubMachines -> [main : Modes, next : Modes]] /\ hub'[h] = new
      /\ \A o \in HubMachines : o # h => hub'[o] = hub[o]
  BY <1>1, <1>2, <1>3 DEF ScriptFacts
<1>6. ScriptOK(u)'
  BY <1>1, <1>4 DEF ScriptOK, Restarts
<1>7. \A v \in Scripts \ {u} : ScriptOK(v)'
  BY <1>1, <1>4, <1>5, OthersStayOK DEF ScriptFacts, Restarts, SweepStays
<1>8. script[u].alone => script[u].step = "start"
  BY <1>1 DEF ScriptOK
<1> QED BY <1>1, <1>3, <1>4, <1>5, <1>6, <1>7, <1>8 DEF ScriptFacts, ScriptsOK, SweepOK

\* The hosts that a sweep asks are in a list.
LEMMA MergedOK ==
    ASSUME NEW todo \in Seq(Hosts), NEW more \in SetToSeqs(sessionHosts \ ToSet(todo)),
           sessionHosts \subseteq Hosts
    PROVE  todo \o more \in Seq(Hosts)
<1> DEFINE S == sessionHosts \ ToSet(todo)
<1>1. IsFiniteSet(S)
  BY FleetAssumption, FS_Subset
<1>2. Cardinality(S) \in Nat
  BY <1>1, FS_CardinalityType
<1> HIDE DEF S
<1>3. more \in [1..Cardinality(S) -> S]
  BY DEF SetToSeqs, S
<1>4. S \subseteq Hosts
  BY DEF S
<1>5. more \in Seq(Hosts)
  BY <1>2, <1>3, <1>4
<1> QED BY <1>5, ConcatProperties

LEMMA SweepingOK ==
    ASSUME ScriptFacts, sessionHosts \subseteq Hosts, NEW u \in Scripts, Sweeping(u)
    PROVE  ScriptFacts'
<1>1. hub' = hub /\ sweep.step \in {"sessions", "ask", "answered"}
  BY DEF Sweeping, MergeSessions, Refuse, AskRemote, AskLocal, Respond, UpdateSelf, NextIsOf
<1>2. SweepStays
  BY <1>1 DEF SweepStays
<1>3. <<>> \in Seq(Hosts) /\ sweep.todo \in Seq(Hosts)
  BY EmptySeq DEF ScriptFacts, SweepOK
<1>4. script \in [Scripts -> ScriptStates] /\ ScriptsOK
      /\ hub \in [HubMachines -> [main : Modes, next : Modes]]
  BY DEF ScriptFacts
\* Most steps leave the scripts as they are.
<1>5. ASSUME SweepOK', script' = script PROVE ScriptFacts'
  BY <1>1, <1>2, <1>4, <1>5, ScriptsStay DEF ScriptFacts
<1>6. CASE MergeSessions
  <2>1. CASE SweepTo("cut", <<>>)
    BY <1>3, <1>5, <1>6, <2>1, SweepToIs DEF MergeSessions, SweepSteps
  <2>2. ASSUME NEW more \in SetToSeqs(sessionHosts \ ToSet(sweep.todo)),
               SweepTo("ask", sweep.todo \o more)
        PROVE  SweepOK'
    BY <1>3, <2>2, MergedOK, SweepToIs DEF SweepSteps
  <2> QED BY <1>5, <1>6, <2>1, <2>2 DEF MergeSessions
<1>7. CASE AskRemote(u) \/ AskLocal(u)
  <2>1. /\ sweep.todo # <<>> /\ SweepTo("ask", Tail(sweep.todo))
        /\ \/ script' = script
           \/ \E asker \in {"request", "alias"} : Scheduled(u, MachineOf(Head(sweep.todo)), asker)
    BY <1>7 DEF AskRemote, AskLocal, Defer, NextIsOf
  <2>2. Tail(sweep.todo) \in Seq(Hosts) /\ MachineOf(Head(sweep.todo)) \in HubMachines
    BY <1>3, <2>1, HeadTailProperties, MachinesOfNames
  <2>3. SweepOK'
    BY <2>1, <2>2, SweepToIs DEF SweepSteps
  <2>4. ASSUME NEW asker \in {"request", "alias"},
               Scheduled(u, MachineOf(Head(sweep.todo)), asker)
        PROVE  ScriptFacts'
    BY <1>1, <1>2, <1>4, <2>2, <2>3, <2>4, ScheduledOK DEF ScriptFacts, Askers
  <2> QED BY <1>5, <2>1, <2>3, <2>4
<1>8. CASE Respond
  BY <1>3, <1>5, <1>8, SweepToIs DEF Respond, SweepSteps
<1>9. CASE UpdateSelf(u)
  <2>1. SweepTo("done", <<>>) /\ Scheduled(u, Controller, "sweep") /\ "sweep" \in Askers
    BY <1>9 DEF UpdateSelf, Askers
  <2>2. SweepOK' /\ sweep'.step = "done" /\ Controller \in HubMachines
    BY <1>3, <2>1, SweepToIs, MachinesOfNames DEF SweepSteps
  <2> QED BY <1>1, <1>2, <1>4, <2>1, <2>2, ScheduledOK DEF ScriptFacts
<1>10. CASE Refuse
  BY <1>3, <1>5, <1>10, SweepToIs DEF Refuse, SweepSteps
<1> QED BY <1>6, <1>7, <1>8, <1>9, <1>10 DEF Sweeping

LEMMA ScriptsKept ==
    ASSUME TypeOK, ScriptsOK, [Next]_vars
    PROVE  ScriptFacts'
<1>1. ScriptFacts /\ sessionHosts \subseteq Hosts
  BY DEF TypeOK, GatewayTypeOK, ScriptFacts, SweepOK
<1>2. CASE UNCHANGED <<hub, script, sweep>>
  BY <1>1, <1>2, ScriptsStay DEF ScriptFacts, SweepOK, SweepStays
<1>3. CASE FileRequests \/ Clients
  BY <1>2, <1>3 DEF FileRequests, Clients
<1>4. CASE BeginSweep
  <2> DEFINE todo == [i \in DOMAIN machines |-> machines[i].host]
  <2>1. sweep.step = "none" /\ SweepTo("sessions", todo) /\ UNCHANGED <<hub, script>>
    BY <1>4 DEF BeginSweep
  <2>2. todo \in Seq(Hosts)
    <3>1. /\ DOMAIN machines = 1..Len(machines) /\ Len(machines) \in Nat
          /\ \A i \in DOMAIN machines : machines[i] \in Profiles
      BY TypesUse, RowsOK DEF TypeOK
    <3>2. \A i \in DOMAIN machines : machines[i].host \in Hosts
      BY <3>1 DEF Profiles
    <3> QED BY <3>1, <3>2
  <2> HIDE DEF todo
  <2>3. SweepOK' /\ SweepStays
    BY <2>1, <2>2, SweepToIs DEF SweepSteps, SweepStays
  <2> QED BY <1>1, <2>1, <2>3, ScriptsStay DEF ScriptFacts
<1>5. ASSUME NEW u \in Scripts, NEW h \in HubMachines, UpdateRemote(u, h) PROVE ScriptFacts'
  <2>1. Scheduled(u, h, "request") /\ UNCHANGED <<hub, sweep>> /\ "request" \in Askers
    BY <1>5 DEF UpdateRemote, Askers
  <2> QED BY <1>1, <2>1, ScheduledOK DEF ScriptFacts, SweepOK, SweepStays
<1>6. ASSUME NEW u \in Scripts, Sweeping(u) PROVE ScriptFacts'
  BY <1>1, <1>6, SweepingOK
<1>7. ASSUME NEW u \in Scripts, ScriptStep(u) PROVE ScriptFacts'
  BY <1>1, <1>7, PullOK, LookOK, StopOK, ChoosePortOK, StartOK DEF ScriptStep
<1> QED BY <1>2, <1>3, <1>4, <1>5, <1>6, <1>7 DEF Next, vars

\* The hub of a machine, and the scripts, change by a new script or a script's step.
LEMMA StepsOfScripts ==
    ASSUME ScriptFacts, [Next]_vars
    PROVE  \/ UNCHANGED <<hub, script>>
           \/ hub' = hub /\ \E u \in Scripts, h \in HubMachines, asker \in Askers :
                                Scheduled(u, h, asker)
           \/ \E u \in Scripts : ScriptStep(u)
<1>1. CASE FileRequests \/ Clients \/ BeginSweep \/ UNCHANGED vars
  BY <1>1 DEF FileRequests, Clients, BeginSweep, vars
<1>2. ASSUME NEW u \in Scripts, NEW h \in HubMachines, UpdateRemote(u, h)
      PROVE  hub' = hub /\ \E asker \in Askers : Scheduled(u, h, asker)
  BY <1>2 DEF UpdateRemote, Askers
<1>3. ASSUME NEW u \in Scripts, Sweeping(u)
      PROVE  /\ hub' = hub
             /\ script' = script \/ \E h \in HubMachines, asker \in Askers : Scheduled(u, h, asker)
  <2>1. sweep.todo # <<>> => MachineOf(Head(sweep.todo)) \in HubMachines
    BY HeadTailProperties, MachinesOfNames DEF ScriptFacts, SweepOK
  <2>2. Controller \in HubMachines
    BY MachinesOfNames
  <2> QED BY <1>3, <2>1, <2>2 DEF Sweeping, MergeSessions, Refuse, AskRemote, AskLocal, Defer,
                                  Respond, UpdateSelf, NextIsOf, Askers
<1> QED BY <1>1, <1>2, <1>3 DEF Next

\* Who has stopped a hub goes on to start it, and starts something.
LEMMA DownKept ==
    ASSUME ScriptFacts, DownOnlyInRestarts, [Next]_vars
    PROVE  DownOnlyInRestarts'
<1> DEFINE Sees(u) == script[u].step \in {"stopped", "start"}
\* Most steps touch no hub and no script that has stopped one.
<1>1. ASSUME hub' = hub,
             \A v \in Scripts : Sees(v) =>
                script'[v].step \in {"stopped", "start"} /\ script'[v].host = script[v].host
      PROVE  DownOnlyInRestarts'
  BY <1>1 DEF DownOnlyInRestarts, HubRuns
<1>2. CASE UNCHANGED <<hub, script>>
  BY <1>1, <1>2
<1>3. ASSUME NEW u \in Scripts, NEW h \in HubMachines, NEW asker \in Askers, Scheduled(u, h, asker),
             hub' = hub
      PROVE  DownOnlyInRestarts'
  <2>1. ~Sees(u)
    BY <1>3 DEF Scheduled, NoScript
  <2>2. \A v \in Scripts \ {u} : script'[v] = script[v]
    BY <1>3, ScheduledIs DEF ScriptFacts
  <2> QED BY <1>1, <1>3, <2>1, <2>2
<1>4. ASSUME NEW u \in Scripts, Pull(u) PROVE DownOnlyInRestarts'
  <2>1. ~Sees(u) /\ hub' = hub /\ \E step \in Steps : ScriptTo(u, step)
    BY <1>4 DEF Pull, Steps
  <2>2. \A v \in Scripts \ {u} : script'[v] = script[v]
    BY <2>1, ScriptToIs DEF ScriptFacts
  <2> QED BY <1>1, <2>1, <2>2
<1>5. ASSUME NEW u \in Scripts, Look(u) PROVE DownOnlyInRestarts'
  <2>1. ~Sees(u) /\ hub' = hub /\ script[u].host \in HubMachines
    BY <1>5 DEF Look, ScriptFacts, ScriptsOK, ScriptOK
  <2>2. \A v \in Scripts \ {u} : script'[v].step = script[v].step /\ script'[v].host = script[v].host
    BY <1>5, <2>1, LookIs DEF ScriptFacts
  <2> QED BY <1>1, <2>1, <2>2
<1>6. ASSUME NEW u \in Scripts, Stop(u) PROVE DownOnlyInRestarts'
  <2>1. /\ script[u].step = "looked" /\ script[u].host \in HubMachines
        /\ hub' = [hub EXCEPT ![script[u].host] = Stopped] /\ ScriptTo(u, "stopped")
    BY <1>6 DEF Stop, ScriptFacts, ScriptsOK, ScriptOK
  <2>2. /\ script'[u].step = "stopped" /\ script'[u].host = script[u].host
        /\ \A v \in Scripts \ {u} : script'[v] = script[v]
    BY <2>1, ScriptToIs DEF ScriptFacts, Steps
  <2>3. \A h \in HubMachines \ {script[u].host} : hub'[h] = hub[h]
    BY <2>1 DEF ScriptFacts
  <2> QED BY <2>1, <2>2, <2>3 DEF DownOnlyInRestarts, HubRuns
\* A script that does not take the port has found a hub there.
<1>7. ASSUME NEW u \in Scripts, ChoosePort(u) PROVE DownOnlyInRestarts'
  <2>1. /\ PortFor(script[u].host) \in Steps /\ ScriptTo(u, PortFor(script[u].host))
        /\ hub' = hub
    BY <1>7 DEF ChoosePort, PortFor, Steps
  <2>2. /\ script'[u].step = PortFor(script[u].host) /\ script'[u].host = script[u].host
        /\ \A v \in Scripts \ {u} : script'[v] = script[v]
    BY <2>1, ScriptToIs DEF ScriptFacts
  <2>3. ~HubRuns(script[u].host) => script'[u].step = "start"
    BY <2>2 DEF PortFor
  <2>4. ASSUME NEW h \in HubMachines, ~HubRuns(h)'
        PROVE  \E v \in Scripts : script'[v].host = h /\ script'[v].step \in {"stopped", "start"}
    <3>1. ~HubRuns(h)
      BY <2>1, <2>4 DEF HubRuns
    <3>2. PICK v \in Scripts : script[v].host = h /\ Sees(v)
      BY <3>1 DEF DownOnlyInRestarts
    <3>3. CASE v = u
      BY <2>2, <2>3, <3>1, <3>2, <3>3
    <3>4. CASE v # u
      BY <2>2, <3>2, <3>4
    <3> QED BY <3>3, <3>4
  <2> QED BY <2>4 DEF DownOnlyInRestarts
\* A script that takes the port leaves a hub there: its own, or the one it ran into.
<1>8. ASSUME NEW u \in Scripts, Start(u) PROVE DownOnlyInRestarts'
  <2> DEFINE home == script[u].host
  <2>1. /\ script[u].step \in {"start", "start next"} /\ home \in HubMachines
        /\ ScriptTo(u, "done") /\ script[u].mode \in {"all", "remote"}
    BY <1>8 DEF Start, ScriptFacts, ScriptsOK, ScriptOK, Restarts
  <2>2. \A v \in Scripts \ {u} : script'[v] = script[v]
    BY <2>1, ScriptToIs DEF ScriptFacts, Steps
  <2>3. /\ \A h \in HubMachines \ {home} : hub'[h] = hub[h]
        /\ script[u].step = "start" => hub'[home].main # "down"
        /\ script[u].step = "start next" => hub'[home].main = hub[home].main
    <3> DEFINE Started(old) == IF old = "down" THEN script[u].mode ELSE old
               new == IF script[u].step = "start"
                      THEN [hub[home] EXCEPT !.main = Started(hub[home].main)]
                      ELSE [hub[home] EXCEPT !.next = Started(hub[home].next)]
    <3>1. hub' = [hub EXCEPT ![home] = new]
      BY <1>8, Zenon DEF Start
    <3>2. /\ hub[home] \in [main : Modes, next : Modes]
          /\ hub \in [HubMachines -> [main : Modes, next : Modes]]
      BY <2>1 DEF ScriptFacts
    <3>3. /\ script[u].step = "start" => new.main = Started(hub[home].main)
          /\ script[u].step # "start" => new.main = hub[home].main
      BY <3>2
    <3>4. Started(hub[home].main) # "down"
      BY <2>1
    <3> HIDE DEF new, Started
    <3> QED BY <2>1, <3>1, <3>2, <3>3, <3>4
  <2> HIDE DEF home
  <2>4. ASSUME NEW h \in HubMachines, ~HubRuns(h)'
        PROVE  \E v \in Scripts : script'[v].host = h /\ script'[v].step \in {"stopped", "start"}
    <3>1. ~HubRuns(h) /\ (h = home => script[u].step = "start next")
      BY <2>1, <2>3, <2>4 DEF HubRuns
    <3>2. PICK v \in Scripts : script[v].host = h /\ Sees(v)
      BY <3>1 DEF DownOnlyInRestarts
    <3>3. v # u
      BY <3>1, <3>2 DEF home
    <3> QED BY <2>2, <3>2, <3>3
  <2> QED BY <2>4 DEF DownOnlyInRestarts
<1> QED BY <1>2, <1>3, <1>4, <1>5, <1>6, <1>7, <1>8, StepsOfScripts DEF ScriptStep

-----------------------------------------------------------------------------
(* All together.                                                           *)

\* The requests of a hub end with it.
RequestsNeedTheHub ==
    ~HubRuns(Controller) =>
        /\ \A th \in Threads : ~InLock(th)
        /\ saving = None /\ sweep.step \in {"none", "done", "cut"}

LEMMA RequestsKept ==
    ASSUME TypeOK, ScriptsOK, [Next]_vars
    PROVE  RequestsNeedTheHub'
<1>1. RequestsNeedTheHub /\ hub \in [HubMachines -> [main : Modes, next : Modes]]
      /\ Controller \in HubMachines /\ sweep.step \in SweepSteps
  BY MachinesOfNames DEF TypeOK, RequestsNeedTheHub
\* A hub that runs, and goes on, may have any requests.
<1>2. ASSUME HubRuns(Controller), hub' = hub PROVE RequestsNeedTheHub'
  BY <1>2 DEF RequestsNeedTheHub, HubRuns
<1>3. ASSUME HubRuns(Controller)' => HubRuns(Controller), UNCHANGED <<call, saving, sweep>>,
             ~HubRuns(Controller)' => ~HubRuns(Controller)
      PROVE  RequestsNeedTheHub'
  BY <1>1, <1>3 DEF RequestsNeedTheHub, InLock
<1>4. ASSUME UNCHANGED <<hub, call, saving, sweep>> PROVE RequestsNeedTheHub'
  BY <1>1, <1>4 DEF RequestsNeedTheHub, InLock, HubRuns
<1>5. CASE FileRequests
  BY <1>2, <1>5 DEF FileRequests
<1>6. CASE Clients
  <2>1. hub' = hub /\ sweep' = sweep
    BY <1>6 DEF Clients
  <2>2. CASE HubRuns(Controller)
    BY <1>2, <2>1, <2>2
  <2>3. CASE ~HubRuns(Controller)
    <3>1. CASE SessionChanges /\ UNCHANGED gatewayVars
      BY <1>4, <2>1, <3>1 DEF SessionChanges, gatewayVars
    <3>2. ASSUME NEW c \in Connections, NEW h \in Hosts, Connect(c, h)
          PROVE  UNCHANGED <<call, saving>>
      BY <3>2 DEF Connect
    <3>3. ASSUME NEW c \in Connections, Proxy(c) \/ Leaves(c) PROVE UNCHANGED <<call, saving>>
      BY <3>3 DEF Proxy, Leaves, Authorized, ReadMachines, ReadSessions, Reach, Accept,
                  CloseUpstream, CloseClient, To, Moves, inventoryVars
    <3> QED BY <1>4, <1>6, <2>1, <2>3, <3>1, <3>2, <3>3 DEF Clients
  <2> QED BY <2>2, <2>3
<1>7. CASE BeginSweep
  <2>1. HubRuns(Controller) /\ hub' = hub
    BY <1>7 DEF BeginSweep, HubRuns
  <2> QED BY <1>2, <2>1
<1>8. ASSUME NEW u \in Scripts, NEW h \in HubMachines, UpdateRemote(u, h) PROVE RequestsNeedTheHub'
  BY <1>4, <1>8 DEF UpdateRemote, gatewayVars
<1>9. ASSUME NEW u \in Scripts, Sweeping(u) PROVE RequestsNeedTheHub'
  <2>1. hub' = hub /\ sweep.step \in {"sessions", "ask", "answered"}
    BY <1>9 DEF Sweeping, MergeSessions, Refuse, AskRemote, AskLocal, Respond, UpdateSelf, NextIsOf
  <2> QED BY <1>1, <1>2, <2>1 DEF RequestsNeedTheHub
<1>10. ASSUME NEW u \in Scripts, Pull(u) \/ Look(u) \/ ChoosePort(u) PROVE RequestsNeedTheHub'
  <2>1. UNCHANGED <<hub, call, saving, sweep>>
    BY <1>10, Zenon DEF Pull, Look, ChoosePort, inventoryVars, gatewayVars
  <2> QED BY <1>4, <2>1
<1>11. ASSUME NEW u \in Scripts, Stop(u) PROVE RequestsNeedTheHub'
  <2>1. CASE script[u].host = Controller
    <3>1. call' = [th \in Threads |-> Idle] /\ saving' = None
      BY <1>11, <2>1 DEF Stop
    <3>2. sweep'.step \in {"none", "done", "cut"}
      <4>1. CASE sweep.step \in {"sessions", "ask", "answered"}
        <5>1. SweepTo("cut", <<>>)
          BY <1>11, <2>1, <4>1 DEF Stop
        <5> QED BY <5>1 DEF SweepTo
      <4>2. CASE sweep.step \notin {"sessions", "ask", "answered"}
        <5>1. sweep' = sweep
          BY <1>11, <2>1, <4>2 DEF Stop
        <5> QED BY <1>1, <4>2, <5>1 DEF SweepSteps
      <4> QED BY <4>1, <4>2
    <3> QED BY <3>1, <3>2 DEF RequestsNeedTheHub, InLock, Idle
  <2>2. CASE script[u].host # Controller
    <3>1. hub'[Controller] = hub[Controller] /\ UNCHANGED <<call, saving, sweep>>
      BY <1>1, <1>11, <2>2 DEF Stop
    <3> QED BY <1>3, <3>1 DEF HubRuns
  <2> QED BY <2>1, <2>2
<1>12. ASSUME NEW u \in Scripts, Start(u) PROVE RequestsNeedTheHub'
  <2>1. UNCHANGED <<call, saving, sweep>>
    BY <1>12, Zenon DEF Start, inventoryVars, gatewayVars
  <2>2. HubRuns(Controller) => hub'[Controller].main = hub[Controller].main
    <3> DEFINE h == script[u].host
               Started(old) == IF old = "down" THEN script[u].mode ELSE old
               new == IF script[u].step = "start"
                      THEN [hub[h] EXCEPT !.main = Started(hub[h].main)]
                      ELSE [hub[h] EXCEPT !.next = Started(hub[h].next)]
    <3>1. hub' = [hub EXCEPT ![h] = new]
      BY <1>12, Zenon DEF Start
    <3>2. h \in HubMachines => new.main = hub[h].main \/ hub[h].main = "down"
      <4>1. ASSUME h \in HubMachines PROVE hub[h] \in [main : Modes, next : Modes]
        BY <1>1, <4>1
      <4> QED BY <4>1
    <3> HIDE DEF new
    <3> QED BY <1>1, <3>1, <3>2 DEF HubRuns
  <2>3. CASE HubRuns(Controller)
    <3>1. HubRuns(Controller)'
      BY <2>2, <2>3 DEF HubRuns
    <3> QED BY <3>1 DEF RequestsNeedTheHub
  <2>4. CASE ~HubRuns(Controller)
    BY <1>1, <2>1, <2>4 DEF RequestsNeedTheHub, InLock
  <2> QED BY <2>3, <2>4
<1>13. CASE UNCHANGED vars
  BY <1>4, <1>13 DEF vars, inventoryVars, gatewayVars
<1> QED BY <1>5, <1>6, <1>7, <1>8, <1>9, <1>10, <1>11, <1>12, <1>13 DEF Next, ScriptStep

LEMMA FleetInit == Init => FleetInv
<1> SUFFICES ASSUME Init PROVE FleetInv
  OBVIOUS
<1>1. InventoryTypeOK /\ \A th \in Threads : call[th] = Idle
  BY InventoryStarts DEF Init, InventoryInit
<1>2. NoConn \in Conns /\ NoConn.step = "none" /\ ~NoConn.found
  BY DEF NoConn, Conns
<1>3. GatewayTypeOK /\ ConnsOK
  BY <1>2, GatewayAssumption
     DEF Init, GatewayInit, GatewayTypeOK, ConnsOK, ConnOK, Underway
<1>4. NoScript \in ScriptStates /\ NoScript.step = "none" /\ NoScript.by = "none"
  BY DEF NoScript, ScriptStates, Modes
<1>5. script \in [Scripts -> ScriptStates] /\ ScriptsOK
  BY <1>4 DEF Init, ScriptsOK, ScriptOK, Restarts
<1>6. hub \in [HubMachines -> [main : Modes, next : Modes]]
  BY DEF Init, Modes
<1>7. sweep.step = "none" /\ sweep.step \in SweepSteps /\ sweep.todo \in Seq(Hosts)
  BY EmptySeq DEF Init, SweepSteps
<1>8. KillsUnshared /\ \A th \in Threads : ~InLock(th)
  BY <1>1 DEF KillsUnshared, Idle, InLock
<1>9. saving = None
  BY DEF Init, GatewayInit
<1>10. DownOnlyInRestarts
  <2>1. \A h \in HubMachines : hub[h].main \in {"control", "all", "remote"}
    BY DEF Init
  <2> QED BY <2>1 DEF DownOnlyInRestarts, HubRuns
<1>11. Pending
  BY <1>8 DEF Pending
<1> QED BY <1>1, <1>3, <1>5, <1>6, <1>7, <1>8, <1>9, <1>10, <1>11 DEF FleetInv, TypeOK

LEMMA FleetStep == FleetInv /\ [Next]_vars => FleetInv'
<1> SUFFICES ASSUME FleetInv, [Next]_vars PROVE FleetInv'
  OBVIOUS
<1>1. InventoryTypeOK' /\ KillsUnshared' /\ Pending'
  BY InventoryKept DEF FleetInv, TypeOK
<1>2. GatewayTypeOK' /\ ConnsOK'
  BY GatewayKept DEF FleetInv
<1>3. ScriptFacts'
  BY ScriptsKept DEF FleetInv
<1>4. RequestsNeedTheHub'
  BY RequestsKept DEF FleetInv
<1>5. DownOnlyInRestarts'
  <2>1. ScriptFacts
    BY DEF FleetInv, TypeOK, ScriptFacts, SweepOK
  <2> QED BY <2>1, DownKept DEF FleetInv
<1> QED BY <1>1, <1>2, <1>3, <1>4, <1>5
        DEF FleetInv, TypeOK, ScriptFacts, SweepOK, RequestsNeedTheHub

LEMMA FleetInvHolds == Spec => []FleetInv
<1>1. Init => FleetInv
  BY FleetInit
<1>2. FleetInv /\ [Next]_vars => FleetInv'
  BY FleetStep
<1> QED BY <1>1, <1>2, PTL DEF Spec

-----------------------------------------------------------------------------

\* Whatever overlaps, the state is as declared: each name is in the list once, one call
\* holds SERVERS_LOCK, and only a hub that runs has requests (manage_remote, ws_proxy,
\* update_all, start-remote.sh).
THEOREM FleetTypeCorrect == Spec => []TypeOK
<1>1. FleetInv => TypeOK
  BY DEF FleetInv
<1> QED BY <1>1, FleetInvHolds, PTL

\* The gateway connects a browser only to an address of the tailnet that a file has had
\* since the browser asked (load_inventory and resolve in gateway.py).
THEOREM GatewayKeepsToTheList == Spec => []OnlyListedMachines
<1>1. FleetInv => OnlyListedMachines
  BY DEF FleetInv, ConnsOK, ConnOK, OnlyListedMachines
<1> QED BY <1>1, FleetInvHolds, PTL

\* The gateway turns away an address of the tailnet that is listed all along only when it
\* met a file that did not parse (load_inventory in gateway.py).
THEOREM GatewayAdmitsTheList == Spec => []ListedMachinesGetIn
<1>1. FleetInv => ListedMachinesGetIn
  BY DEF FleetInv, ConnsOK, ConnOK, ListedMachinesGetIn
<1> QED BY <1>1, FleetInvHolds, PTL

\* A removal ends no session that a profile which stays names (manage_remote).
THEOREM RemovalsSpareProfiles == Spec => KillsSpareProfiles
<1>1. FleetInv /\ [Next]_vars =>
          [\A th \in Threads : KillSpares(th)]_inventoryVars
  <2> SUFFICES ASSUME FleetInv, [Next]_vars, NEW other \in Threads PROVE KillSpares(other)
    OBVIOUS
  <2>1. CASE \E th \in Threads : InventoryCall(th)
    BY <2>1, CallsSpareProfiles DEF FleetInv, TypeOK
  <2>2. CASE Aside
    BY <2>2 DEF Aside, Idle, KillSpares
  <2> QED BY <2>1, <2>2, StepsOfInventory DEF FleetInv, TypeOK
<1>2. [\A th \in Threads : KillSpares(th)]_inventoryVars =>
        [\A th \in Threads : call[th].step = "kill" /\ call'[th].step = "empty" =>
            \A s \in live \ live' :
                \/ <<s, call[th].kills>> \in Extends
                \/ \A row \in ToSet(machines) :
                      Local(row) /\ row.session = s => row.name \in call[th].about]_inventoryVars
  BY DEF KillSpares
<1> QED BY <1>1, <1>2, FleetInvHolds, PTL DEF Spec, KillsSpareProfiles

\* A lone update leaves one hub, on port 7000, with the API it had (start-remote.sh).
THEOREM LoneUpdatesKeepTheHub == Spec => UpdatesKeepTheHub
<1> DEFINE Keeps(u) ==
        /\ script[u].step \in {"start", "start next"} /\ script'[u].step = "done"
        /\ script[u].alone /\ ~script[u].mute
        => hub'[script[u].host] =
              [main |-> IF script[u].was \in {"control", "all"} THEN "all" ELSE "remote",
               next |-> "down"]
<1>1. FleetInv /\ [Next]_vars => [\A u \in Scripts : Keeps(u)]_vars
  <2> SUFFICES ASSUME FleetInv, [Next]_vars, NEW u \in Scripts,
                      script[u].step \in {"start", "start next"}, script'[u].step = "done",
                      script[u].alone, ~script[u].mute
               PROVE  hub'[script[u].host] =
                         [main |-> IF script[u].was \in {"control", "all"} THEN "all" ELSE "remote",
                          next |-> "down"]
    OBVIOUS
  <2>1. ScriptFacts /\ ScriptOK(u)
    BY DEF FleetInv, TypeOK, ScriptFacts, SweepOK, ScriptsOK
  <2>2. Start(u)
    <3>1. ASSUME script' = script PROVE FALSE
      BY <3>1
    <3>2. ASSUME NEW v \in Scripts, NEW h \in HubMachines, NEW asker \in Askers,
                 Scheduled(v, h, asker)
          PROVE  FALSE
      <4>1. /\ script'[v].step = "scheduled" /\ \A w \in Scripts \ {v} : script'[w] = script[w]
        BY <2>1, <3>2, ScheduledIs DEF ScriptFacts
      <4> QED BY <4>1
    <3>3. ASSUME NEW v \in Scripts, ScriptStep(v) PROVE Start(u)
      <4>1. CASE Start(v)
        <5>1. ScriptTo(v, "done") /\ "done" \in Steps
          BY <4>1, Zenon DEF Start, Steps
        <5>2. \A w \in Scripts \ {v} : script'[w] = script[w]
          BY <2>1, <5>1, ScriptToIs DEF ScriptFacts
        <5> QED BY <4>1, <5>2
      <4>2. ASSUME NEW step \in Steps \ {"done"}, ScriptTo(v, step) PROVE FALSE
        <5>1. script'[v].step = step /\ \A w \in Scripts \ {v} : script'[w] = script[w]
          BY <2>1, <4>2, ScriptToIs DEF ScriptFacts
        <5> QED BY <4>2, <5>1
      <4>3. CASE Pull(v)
        BY <4>2, <4>3 DEF Pull, Steps
      <4>4. CASE Stop(v)
        BY <4>2, <4>4 DEF Stop, Steps
      <4>5. CASE ChoosePort(v)
        BY <4>2, <4>5 DEF ChoosePort, PortFor, Steps
      <4>6. CASE Look(v)
        <5>1. script[v].step # "none"
          BY <4>6 DEF Look
        <5>2. script[v].host \in HubMachines
          BY <5>1 DEF FleetInv, ScriptsOK, ScriptOK
        <5>3. script'[v].step = "looked" /\ \A w \in Scripts \ {v} : script'[w].step = script[w].step
          BY <2>1, <4>6, <5>2, LookIs DEF ScriptFacts
        <5> QED BY <5>3
      <4> QED BY <3>3, <4>1, <4>3, <4>4, <4>5, <4>6 DEF ScriptStep
    <3>4. ASSUME NEW v \in Scripts, Sweeping(v) PROVE FALSE
      <4>1. sweep.todo # <<>> => MachineOf(Head(sweep.todo)) \in HubMachines
        BY <2>1, HeadTailProperties, MachinesOfNames DEF ScriptFacts, SweepOK
      <4>2. Controller \in HubMachines
        BY MachinesOfNames
      <4>3. script' # script /\ \E h \in HubMachines, asker \in Askers : Scheduled(v, h, asker)
        BY <3>1, <3>4, <4>1, <4>2 DEF Sweeping, MergeSessions, Refuse, AskRemote, AskLocal,
                                      Defer, Respond, UpdateSelf, NextIsOf, Askers
      <4> QED BY <3>2, <4>3
    <3>5. CASE FileRequests \/ Clients \/ BeginSweep
      BY <3>1, <3>5 DEF FileRequests, Clients, BeginSweep
    <3>6. ASSUME NEW v \in Scripts, NEW h \in HubMachines, UpdateRemote(v, h) PROVE FALSE
      BY <3>2, <3>6 DEF UpdateRemote, Askers
    <3> QED BY <3>1, <3>3, <3>4, <3>5, <3>6 DEF Next, vars
  <2>3. script[u].step = "start" /\ hub[script[u].host] = Stopped
    BY <2>1, <2>2, StartOK DEF ScriptOK
  <2>4. script[u].mode = ModeFor(script[u].was)
    BY <2>1, <2>3 DEF ScriptOK, Restarts
  <2> QED BY <2>1, <2>2, <2>3, <2>4, StartOK DEF ModeFor
<1> QED BY <1>1, FleetInvHolds, PTL DEF Spec, UpdatesKeepTheHub

\* Whatever requests, readers and deaths of the hub overlap, each save does one thing to
\* the list of the save before (manage_remote, add_or_update_tab, reorder_remotes).
THEOREM InventoryImplementsProfileList == Spec => ImplementsProfileList
<1>1. Init => Inventory!Init
  <2> SUFFICES ASSUME InventoryInit PROVE Inventory!Init
    BY DEF Init
  <2>1. machines = Bootstrap /\ \A th \in Threads : call[th] = Idle
    BY DEF InventoryInit
  <2>2. Idle.step = "none" /\ Idle.about = {}
    BY DEF Idle
  <2>3. \A th \in Threads : InLock(th) = FALSE /\ call[th].about = {}
    BY <2>1, <2>2 DEF InLock
  <2> QED BY <2>1, <2>3 DEF Inventory!Init, Inventory!NotAsked
<1>2. FleetInv /\ [Next]_vars => [Inventory!Next]_(Inventory!vars)
  <2> SUFFICES ASSUME FleetInv, [Next]_vars PROVE [Inventory!Next]_(Inventory!vars)
    OBVIOUS
  <2>1. CASE \E th \in Threads : InventoryCall(th)
    BY <2>1, CallsImplement DEF FleetInv, TypeOK
  <2>2. CASE Aside /\ call' = call
    BY <2>2 DEF Aside, Inventory!vars, InLock
  <2>3. CASE Aside /\ call' = [th \in Threads |-> Idle]
    BY <2>3 DEF Aside, Inventory!Next, Inventory!Drop, Inventory!NotAsked, InLock, Idle
  <2> QED BY <2>1, <2>2, <2>3, StepsOfInventory DEF FleetInv, TypeOK, Aside
<1> QED BY <1>1, <1>2, FleetInvHolds, PTL DEF Spec, ImplementsProfileList, Inventory!Spec

\* A machine is without a hub only while a script that stopped it is about to start
\* one, however many updates of the machine overlap (start-remote.sh).
THEOREM HubsDownOnlyInRestarts == Spec => []DownOnlyInRestarts
<1>1. FleetInv => DownOnlyInRestarts
  BY DEF FleetInv
<1> QED BY <1>1, FleetInvHolds, PTL

\* A sweep is cut short by a file it cannot read, by a name it refuses, by an update that
\* somebody asked of the control hub's machine, or by its own request to that machine
\* under a name the hub does not know as its own, and never by what it does for its own
\* machine in the end (admin_update_all_remotes).
THEOREM SweepsEndFirst == Spec => SweepEndsFirst
<1> DEFINE Restarted(u) == /\ script[u].step = "looked" /\ script'[u].step = "stopped"
                           /\ script[u].host = Controller
                           /\ script[u].by \in {"request", "alias"}
           Cut == sweep'.step = "cut" /\ sweep.step # "cut" =>
                     sessionsTorn \/ NextIsOf(Malformed) \/ \E u \in Scripts : Restarted(u)
<1>1. FleetInv /\ [Next]_vars => [Cut]_vars
  <2> SUFFICES ASSUME FleetInv, [Next]_vars, sweep'.step = "cut", sweep.step # "cut"
               PROVE  sessionsTorn \/ NextIsOf(Malformed) \/ \E u \in Scripts : Restarted(u)
    OBVIOUS
  <2>1. ScriptFacts
    BY DEF FleetInv, TypeOK, ScriptFacts, SweepOK
  <2>2. ASSUME sweep' = sweep PROVE FALSE
    BY <2>2
  <2>3. ASSUME NEW step, NEW todo, step # "cut", SweepTo(step, todo) PROVE FALSE
    BY <2>3 DEF SweepTo
  <2>4. ASSUME NEW u \in Scripts, Sweeping(u) PROVE sessionsTorn \/ NextIsOf(Malformed)
    BY <2>3, <2>4
       DEF Sweeping, MergeSessions, Refuse, AskRemote, AskLocal, Respond, UpdateSelf
  <2>5. ASSUME NEW u \in Scripts, Stop(u) PROVE Restarted(u)
    <3>1. script[u].step = "looked" /\ ScriptTo(u, "stopped") /\ "stopped" \in Steps
      BY <2>5 DEF Stop, Steps
    <3>2. script'[u].step = "stopped"
      BY <2>1, <3>1, ScriptToIs DEF ScriptFacts
    <3>3. script[u].host = Controller /\ sweep.step # "done"
      BY <2>2, <2>5 DEF Stop
    <3>4. script[u].by \in {"request", "alias"}
      BY <2>1, <3>1, <3>3 DEF ScriptFacts, ScriptsOK, ScriptOK, Askers
    <3> QED BY <3>1, <3>2, <3>3, <3>4
  <2>6. ASSUME NEW u \in Scripts, ScriptStep(u) PROVE Stop(u)
    <3>1. ASSUME Pull(u) \/ Look(u) \/ ChoosePort(u) \/ Start(u) PROVE sweep' = sweep
      BY <3>1, Zenon DEF Pull, Look, ChoosePort, Start
    <3> QED BY <2>2, <2>6, <3>1 DEF ScriptStep
  <2>7. ~(FileRequests \/ Clients \/ \E u \in Scripts, h \in HubMachines : UpdateRemote(u, h))
    BY <2>2 DEF FileRequests, Clients, UpdateRemote
  <2>8. ~BeginSweep
    BY <2>3 DEF BeginSweep
  <2> QED BY <2>2, <2>4, <2>5, <2>6, <2>7, <2>8 DEF Next, vars
<1> QED BY <1>1, FleetInvHolds, PTL DEF Spec, SweepEndsFirst

=============================================================================
