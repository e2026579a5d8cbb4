------------------------- MODULE ServiceRegistryProofs -------------------------
(***************************************************************************)
(* Proofs about ServiceRegistry, for any sandboxes, servers, ports and     *)
(* threads: ports are taken by one thing at a time, a stop by port drops   *)
(* one row, and the hub's calls do not lose each other's rows.             *)
(***************************************************************************)
EXTENDS ServiceRegistry, FiniteSetTheorems, TLAPS

\* Rows are only ever written of things that have been started.
Started(things) == \A x \in things : port[x] # None

\* A call in the lock holds what the list has and runs, but for what it drops on
\* purpose, unless the file changed behind its back.
CallKeeps(th) ==
    InLock(th) /\ ~call[th].crossed =>
        listed \cap running \subseteq call[th].rows \cup call[th].things \cup call[th].unseen

\* Before it cleans the list a call to list or kill has found nothing yet.
CallFits(th) ==
    LET c == call[th] IN
    /\ Started(c.rows)
    /\ c.op = "create" /\ c.step = "load" => Started(c.things)
    /\ c.step = "run" => c.port # None
    /\ c.step \in {"run", "docker", "load", "clean"} => c.unseen = {}
    /\ c.step = "run" => c.op \in {"create", "clone"}
    /\ c.step = "docker" => c.op = "stop"
    /\ c.step = "load" => c.op \in {"create", "stop", "kill", "list"}
    /\ c.step = "load" /\ c.op \in {"kill", "list"} => c.things = {}
    /\ c.step = "clean" => c.things = {}
    /\ CallKeeps(th)

\* So does a server before its save.
ServerFits(q) ==
    LET s == server[q] IN
    /\ Started(s.rows)
    /\ s.step = "none" <=> port[q] = None
    /\ s.step \in {"empty", "fill"} /\ ~s.crossed => listed \cap running \subseteq s.rows

PlacesOK ==
    /\ port \in [Things -> Ports \cup {None}]
    /\ running \subseteq Things /\ heirs \subseteq Servers
    /\ listed \subseteq Things /\ torn \in BOOLEAN /\ crashes \in 0..MaxCrashes
    /\ \A x \in running \cup heirs : port[x] # None
    /\ \A x, y \in running : port[x] = port[y] => x = y
    /\ Started(listed)

CallsOK ==
    /\ call \in [Threads -> Calls]
    /\ \A th, other \in Threads : InLock(th) /\ InLock(other) => th = other
    /\ \A th \in Threads : CallFits(th)

ServersOK ==
    /\ server \in [Servers -> ServerStates]
    /\ \A q \in Servers : ServerFits(q)

\* The inductive invariant: TypeOK, and what calls and servers hold.
RegistryInv == PlacesOK /\ CallsOK /\ ServersOK

LEMMA TypesIn == RegistryInv => TypeOK
BY DEF RegistryInv, PlacesOK, CallsOK, ServersOK, TypeOK

-----------------------------------------------------------------------------
(* Records.                                                                *)

LEMMA IdleOK == Idle \in Calls /\ Idle.step \notin {"clean", "empty", "fill"}
BY DEF Idle, Calls, Steps

LEMMA TerminateOK ==
    ASSUME NEW c \in Calls
    PROVE  /\ ToTerminate(c) \in Calls /\ ToTerminate(c).step = "terminate"
           /\ ToTerminate(c).rows = {} /\ ToTerminate(c).things = c.things
BY DEF ToTerminate, Idle, Calls, Steps

\* The call of a thread that rests, or whose file is changed by others.
LEMMA CallRests ==
    ASSUME NEW th \in Threads, call[th] \in Calls, CallFits(th),
           call'[th].op = call[th].op, call'[th].step = call[th].step,
           call'[th].things = call[th].things, call'[th].port = call[th].port,
           call'[th].rows = call[th].rows, call'[th].unseen = call[th].unseen,
           \A x \in Things : port[x] # None => port'[x] # None,
           InLock(th) /\ ~call'[th].crossed =>
               ~call[th].crossed /\ listed' \cap running' \subseteq listed \cap running
    PROVE  CallFits(th)'
<1>1. call[th].rows \subseteq Things /\ call[th].things \subseteq Things
  BY DEF Calls
<1>2. Started(call[th].rows)' /\ (Started(call[th].things) => Started(call[th].things)')
  BY <1>1 DEF CallFits, Started
<1>3. CallKeeps(th)'
  BY DEF CallFits, CallKeeps, InLock
<1> QED BY <1>2, <1>3 DEF CallFits, Started

\* The same of a server.
LEMMA ServerRests ==
    ASSUME NEW q \in Servers, server[q] \in ServerStates, ServerFits(q),
           server'[q].step = server[q].step, server'[q].rows = server[q].rows,
           \A x \in Things : port[x] # None => port'[x] # None,
           port[q] = None => port'[q] = None,
           server[q].step \in {"empty", "fill"} /\ ~server'[q].crossed =>
               ~server[q].crossed /\ listed' \cap running' \subseteq listed \cap running
    PROVE  ServerFits(q)'
<1>1. server[q].rows \subseteq Things /\ q \in Things
  BY DEF ServerStates, Things
<1>2. \A x \in server[q].rows : port'[x] # None
  BY <1>1 DEF ServerFits, Started
<1> QED BY <1>1, <1>2 DEF ServerFits, Started

LEMMA RegistryInit == Init => RegistryInv
<1> SUFFICES ASSUME Init PROVE RegistryInv
  OBVIOUS
<1>1. PlacesOK
  <2>1. crashes \in 0..MaxCrashes
    BY ServiceAssumption DEF Init
  <2> QED BY <2>1 DEF Init, PlacesOK, Started
<1>2. CallsOK
  BY IdleOK DEF Init, CallsOK, InLock, CallFits, CallKeeps, Started, Idle
<1>3. ServersOK
  BY DEF Init, ServersOK, ServerFits, NotStarted, ServerStates, Started, Things
<1> QED BY <1>1, <1>2, <1>3 DEF RegistryInv

-----------------------------------------------------------------------------
(* What a step does to the calls and to the servers, once for all actions.  *)

\* Nothing is started that is in the list, and what has a port keeps one.
Grows ==
    /\ \A x \in Things : port[x] # None => port'[x] # None
    /\ listed' \cap running' \subseteq listed \cap running

LEMMA CallsStay ==
    ASSUME RegistryInv, Grows, call' = call
    PROVE  CallsOK'
<1>1. ASSUME NEW th \in Threads PROVE CallFits(th)'
  <2>1. call[th] \in Calls /\ CallFits(th)
    BY DEF RegistryInv, CallsOK
  <2> QED BY <2>1, CallRests DEF Grows
<1> QED BY <1>1 DEF RegistryInv, CallsOK, InLock

\* The call of th moves; the others rest, or are not in the lock.
LEMMA CallMoves ==
    ASSUME RegistryInv, NEW th \in Threads, NEW new \in Calls,
           call' = [call EXCEPT ![th] = new],
           new.step \in {"clean", "empty", "fill"} => InLock(th) \/ Unlocked,
           \A x \in Things : port[x] # None => port'[x] # None,
           listed' \cap running' \subseteq listed \cap running \/ InLock(th),
           CallFits(th)'
    PROVE  CallsOK'
<1>0. /\ call \in [Threads -> Calls] /\ \A other \in Threads : CallFits(other)
      /\ \A one, other \in Threads : InLock(one) /\ InLock(other) => one = other
  BY DEF RegistryInv, CallsOK
<1>1. call' \in [Threads -> Calls] /\ call'[th] = new
  BY <1>0
<1>2. ASSUME NEW other \in Threads, other # th
      PROVE  call'[other] = call[other] /\ CallFits(other)'
  <2>1. call'[other] = call[other] /\ call[other] \in Calls /\ CallFits(other)
    BY <1>0, <1>2
  <2>2. InLock(other) => listed' \cap running' \subseteq listed \cap running
    BY <1>0, <1>2
  <2> QED BY <2>1, <2>2, CallRests
<1>3. \A one, other \in Threads : InLock(one)' /\ InLock(other)' => one = other
  BY <1>0, <1>1, <1>2 DEF InLock, Unlocked
<1>4. \A one \in Threads : CallFits(one)'
  BY <1>2
<1> QED BY <1>1, <1>3, <1>4 DEF CallsOK

\* Writers without the lock: the calls in the lock are crossed.
LEMMA CallsCrossed ==
    ASSUME RegistryInv, call' = Cross(call), port' = port
    PROVE  CallsOK'
<1>0. /\ call \in [Threads -> Calls] /\ \A th \in Threads : CallFits(th)
      /\ \A one, other \in Threads : InLock(one) /\ InLock(other) => one = other
  BY DEF RegistryInv, CallsOK
<1>1. ASSUME NEW th \in Threads
      PROVE  call'[th] \in Calls /\ call'[th].step = call[th].step /\ CallFits(th)'
  <2>1. call[th] \in Calls /\ CallFits(th)
    BY <1>0
  <2>2. CASE InLock(th)
    <3>1. /\ call'[th] = [call[th] EXCEPT !.crossed = TRUE]
      BY <2>2 DEF Cross, InLock
    <3>2. /\ call'[th] \in Calls /\ call'[th].crossed
          /\ call'[th].op = call[th].op /\ call'[th].step = call[th].step
          /\ call'[th].things = call[th].things /\ call'[th].port = call[th].port
          /\ call'[th].rows = call[th].rows /\ call'[th].unseen = call[th].unseen
      BY <2>1, <3>1 DEF Calls
    <3> QED BY <2>1, <3>2, CallRests
  <2>3. CASE ~InLock(th)
    <3>1. call'[th] = call[th]
      BY <2>3 DEF Cross, InLock
    <3> QED BY <2>1, <2>3, <3>1, CallRests
  <2> QED BY <2>2, <2>3
<1>2. call' \in [Threads -> Calls]
  BY <1>1 DEF Cross
<1> QED BY <1>0, <1>1, <1>2 DEF CallsOK, InLock

LEMMA ServersStay ==
    ASSUME RegistryInv, Grows, server' = server,
           \A q \in Servers : port[q] = None => port'[q] = None
    PROVE  ServersOK'
<1>1. ASSUME NEW q \in Servers PROVE ServerFits(q)'
  <2>1. server[q] \in ServerStates /\ ServerFits(q)
    BY DEF RegistryInv, ServersOK
  <2> QED BY <2>1, ServerRests DEF Grows
<1> QED BY <1>1 DEF RegistryInv, ServersOK

\* A server that somebody's write crossed.
LEMMA ServerCrossed ==
    ASSUME RegistryInv, port' = port, NEW others \in SUBSET Servers, NEW q \in Servers,
           server'[q] = CrossServers(others)[q],
           q \in others \/ listed' \cap running' \subseteq listed \cap running
    PROVE  server'[q] \in ServerStates /\ ServerFits(q)'
<1>1. server[q] \in ServerStates /\ ServerFits(q)
  BY DEF RegistryInv, ServersOK
<1>2. CASE q \in others /\ server[q].step \in {"empty", "fill"}
  <2>1. server'[q] = [server[q] EXCEPT !.crossed = TRUE]
    BY <1>2 DEF CrossServers
  <2>2. /\ server'[q] \in ServerStates /\ server'[q].crossed
        /\ server'[q].step = server[q].step /\ server'[q].rows = server[q].rows
    BY <1>1, <2>1 DEF ServerStates
  <2> QED BY <1>1, <2>2, ServerRests
<1>3. CASE ~(q \in others /\ server[q].step \in {"empty", "fill"})
  <2>1. server'[q] = server[q]
    BY <1>3 DEF CrossServers
  <2> QED BY <1>1, <1>3, <2>1, ServerRests
<1> QED BY <1>2, <1>3

LEMMA ServersCrossed ==
    ASSUME RegistryInv, port' = port, server' = CrossServers(Servers)
    PROVE  ServersOK'
<1>1. \A q \in Servers : server'[q] \in ServerStates /\ ServerFits(q)'
  BY ServerCrossed
<1>2. server' \in [Servers -> ServerStates]
  BY <1>1 DEF CrossServers
<1> QED BY <1>1, <1>2 DEF ServersOK

LEMMA PlacesStay ==
    ASSUME RegistryInv, port' = port, running' \subseteq running, heirs' \subseteq heirs,
           listed' \in SUBSET Things, Started(listed'),
           torn' \in BOOLEAN, crashes' = crashes
    PROVE  PlacesOK'
BY DEF RegistryInv, PlacesOK, Started

\* A call moves and the machine stays as it is.
LEMMA HubMoves ==
    ASSUME RegistryInv, NEW th \in Threads, NEW new \in Calls,
           call' = [call EXCEPT ![th] = new],
           new.step \in {"clean", "empty", "fill"} => InLock(th) \/ Unlocked,
           port' = port, running' \subseteq running, heirs' = heirs, listed' = listed,
           torn' \in BOOLEAN, crashes' = crashes, server' = server,
           call'[th] = new => CallFits(th)'
    PROVE  RegistryInv'
<1>1. Grows
  BY DEF Grows
<1>2. call'[th] = new
  BY DEF RegistryInv, CallsOK
<1>3. PlacesOK'
  BY PlacesStay DEF RegistryInv, PlacesOK
<1> QED BY <1>1, <1>2, <1>3, CallMoves, ServersStay DEF RegistryInv, Grows

-----------------------------------------------------------------------------
(* Requests.                                                               *)

LEMMA BeginStep ==
    ASSUME RegistryInv, NEW th \in Threads, NEW op, NEW step, NEW things, NEW p,
           Begin(th, op, step, things, p), things \in SUBSET Things,
           \/ step = "load" /\ op \in {"list", "kill"} /\ things = {} /\ p \in Ports \cup {None}
           \/ step = "run" /\ op \in {"create", "clone"} /\ p \in Ports
           \/ step = "docker" /\ op = "stop" /\ p = None
    PROVE  RegistryInv'
<1> DEFINE new == [Idle EXCEPT !.op = op, !.step = step, !.things = things, !.port = p]
<1>1. /\ new \in Calls /\ new.op = op /\ new.step = step /\ new.things = things /\ new.port = p
      /\ new.rows = {} /\ new.unseen = {}
  BY DEF Idle, Calls, Steps
<1>2. call'[th] = new => CallFits(th)'
  BY <1>1, ServiceAssumption DEF CallFits, CallKeeps, Started, InLock
<1>3. torn \in BOOLEAN
  BY DEF RegistryInv, PlacesOK
<1> HIDE DEF new
<1> QED BY <1>1, <1>2, <1>3, HubMoves DEF Begin, new

LEMMA RequestsStep ==
    ASSUME RegistryInv, NEW th \in Threads, ServiceRequest(th) \/ SandboxRequest(th)
    PROVE  RegistryInv'
<1>1. CASE ServiceRequest(th)
  BY <1>1, BeginStep DEF ServiceRequest, List
<1>2. ASSUME NEW c \in Sandboxes, NEW op \in {"create", "clone"}, BeginCreate(th, c, op)
      PROVE  RegistryInv'
  <2>1. PICK p \in Picked : Begin(th, op, "run", {c}, p)
    BY <1>2 DEF BeginCreate
  <2> QED BY <2>1, BeginStep DEF Picked, Things
<1>3. ASSUME NEW named \in SUBSET Sandboxes, Begin(th, "stop", "docker", named, None)
      PROVE  RegistryInv'
  BY <1>3, BeginStep DEF Things
<1> QED BY <1>1, <1>2, <1>3 DEF SandboxRequest

LEMMA RunStep ==
    ASSUME RegistryInv, NEW th \in Threads, NEW c \in Sandboxes, RunContainer(th, c)
    PROVE  RegistryInv'
<1>0. /\ call[th] \in Calls /\ CallFits(th) /\ torn \in BOOLEAN /\ c \in Things /\ c \notin Servers
      /\ port \in [Things -> Ports \cup {None}]
  BY ServiceAssumption DEF RegistryInv, PlacesOK, CallsOK, Things
<1>1. CASE call' = [call EXCEPT ![th] = Idle] /\ UNCHANGED <<port, running>>
  <2>1. call'[th] = Idle => CallFits(th)'
    BY DEF CallFits, CallKeeps, Started, Idle, InLock
  <2> QED BY <1>0, <1>1, <2>1, IdleOK, HubMoves DEF RunContainer
<1>2. CASE ~(call' = [call EXCEPT ![th] = Idle] /\ UNCHANGED <<port, running>>)
  <2>1. /\ ~Busy(call[th].port) /\ port[c] = None /\ call[th].things = {c}
        /\ port' = [port EXCEPT ![c] = call[th].port]
        /\ running' = running \cup {c}
        /\ call[th].port \in Ports /\ call[th].unseen = {} /\ call[th].step = "run"
        /\ UNCHANGED <<heirs, listed, torn, server, crashes>>
    BY <1>0, <1>2 DEF RunContainer, CallFits, Calls
  <2>2. PICK new \in {Idle, [call[th] EXCEPT !.step = "load", !.port = None]} :
          /\ call' = [call EXCEPT ![th] = new]
          /\ new # Idle => call[th].op = "create"
    BY <1>2, <2>1 DEF RunContainer
  <2>3. /\ new \in Calls /\ new.step \in {"none", "load"} /\ new.unseen = {}
        /\ new.step = "load" => new.op = "create" /\ new.things = {c}
        /\ new.rows \in {{}, call[th].rows}
    <3>1. CASE new = Idle
      BY <3>1 DEF Idle, Calls, Steps
    <3>2. CASE new = [call[th] EXCEPT !.step = "load", !.port = None] /\ new # Idle
      BY <1>0, <2>1, <2>2, <3>2 DEF Calls, Steps
    <3> QED BY <2>2, <3>1, <3>2
  <2>4. call'[th] = new
    BY <2>2 DEF RegistryInv, CallsOK
  <2>5. /\ port' \in [Things -> Ports \cup {None}] /\ port'[c] # None
        /\ \A x \in Things : x # c => port'[x] = port[x]
    BY <1>0, <2>1, ServiceAssumption
  <2>6. Grows /\ c \notin listed
    BY <2>1, <2>5 DEF Grows, RegistryInv, PlacesOK, Started
  <2>7. PlacesOK'
    BY <1>0, <2>1, <2>5, <2>6 DEF RegistryInv, PlacesOK, Started, Busy, Things
  <2>8. CallFits(th)'
    <3>1. \A x \in call[th].rows : x \in Things /\ port'[x] # None
      BY <1>0, <2>5 DEF CallFits, Started, Calls
    <3> QED BY <2>3, <2>4, <2>5, <3>1 DEF CallFits, CallKeeps, Started, InLock
  <2>9. CallsOK'
    BY <2>2, <2>3, <2>6, <2>8, CallMoves DEF Grows
  <2>10. ServersOK'
    BY <1>0, <2>1, <2>5, <2>6, ServersStay DEF Things
  <2> QED BY <2>7, <2>9, <2>10 DEF RegistryInv
<1> QED BY <1>1, <1>2

LEMMA StopStep ==
    ASSUME RegistryInv, NEW th \in Threads, StopContainer(th)
    PROVE  RegistryInv'
<1> DEFINE new == [call[th] EXCEPT !.step = "load"]
<1>0. /\ call[th] \in Calls /\ CallFits(th) /\ torn \in BOOLEAN
  BY DEF RegistryInv, PlacesOK, CallsOK
<1>1. /\ new \in Calls /\ new.step = "load" /\ new.op = call[th].op
      /\ new.rows = call[th].rows /\ new.unseen = call[th].unseen /\ new.op = "stop"
  BY <1>0 DEF Calls, Steps, StopContainer, CallFits
<1>2. call'[th] = new => CallFits(th)'
  BY <1>0, <1>1 DEF CallFits, CallKeeps, Started, InLock, StopContainer
<1>3. call' = [call EXCEPT ![th] = new] /\ running' \subseteq running
  BY DEF StopContainer
<1> HIDE DEF new
<1> QED BY <1>0, <1>1, <1>2, <1>3, HubMoves DEF StopContainer

-----------------------------------------------------------------------------
(* In the lock.                                                            *)

LEMMA LoadStep ==
    ASSUME RegistryInv, NEW th \in Threads, Load(th)
    PROVE  RegistryInv'
<1> DEFINE after == AfterLoad(call[th].op, call[th].things, Loaded)
           new == [call[th] EXCEPT !.step = after.step, !.rows = after.rows, !.crossed = torn]
<1>0. /\ call[th] \in Calls /\ CallFits(th) /\ torn \in BOOLEAN /\ call[th].step = "load"
      /\ listed \subseteq Things /\ Started(listed)
  BY DEF RegistryInv, PlacesOK, CallsOK, Load
<1>1. /\ Loaded \subseteq listed /\ (~torn => Loaded = listed)
  BY <1>0 DEF Loaded
<1>2. /\ after.step \in {"clean", "empty"}
      /\ after.rows \subseteq Loaded \cup call[th].things
      /\ after.rows \subseteq Loaded \/ call[th].op = "create"
      /\ Loaded \subseteq after.rows \cup call[th].things
      /\ after.step = "clean" => call[th].op \in {"kill", "list"}
  BY <1>0 DEF AfterLoad, CallFits
<1> HIDE DEF after
<1>3. /\ new \in Calls /\ new.step = after.step /\ new.op = call[th].op
      /\ new.things = call[th].things /\ new.rows = after.rows /\ new.crossed = torn
      /\ new.unseen = call[th].unseen
  BY <1>0, <1>1, <1>2 DEF Calls, Steps
<1>4. call'[th] = new => CallFits(th)'
  BY <1>0, <1>1, <1>2, <1>3 DEF CallFits, CallKeeps, Started, InLock, Load
<1>5. call' = [call EXCEPT ![th] = new]
  BY DEF Load, after
<1> HIDE DEF new
<1> QED BY <1>0, <1>3, <1>4, <1>5, HubMoves DEF Load

LEMMA CleanStep ==
    ASSUME RegistryInv, NEW th \in Threads, Clean(th)
    PROVE  RegistryInv'
<1>0. /\ call[th] \in Calls /\ CallFits(th) /\ torn \in BOOLEAN /\ call[th].step = "clean"
  BY DEF RegistryInv, PlacesOK, CallsOK, Clean
<1>1. PICK unseen \in SUBSET (call[th].rows \cap Sandboxes \cap running) :
        LET alive == Cleaned(call[th].rows, unseen)
            hit == {x \in alive : port[x] = call[th].port}
        IN call' = [call EXCEPT ![th] =
              IF call[th].op = "kill" /\ hit = {} THEN ToTerminate(call[th])
              ELSE [call[th] EXCEPT !.step = "empty", !.things = hit,
                                    !.rows = alive \ hit, !.unseen = unseen]]
  BY DEF Clean
<1> DEFINE alive == Cleaned(call[th].rows, unseen)
           hit == {x \in alive : port[x] = call[th].port}
           new == [call[th] EXCEPT !.step = "empty", !.things = hit,
                                   !.rows = alive \ hit, !.unseen = unseen]
<1>2. CASE call[th].op = "kill" /\ hit = {}
  <2>1. call' = [call EXCEPT ![th] = ToTerminate(call[th])]
    BY <1>1, <1>2
  <2>2. call'[th] = ToTerminate(call[th]) => CallFits(th)'
    BY <1>0, TerminateOK DEF CallFits, CallKeeps, Started, InLock
  <2> QED BY <1>0, <2>1, <2>2, TerminateOK, HubMoves DEF Clean
<1>3. CASE ~(call[th].op = "kill" /\ hit = {})
  <2>1. call' = [call EXCEPT ![th] = new]
    BY <1>1, <1>3
  <2>2. /\ new \in Calls /\ new.step = "empty" /\ new.things = hit /\ new.rows = alive \ hit
        /\ new.unseen = unseen /\ new.crossed = call[th].crossed /\ new.op = call[th].op
    BY <1>0 DEF Calls, Steps, Cleaned
  <2>3. listed \cap running \subseteq call[th].rows \/ call[th].crossed
    BY <1>0 DEF CallFits, CallKeeps, InLock
  <2>4. \A x \in call[th].rows \cap running : x \in (alive \ hit) \cup hit \cup unseen
    BY DEF Cleaned
  <2>5. \A x \in alive : x \in call[th].rows
    BY DEF Cleaned
  <2> HIDE DEF new, alive, hit
  <2>6. call'[th] = new => CallFits(th)'
    BY <1>0, <2>2, <2>3, <2>4, <2>5 DEF CallFits, CallKeeps, Started, InLock, Clean
  <2>7. InLock(th)
    BY <1>0 DEF InLock
  <2> QED BY <1>0, <2>1, <2>2, <2>6, <2>7, HubMoves DEF Clean
<1> QED BY <1>2, <1>3

LEMMA FilledOK == ASSUME RegistryInv, Filled PROVE torn' \in BOOLEAN
BY DEF Filled

LEMMA EmptyStep ==
    ASSUME RegistryInv, NEW th \in Threads, Empty(th)
    PROVE  RegistryInv'
<1> DEFINE new == [call[th] EXCEPT !.step = "fill"]
<1>0. /\ call[th] \in Calls /\ CallFits(th) /\ call[th].step = "empty"
  BY DEF RegistryInv, CallsOK, Empty
<1>1. /\ new \in Calls /\ new.step = "fill" /\ new.op = call[th].op
      /\ new.things = call[th].things /\ new.rows = call[th].rows
      /\ new.crossed = call[th].crossed /\ new.unseen = call[th].unseen
  BY <1>0 DEF Calls, Steps
<1>2. call' = [call EXCEPT ![th] = new] /\ call'[th] = new
  BY DEF Empty, RegistryInv, CallsOK
<1> HIDE DEF new
<1>3. CallFits(th)'
  BY <1>0, <1>1, <1>2 DEF CallFits, CallKeeps, Started, InLock, Empty
<1>4. CallsOK'
  BY <1>0, <1>1, <1>2, <1>3, CallMoves DEF Empty, InLock
<1>5. ServersOK'
  BY ServersCrossed DEF Empty
<1>6. PlacesOK'
  BY PlacesStay DEF Empty, RegistryInv, PlacesOK
<1> QED BY <1>4, <1>5, <1>6 DEF RegistryInv

LEMMA FillStep ==
    ASSUME RegistryInv, NEW th \in Threads, Fill(th)
    PROVE  RegistryInv'
<1> DEFINE new == IF call[th].op = "kill" THEN ToTerminate(call[th]) ELSE Idle
<1>0. /\ call[th] \in Calls /\ CallFits(th) /\ call[th].step = "fill" /\ InLock(th)
  BY DEF RegistryInv, CallsOK, Fill, InLock
<1>1. new \in Calls /\ new.step \in {"none", "terminate"} /\ new.rows = {}
  BY <1>0, TerminateOK, IdleOK DEF Idle
<1>2. call' = [call EXCEPT ![th] = new] /\ call'[th] = new
  BY DEF Fill, RegistryInv, CallsOK
<1> HIDE DEF new
<1>3. CallFits(th)'
  BY <1>1, <1>2 DEF CallFits, CallKeeps, Started, InLock
<1>4. CallsOK'
  BY <1>0, <1>1, <1>2, <1>3, CallMoves DEF Fill
<1>5. ServersOK'
  BY ServersCrossed DEF Fill
<1>6. PlacesOK'
  <2>1. listed' \in SUBSET Things /\ Started(listed')
    BY <1>0 DEF Fill, Calls, CallFits
  <2> QED BY <2>1, FilledOK, PlacesStay DEF Fill
<1> QED BY <1>4, <1>5, <1>6 DEF RegistryInv

LEMMA EndingServers ==
    ASSUME RegistryInv, NEW things, Ending(things), things \subseteq running \cup heirs,
           UNCHANGED <<port, listed>>
    PROVE  ServersOK' /\ Grows /\ running' \subseteq running /\ heirs' \subseteq heirs
<1>0. server \in [Servers -> ServerStates] /\ Grows /\ running' \subseteq running /\ heirs' \subseteq heirs
  BY DEF RegistryInv, ServersOK, Grows, Ending
<1>1. ASSUME NEW q \in Servers PROVE server'[q] \in ServerStates /\ ServerFits(q)'
  <2>0. server[q] \in ServerStates /\ ServerFits(q)
    BY DEF RegistryInv, ServersOK
  <2>1. CASE q \in things
    <3>1. server'[q] = Gone /\ port'[q] # None
      BY <2>1 DEF Ending, RegistryInv, PlacesOK
    <3> QED BY <3>1 DEF Gone, NotStarted, ServerStates, ServerFits, Started
  <2>2. CASE q \notin things
    <3>1. server'[q] = server[q]
      BY <2>2 DEF Ending
    <3> QED BY <1>0, <2>0, <3>1, ServerRests DEF Grows
  <2> QED BY <2>1, <2>2
<1>2. server' \in [Servers -> ServerStates]
  BY <1>1 DEF Ending
<1> QED BY <1>0, <1>1, <1>2 DEF ServersOK

LEMMA TerminateStep ==
    ASSUME RegistryInv, NEW th \in Threads, Terminate(th)
    PROVE  RegistryInv'
<1>1. PICK row \in (IF call[th].things = {} THEN {None} ELSE call[th].things) :
        Ending(Victims(call[th].port, row))
  BY DEF Terminate
<1>2. Victims(call[th].port, row) \subseteq running \cup heirs
  BY DEF Victims
<1>3. ServersOK' /\ Grows /\ running' \subseteq running /\ heirs' \subseteq heirs
  BY <1>1, <1>2, EndingServers DEF Terminate
<1>4. call'[th] = Idle
  BY DEF Terminate, RegistryInv, CallsOK
<1>5. CallFits(th)'
  BY <1>4 DEF CallFits, CallKeeps, InLock, Started, Idle
<1>6. CallsOK'
  BY <1>3, <1>5, CallMoves, IdleOK DEF Terminate, Grows
<1>7. PlacesOK'
  BY <1>3, PlacesStay DEF Terminate, RegistryInv, PlacesOK
<1> QED BY <1>3, <1>6, <1>7 DEF RegistryInv

-----------------------------------------------------------------------------
(* Servers and the world.                                                  *)

LEMMA EndsStep ==
    ASSUME RegistryInv, NEW x \in Things, Ends(x)
    PROVE  RegistryInv'
<1>1. ServersOK' /\ Grows /\ running' \subseteq running /\ heirs' \subseteq heirs
  BY EndingServers DEF Ends
<1>2. CallsOK'
  BY <1>1, CallsStay DEF Ends
<1>3. PlacesOK'
  BY <1>1, PlacesStay DEF Ends, RegistryInv, PlacesOK
<1> QED BY <1>1, <1>2, <1>3 DEF RegistryInv

LEMMA WorldStep ==
    ASSUME RegistryInv, Crash \/ \E q \in Servers : PidReused(q)
    PROVE  RegistryInv'
<1>1. CASE Crash
  <2>1. \A th \in Threads : call'[th] = Idle
    BY <1>1 DEF Crash
  <2>2. CallsOK'
    BY <1>1, <2>1, IdleOK
       DEF Crash, CallsOK, InLock, CallFits, CallKeeps, Started, Idle
  <2>3. crashes' \in 0..MaxCrashes
    BY <1>1, ServiceAssumption DEF Crash, RegistryInv, PlacesOK
  <2>4. PlacesOK'
    BY <1>1, <2>3 DEF Crash, RegistryInv, PlacesOK, Started
  <2>5. ServersOK'
    BY <1>1, ServersStay DEF Crash, Grows
  <2> QED BY <2>2, <2>4, <2>5 DEF RegistryInv
<1>2. ASSUME NEW q \in Servers, PidReused(q) PROVE RegistryInv'
  <2>1. port[q] # None
    BY <1>2 DEF PidReused, RegistryInv, ServersOK, ServerFits
  <2>2. PlacesOK'
    BY <1>2, <2>1 DEF PidReused, RegistryInv, PlacesOK, Started
  <2>3. CallsOK' /\ ServersOK'
    BY <1>2, CallsStay, ServersStay DEF PidReused, Grows
  <2> QED BY <2>2, <2>3 DEF RegistryInv
<1> QED BY <1>1, <1>2

LEMMA StartServerStep ==
    ASSUME RegistryInv, NEW q \in Servers, StartServer(q)
    PROVE  RegistryInv'
<1>0. /\ server \in [Servers -> ServerStates] /\ server[q] \in ServerStates /\ ServerFits(q)
      /\ port \in [Things -> Ports \cup {None}] /\ q \in Things
  BY DEF RegistryInv, PlacesOK, ServersOK, Things
<1>1. port[q] = None
  BY <1>0 DEF StartServer, ServerFits
<1>2. PICK p \in Ports : ~Busy(p) /\ port' = [port EXCEPT ![q] = p]
  BY DEF StartServer
<1>3. /\ port' \in [Things -> Ports \cup {None}] /\ port'[q] = p /\ p # None
      /\ \A x \in Things : x # q => port'[x] = port[x]
  BY <1>0, <1>2, ServiceAssumption
<1>4. Grows /\ q \notin listed
  BY <1>1, <1>3 DEF Grows, RegistryInv, PlacesOK, Started, StartServer
<1>5. PlacesOK'
  BY <1>0, <1>2, <1>3, <1>4 DEF StartServer, RegistryInv, PlacesOK, Started, Busy, Things
<1>6. CallsOK'
  BY <1>4, CallsStay DEF StartServer
<1>7. ASSUME NEW other \in Servers PROVE server'[other] \in ServerStates /\ ServerFits(other)'
  <2>0. server[other] \in ServerStates /\ ServerFits(other) /\ other \in Things
    BY DEF RegistryInv, ServersOK, Things
  <2>1. CASE other = q
    <3>1. server'[q] = [server[q] EXCEPT !.step = "load"]
      BY <1>0 DEF StartServer
    <3>2. server'[q] \in ServerStates /\ server'[q].step = "load" /\ server'[q].rows = server[q].rows
      BY <1>0, <3>1 DEF ServerStates
    <3>3. \A x \in server[q].rows : x \in Things /\ port'[x] # None
      BY <1>0, <1>3 DEF ServerFits, Started, ServerStates
    <3> QED BY <1>3, <2>1, <3>2, <3>3 DEF ServerFits, Started
  <2>2. CASE other # q
    <3>1. server'[other] = server[other] /\ port'[other] = port[other]
      BY <1>0, <1>3, <2>0, <2>2 DEF StartServer
    <3> QED BY <1>4, <2>0, <3>1, ServerRests DEF Grows
  <2> QED BY <2>1, <2>2
<1>8. server' \in [Servers -> ServerStates]
  BY <1>0, <1>7 DEF StartServer
<1> QED BY <1>5, <1>6, <1>7, <1>8 DEF RegistryInv, ServersOK

\* A server moves on to a state of its own; the others rest or are crossed.
LEMMA ServerMoves ==
    ASSUME RegistryInv, port' = port, NEW q \in Servers, NEW new \in ServerStates,
           server'[q] = new, new.step # "none", Started(new.rows), port[q] # None,
           new.step \in {"empty", "fill"} /\ ~new.crossed =>
               listed' \cap running' \subseteq new.rows,
           server' \in [Servers -> ServerStates],
           \A other \in Servers \ {q} : ServerFits(other)'
    PROVE  ServersOK'
<1>1. ServerFits(q)'
  BY DEF ServerFits, Started
<1> QED BY <1>1 DEF ServersOK

LEMMA RegisterStep ==
    ASSUME RegistryInv, NEW q \in Servers, Register(q)
    PROVE  RegistryInv'
<1>0. /\ server \in [Servers -> ServerStates] /\ server[q] \in ServerStates /\ ServerFits(q)
      /\ listed \subseteq Things /\ Started(listed) /\ torn \in BOOLEAN /\ q \in Things
  BY DEF RegistryInv, PlacesOK, ServersOK, Things
<1>1. port[q] # None
  BY <1>0 DEF Register, ServerLoads, ServerEmpties, ServerFills, ServerFits
<1>2. CASE ServerLoads(q)
  <2> DEFINE new == [step |-> "empty", rows |-> Loaded \cup {q}, crossed |-> torn]
  <2>1. /\ new \in ServerStates /\ Started(new.rows) /\ new.crossed = torn
        /\ (~torn => listed \subseteq new.rows) /\ new.step # "none"
    BY <1>0, <1>1 DEF Loaded, ServerStates, Started
  <2>2. server' = [server EXCEPT ![q] = new] /\ server'[q] = new
    BY <1>0, <1>2 DEF ServerLoads
  <2> HIDE DEF new
  <2>3. ASSUME NEW other \in Servers \ {q} PROVE ServerFits(other)'
    <3>1. server[other] \in ServerStates /\ ServerFits(other) /\ server'[other] = server[other]
      BY <2>2 DEF RegistryInv, ServersOK
    <3> QED BY <1>2, <3>1, ServerRests DEF ServerLoads
  <2>4. server' \in [Servers -> ServerStates]
    BY <1>0, <2>1, <2>2
  <2>5. ServersOK'
    BY <1>1, <1>2, <2>1, <2>2, <2>3, <2>4, ServerMoves DEF ServerLoads
  <2>6. PlacesOK' /\ CallsOK'
    BY <1>0, <1>2, PlacesStay, CallsStay DEF ServerLoads, Grows
  <2> QED BY <2>5, <2>6 DEF RegistryInv
<1>3. CASE ServerEmpties(q) \/ ServerFills(q)
  <2> DEFINE others == Servers \ {q}
             new == IF server[q].step = "fill" THEN Serving ELSE [server[q] EXCEPT !.step = "fill"]
  <2>1. /\ server' = [CrossServers(others) EXCEPT ![q] = new]
        /\ call' = Cross(call) /\ UNCHANGED <<port, running, heirs, crashes>>
        /\ torn' \in BOOLEAN
        /\ server[q].step = "fill" => listed' = server[q].rows
        /\ server[q].step # "fill" => listed' = listed
    <3>1. CASE ServerEmpties(q)
      <4>1. [CrossServers(others) EXCEPT ![q].step = "fill"]
               = [CrossServers(others) EXCEPT ![q] = [server[q] EXCEPT !.step = "fill"]]
        BY <1>0 DEF CrossServers
      <4> QED BY <3>1, <4>1 DEF ServerEmpties
    <3>2. CASE ServerFills(q)
      BY <3>2, FilledOK DEF ServerFills
    <3> QED BY <1>3, <3>1, <3>2
  <2>2. /\ new \in ServerStates /\ new.step \in {"fill", "serve"} /\ Started(new.rows)
        /\ new.step = "fill" => /\ new.rows = server[q].rows /\ new.crossed = server[q].crossed
                               /\ server[q].step = "empty" /\ listed' = listed
    <3>1. CASE server[q].step = "fill"
      BY <3>1 DEF Serving, NotStarted, ServerStates, Started
    <3>2. CASE server[q].step # "fill"
      <4>1. server[q].step = "empty"
        BY <1>3, <3>2 DEF ServerEmpties, ServerFills
      <4> QED BY <1>0, <2>1, <3>2, <4>1 DEF ServerStates, ServerFits
    <3> QED BY <3>1, <3>2
  <2>3. server'[q] = new /\ \A other \in others : server'[other] = CrossServers(others)[other]
    BY <2>1 DEF CrossServers
  <2> HIDE DEF new
  <2>4. \A other \in others : server'[other] \in ServerStates /\ ServerFits(other)'
    BY <2>1, <2>3, ServerCrossed
  <2>5. server' \in [Servers -> ServerStates]
    BY <2>1, <2>2, <2>3, <2>4 DEF CrossServers
  <2>6. new.step \in {"empty", "fill"} /\ ~new.crossed =>
          listed' \cap running' \subseteq new.rows
    BY <1>0, <2>1, <2>2 DEF ServerFits
  <2>7. ServersOK'
    BY <1>1, <2>1, <2>2, <2>3, <2>4, <2>5, <2>6, ServerMoves
  <2>8. listed' \in SUBSET Things /\ Started(listed')
    BY <1>0, <2>1 DEF ServerFits, ServerStates
  <2>9. PlacesOK' /\ CallsOK'
    BY <2>1, <2>8, PlacesStay, CallsCrossed
  <2> QED BY <2>7, <2>9 DEF RegistryInv
<1> QED BY <1>2, <1>3 DEF Register

LEMMA RegistryStep == RegistryInv /\ [Next]_vars => RegistryInv'
<1> SUFFICES ASSUME RegistryInv, [Next]_vars PROVE RegistryInv'
  OBVIOUS
<1>1. CASE UNCHANGED vars
  <2>1. CallsOK' /\ ServersOK'
    BY <1>1, CallsStay, ServersStay DEF vars, Grows
  <2>2. PlacesOK'
    BY <1>1 DEF vars, RegistryInv, PlacesOK, Started
  <2> QED BY <2>1, <2>2 DEF RegistryInv
<1>2. ASSUME NEW th \in Threads, Work(th) PROVE RegistryInv'
  BY <1>2, RunStep, StopStep, LoadStep, CleanStep, EmptyStep, FillStep, TerminateStep DEF Work
<1> QED BY <1>1, <1>2, RequestsStep, StartServerStep, RegisterStep, EndsStep, WorldStep DEF Next

-----------------------------------------------------------------------------

\* Types, for any machine: whatever is picked, run and ended in whatever order, a port
\* is taken by one thing at a time and SERVICE_LOCK by one call (sandbox.py, services.py).
THEOREM ServiceTypeCorrect == Spec => []TypeOK
BY RegistryInit, RegistryStep, TypesIn, PTL DEF Spec

\* The hub's own calls never lose each other's rows: what runs and is listed goes only
\* with a stop of its own, a docker that did not answer about it, or a write that crossed
\* a writer without the lock (_load_service_registry to _save_service_registry).
THEOREM RowsStay == Spec => RunningStaysListed
<1>1. RegistryInv /\ [Next]_vars =>
        [\A x \in listed \cap running : x \notin listed' =>
           \/ \E th \in Threads : /\ Saves(th)
                                  /\ x \in call[th].things \cup call[th].unseen \/ call[th].crossed
           \/ \E q \in Servers : ServerSaves(q) /\ server[q].crossed]_vars
  <2> SUFFICES ASSUME RegistryInv, Next, NEW x \in listed \cap running, x \notin listed'
               PROVE  \/ \E th \in Threads :
                            /\ Saves(th)
                            /\ x \in call[th].things \cup call[th].unseen \/ call[th].crossed
                      \/ \E q \in Servers : ServerSaves(q) /\ server[q].crossed
    OBVIOUS
  <2>1. ASSUME NEW th \in Threads, Fill(th)
        PROVE  Saves(th) /\ (x \in call[th].things \cup call[th].unseen \/ call[th].crossed)
    <3>1. call[th] \in Calls /\ CallFits(th) /\ call[th].step = "fill"
      BY <2>1 DEF RegistryInv, CallsOK, Fill
    <3>2. call'[th].step # "fill"
      BY <2>1, <3>1, TerminateOK, IdleOK DEF Fill, RegistryInv, CallsOK
    <3>3. Saves(th)
      BY <2>1, <3>1, <3>2 DEF Saves, Fill
    <3> QED BY <2>1, <3>1, <3>3 DEF Fill, CallFits, CallKeeps, InLock
  <2>2. ASSUME NEW q \in Servers, ServerFills(q) PROVE ServerSaves(q) /\ server[q].crossed
    <3>1. ServerFits(q) /\ server[q] \in ServerStates /\ server[q].step = "fill"
      BY <2>2 DEF RegistryInv, ServersOK, ServerFills
    <3>2. server'[q] = Serving
      BY <2>2 DEF ServerFills, CrossServers
    <3> QED BY <2>2, <3>1, <3>2
            DEF ServerFills, ServerSaves, ServerFits, ServerStates, Serving, NotStarted
  <2>3. \/ \E th \in Threads : Fill(th)
        \/ \E q \in Servers : ServerFills(q)
    BY DEF Next, Work, Register, ServiceRequest, SandboxRequest, List, Begin, BeginCreate,
           RunContainer, StopContainer, Load, Clean, Empty, Terminate, StartServer,
           ServerLoads, ServerEmpties, PidReused, Ends, Crash
  <2> QED BY <2>1, <2>2, <2>3
<1> QED BY RegistryInit, RegistryStep, <1>1, PTL DEF Spec, RunningStaysListed

LEMMA AtMostOne ==
    ASSUME NEW set, \A x, y \in set : x = y
    PROVE  Cardinality(set) <= 1
<1>1. CASE set = {}
  BY <1>1, FS_EmptySet
<1>2. CASE set # {}
  <2>1. PICK x \in set : set = {x}
    BY <1>2
  <2> QED BY <2>1, FS_Singleton
<1> QED BY <1>1, <1>2

\* What a call cleans with: what it finds of a port is one row, heirs aside.
LEMMA CleanFinds ==
    ASSUME RegistryInv, NEW th \in Threads, Clean(th)
    PROVE  \A x, y \in call'[th].things \ heirs : x = y
<1>0. /\ call \in [Threads -> Calls] /\ call[th] \in Calls /\ CallFits(th) /\ call[th].step = "clean"
      /\ \A x, y \in running : port[x] = port[y] => x = y
  BY DEF RegistryInv, PlacesOK, CallsOK, Clean
<1>1. PICK unseen \in SUBSET (call[th].rows \cap Sandboxes \cap running) :
        LET alive == Cleaned(call[th].rows, unseen)
            hit == {x \in alive : port[x] = call[th].port}
        IN call' = [call EXCEPT ![th] =
              IF call[th].op = "kill" /\ hit = {} THEN ToTerminate(call[th])
              ELSE [call[th] EXCEPT !.step = "empty", !.things = hit,
                                    !.rows = alive \ hit, !.unseen = unseen]]
  BY DEF Clean
<1> DEFINE hit == {x \in Cleaned(call[th].rows, unseen) : port[x] = call[th].port}
<1>2. call'[th].things \in {{}, hit}
  <2>1. CASE call[th].op = "kill" /\ hit = {}
    <3>1. call'[th] = ToTerminate(call[th])
      BY <1>0, <1>1, <2>1
    <3>2. ToTerminate(call[th]).things = call[th].things
      BY <1>0, TerminateOK
    <3> QED BY <1>0, <3>1, <3>2 DEF CallFits
  <2>2. CASE ~(call[th].op = "kill" /\ hit = {})
    <3>1. call'[th] = [call[th] EXCEPT !.step = "empty", !.things = hit,
                          !.rows = Cleaned(call[th].rows, unseen) \ hit, !.unseen = unseen]
      BY <1>0, <1>1, <2>2
    <3> HIDE DEF hit
    <3> QED BY <1>0, <3>1 DEF Calls
  <2> QED BY <2>1, <2>2
<1>3. \A x \in hit \ heirs : x \in running /\ port[x] = call[th].port
  BY DEF Cleaned
<1> HIDE DEF hit
<1> QED BY <1>0, <1>2, <1>3

\* A stop by port drops the row of one service: a cleaned list has no port twice, rows
\* of reused pids aside (_kill_service_by_port).
THEOREM OneRowPerPort == Spec => OnePortOneRow
<1>1. RegistryInv /\ [Next]_vars =>
        [\A th \in Threads : call[th].step = "clean" /\ call'[th].op = "kill" =>
            Cardinality(call'[th].things \ heirs) <= 1]_vars
  <2> SUFFICES ASSUME RegistryInv, Next, NEW th \in Threads, call[th].step = "clean",
                      call'[th].op = "kill"
               PROVE  Cardinality(call'[th].things \ heirs) <= 1
    OBVIOUS
  <2>0. call \in [Threads -> Calls] /\ call[th] \in Calls /\ call[th].things = {}
    BY DEF RegistryInv, CallsOK, CallFits
  <2>1. CASE Clean(th)
    BY <2>1, CleanFinds, AtMostOne
  <2>2. ASSUME ~Clean(th) PROVE call'[th].things = {}
    <3>1. ASSUME NEW other \in Threads, ServiceRequest(other) \/ SandboxRequest(other) \/ Work(other)
          PROVE  call'[th].things = {}
      <4>1. other # th
        <5>1. call[th] # Idle
          BY DEF Idle
        <5> QED BY <2>2, <3>1, <5>1
                DEF ServiceRequest, SandboxRequest, Work, List, Begin, BeginCreate,
                    RunContainer, StopContainer, Load, Empty, Fill, Terminate
      <4>2. call'[th] = call[th]
        BY <2>0, <3>1, <4>1
           DEF ServiceRequest, SandboxRequest, Work, List, Begin, BeginCreate,
               RunContainer, StopContainer, Load, Clean, Empty, Fill, Terminate
      <4> QED BY <2>0, <4>2
    <3>2. ASSUME NEW q \in Servers, StartServer(q) \/ Register(q) \/ PidReused(q)
          PROVE  call'[th].things = {}
      <4>1. call'[th] = call[th] \/ call'[th] = [call[th] EXCEPT !.crossed = TRUE]
        BY <3>2 DEF StartServer, Register, PidReused, ServerLoads, ServerEmpties, ServerFills, Cross
      <4> QED BY <2>0, <4>1 DEF Calls
    <3>3. CASE Crash \/ \E x \in Things : Ends(x)
      <4>1. CASE Crash
        BY <4>1 DEF Crash, Idle
      <4>2. CASE \E x \in Things : Ends(x)
        BY <2>0, <4>2 DEF Ends
      <4> QED BY <3>3, <4>1, <4>2
    <3> QED BY <3>1, <3>2, <3>3 DEF Next
  <2>3. {} \ heirs = {} /\ Cardinality({}) = 0
    BY FS_EmptySet
  <2> QED BY <2>1, <2>2, <2>3
<1> QED BY RegistryInit, RegistryStep, <1>1, PTL DEF Spec, OnePortOneRow

-----------------------------------------------------------------------------
(* What a stop by port ends.                                               *)

\* The rows a stop by port has found are of things that were started on its port.
Aims(th) ==
    LET c == call[th] IN
    /\ c.step = "terminate" => c.op = "kill"
    /\ c.op = "kill" /\ c.step \in {"empty", "fill", "terminate"} =>
          \A x \in c.things : port[x] # None /\ port[x] = c.port

AimInv == RegistryInv /\ \A th \in Threads : Aims(th)

\* A thing is started once, and its port is its own from then on.
LEMMA PortsStay ==
    ASSUME RegistryInv, [Next]_vars, NEW x \in Things, port[x] # None
    PROVE  port'[x] = port[x]
<1>1. ASSUME NEW th \in Threads, NEW c \in Sandboxes, RunContainer(th, c)
      PROVE  port'[x] = port[x]
  <2>1. port' = port \/ (port[c] = None /\ \E p : port' = [port EXCEPT ![c] = p])
    BY <1>1, Zenon DEF RunContainer
  <2>2. port \in [Things -> Ports \cup {None}]
    BY DEF RegistryInv, PlacesOK
  <2> QED BY <2>1, <2>2
<1>2. ASSUME NEW q \in Servers, StartServer(q) PROVE port'[x] = port[x]
  <2>1. port[q] = None
    BY <1>2 DEF StartServer, RegistryInv, ServersOK, ServerFits
  <2> QED BY <1>2, <2>1 DEF StartServer
<1>3. CASE port' = port
  BY <1>3
<1>4. \/ port' = port
      \/ \E th \in Threads, c \in Sandboxes : RunContainer(th, c)
      \/ \E q \in Servers : StartServer(q)
  BY DEF Next, vars, ServiceRequest, SandboxRequest, List, Begin, BeginCreate, Work, StopContainer,
         Load, Clean, Empty, Fill, Terminate, Register, ServerLoads, ServerEmpties,
         ServerFills, PidReused, Ends, Crash
<1> QED BY <1>1, <1>2, <1>3, <1>4

\* A call that keeps what it has found, or has found nothing, aims as before.
LEMMA AimsOn ==
    ASSUME AimInv, [Next]_vars, NEW th \in Threads,
           call'[th].step = "terminate" => call'[th].op = "kill",
           \/ /\ call'[th].step \in {"empty", "fill", "terminate"}
                     => call[th].step \in {"empty", "fill", "terminate"}
              /\ call'[th].things = call[th].things /\ call'[th].port = call[th].port
              /\ call'[th].op = call[th].op
           \/ call'[th].step \notin {"empty", "fill", "terminate"}
           \/ call'[th].op # "kill"
           \/ call'[th].things = {}
    PROVE  Aims(th)'
<1>1. call[th].things \subseteq Things /\ Aims(th)
  BY DEF AimInv, RegistryInv, CallsOK, Calls
<1>2. \A x \in call[th].things : port[x] # None => port'[x] = port[x]
  BY <1>1, PortsStay DEF AimInv
<1> QED BY <1>1, <1>2 DEF Aims

LEMMA CleanAims ==
    ASSUME AimInv, [Next]_vars, NEW th \in Threads, Clean(th)
    PROVE  Aims(th)'
<1>0. /\ call \in [Threads -> Calls] /\ call[th] \in Calls /\ CallFits(th) /\ call[th].step = "clean"
  BY DEF AimInv, RegistryInv, CallsOK, Clean
<1>1. PICK unseen \in SUBSET (call[th].rows \cap Sandboxes \cap running) :
        LET alive == Cleaned(call[th].rows, unseen)
            hit == {x \in alive : port[x] = call[th].port}
        IN call' = [call EXCEPT ![th] =
              IF call[th].op = "kill" /\ hit = {} THEN ToTerminate(call[th])
              ELSE [call[th] EXCEPT !.step = "empty", !.things = hit,
                                    !.rows = alive \ hit, !.unseen = unseen]]
  BY DEF Clean
<1> DEFINE alive == Cleaned(call[th].rows, unseen)
           hit == {x \in alive : port[x] = call[th].port}
<1>2. CASE call[th].op = "kill" /\ hit = {}
  <2>1. call'[th] = ToTerminate(call[th])
    BY <1>0, <1>1, <1>2
  <2>2. call'[th].things = {} /\ call'[th].op = "kill"
    BY <1>0, <1>2, <2>1, TerminateOK DEF CallFits, ToTerminate, Idle
  <2> QED BY <2>2, AimsOn
<1>3. CASE ~(call[th].op = "kill" /\ hit = {})
  <2>1. call'[th] = [call[th] EXCEPT !.step = "empty", !.things = hit, !.rows = alive \ hit,
                                     !.unseen = unseen]
    BY <1>0, <1>1, <1>3
  <2>2. port' = port
    BY DEF Clean
  <2>3. \A x \in hit : port[x] # None /\ port[x] = call[th].port
    BY <1>0 DEF Cleaned, CallFits, Started
  <2> HIDE DEF alive, hit
  <2>4. call'[th].things = hit /\ call'[th].port = call[th].port /\ call'[th].step = "empty"
    BY <1>0, <2>1 DEF Calls
  <2> QED BY <2>2, <2>3, <2>4 DEF Aims
<1> QED BY <1>2, <1>3

\* The other steps of a call, by the same thread.
LEMMA WorkAims ==
    ASSUME AimInv, [Next]_vars, NEW th \in Threads,
           ServiceRequest(th) \/ SandboxRequest(th) \/ Work(th)
    PROVE  Aims(th)'
<1>0. call \in [Threads -> Calls] /\ call[th] \in Calls /\ CallFits(th)
  BY DEF AimInv, RegistryInv, CallsOK
<1>1. ASSUME NEW op, NEW step, NEW things, NEW p, Begin(th, op, step, things, p),
             step \in {"load", "run", "docker"}
      PROVE  Aims(th)'
  <2>1. call'[th].step = step
    BY <1>0, <1>1 DEF Begin, Idle
  <2> QED BY <1>1, <2>1, AimsOn
<1>2. CASE ServiceRequest(th) \/ SandboxRequest(th)
  BY <1>1, <1>2 DEF ServiceRequest, SandboxRequest, List, BeginCreate
<1>3. CASE (\E c \in Sandboxes : RunContainer(th, c)) \/ StopContainer(th)
  <2>1. PICK new \in {Idle, [call[th] EXCEPT !.step = "load", !.port = None],
                      [call[th] EXCEPT !.step = "load"]} : call' = [call EXCEPT ![th] = new]
    BY <1>3 DEF RunContainer, StopContainer
  <2>2. call'[th] = new
    BY <1>0, <2>1
  <2>3. new.step \in {"none", "load"}
    <3>1. CASE new = Idle
      BY <3>1 DEF Idle
    <3>2. CASE new = [call[th] EXCEPT !.step = "load", !.port = None]
      BY <1>0, <3>2 DEF Calls
    <3>3. CASE new = [call[th] EXCEPT !.step = "load"]
      BY <1>0, <3>3 DEF Calls
    <3> QED BY <3>1, <3>2, <3>3
  <2> QED BY <2>2, <2>3, AimsOn
<1>4. CASE Load(th)
  <2> DEFINE after == AfterLoad(call[th].op, call[th].things, Loaded)
  <2>1. call'[th] = [call[th] EXCEPT !.step = after.step, !.rows = after.rows, !.crossed = torn]
    BY <1>0, <1>4 DEF Load
  <2>2. after.step # "terminate" /\ (call[th].op = "kill" => after.step = "clean")
    BY DEF AfterLoad
  <2> HIDE DEF after
  <2>3. call'[th].step = after.step /\ call'[th].op = call[th].op
    BY <1>0, <2>1 DEF Calls
  <2> QED BY <2>2, <2>3, AimsOn
<1>5. CASE Empty(th)
  <2>1. call'[th] = [call[th] EXCEPT !.step = "fill"] /\ call[th].step = "empty"
    BY <1>0, <1>5 DEF Empty
  <2>2. /\ call'[th].things = call[th].things /\ call'[th].port = call[th].port
        /\ call'[th].op = call[th].op /\ call'[th].step = "fill"
    BY <1>0, <2>1 DEF Calls
  <2> QED BY <2>1, <2>2, AimsOn
<1>6. CASE Fill(th)
  <2>1. /\ call'[th] = IF call[th].op = "kill" THEN ToTerminate(call[th]) ELSE Idle
        /\ call[th].step = "fill"
    BY <1>0, <1>6 DEF Fill
  <2>2. CASE call[th].op = "kill"
    <3>1. call'[th].things = call[th].things /\ call'[th].port = call[th].port /\ call'[th].op = call[th].op
      BY <1>0, <2>1, <2>2 DEF ToTerminate, Idle, Calls
    <3> QED BY <2>1, <2>2, <3>1, AimsOn
  <2>3. CASE call[th].op # "kill"
    BY <2>1, <2>3, AimsOn DEF Idle
  <2> QED BY <2>2, <2>3
<1>7. CASE Terminate(th)
  BY <1>0, <1>7, AimsOn DEF Terminate, Idle
<1> QED BY <1>2, <1>3, <1>4, <1>5, <1>6, <1>7, CleanAims DEF Work

LEMMA AimStep == AimInv /\ [Next]_vars => AimInv'
<1> SUFFICES ASSUME AimInv, [Next]_vars PROVE AimInv'
  OBVIOUS
<1>1. RegistryInv'
  BY RegistryStep DEF AimInv
<1>2. call \in [Threads -> Calls]
  BY DEF AimInv, RegistryInv, CallsOK
\* A thread that rests keeps its call, crossed or not, or loses it to a crash.
<1>3. ASSUME NEW th \in Threads,
             \/ call'[th] = call[th] \/ call'[th] = [call[th] EXCEPT !.crossed = TRUE]
             \/ call'[th] = Idle
      PROVE  Aims(th)'
  <2>1. CASE call'[th] = Idle
    BY <2>1, AimsOn DEF Idle
  <2>2. CASE call'[th] # Idle
    <3>1. /\ call'[th].things = call[th].things /\ call'[th].port = call[th].port
          /\ call'[th].op = call[th].op /\ call'[th].step = call[th].step
      BY <1>2, <1>3, <2>2 DEF Calls
    <3> QED BY <3>1, AimsOn DEF AimInv, Aims
  <2> QED BY <2>1, <2>2
<1>4. ASSUME NEW th \in Threads, NEW other \in Threads,
             ServiceRequest(other) \/ SandboxRequest(other) \/ Work(other)
      PROVE  Aims(th)'
  <2>1. CASE other = th
    BY <1>4, <2>1, WorkAims
  <2>2. CASE other # th
    <3>1. call'[th] = call[th]
      BY <1>2, <1>4, <2>2
         DEF ServiceRequest, SandboxRequest, Work, List, Begin, BeginCreate,
             RunContainer, StopContainer, Load, Clean, Empty, Fill, Terminate
    <3> QED BY <1>3, <3>1
  <2> QED BY <2>1, <2>2
<1>5. ASSUME NEW th \in Threads, NEW q \in Servers, StartServer(q) \/ Register(q) \/ PidReused(q)
      PROVE  Aims(th)'
  <2>1. call'[th] = call[th] \/ call'[th] = [call[th] EXCEPT !.crossed = TRUE]
    BY <1>5 DEF StartServer, Register, PidReused, ServerLoads, ServerEmpties, ServerFills, Cross
  <2> QED BY <1>3, <2>1
<1>6. ASSUME NEW th \in Threads, Crash \/ (\E x \in Things : Ends(x)) \/ UNCHANGED vars
      PROVE  Aims(th)'
  BY <1>3, <1>6 DEF Crash, Ends, vars
<1>7. \A th \in Threads : Aims(th)'
  BY <1>4, <1>5, <1>6 DEF Next
<1> QED BY <1>1, <1>7 DEF AimInv

\* A stop by port ends, of all services, only one of that port, reused pids aside: what
\* it found is of the port for good, and if that has ended it ends whoever listens there
\* now (_kill_service_by_port).
THEOREM StopsAreAimed == Spec => StopsStayOnTheirPort
<1>1. Init => AimInv
  BY RegistryInit DEF AimInv, Aims, Init, Idle
<1>2. AimInv /\ [Next]_vars =>
        [\A th \in Threads : call[th].step = "terminate" /\ call'[th] = Idle =>
            \A x \in running \ running' : x \in Servers /\ port[x] = call[th].port]_vars
  <2> SUFFICES ASSUME AimInv, Next, NEW th \in Threads, call[th].step = "terminate",
                      call'[th] = Idle, NEW x \in running \ running'
               PROVE  x \in Servers /\ port[x] = call[th].port
    OBVIOUS
  <2>0. /\ call \in [Threads -> Calls] /\ call[th] \in Calls /\ CallFits(th) /\ Aims(th)
        /\ call[th] # Idle
    BY DEF AimInv, RegistryInv, CallsOK, Idle
  <2>1. Terminate(th)
    <3>1. ASSUME NEW other \in Threads, other # th,
                 ServiceRequest(other) \/ SandboxRequest(other) \/ Work(other)
          PROVE  FALSE
      <4>1. call'[th] = call[th]
        BY <2>0, <3>1
           DEF ServiceRequest, SandboxRequest, Work, List, Begin, BeginCreate,
               RunContainer, StopContainer, Load, Clean, Empty, Fill, Terminate
      <4> QED BY <2>0, <4>1
    <3>2. ~(ServiceRequest(th) \/ SandboxRequest(th))
      BY <2>0 DEF ServiceRequest, SandboxRequest, List, Begin, BeginCreate
    <3>3. Work(th) => Terminate(th)
      BY DEF Work, RunContainer, StopContainer, Load, Clean, Empty, Fill
    <3>4. ~\E q \in Servers : StartServer(q) \/ Register(q) \/ PidReused(q)
      <4>1. ASSUME NEW q \in Servers, StartServer(q) \/ Register(q) \/ PidReused(q) PROVE FALSE
        <5>1. running \subseteq running'
          BY <4>1 DEF StartServer, Register, PidReused, ServerLoads, ServerEmpties, ServerFills
        <5> QED BY <5>1
      <4> QED BY <4>1
    <3>5. ~(Crash \/ \E y \in Things : Ends(y))
      BY <2>0 DEF Crash, Ends
    <3> QED BY <3>1, <3>2, <3>3, <3>4, <3>5 DEF Next
  <2>2. PICK row \in (IF call[th].things = {} THEN {None} ELSE call[th].things) :
          running' = running \ Victims(call[th].port, row)
    BY <2>1 DEF Terminate, Ending
  <2>3. CASE row \in Servers \cap (running \cup heirs) /\ call[th].things # {}
    <3>1. x = row /\ row \in call[th].things
      BY <2>2, <2>3 DEF Victims
    <3> QED BY <2>0, <2>3, <3>1 DEF Aims
  <2>4. CASE ~(row \in Servers \cap (running \cup heirs))
    BY <2>2, <2>4 DEF Victims
  <2>5. call[th].things = {} => row \notin Servers
    BY <2>2, ServiceAssumption
  <2> QED BY <2>3, <2>4, <2>5
<1> QED BY <1>1, <1>2, AimStep, PTL DEF Spec, StopsStayOnTheirPort

=============================================================================
