-------------------------------- MODULE Gateway --------------------------------
(***************************************************************************)
(* The public gateway (gateway.py, gateway_auth.py): a process of its own  *)
(* beside the control hub that passes a browser's connections on to the    *)
(* machines of machines.json and sessions.json.  It reads both files anew  *)
(* for each connection, without the hub's locks, and takes a file that     *)
(* does not parse for an empty one.                                        *)
(*                                                                         *)
(* A connection stands for a websocket; an HTTP request goes the same way  *)
(* as far as the machine.                                                  *)
(***************************************************************************)
EXTENDS MachineInventory

CONSTANTS
    Connections,   \* connections of browsers
    SessionHosts,  \* the machines of the workspaces there are at first
    Tailnet        \* the hosts that are addresses of the tailnet, 100.64.0.0/10

ASSUME GatewayAssumption == SessionHosts \subseteq Hosts /\ Tailnet \subseteq Hosts

VARIABLES
    sessionHosts,   \* the machines that sessions.json names
    sessionsTorn,   \* a save has emptied sessions.json
    saving,         \* what the save under SESSIONS_LOCK will write there
    conn            \* the connections

gatewayVars == <<sessionHosts, sessionsTorn, saving, conn>>

\* found: the first file has the host.  For the properties: inMachines and inSessions,
\* the host has been in that file ever since the request came; seen, it was in one of
\* them at some moment; missed, a file did not parse when it was read.
Conns ==
    [step : {"none", "auth", "machines", "sessions", "connect", "accept", "open", "closing",
             "closed", "refused", "denied", "failed"},
     host : Hosts \cup {None}, found : BOOLEAN, client : BOOLEAN, upstream : BOOLEAN,
     inMachines : BOOLEAN, inSessions : BOOLEAN, seen : BOOLEAN, missed : BOOLEAN]

NoConn ==
    [step |-> "none", host |-> None, found |-> FALSE, client |-> FALSE, upstream |-> FALSE,
     inMachines |-> FALSE, inSessions |-> FALSE, seen |-> FALSE, missed |-> FALSE]

GatewayTypeOK ==
    /\ sessionHosts \subseteq Hosts /\ sessionsTorn \in BOOLEAN
    /\ saving \in (SUBSET Hosts) \cup {None}
    /\ conn \in [Connections -> Conns]

GatewayInit ==
    /\ sessionHosts = SessionHosts /\ sessionsTorn = FALSE /\ saving = None
    /\ conn = [c \in Connections |-> NoConn]

-----------------------------------------------------------------------------
(* sessions.json, as far as the gateway reads it.                          *)

\* _save_control_sessions: a file that does not parse ends the call before its save.
EmptySessions ==
    /\ Request /\ saving = None /\ ~sessionsTorn
    /\ \E hosts \in SUBSET Hosts : saving' = hosts
    /\ sessionsTorn' = TRUE
    /\ UNCHANGED <<sessionHosts, conn, machines, torn, live, call>>

FillSessions ==
    /\ saving # None
    /\ sessionHosts' = saving /\ sessionsTorn' = FALSE /\ saving' = None

\* What changes in the files while a connection is being made.
Underway(c) == conn[c].step \in {"auth", "machines", "sessions"}

Watched ==
    conn' = [c \in Connections |->
        IF ~Underway(c) THEN conn[c]
        ELSE LET inM == conn[c].host \in HostsOf(machines')
                 inS == conn[c].host \in sessionHosts'
             IN [conn[c] EXCEPT !.inMachines = @ /\ inM, !.inSessions = @ /\ inS,
                                !.seen = @ \/ inM \/ inS]]

-----------------------------------------------------------------------------
(* A connection.                                                           *)

Connect(c, h) ==
    LET inM == h \in HostsOf(machines)
        inS == h \in sessionHosts
    IN /\ Request /\ conn[c] = NoConn
       /\ conn' = [conn EXCEPT ![c] =
              [NoConn EXCEPT !.step = "auth", !.host = h, !.client = TRUE,
                             !.inMachines = inM, !.inSessions = inS, !.seen = inM \/ inS]]
       /\ UNCHANGED <<machines, torn, live, call, sessionHosts, sessionsTorn, saving>>

Moves(c, state) ==
    /\ conn' = [conn EXCEPT ![c] = state]
    /\ UNCHANGED <<inventoryVars, sessionHosts, sessionsTorn, saving>>

To(c, step) == Moves(c, [conn[c] EXCEPT !.step = step])

\* authorized, in a thread of its own: it may fetch keys, and every failure denies.
Authorized(c) ==
    /\ conn[c].step = "auth"
    /\ To(c, "machines") \/ Moves(c, [conn[c] EXCEPT !.step = "refused", !.client = FALSE])

\* Mutant: a file is read whatever is in it.
Trusting(rows, spoilt) == Hosts

\* load_inventory: a file that does not parse is skipped, and of a file's hosts only those
\* that are addresses of the tailnet count.
Readable(rows, spoilt) == IF spoilt THEN {} ELSE rows \cap Tailnet

\* load_inventory reads machines.json first ...
ReadMachines(c) ==
    /\ conn[c].step = "machines"
    /\ Moves(c, [conn[c] EXCEPT !.step = "sessions", !.missed = torn,
                    !.found = @ \/ conn[c].host \in Readable(HostsOf(machines), torn)])

\* Mutant: workspaces' machines do not count.
MachinesOnly(c) == conn[c].found

\* ... and admits a host that is in either file.
Admitted(c) == conn[c].found \/ conn[c].host \in Readable(sessionHosts, sessionsTorn)

ReadSessions(c) ==
    /\ conn[c].step = "sessions"
    /\ IF Admitted(c) THEN To(c, "connect")
       ELSE Moves(c, [conn[c] EXCEPT !.step = "denied", !.client = FALSE,
                                     !.missed = @ \/ sessionsTorn])

\* websockets.connect fails, or gives up after 10 s.
Reach(c) ==
    /\ conn[c].step = "connect"
    /\ \/ Moves(c, [conn[c] EXCEPT !.step = "accept", !.upstream = TRUE])
       \/ Moves(c, [conn[c] EXCEPT !.step = "failed", !.client = FALSE])

\* websocket.accept fails when the browser has gone meanwhile: ws_proxy has yet to come to
\* its `try`, and leaves the machine's side open.
Accept(c) ==
    /\ conn[c].step = "accept"
    /\ \/ To(c, "open")
       \/ Moves(c, [conn[c] EXCEPT !.step = "failed", !.client = FALSE])

\* The browser or the machine goes away.
Leaves(c) ==
    /\ conn[c].step = "open"
    /\ \/ conn[c].client /\ Moves(c, [conn[c] EXCEPT !.client = FALSE])
       \/ conn[c].upstream /\ Moves(c, [conn[c] EXCEPT !.upstream = FALSE])

\* Mutant: the gateway waits for both directions to end.
BothEnded(c) == ~conn[c].client /\ ~conn[c].upstream

\* asyncio.wait(FIRST_COMPLETED): one direction of the two has ended.
Ended(c) == ~conn[c].client \/ ~conn[c].upstream

\* ws_proxy's `finally` closes the machine's side, then the browser's.
CloseUpstream(c) ==
    /\ conn[c].step = "open" /\ Ended(c)
    /\ Moves(c, [conn[c] EXCEPT !.step = "closing", !.upstream = FALSE])

CloseClient(c) ==
    /\ conn[c].step = "closing"
    /\ Moves(c, [conn[c] EXCEPT !.step = "closed", !.client = FALSE])

Proxy(c) ==
    Authorized(c) \/ ReadMachines(c) \/ ReadSessions(c) \/ Reach(c) \/ Accept(c)
    \/ CloseUpstream(c) \/ CloseClient(c)

-----------------------------------------------------------------------------

\* "gateway.py only proxies to tailnet IPs listed in machines.json / sessions.json": a
\* connection is taken further only to an address of the tailnet, and to none that neither
\* file has had since the connection came.
OnlyListedMachines ==
    \A c \in Connections :
        conn[c].step \in {"connect", "accept", "open", "closing", "closed", "failed"} =>
            conn[c].seen /\ conn[c].host \in Tailnet

\* An address of the tailnet that one of the files has had all along is turned away only
\* if a file was read in the moment of its save, or after a save that was never finished.
ListedMachinesGetIn ==
    \A c \in Connections : conn[c].step = "denied" /\ conn[c].host \in Tailnet =>
        conn[c].missed \/ ~(conn[c].inMachines \/ conn[c].inSessions)

\* When one side of an open connection goes away, the other is closed in the end.
BothSidesClose ==
    \A c \in Connections :
        conn[c].step = "open" /\ (~conn[c].client \/ ~conn[c].upstream) ~>
            ~conn[c].client /\ ~conn[c].upstream

=============================================================================
