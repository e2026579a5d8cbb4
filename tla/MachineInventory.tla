---------------------------- MODULE MachineInventory ----------------------------
(***************************************************************************)
(* machines.json of the control hub (main.py, storage.py): the profiles of *)
(* machines a page starts with, several of which may name one machine.     *)
(*                                                                         *)
(* Every change loads, changes and saves the file under SERVERS_LOCK.  A   *)
(* save empties the file before it fills it, and readers do not take the   *)
(* lock.                                                                   *)
(***************************************************************************)
EXTENDS Naturals, FiniteSets, SequencesExt

CONSTANTS
    Names,        \* names of profiles
    Hosts,        \* addresses of machines
    LocalHosts,   \* those of the machine the control hub runs on
    Sessions,     \* names of tmux sessions
    Extends,      \* pairs <<s, t>> of sessions: the name s begins with the name t
    Bootstrap,    \* the profiles there are at first
    Threads,      \* threads of the control hub's server
    MaxRequests,  \* bound: requests of clients, and what users do to sessions
    None          \* an absent value

ASSUME InventoryAssumption ==
    /\ LocalHosts \subseteq Hosts
    /\ Extends \subseteq Sessions \X Sessions
    /\ None \notin Names \cup Hosts \cup Sessions
    /\ MaxRequests \in Nat

VARIABLES
    machines,   \* the profiles of the last save that was finished
    torn,       \* a save has emptied the file: it does not parse
    live,       \* the tmux sessions of the control hub's machine
    call,       \* the request in each thread
    requests    \* requests so far

inventoryVars == <<machines, torn, live, call, requests>>

\* session: where the Terminal panel leads, None without such a panel.
Profiles == [name : Names, host : Hosts, session : Sessions \cup {None}]

Distinct(rows) == \A i, j \in DOMAIN rows : rows[i].name = rows[j].name => i = j

ASSUME BootstrapAssumption == Bootstrap \in Seq(Profiles) /\ Distinct(Bootstrap)

\* rows: what the call will save.  about: the profiles it is about.  kills: the
\* session it may kill.
Idle == [step |-> "none", rows |-> <<>>, about |-> {}, kills |-> None]

InLock(th) == call[th].step # "none"

Calls == [step : {"none", "kill", "empty", "fill"}, rows : Seq(Profiles),
          about : SUBSET Names, kills : Sessions \cup {None}]

\* Types: what is saved has each name once; SERVERS_LOCK is held by one call.
InventoryTypeOK ==
    /\ machines \in Seq(Profiles) /\ Distinct(machines) /\ torn \in BOOLEAN
    /\ live \subseteq Sessions /\ requests \in 0..MaxRequests
    /\ call \in [Threads -> Calls]
    /\ \A th \in Threads : Distinct(call[th].rows)
    /\ \A th, other \in Threads : InLock(th) /\ InLock(other) => th = other

InventoryInit ==
    /\ machines = Bootstrap /\ torn = FALSE
    /\ live \in SUBSET Sessions
    /\ call = [th \in Threads |-> Idle]
    /\ requests = 0

-----------------------------------------------------------------------------

Request == requests < MaxRequests /\ requests' = requests + 1

HasName(rows, name) == \E i \in DOMAIN rows : rows[i].name = name
IndexOf(rows, name) == CHOOSE i \in DOMAIN rows : rows[i].name = name

HostsOf(rows) == {rows[i].host : i \in DOMAIN rows}

\* Mutant: a call does not wait for SERVERS_LOCK.
NotLocked == TRUE

Unlocked == \A th \in Threads : ~InLock(th)

\* The call loads the file, under the lock; one that does not parse ends it (500).
Change(th, step, rows, about, kills) ==
    /\ Request /\ Unlocked /\ ~torn /\ ~InLock(th)
    /\ call' = [call EXCEPT ![th] =
                   [step |-> step, rows |-> rows, about |-> about, kills |-> kills]]
    /\ UNCHANGED <<machines, torn, live>>

-----------------------------------------------------------------------------
(* /tab and /remote.                                                       *)

Given(value, old) == IF value = None THEN old ELSE value

\* add_or_update_tab: a session is given when the tab is called Terminal.  A new
\* profile needs an address.
TabRows(name, host, session) ==
    LET i == IndexOf(machines, name) IN
    IF HasName(machines, name)
    THEN [machines EXCEPT ![i] =
             [@ EXCEPT !.host = Given(host, machines[i].host),
                       !.session = Given(session, machines[i].session)]]
    ELSE Append(machines, [name |-> name, host |-> host, session |-> session])

AddOrUpdateTab(th) ==
    \E name \in Names, host \in Hosts \cup {None}, session \in Sessions \cup {None} :
        /\ HasName(machines, name) \/ host # None
        /\ Change(th, "empty", TabRows(name, host, session), {name}, None)

\* _set_terminal_session: the panels called Terminal, if there are any.
WithSession(row, session) ==
    IF row.session = None THEN row ELSE [row EXCEPT !.session = Given(session, @)]

\* A new profile has copies of its base's panels and comes first unless it is told not to.
NewRemote(th) ==
    \E name \in Names, host \in Hosts, session \in Sessions \cup {None},
       base \in Names \cup {None}, bottom \in BOOLEAN :
        LET copied == IF base = None THEN None
                      ELSE machines[IndexOf(machines, base)].session
            row == WithSession([name |-> name, host |-> host, session |-> copied], session)
        IN /\ ~HasName(machines, name)
           /\ base # None => HasName(machines, base)
           /\ Change(th, "empty",
                     IF bottom THEN Append(machines, row) ELSE <<row>> \o machines,
                     {name}, None)

\* Mutant: a profile is put into its new place without being taken from the old one.
PlacedTwice(rows, i, position) ==
    CASE position = "top" -> <<rows[i]>> \o rows
      [] position = "bottom" -> Append(rows, rows[i])
      [] OTHER -> rows

Placed(rows, i, position) ==
    CASE position = "top" -> <<rows[i]>> \o RemoveAt(rows, i)
      [] position = "bottom" -> Append(RemoveAt(rows, i), rows[i])
      [] OTHER -> rows

ChangeRemote(th) ==
    \E i \in DOMAIN machines, host \in Hosts \cup {None}, session \in Sessions \cup {None},
       position \in {"top", "bottom", None} :
        LET row == [WithSession(machines[i], session) EXCEPT !.host = Given(host, @)]
        IN Change(th, "empty", Placed([machines EXCEPT ![i] = row], i, position),
                  {row.name}, None)

Local(row) == row.host \in LocalHosts

\* Mutant: remove_kill does not look for other profiles of the session.
NoneShared(rows, session) == TRUE

\* remove_kill leaves a session alone that another profile of this machine uses.
Unshared(rows, session) ==
    \A i \in DOMAIN rows : Local(rows[i]) => rows[i].session # session

RemoveRemote(th) ==
    \E i \in DOMAIN machines, kill \in BOOLEAN :
        LET removed == machines[i]
            rows == RemoveAt(machines, i)
            kills == kill /\ removed.session # None /\ Local(removed)
                     /\ Unshared(rows, removed.session)
        IN Change(th, IF kills THEN "kill" ELSE "empty", rows, {removed.name},
                  IF kills THEN removed.session ELSE None)

\* reorder_remotes: as many names as there are, and the same.
ReorderRemotes(th) ==
    \E order \in [DOMAIN machines -> Names] :
        LET Row(name) == machines[IndexOf(machines, name)] IN
        /\ {order[i] : i \in DOMAIN order} = {machines[i].name : i \in DOMAIN machines}
        /\ Change(th, "empty", [i \in DOMAIN order |-> Row(order[i])], {}, None)

-----------------------------------------------------------------------------
(* The rest of a call.                                                     *)

\* `tmux kill-session -t` ends the session of that name, else the only one whose name
\* begins with it.
Longer(session) == {s \in live : <<s, session>> \in Extends}

Target(session) ==
    IF session \in live THEN {session}
    ELSE IF Cardinality(Longer(session)) = 1 THEN Longer(session) ELSE {}

Kill(th) ==
    /\ call[th].step = "kill"
    /\ live' = live \ Target(call[th].kills)
    /\ call' = [call EXCEPT ![th].step = "empty"]
    /\ UNCHANGED <<machines, torn, requests>>

\* _save_machine_inventory: write_text empties the file, then fills it.
Empty(th) ==
    /\ call[th].step = "empty"
    /\ torn' = TRUE
    /\ call' = [call EXCEPT ![th].step = "fill"]
    /\ UNCHANGED <<machines, live, requests>>

Fill(th) ==
    /\ call[th].step = "fill"
    /\ machines' = call[th].rows /\ torn' = FALSE
    /\ call' = [call EXCEPT ![th] = Idle]
    /\ UNCHANGED <<live, requests>>

\* A user ends a session, or opens one.
SessionChanges ==
    /\ Request
    /\ \E s \in Sessions : live' = IF s \in live THEN live \ {s} ELSE live \cup {s}
    /\ UNCHANGED <<machines, torn, call>>

InventoryCall(th) ==
    \/ AddOrUpdateTab(th) \/ NewRemote(th) \/ ChangeRemote(th)
    \/ RemoveRemote(th) \/ ReorderRemotes(th)
    \/ Kill(th) \/ Empty(th) \/ Fill(th)

-----------------------------------------------------------------------------

Inventory == INSTANCE ProfileList WITH
    list <- machines,
    asked <- [th \in Threads |-> [open |-> InLock(th), about |-> call[th].about]],
    Callers <- Threads

\* However calls interleave with each other, with readers and with the death of the hub,
\* a save does to the list of the last save the one thing its request asks for, to the
\* profile it names: no save undoes another (manage_remote, add_or_update_tab,
\* reorder_remotes).
ImplementsProfileList == Inventory!Spec

\* "session still used by other profiles": a removal ends no session that a profile of
\* this machine names and that stays in the list, except one that merely has the
\* longer name when the session meant is gone.
KillsSpareProfiles ==
    [][\A th \in Threads : call[th].step = "kill" /\ call'[th].step = "empty" =>
          \A s \in live \ live' :
              \/ <<s, call[th].kills>> \in Extends
              \/ \A row \in ToSet(machines) :
                    Local(row) /\ row.session = s => row.name \in call[th].about]_inventoryVars

=============================================================================
