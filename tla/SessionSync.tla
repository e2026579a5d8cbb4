----------------------------- MODULE SessionSync -----------------------------
(***************************************************************************)
(* The workspace list (sessions.json): the control hub's /sessions         *)
(* endpoints (main.py, storage.py), the pages that view and edit the list  *)
(* (static/app.js), agents that add and remove tabs, and rr-init.          *)
(*                                                                         *)
(* The hub serves each call under SESSIONS_LOCK: one action.  A page is    *)
(* single threaded, but every await lets its user, its timer and its poll  *)
(* run: a request and the handling of its answer are separate actions.     *)
(* The version of a list is a hash of its content, so here a version is    *)
(* the list itself: equal content has equal version, however it came to be.*)
(***************************************************************************)
EXTENDS Naturals, FiniteSets

CONSTANTS
    Pages,        \* browser pages showing the list
    Names,        \* workspace names
    Tabs,         \* tabs agents add to workspaces
    Order,        \* the key of a list's order
    UserOps,      \* what users do: see UserOp
    Careful,      \* users act only while no request of their page is under way,
                  \* and give new workspaces names nobody uses
    MaxMark,      \* bound: edits by users (each has its own mark)
    MaxTabOps,    \* bound: changes of tabs by agents
    MaxLosses,    \* bound: requests or answers the network loses
    MaxReloads,   \* bound: page reloads
    MayLoadOffline, \* a reload may fail to get /sessions and use the cache
    RunsInit,     \* somebody runs rr-init
    None          \* an absent value

ASSUME SyncAssumption ==
    /\ Order \notin Names
    /\ None \notin Names
    /\ Careful \in BOOLEAN /\ MayLoadOffline \in BOOLEAN /\ RunsInit \in BOOLEAN
    /\ MaxMark \in Nat /\ MaxTabOps \in Nat /\ MaxLosses \in Nat /\ MaxReloads \in Nat

VARIABLES
    server,   \* sessions.json
    page,     \* state of each page's script
    orphans,  \* saves of pages that are gone, still on their way (keepalive)
    rrInit,   \* the list rr-init has read and not yet written, or None
    marks, tabOps, losses, reloads,   \* counters of the bounds
    touched,  \* history: keys the page's user changed since it last adopted
    unsent    \* history: keys the page's user changed and no save delivered yet

vars == <<server, page, orphans, rrInit, marks, tabOps, losses, reloads, touched, unsent>>
world == <<orphans, rrInit, marks, tabOps, losses, reloads>>

-----------------------------------------------------------------------------
(* Lists.  A workspace is what its users set (a mark) and its tabs; the    *)
(* order of the list is a key of its own, with a mark and no tabs.         *)

Keys == Names \cup {Order}
Rows == [mark : Nat, tabs : SUBSET Tabs]
Lists == [Keys -> Rows \cup {None}]

ASSUME NoneIsNoRow == None \notin Rows

NewRow(mark) == [mark |-> mark, tabs |-> {}]

\* What users set under a key of a list: tabs are left aside.
SetByUser(list, key) == IF list[key] = None THEN None ELSE list[key].mark

\* Mutant: the user's edits of existing workspaces are forgotten.
RebaseServerWins(local, remote, dirty, deleted) ==
    [k \in Keys |-> IF k = Order THEN local[k]
                    ELSE IF k \in deleted THEN None
                    ELSE IF remote[k] = None THEN local[k] ELSE remote[k]]

\* Mutant: the page's list wins for every workspace it has.
RebaseLocalWins(local, remote, dirty, deleted) ==
    [k \in Keys |-> IF k = Order THEN local[k]
                    ELSE IF k \in deleted THEN None
                    ELSE IF local[k] # None THEN local[k] ELSE remote[k]]

\* rebaseOntoServer: the local order; nothing the user deleted; local content
\* of workspaces the user edited or the server lacks; server content otherwise.
Rebase(local, remote, dirty, deleted) ==
    [k \in Keys |-> IF k = Order THEN local[k]
                    ELSE IF k \in deleted THEN None
                    ELSE IF local[k] # None /\ (remote[k] = None \/ k \in dirty)
                    THEN local[k] ELSE remote[k]]

-----------------------------------------------------------------------------
(* Pages.                                                                  *)

NoPut == [stage |-> "none", body |-> None, base |-> None, retries |-> 0, reply |-> None]
NoGet == [stage |-> "none", reply |-> None]

FreshPage(list, version) ==
    [list |-> list, version |-> version, deleted |-> {}, dirty |-> {},
     unsaved |-> FALSE, timer |-> FALSE, put |-> NoPut, get |-> NoGet,
     closing |-> None, killing |-> None, cache |-> list, late |-> FALSE]

InFlight(b) == page[b].put.stage # "none"
Polling(b) == page[b].get.stage # "none"

MaybeLists == Lists \cup {None}

Puts == [stage : {"none", "sent", "ok", "conflict"}, body : MaybeLists,
         base : MaybeLists, retries : 0..2, reply : MaybeLists]
Gets == [stage : {"none", "sent", "answered"}, reply : MaybeLists]

\* closing, killing: the tab, the workspace the page is just removing.  late, for the
\* properties: a deletion came into the list while a request of the page was under way.
PageRecords ==
    [list : Lists, version : MaybeLists, deleted : SUBSET Names, dirty : SUBSET Names,
     unsaved : BOOLEAN, timer : BOOLEAN, put : Puts, get : Gets,
     closing : (Names \X Tabs) \cup {None}, killing : Names \cup {None}, cache : Lists,
     late : BOOLEAN]

\* A save or an answer under way carries a list; a save is retried at most twice.
Carries(p) ==
    /\ p.put.stage # "none" => p.put.body \in Lists
    /\ p.put.stage \in {"ok", "conflict"} => p.put.reply \in Lists
    /\ p.get.stage = "answered" => p.get.reply \in Lists

TypeOK ==
    /\ server \in Lists
    /\ page \in [Pages -> PageRecords]
    /\ \A b \in Pages : Carries(page[b])
    /\ orphans \subseteq {put \in Puts : put.body \in Lists}
    /\ rrInit \in MaybeLists
    /\ marks \in Nat /\ tabOps \in Nat /\ losses \in Nat /\ reloads \in Nat
    /\ touched \in [Pages -> SUBSET Keys]
    /\ unsent \in [Pages -> SUBSET Keys]

\* The hub starts with every workspace but one name nobody uses yet.
Init ==
    /\ \E spare \in Names :
          server = [k \in Keys |-> IF k = spare THEN None ELSE NewRow(0)]
    /\ page = [b \in Pages |-> FreshPage(server, server)]
    /\ orphans = {} /\ rrInit = None
    /\ marks = 0 /\ tabOps = 0 /\ losses = 0 /\ reloads = 0
    /\ touched = [b \in Pages |-> {}]
    /\ unsent = [b \in Pages |-> {}]

-----------------------------------------------------------------------------
(* The user of page b.  saveProfiles caches the list, marks it unsaved and *)
(* (re)starts the 150 ms timer.                                            *)

SaveProfiles(p, list) == [p EXCEPT !.list = list, !.cache = list,
                                   !.unsaved = TRUE, !.timer = TRUE]

Acts(b, op) ==
    /\ op \in UserOps
    /\ Careful => /\ ~InFlight(b) /\ ~Polling(b)
                  /\ page[b].closing = None /\ page[b].killing = None

Changed(b, keys) ==
    /\ touched' = [touched EXCEPT ![b] = @ \cup keys]
    /\ unsent' = [unsent EXCEPT ![b] = @ \cup keys]

\* savePanelEditor.
Edit(b, n) ==
    /\ Acts(b, "edit") /\ page[b].list[n] # None /\ marks < MaxMark
    /\ marks' = marks + 1
    /\ page' = [page EXCEPT ![b] =
          [SaveProfiles(page[b], [page[b].list EXCEPT ![n].mark = marks + 1])
              EXCEPT !.dirty = page[b].dirty \cup {n}]]
    /\ Changed(b, {n})
    /\ UNCHANGED <<server, orphans, rrInit, tabOps, losses, reloads>>

\* No list in the hub, in a page or on its way has a workspace n, and no page
\* still has to delete one.
Unused(n) ==
    /\ server[n] = None
    /\ rrInit # None => rrInit[n] = None
    /\ \A put \in orphans : put.body[n] = None
    /\ \A b \in Pages :
          /\ page[b].list[n] = None /\ n \notin page[b].deleted /\ n # page[b].killing
          /\ InFlight(b) => page[b].put.body[n] = None
          /\ page[b].put.stage \in {"ok", "conflict"} => page[b].put.reply[n] = None
          /\ page[b].get.stage = "answered" => page[b].get.reply[n] = None

\* submitAddModal.  A careful user takes a name nobody uses.
Create(b, n) ==
    /\ Acts(b, "create") /\ page[b].list[n] = None /\ marks < MaxMark
    /\ Careful => Unused(n)
    /\ marks' = marks + 1
    /\ page' = [page EXCEPT ![b] =
          SaveProfiles(page[b], [page[b].list EXCEPT ![n] = NewRow(marks + 1)])]
    /\ Changed(b, {n})
    /\ UNCHANGED <<server, orphans, rrInit, tabOps, losses, reloads>>

\* deleteSessionAndKill first asks the hub to kill the tmux session and tells the user
\* what came of it ...
BeginDelete(b, n) ==
    /\ Acts(b, "delete") /\ page[b].killing = None /\ page[b].list[n] # None
    /\ marks < MaxMark /\ marks' = marks + 1
    /\ page' = [page EXCEPT ![b].killing = n]
    /\ UNCHANGED <<server, orphans, rrInit, tabOps, losses, reloads, touched, unsent>>

\* ... and then, in any case, drops the workspace: a save or a poll that the page's
\* timers have started since may be under way, whatever the user waited for.
EndDelete(b) ==
    LET n == page[b].killing IN
    /\ n # None
    /\ page' = [page EXCEPT ![b] =
          [SaveProfiles(page[b], [page[b].list EXCEPT ![n] = None])
              EXCEPT !.deleted = @ \cup {n}, !.killing = None,
                     !.late = @ \/ InFlight(b) \/ Polling(b)]]
    /\ Changed(b, {n})
    /\ UNCHANGED <<server, world>>

\* The Delete button of the panel editor: the deletion is not recorded.
PanelDelete(b, n) ==
    /\ Acts(b, "panelDelete") /\ page[b].list[n] # None /\ marks < MaxMark
    /\ marks' = marks + 1
    /\ page' = [page EXCEPT ![b] =
          SaveProfiles(page[b], [page[b].list EXCEPT ![n] = None])]
    /\ Changed(b, {n})
    /\ UNCHANGED <<server, orphans, rrInit, tabOps, losses, reloads>>

\* One order of the list and another.
Swapped(order) == IF order = NewRow(0) THEN NewRow(1) ELSE NewRow(0)

\* moveServerTo.
Reorder(b) ==
    /\ Acts(b, "reorder") /\ marks < MaxMark
    /\ marks' = marks + 1
    /\ page' = [page EXCEPT ![b] =
          SaveProfiles(page[b], [page[b].list EXCEPT ![Order] = Swapped(@)])]
    /\ Changed(b, {Order})
    /\ UNCHANGED <<server, orphans, rrInit, tabOps, losses, reloads>>

\* closeTab first asks the hub to delete the tab (a call that may be lost or
\* answered with 404) ...
CloseTab(b, n, tab) ==
    /\ Acts(b, "closeTab") /\ page[b].closing = None
    /\ page[b].list[n] # None /\ tab \in page[b].list[n].tabs
    /\ marks < MaxMark /\ marks' = marks + 1
    /\ \/ /\ server' = IF server[n] = None THEN server
                       ELSE [server EXCEPT ![n].tabs = @ \ {tab}]
          /\ UNCHANGED losses
       \/ losses < MaxLosses /\ losses' = losses + 1 /\ UNCHANGED server
    /\ page' = [page EXCEPT ![b].closing = <<n, tab>>]
    /\ UNCHANGED <<orphans, rrInit, tabOps, reloads, touched, unsent>>

\* ... and then drops it from the page's list, which is not saved.
CloseTabEnds(b) ==
    /\ page[b].closing # None
    /\ LET n == page[b].closing[1]
           tab == page[b].closing[2]
           without == [page[b].list EXCEPT ![n].tabs = @ \ {tab}]
       IN IF page[b].list[n] = None
          THEN page' = [page EXCEPT ![b].closing = None] /\ UNCHANGED touched
          ELSE /\ page' = [page EXCEPT ![b] =
                     [page[b] EXCEPT !.list = without, !.cache = without,
                         !.dirty = page[b].dirty \cup {n}, !.closing = None]]
               /\ touched' = [touched EXCEPT ![b] = @ \cup {n}]
    /\ UNCHANGED <<server, world, unsent>>

-----------------------------------------------------------------------------
(* The page's script: debounced saves, their answers, and the poll.        *)

PutOf(p, retries) ==
    [stage |-> "sent", body |-> p.list, base |-> p.version, retries |-> retries,
     reply |-> None]

\* Mutant: the page keeps the version it had.
AcknowledgeKeepingVersion(p) ==
    [p EXCEPT !.deleted = {}, !.dirty = {}, !.unsaved = FALSE, !.cache = p.list, !.put = NoPut]

Acknowledge(p) ==
    [p EXCEPT !.version = p.put.reply, !.deleted = {}, !.dirty = {}, !.unsaved = FALSE,
              !.cache = p.list, !.put = NoPut]

\* The timer of queueSessionSaveToControl.  flushSessionsToControl does nothing
\* while another save is in flight.
TimerFires(b) ==
    /\ page[b].timer
    /\ page' = [page EXCEPT ![b].timer = FALSE,
                            ![b].put = IF InFlight(b) THEN page[b].put ELSE PutOf(page[b], 2)]
    /\ UNCHANGED <<server, world, touched, unsent>>

\* putSessionsToControl, answer 200.
PutAccepted(b) ==
    /\ page[b].put.stage = "ok"
    /\ page' = [page EXCEPT ![b] = Acknowledge(page[b])]
    /\ UNCHANGED <<server, world, touched, unsent>>

\* Mutant: the page keeps the version it had.
RebasedKeepingVersion(p) ==
    [p EXCEPT !.list = Rebase(@, p.put.reply, p.dirty, p.deleted)]

\* The page's list brought onto the list in the answer, whose version it takes.
Rebased(p) ==
    [p EXCEPT !.list = Rebase(@, p.put.reply, p.dirty, p.deleted),
              !.version = p.put.reply]

\* Mutant: one retry too many.
MayRetryAgain(put) == put.retries >= 0

MayRetry(put) == put.retries > 0

\* Mutant: giving up counts as saved.
GiveUpClean(p) == [p EXCEPT !.put = NoPut, !.unsaved = FALSE]

\* Conflicts exhausted: the edits stay unsaved, the poll will try again.
GiveUp(p) == [p EXCEPT !.put = NoPut]

\* putSessionsToControl, answer 409: rebase and retry, at most twice.
PutRejected(b) ==
    /\ page[b].put.stage = "conflict"
    /\ LET p == page[b] IN
       page' = [page EXCEPT ![b] =
           IF MayRetry(p.put)
           THEN [Rebased(p) EXCEPT !.put = PutOf(Rebased(p), p.put.retries - 1)]
           ELSE GiveUp(p)]
    /\ UNCHANGED <<server, world, touched, unsent>>

\* The 4 s poll: skipped while a save is pending, and a retry of a failed save.
\* (Bound: a page has one GET under way at a time.)
Poll(b) ==
    /\ ~page[b].timer /\ ~InFlight(b)
    /\ \/ /\ page[b].unsaved
          /\ page' = [page EXCEPT ![b].put = PutOf(page[b], 2)]
       \/ /\ ~page[b].unsaved /\ ~Polling(b)
          /\ page' = [page EXCEPT ![b].get.stage = "sent"]
    /\ UNCHANGED <<server, world, touched, unsent>>

\* The poll's answer: adopt the list unless its version is the page's own.
GetAnswered(b) ==
    /\ page[b].get.stage = "answered"
    /\ LET list == page[b].get.reply IN
       IF list = page[b].version
       THEN page' = [page EXCEPT ![b].get = NoGet] /\ UNCHANGED <<touched, unsent>>
       ELSE /\ page' = [page EXCEPT ![b] =
                  [page[b] EXCEPT !.list = list, !.cache = list, !.version = list,
                                  !.get = NoGet]]
            /\ touched' = [touched EXCEPT ![b] = IF InFlight(b) THEN @ ELSE {}]
            /\ UNCHANGED unsent
    /\ UNCHANGED <<server, world>>

\* The page is reloaded.  A save in flight, or one the pagehide handler flushes,
\* still reaches the hub; the new page loads the list, or its cache with no
\* version when only that request fails.
Reload(b) ==
    /\ reloads < MaxReloads /\ reloads' = reloads + 1
    /\ orphans' = orphans
          \cup (IF page[b].put.stage = "sent" THEN {page[b].put} ELSE {})
          \cup (IF page[b].timer /\ ~InFlight(b) THEN {PutOf(page[b], 0)} ELSE {})
    /\ \/ page' = [page EXCEPT ![b] = FreshPage(server, server)]
       \/ MayLoadOffline /\ page' = [page EXCEPT ![b] = FreshPage(page[b].cache, None)]
    /\ touched' = [touched EXCEPT ![b] = {}]
    /\ unsent' = [unsent EXCEPT ![b] = {}]
    /\ UNCHANGED <<server, rrInit, marks, tabOps, losses>>

-----------------------------------------------------------------------------
(* The hub.                                                                *)

\* Mutant: the version check is missing.
AlwaysAcceptable(put) == TRUE

\* replace_sessions: a write based on another version is refused; a write that
\* names no version is not checked.
Acceptable(put) == put.base \in {None, server}

ServePut(b) ==
    /\ page[b].put.stage = "sent"
    /\ LET put == page[b].put IN
       IF Acceptable(put)
       THEN /\ server' = put.body
            /\ page' = [page EXCEPT ![b].put =
                  [put EXCEPT !.stage = "ok", !.reply = put.body]]
            /\ unsent' = [unsent EXCEPT ![b] =
                  {k \in @ : SetByUser(put.body, k) # SetByUser(page[b].list, k)}]
       ELSE /\ page' = [page EXCEPT ![b].put =
                  [put EXCEPT !.stage = "conflict", !.reply = server]]
            /\ UNCHANGED <<server, unsent>>
    /\ UNCHANGED <<world, touched>>

ServeOrphan(put) ==
    /\ put \in orphans
    /\ orphans' = orphans \ {put}
    /\ server' = IF Acceptable(put) THEN put.body ELSE server
    /\ UNCHANGED <<page, rrInit, marks, tabOps, losses, reloads, touched, unsent>>

ServeGet(b) ==
    /\ page[b].get.stage = "sent"
    /\ page' = [page EXCEPT ![b].get = [stage |-> "answered", reply |-> server]]
    /\ UNCHANGED <<server, world, touched, unsent>>

\* The network loses a request before the hub serves it, or the answer.
LosePut(b) ==
    /\ InFlight(b) /\ losses < MaxLosses
    /\ losses' = losses + 1
    /\ page' = [page EXCEPT ![b].put = NoPut]
    /\ UNCHANGED <<server, orphans, rrInit, marks, tabOps, reloads, touched, unsent>>

LoseGet(b) ==
    /\ Polling(b) /\ losses < MaxLosses
    /\ losses' = losses + 1
    /\ page' = [page EXCEPT ![b].get = NoGet]
    /\ UNCHANGED <<server, orphans, rrInit, marks, tabOps, reloads, touched, unsent>>

\* upsert_session_tab and delete_session_tab, called by agents.
AgentChangesTab(n, tab) ==
    /\ tabOps < MaxTabOps /\ server[n] # None
    /\ tabOps' = tabOps + 1
    /\ server' = [server EXCEPT ![n].tabs = IF tab \in @ THEN @ \ {tab} ELSE @ \cup {tab}]
    /\ UNCHANGED <<page, orphans, rrInit, marks, losses, reloads, touched, unsent>>

\* rr-init reads the list, adds its workspace and writes it without a version.
InitReads(n) ==
    /\ RunsInit /\ rrInit = None /\ server[n] = None /\ marks < MaxMark
    /\ Careful => Unused(n)
    /\ marks' = marks + 1
    /\ rrInit' = [server EXCEPT ![n] = NewRow(marks + 1)]
    /\ UNCHANGED <<server, page, orphans, tabOps, losses, reloads, touched, unsent>>

InitWrites ==
    /\ rrInit # None
    /\ server' = rrInit
    /\ rrInit' = None
    /\ UNCHANGED <<page, orphans, marks, tabOps, losses, reloads, touched, unsent>>

-----------------------------------------------------------------------------

User(b) ==
    \/ \E n \in Names :
          \/ Edit(b, n) \/ Create(b, n) \/ BeginDelete(b, n) \/ PanelDelete(b, n)
          \/ \E tab \in Tabs : CloseTab(b, n, tab)
    \/ Reorder(b)

Script(b) ==
    \/ EndDelete(b) \/ CloseTabEnds(b) \/ TimerFires(b) \/ PutAccepted(b) \/ PutRejected(b)
    \/ Poll(b) \/ GetAnswered(b)

Serve(b) == ServePut(b) \/ ServeGet(b)

Network(b) == LosePut(b) \/ LoseGet(b) \/ Reload(b)

Others ==
    \/ \E n \in Names : InitReads(n) \/ \E tab \in Tabs : AgentChangesTab(n, tab)
    \/ InitWrites
    \/ \E put \in orphans : ServeOrphan(put)

Next == (\E b \in Pages : User(b) \/ Script(b) \/ Serve(b) \/ Network(b)) \/ Others

Spec == Init /\ [][Next]_vars

-----------------------------------------------------------------------------
(* Safety.                                                                 *)

\* What follows is true of a page until one of its user's deletions comes into the list
\* while a request is under way: what happens then is in the last two properties.
Prompt(b) == ~page[b].late

\* A page's save that the hub accepts changes only the workspaces that page's user
\* changed: a tab an agent has just added to another workspace is never clobbered
\* (replace_sessions, rebaseOntoServer).  Two things others changed are not kept:
\* a workspace deleted elsewhere may come back, and a rebase takes the page's order
\* even if its user moved nothing.
KeepsWhatOthersChanged(b) ==
    \A n \in Names \ touched[b] : server[n] # None => server'[n] = server[n]

SaveAccepted(b) == page[b].put.stage = "sent" /\ page'[b].put.stage = "ok"

SavesKeepWhatOthersChanged ==
    [][\A b \in Pages : Prompt(b) /\ SaveAccepted(b) /\ page[b].put.base # None =>
          KeepsWhatOthersChanged(b)]_vars

\* Why: the list of a page, and a save of it on its way, differ from the version
\* they are based on only in what the page's user touched, in workspaces that
\* version no longer has, and in the order.  It takes that an edit is never
\* forgotten (putSessionsToControl clears dirtySessions and the unsaved flag
\* together) and that no poll is answered while the page has something to save.
DiffersOnlyWhereTouched(list, version, keys) ==
    \A n \in Names \ keys : version[n] = None \/ list[n] = version[n]

FollowsItsVersion(p, keys) ==
    /\ p.dirty \cup p.deleted \subseteq keys
    /\ p.dirty \cup p.deleted # {} => p.unsaved
    /\ p.get.stage # "none" => ~p.timer /\ ~p.unsaved /\ p.put.stage = "none"
    /\ p.put.stage # "none" => ~p.timer
    /\ p.version # None => DiffersOnlyWhereTouched(p.list, p.version, keys)
    /\ p.put.stage = "sent" =>
          /\ DiffersOnlyWhereTouched(p.list, p.put.body, keys)
          /\ p.put.base # None => DiffersOnlyWhereTouched(p.put.body, p.put.base, keys)
    /\ p.put.stage = "ok" => DiffersOnlyWhereTouched(p.list, p.put.reply, keys)

PagesFollowTheirVersion ==
    \A b \in Pages : Prompt(b) => FollowsItsVersion(page[b], touched[b])

\* A page with nothing to save shows the very list whose version it holds.  The poll
\* compares versions, not lists (refreshSessionsFromControlIfChanged): a page that held the version
\* of a list it does not show would take the hub's for its own, and never be put right.
SavedPagesShowTheirVersion ==
    \A b \in Pages : Prompt(b) /\ ~page[b].unsaved /\ page[b].version # None =>
        page[b].list = page[b].version

\* A step of nobody's hand leaves an undelivered change as it is.
EditStays(b, k) ==
    /\ k \in unsent[b] /\ k \in unsent'[b] /\ marks' = marks /\ reloads' = reloads
    /\ page'[b].closing = page[b].closing /\ page'[b].killing = page[b].killing
    => SetByUser(page'[b].list, k) = SetByUser(page[b].list, k)

\* No step of a page's script - an adopted poll, a rebase, an answer - undoes a
\* change of its user that no accepted save has delivered yet.
EditsSurvive == [][\A b \in Pages, k \in Keys : Prompt(b) => EditStays(b, k)]_vars

\* While an edit is undelivered the page knows it has to save.
UnsavedCoversEdits == \A b \in Pages : Prompt(b) /\ unsent[b] # {} => page[b].unsaved

\* "So the poll can't stomp an edit that hasn't been flushed yet": the claim that no
\* page undoes an undelivered change, whenever it was made.
NoEditIsUndone == [][\A b \in Pages, k \in Keys : EditStays(b, k)]_vars

\* "Local edits not yet accepted by the control server.  Cleared only by a successful
\* PUT": the claim that an undelivered change is known, whenever it was made.
UnsavedUntilDelivered == \A b \in Pages : unsent[b] # {} => page[b].unsaved

-----------------------------------------------------------------------------
(* Liveness.                                                               *)

\* Timers fire, the hub answers, the script handles answers, and the page polls
\* every 4 s while it is open.
Fairness ==
    /\ \A b \in Pages :
          /\ WF_vars(CloseTabEnds(b)) /\ WF_vars(TimerFires(b))
          /\ WF_vars(PutAccepted(b)) /\ WF_vars(PutRejected(b))
          /\ WF_vars(Poll(b)) /\ WF_vars(GetAnswered(b)) /\ WF_vars(Serve(b))
    /\ WF_vars(InitWrites)
    /\ WF_vars(\E put \in orphans : ServeOrphan(put))

FairSpec == Spec /\ Fairness

\* Once nobody changes anything any more, every page shows the server's list, those
\* aside that stay open after a deletion which came during a request.
Converges ==
    <>[](\A b \in Pages : Prompt(b)) => <>[](\A b \in Pages : page[b].list = server)

=============================================================================
