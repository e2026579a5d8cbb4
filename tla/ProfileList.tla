----------------------------- MODULE ProfileList -----------------------------
(***************************************************************************)
(* What an inventory of profiles promises those who ask for changes, with  *)
(* no word about files, locks or threads: each request says which profile  *)
(* it is about (or none, to put the list into another order) and does to   *)
(* it one thing, all at once, at some moment before its answer.  Requests  *)
(* may wait side by side; those under way when the hub ends do nothing.    *)
(***************************************************************************)
EXTENDS Naturals, SequencesExt

CONSTANTS
    Profiles,    \* what may be in the list: records with a name
    Names,       \* their names
    Bootstrap,   \* the list there is at first
    Callers      \* where requests may wait

VARIABLES
    list,    \* the profiles
    asked    \* the request that waits with each caller

vars == <<list, asked>>

NotAsked == [open |-> FALSE, about |-> {}]

Init == list = Bootstrap /\ asked = [c \in Callers |-> NotAsked]

Ask(c) ==
    /\ ~asked[c].open
    /\ \E about \in {{}} \cup {{name} : name \in Names} :
          asked' = [asked EXCEPT ![c] = [open |-> TRUE, about |-> about]]
    /\ UNCHANGED list

Named(rows, name) == {i \in DOMAIN rows : rows[i].name = name}

\* A profile of a new name comes first or last.
Added(old, new, row) ==
    Named(old, row.name) = {} /\ (new = <<row>> \o old \/ new = Append(old, row))

\* A profile changes and keeps its name, and its place unless it goes to an end.
Changed(old, new, row) ==
    \E i \in Named(old, row.name) :
        \/ new = [old EXCEPT ![i] = row]
        \/ new = <<row>> \o RemoveAt(old, i)
        \/ new = Append(RemoveAt(old, i), row)

Removed(old, new, name) == \E i \in Named(old, name) : new = RemoveAt(old, i)

Reordered(old, new) == ToSet(new) = ToSet(old) /\ Len(new) = Len(old)

Outcome(old, new, about) ==
    \/ about = {} /\ Reordered(old, new)
    \/ \E row \in Profiles :
          about = {row.name} /\ (Added(old, new, row) \/ Changed(old, new, row))
    \/ \E name \in Names : about = {name} /\ Removed(old, new, name)

Answer(c) ==
    /\ asked[c].open
    /\ asked' = [asked EXCEPT ![c] = NotAsked]
    /\ Outcome(list, list', asked[c].about)

Drop == asked' = [c \in Callers |-> NotAsked] /\ UNCHANGED list

Next == (\E c \in Callers : Ask(c) \/ Answer(c)) \/ Drop

Spec == Init /\ [][Next]_vars

=============================================================================
