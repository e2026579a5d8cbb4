---------------------------- MODULE MCSessionSync ----------------------------
(* Small instances of SessionSync: one or two pages, two workspaces and a    *)
(* free name, one tab that agents add and remove.                            *)
EXTENDS SessionSync

CONSTANTS b1, b2, n1, n2, n3, x

Edits == {"edit", "create", "delete", "reorder"}
EditsAndPanel == Edits \cup {"panelDelete"}
EditsAndClose == Edits \cup {"closeTab"}

=============================================================================
