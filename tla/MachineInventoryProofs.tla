------------------------ MODULE MachineInventoryProofs ------------------------
(***************************************************************************)
(* What the calls of MachineInventory keep, for any profiles, addresses    *)
(* and sessions: each name is in the list once, and a removal that ends a  *)
(* session has looked at every profile of the machine.                     *)
(***************************************************************************)
EXTENDS MachineInventory, SequenceTheorems, FiniteSetTheorems, TLAPS

Rows == {rows \in Seq(Profiles) : Distinct(rows)}

-----------------------------------------------------------------------------
(* Lists of profiles.                                                      *)

LEMMA RowsOK ==
    ASSUME NEW rows \in Rows
    PROVE  /\ rows \in Seq(Profiles) /\ Distinct(rows) /\ Len(rows) \in Nat
           /\ DOMAIN rows = 1..Len(rows) /\ \A i \in DOMAIN rows : rows[i] \in Profiles
BY LenProperties DEF Rows

LEMMA RemovedIs ==
    ASSUME NEW rows \in Rows, NEW i \in DOMAIN rows
    PROVE  /\ RemoveAt(rows, i) \in Seq(Profiles)
           /\ Len(RemoveAt(rows, i)) = Len(rows) - 1
           /\ DOMAIN RemoveAt(rows, i) = 1..(Len(rows) - 1)
           /\ \A j \in 1..(Len(rows) - 1) :
                 RemoveAt(rows, i)[j] = IF j < i THEN rows[j] ELSE rows[j + 1]
<1> DEFINE front == SubSeq(rows, 1, i - 1)
           back == SubSeq(rows, i + 1, Len(rows))
<1>1. i \in 1..Len(rows) /\ Len(rows) \in Nat /\ \A j \in 1..Len(rows) : rows[j] \in Profiles
  BY RowsOK
<1>2. /\ front \in Seq(Profiles) /\ Len(front) = i - 1
      /\ \A j \in 1..(i - 1) : front[j] = rows[j]
  BY <1>1, SubSeqProperties
<1>3. /\ back \in Seq(Profiles) /\ Len(back) = Len(rows) - i
      /\ \A j \in 1..(Len(rows) - i) : back[j] = rows[i + j]
  <2>1. /\ back \in Seq(Profiles)
        /\ Len(back) = IF i + 1 <= Len(rows) THEN Len(rows) - (i + 1) + 1 ELSE 0
        /\ \A j \in 1..(Len(rows) - (i + 1) + 1) : back[j] = rows[(i + 1) + j - 1]
    BY <1>1, SubSeqProperties
  <2> QED BY <1>1, <2>1
<1> HIDE DEF front, back
<1>4. /\ front \o back \in Seq(Profiles) /\ Len(front \o back) = Len(rows) - 1
      /\ \A j \in 1..(Len(rows) - 1) :
            (front \o back)[j] = IF j <= i - 1 THEN front[j] ELSE back[j - (i - 1)]
  <2>1. Len(front) + Len(back) = Len(rows) - 1
    BY <1>1, <1>2, <1>3
  <2>2. /\ front \o back \in Seq(Profiles) /\ Len(front \o back) = Len(front) + Len(back)
        /\ \A j \in 1..(Len(front) + Len(back)) :
              (front \o back)[j] = IF j <= Len(front) THEN front[j] ELSE back[j - Len(front)]
    BY <1>2, <1>3, ConcatProperties
  <2> QED BY <1>2, <2>1, <2>2
<1>5. RemoveAt(rows, i) = front \o back
  BY DEF RemoveAt, front, back
<1>6. DOMAIN (front \o back) = 1..(Len(rows) - 1)
  BY <1>4, LenProperties
<1>7. \A j \in 1..(Len(rows) - 1) : (front \o back)[j] = IF j < i THEN rows[j] ELSE rows[j + 1]
  <2> TAKE j \in 1..(Len(rows) - 1)
  <2>1. CASE j < i
    <3>1. j \in 1..(i - 1)
      BY <1>1, <2>1
    <3> QED BY <1>1, <1>2, <1>4, <2>1, <3>1
  <2>2. CASE j >= i
    <3>1. j - (i - 1) \in 1..(Len(rows) - i) /\ i + (j - (i - 1)) = j + 1 /\ ~(j <= i - 1)
      BY <1>1, <2>2
    <3>2. back[j - (i - 1)] = rows[j + 1]
      BY <1>3, <3>1
    <3> QED BY <1>1, <1>4, <2>2, <3>1, <3>2
  <2>3. j < i \/ j >= i
    BY <1>1
  <2> QED BY <2>1, <2>2, <2>3
<1> QED BY <1>4, <1>5, <1>6, <1>7

LEMMA RemovedOK ==
    ASSUME NEW rows \in Rows, NEW i \in DOMAIN rows
    PROVE  /\ RemoveAt(rows, i) \in Rows
           /\ ~HasName(RemoveAt(rows, i), rows[i].name)
           /\ \A j \in DOMAIN rows : j # i =>
                 \E k \in DOMAIN RemoveAt(rows, i) : RemoveAt(rows, i)[k] = rows[j]
<1> DEFINE less == RemoveAt(rows, i)
<1>1. /\ Distinct(rows) /\ Len(rows) \in Nat /\ DOMAIN rows = 1..Len(rows) /\ i \in 1..Len(rows)
  BY RowsOK
<1>2. /\ less \in Seq(Profiles) /\ DOMAIN less = 1..(Len(rows) - 1)
      /\ \A j \in 1..(Len(rows) - 1) : less[j] = IF j < i THEN rows[j] ELSE rows[j + 1]
  BY RemovedIs
<1> HIDE DEF less
<1>3. Distinct(less)
  <2> SUFFICES ASSUME NEW j \in DOMAIN less, NEW k \in DOMAIN less, less[j].name = less[k].name
               PROVE  j = k
    BY DEF Distinct
  <2>1. PICK a \in DOMAIN rows : less[j] = rows[a] /\ a = IF j < i THEN j ELSE j + 1
    <3>1. (IF j < i THEN j ELSE j + 1) \in DOMAIN rows
      BY <1>1, <1>2
    <3> QED BY <1>1, <1>2, <3>1
  <2>2. PICK b \in DOMAIN rows : less[k] = rows[b] /\ b = IF k < i THEN k ELSE k + 1
    <3>1. (IF k < i THEN k ELSE k + 1) \in DOMAIN rows
      BY <1>1, <1>2
    <3> QED BY <1>1, <1>2, <3>1
  <2>3. a = b
    BY <1>1, <2>1, <2>2 DEF Distinct
  <2> QED BY <1>1, <1>2, <2>1, <2>2, <2>3
<1>4. ~HasName(less, rows[i].name)
  BY <1>1, <1>2 DEF Distinct, HasName
<1>5. ASSUME NEW j \in DOMAIN rows, j # i PROVE \E k \in DOMAIN less : less[k] = rows[j]
  <2>1. CASE j < i
    BY <1>1, <1>2, <1>5, <2>1
  <2>2. CASE j > i
    <3>1. j - 1 \in DOMAIN less /\ less[j - 1] = rows[j]
      BY <1>1, <1>2, <1>5, <2>2
    <3> QED BY <3>1
  <2> QED BY <1>1, <1>5, <2>1, <2>2
<1> QED BY <1>2, <1>3, <1>4, <1>5 DEF Rows, less

\* A profile of a new name comes first or last.
LEMMA AddedOK ==
    ASSUME NEW rows \in Rows, NEW row \in Profiles, ~HasName(rows, row.name)
    PROVE  Append(rows, row) \in Rows /\ <<row>> \o rows \in Rows
<1>1. /\ rows \in Seq(Profiles) /\ Distinct(rows) /\ Len(rows) \in Nat
      /\ DOMAIN rows = 1..Len(rows)
  BY RowsOK
<1>2. Append(rows, row) \in Rows
  <2> DEFINE more == Append(rows, row)
  <2>1. /\ more \in Seq(Profiles) /\ DOMAIN more = 1..(Len(rows) + 1)
        /\ \A j \in 1..Len(rows) : more[j] = rows[j]
        /\ more[Len(rows) + 1] = row
    <3>1. /\ more \in Seq(Profiles) /\ Len(more) = Len(rows) + 1
          /\ \A j \in 1..Len(rows) : more[j] = rows[j]
          /\ more[Len(rows) + 1] = row
      BY <1>1, AppendProperties
    <3> HIDE DEF more
    <3> QED BY <3>1, LenProperties
  <2> HIDE DEF more
  <2>2. \A j \in DOMAIN more : \/ j \in 1..Len(rows) /\ more[j] = rows[j]
                               \/ j = Len(rows) + 1 /\ more[j] = row
    BY <1>1, <2>1
  <2>3. Distinct(more)
    BY <1>1, <2>1, <2>2 DEF Distinct, HasName
  <2> QED BY <2>1, <2>3 DEF Rows, more
<1>3. <<row>> \o rows \in Rows
  <2>1. <<row>> \in Seq(Profiles) /\ Len(<<row>>) = 1 /\ <<row>>[1] = row
    OBVIOUS
  <2>2. /\ <<row>> \o rows \in Seq(Profiles) /\ Len(<<row>> \o rows) = 1 + Len(rows)
        /\ \A j \in 1..(1 + Len(rows)) :
              (<<row>> \o rows)[j] = IF j <= 1 THEN <<row>>[j] ELSE rows[j - 1]
    BY <1>1, <2>1, ConcatProperties
  <2> DEFINE more == <<row>> \o rows
  <2>3. DOMAIN more = 1..(1 + Len(rows))
    BY <2>2, LenProperties
  <2>4. \A j \in DOMAIN more : more[j] = IF j = 1 THEN row ELSE rows[j - 1]
    BY <1>1, <2>1, <2>2, <2>3
  <2> HIDE DEF more
  <2>5. Distinct(more)
    BY <1>1, <2>3, <2>4 DEF Distinct, HasName
  <2> QED BY <2>2, <2>5 DEF more, Rows
<1> QED BY <1>2, <1>3

\* A profile changes and keeps its name.
LEMMA ChangedOK ==
    ASSUME NEW rows \in Rows, NEW i \in DOMAIN rows, NEW row \in Profiles,
           row.name = rows[i].name
    PROVE  /\ [rows EXCEPT ![i] = row] \in Rows
           /\ DOMAIN [rows EXCEPT ![i] = row] = DOMAIN rows
           /\ [rows EXCEPT ![i] = row][i] = row
<1>1. /\ rows \in Seq(Profiles) /\ Distinct(rows) /\ Len(rows) \in Nat
      /\ DOMAIN rows = 1..Len(rows) /\ i \in 1..Len(rows)
  BY RowsOK
<1>2. /\ [rows EXCEPT ![i] = row] \in Seq(Profiles)
      /\ \A j \in 1..Len(rows) : [rows EXCEPT ![i] = row][j] = IF j = i THEN row ELSE rows[j]
      /\ DOMAIN [rows EXCEPT ![i] = row] = 1..Len(rows)
  BY <1>1, ExceptSeq
<1> QED BY <1>1, <1>2 DEF Rows, Distinct

\* A profile moves to another place.
LEMMA PlacedOK ==
    ASSUME NEW rows \in Rows, NEW i \in DOMAIN rows, NEW position
    PROVE  Placed(rows, i, position) \in Rows
<1>1. RemoveAt(rows, i) \in Rows /\ ~HasName(RemoveAt(rows, i), rows[i].name) /\ rows[i] \in Profiles
  BY RemovedOK, RowsOK
<1> QED BY <1>1, AddedOK DEF Placed

\* As many names as there are profiles, and the same: each profile once.
LEMMA ReorderedOK ==
    ASSUME NEW rows \in Rows, NEW order \in [DOMAIN rows -> Names],
           {order[i] : i \in DOMAIN order} = {rows[i].name : i \in DOMAIN rows}
    PROVE  [i \in DOMAIN order |-> rows[IndexOf(rows, order[i])]] \in Rows
<1> DEFINE D == DOMAIN rows
           T == {rows[i].name : i \in D}
           name == [i \in D |-> rows[i].name]
           new == [i \in DOMAIN order |-> rows[IndexOf(rows, order[i])]]
<1>1. D = 1..Len(rows) /\ Len(rows) \in Nat /\ Distinct(rows) /\ \A i \in D : rows[i] \in Profiles
  BY RowsOK
<1>2. IsFiniteSet(D)
  BY <1>1, FS_Interval
<1>3. name \in Bijection(D, T)
  BY <1>1 DEF Bijection, Injection, Surjection, IsInjective, Distinct
<1>4. IsFiniteSet(T) /\ Cardinality(T) = Cardinality(D)
  BY <1>2, <1>3, FS_Bijection DEF ExistsBijection
<1>5. order \in Surjection(D, T)
  BY DEF Surjection
<1>6. \A i, j \in D : order[i] = order[j] => i = j
  BY <1>2, <1>4, <1>5, FS_SurjSameCardinalityImpliesInj DEF Injection, IsInjective
<1>7. \A i \in D : IndexOf(rows, order[i]) \in D /\ rows[IndexOf(rows, order[i])].name = order[i]
  <2> TAKE i \in D
  <2>1. \E j \in D : rows[j].name = order[i]
    OBVIOUS
  <2> QED BY <2>1 DEF IndexOf
<1>8. new \in [1..Len(rows) -> Profiles]
  BY <1>1, <1>7
<1>9. new \in Seq(Profiles) /\ DOMAIN new = D
  BY <1>1, <1>8
<1>10. Distinct(new)
  BY <1>6, <1>7, <1>9 DEF Distinct
<1> QED BY <1>9, <1>10 DEF Rows

-----------------------------------------------------------------------------
(* The calls.                                                              *)

LEMMA IndexOK ==
    ASSUME NEW rows, NEW name, HasName(rows, name)
    PROVE  IndexOf(rows, name) \in DOMAIN rows /\ rows[IndexOf(rows, name)].name = name
BY DEF HasName, IndexOf

LEMMA InventoryStarts == InventoryInit => InventoryTypeOK
<1> SUFFICES ASSUME InventoryInit PROVE InventoryTypeOK
  OBVIOUS
<1>1. machines \in Seq(Profiles) /\ Distinct(machines) /\ torn \in BOOLEAN /\ live \subseteq Sessions
  BY BootstrapAssumption DEF InventoryInit
<1>2. requests \in 0..MaxRequests
  BY InventoryAssumption DEF InventoryInit
<1>3. Idle \in Calls /\ Idle.rows = <<>> /\ Idle.step = "none"
  BY EmptySeq DEF Idle, Calls
<1>4. call \in [Threads -> Calls] /\ \A th \in Threads : call[th] = Idle
  BY <1>3 DEF InventoryInit
<1>5. \A th \in Threads : Distinct(call[th].rows) /\ ~InLock(th)
  BY <1>3, <1>4 DEF Distinct, InLock
<1> QED BY <1>1, <1>2, <1>4, <1>5 DEF InventoryTypeOK

\* The profiles and what a call may hold.
LEMMA TypesUse ==
    ASSUME InventoryTypeOK
    PROVE  /\ machines \in Rows
           /\ \A th \in Threads : /\ call[th] \in Calls /\ call[th].rows \in Rows
                                  /\ InLock(th) => \A other \in Threads : InLock(other) => other = th
BY DEF InventoryTypeOK, Rows, Calls

\* A call that finds the lock free takes it, with rows it may save.
LEMMA ChangeOK ==
    ASSUME InventoryTypeOK, NEW th \in Threads, NEW step \in {"kill", "empty"}, NEW rows \in Rows,
           NEW about \in SUBSET Names, NEW kills \in Sessions \cup {None},
           Change(th, step, rows, about, kills)
    PROVE  InventoryTypeOK'
<1> DEFINE new == [step |-> step, rows |-> rows, about |-> about, kills |-> kills]
<1>1. new \in Calls /\ new.rows = rows /\ rows \in Seq(Profiles) /\ Distinct(rows)
  BY DEF Calls, Rows
<1> HIDE DEF new
<1>2. /\ call' = [call EXCEPT ![th] = new] /\ \A other \in Threads : call[other].step = "none"
      /\ UNCHANGED <<machines, torn, live>> /\ requests < MaxRequests /\ requests' = requests + 1
  BY DEF Change, Unlocked, InLock, Request, new
<1>3. call' \in [Threads -> Calls] /\ call'[th] = new
      /\ \A other \in Threads : other # th => call'[other] = call[other]
  BY <1>1, <1>2 DEF InventoryTypeOK
<1>4. requests' \in 0..MaxRequests
  BY <1>2, InventoryAssumption DEF InventoryTypeOK
<1>5. Distinct(machines)' /\ machines' \in Seq(Profiles)
  BY <1>2 DEF InventoryTypeOK, Distinct
<1>6. \A other \in Threads : Distinct(call'[other].rows)
  BY <1>1, <1>3 DEF InventoryTypeOK
<1>7. \A a, b \in Threads : call'[a].step # "none" /\ call'[b].step # "none" => a = b
  BY <1>2, <1>3
<1> QED BY <1>2, <1>3, <1>4, <1>5, <1>6, <1>7 DEF InventoryTypeOK, InLock, Distinct

LEMMA TabRowsOK ==
    ASSUME InventoryTypeOK, NEW name \in Names, NEW host \in Hosts \cup {None},
           NEW session \in Sessions \cup {None}, HasName(machines, name) \/ host # None
    PROVE  TabRows(name, host, session) \in Rows
<1>1. machines \in Rows
  BY TypesUse
<1>2. CASE HasName(machines, name)
  <2> DEFINE i == IndexOf(machines, name)
             row == [machines[i] EXCEPT !.host = Given(host, machines[i].host),
                                        !.session = Given(session, machines[i].session)]
  <2>1. i \in DOMAIN machines /\ machines[i] \in Profiles
    BY <1>1, <1>2, IndexOK, RowsOK
  <2>2. row \in Profiles /\ row.name = machines[i].name
    BY <2>1 DEF Profiles, Given
  <2>3. TabRows(name, host, session) = [machines EXCEPT ![i] = row]
    BY <1>2 DEF TabRows
  <2> HIDE DEF i, row
  <2>4. [machines EXCEPT ![i] = row] \in Rows
    BY <1>1, <2>1, <2>2, ChangedOK
  <2> QED BY <2>3, <2>4
<1>3. CASE ~HasName(machines, name)
  <2> DEFINE row == [name |-> name, host |-> host, session |-> session]
  <2>1. row \in Profiles /\ row.name = name
    BY <1>3 DEF Profiles
  <2>2. TabRows(name, host, session) = Append(machines, row)
    BY <1>3 DEF TabRows
  <2> HIDE DEF row
  <2> QED BY <1>1, <1>3, <2>1, <2>2, AddedOK
<1> QED BY <1>2, <1>3

LEMMA WithSessionOK ==
    ASSUME NEW row \in Profiles, NEW session \in Sessions \cup {None}
    PROVE  WithSession(row, session) \in Profiles /\ WithSession(row, session).name = row.name
BY DEF WithSession, Given, Profiles

LEMMA AddOrUpdateTabOK ==
    ASSUME InventoryTypeOK, NEW th \in Threads, AddOrUpdateTab(th)
    PROVE  InventoryTypeOK'
<1>1. PICK name \in Names, host \in Hosts \cup {None}, session \in Sessions \cup {None} :
          /\ HasName(machines, name) \/ host # None
          /\ Change(th, "empty", TabRows(name, host, session), {name}, None)
  BY DEF AddOrUpdateTab
<1>2. TabRows(name, host, session) \in Rows
  BY <1>1, TabRowsOK
<1> QED BY <1>1, <1>2, ChangeOK

LEMMA NewRemoteOK ==
    ASSUME InventoryTypeOK, NEW th \in Threads, NewRemote(th)
    PROVE  InventoryTypeOK'
<1> DEFINE Copied(base) == IF base = None THEN None ELSE machines[IndexOf(machines, base)].session
           Row(name, host, session, base) ==
              WithSession([name |-> name, host |-> host, session |-> Copied(base)], session)
<1>1. PICK name \in Names, host \in Hosts, session \in Sessions \cup {None},
           base \in Names \cup {None}, bottom \in BOOLEAN :
         /\ ~HasName(machines, name)
         /\ base # None => HasName(machines, base)
         /\ Change(th, "empty",
                   IF bottom THEN Append(machines, Row(name, host, session, base))
                   ELSE <<Row(name, host, session, base)>> \o machines, {name}, None)
  BY DEF NewRemote
<1>2. Copied(base) \in Sessions \cup {None}
  <2>1. CASE base # None
    <3>1. machines[IndexOf(machines, base)] \in Profiles
      BY <1>1, <2>1, TypesUse, RowsOK, IndexOK
    <3> QED BY <2>1, <3>1 DEF Profiles
  <2> QED BY <2>1
<1> HIDE DEF Copied
<1>3. Row(name, host, session, base) \in Profiles /\ Row(name, host, session, base).name = name
  <2> DEFINE plain == [name |-> name, host |-> host, session |-> Copied(base)]
  <2>1. plain \in Profiles /\ plain.name = name
    BY <1>2 DEF Profiles
  <2> HIDE DEF plain
  <2>2. WithSession(plain, session) \in Profiles /\ WithSession(plain, session).name = name
    BY <2>1, WithSessionOK
  <2> QED BY <2>2 DEF plain
<1> HIDE DEF Row
<1>4. /\ Append(machines, Row(name, host, session, base)) \in Rows
      /\ <<Row(name, host, session, base)>> \o machines \in Rows
  <2>1. ~HasName(machines, Row(name, host, session, base).name) /\ machines \in Rows
    BY <1>1, <1>3, TypesUse
  <2> QED BY <1>3, <2>1, AddedOK
<1> QED BY <1>1, <1>4, ChangeOK

LEMMA ChangeRemoteOK ==
    ASSUME InventoryTypeOK, NEW th \in Threads, ChangeRemote(th)
    PROVE  InventoryTypeOK'
<1> DEFINE Row(i, host, session) ==
              [WithSession(machines[i], session) EXCEPT
                  !.host = Given(host, WithSession(machines[i], session).host)]
<1>1. PICK i \in DOMAIN machines, host \in Hosts \cup {None}, session \in Sessions \cup {None},
           position \in {"top", "bottom", None} :
         Change(th, "empty", Placed([machines EXCEPT ![i] = Row(i, host, session)], i, position),
                {Row(i, host, session).name}, None)
  BY DEF ChangeRemote
<1>2. machines \in Rows /\ machines[i] \in Profiles
  BY TypesUse, RowsOK
<1>3. WithSession(machines[i], session) \in Profiles
      /\ WithSession(machines[i], session).name = machines[i].name
  BY <1>2, WithSessionOK
<1>4. Row(i, host, session) \in Profiles /\ Row(i, host, session).name = machines[i].name
  BY <1>3 DEF Profiles, Given
<1>5. Row(i, host, session).name \in Names
  BY <1>4 DEF Profiles
<1> HIDE DEF Row
<1>6. [machines EXCEPT ![i] = Row(i, host, session)] \in Rows
      /\ i \in DOMAIN [machines EXCEPT ![i] = Row(i, host, session)]
  BY <1>2, <1>4, ChangedOK
<1>7. Placed([machines EXCEPT ![i] = Row(i, host, session)], i, position) \in Rows
  BY <1>6, PlacedOK
<1> QED BY <1>1, <1>5, <1>7, ChangeOK

LEMMA RemoveRemoteOK ==
    ASSUME InventoryTypeOK, NEW th \in Threads, RemoveRemote(th)
    PROVE  InventoryTypeOK'
<1>1. PICK i \in DOMAIN machines, kills \in BOOLEAN :
         Change(th, IF kills THEN "kill" ELSE "empty", RemoveAt(machines, i), {machines[i].name},
                IF kills THEN machines[i].session ELSE None)
  BY DEF RemoveRemote
<1>2. RemoveAt(machines, i) \in Rows /\ machines[i] \in Profiles
  BY TypesUse, RowsOK, RemovedOK
<1>3. {machines[i].name} \in SUBSET Names /\ machines[i].session \in Sessions \cup {None}
  BY <1>2 DEF Profiles
<1>4. CASE kills
  BY <1>1, <1>2, <1>3, <1>4, ChangeOK
<1>5. CASE ~kills
  BY <1>1, <1>2, <1>3, <1>5, ChangeOK
<1> QED BY <1>4, <1>5

LEMMA ReorderRemotesOK ==
    ASSUME InventoryTypeOK, NEW th \in Threads, ReorderRemotes(th)
    PROVE  InventoryTypeOK'
<1>1. PICK order \in [DOMAIN machines -> Names] :
         /\ {order[i] : i \in DOMAIN order} = {machines[i].name : i \in DOMAIN machines}
         /\ Change(th, "empty", [i \in DOMAIN order |-> machines[IndexOf(machines, order[i])]], {}, None)
  BY DEF ReorderRemotes
<1>2. [i \in DOMAIN order |-> machines[IndexOf(machines, order[i])]] \in Rows
  BY <1>1, TypesUse, ReorderedOK
<1> QED BY <1>1, <1>2, ChangeOK

\* The rest of a call changes its step; the last one puts its rows into the file.
LEMMA RestOK ==
    ASSUME InventoryTypeOK, NEW th \in Threads, Kill(th) \/ Empty(th) \/ Fill(th)
    PROVE  InventoryTypeOK'
<1>1. call[th] \in Calls /\ call[th].rows \in Rows /\ InLock(th) /\ Idle \in Calls
  BY TypesUse, EmptySeq DEF Kill, Empty, Fill, InLock, Idle, Calls
<1>2. PICK new \in Calls : /\ call' = [call EXCEPT ![th] = new]
                           /\ new.rows = call[th].rows \/ new.rows = <<>>
  <2>1. CASE Kill(th) \/ Empty(th)
    <3>1. PICK step \in {"empty", "fill"} : call' = [call EXCEPT ![th].step = step]
      BY <2>1 DEF Kill, Empty
    <3>2. [call[th] EXCEPT !.step = step] \in Calls
          /\ [call[th] EXCEPT !.step = step].rows = call[th].rows
      BY <1>1 DEF Calls
    <3> QED BY <3>1, <3>2
  <2>2. CASE Fill(th)
    BY <1>1, <2>2 DEF Fill, Idle
  <2> QED BY <2>1, <2>2
<1>3. call' \in [Threads -> Calls] /\ call'[th] = new
      /\ \A other \in Threads : other # th => call'[other] = call[other]
  BY <1>2 DEF InventoryTypeOK
<1>4. \A other \in Threads : Distinct(call'[other].rows)
  BY <1>1, <1>2, <1>3 DEF InventoryTypeOK, Rows, Distinct
<1>5. \A a, b \in Threads : call'[a].step # "none" /\ call'[b].step # "none" => a = b
  BY <1>1, <1>3 DEF InventoryTypeOK, InLock
<1>6. /\ machines' \in {machines, call[th].rows} /\ torn' \in BOOLEAN
      /\ live' \subseteq Sessions /\ requests' = requests
  BY DEF Kill, Empty, Fill, InventoryTypeOK
<1>7. machines' \in Seq(Profiles) /\ Distinct(machines')
  BY <1>1, <1>6 DEF InventoryTypeOK, Rows
<1> QED BY <1>3, <1>4, <1>5, <1>6, <1>7 DEF InventoryTypeOK, InLock

LEMMA InventoryCallOK ==
    ASSUME InventoryTypeOK, NEW th \in Threads, InventoryCall(th)
    PROVE  InventoryTypeOK'
BY AddOrUpdateTabOK, NewRemoteOK, ChangeRemoteOK, RemoveRemoteOK, ReorderRemotesOK, RestOK
   DEF InventoryCall

-----------------------------------------------------------------------------
(* The sessions that removals end.                                         *)

\* Whoever is about to kill a session has seen that no profile of this machine but the
\* removed one names it; the lock keeps that true until the kill.
KillsUnshared ==
    \A th \in Threads : call[th].step = "kill" =>
        \A i \in DOMAIN machines :
            Local(machines[i]) /\ machines[i].session = call[th].kills
                => machines[i].name \in call[th].about

\* Nobody else is in the lock while a call moves.
LEMMA MoverIsAlone ==
    ASSUME InventoryTypeOK, NEW th \in Threads, InventoryCall(th)
    PROVE  \A other \in Threads \ {th} : call[other].step = "none" /\ call'[other] = call[other]
<1>1. th \in DOMAIN call /\ call \in [Threads -> Calls]
  BY DEF InventoryTypeOK
<1>2. CASE Kill(th) \/ Empty(th) \/ Fill(th)
  <2>1. InLock(th)
    BY <1>2 DEF InLock, Kill, Empty, Fill
  <2>2. \A other \in Threads \ {th} : call'[other] = call[other]
    BY <1>1, <1>2 DEF Kill, Empty, Fill
  <2> QED BY <2>1, <2>2 DEF InventoryTypeOK, InLock
<1>3. CASE \/ AddOrUpdateTab(th) \/ NewRemote(th) \/ ChangeRemote(th)
           \/ RemoveRemote(th) \/ ReorderRemotes(th)
  <2>1. /\ \A other \in Threads : call[other].step = "none"
        /\ \E new : call' = [call EXCEPT ![th] = new]
    BY <1>3 DEF AddOrUpdateTab, NewRemote, ChangeRemote, RemoveRemote, ReorderRemotes, Change,
                Unlocked, InLock
  <2> QED BY <1>1, <2>1
<1> QED BY <1>2, <1>3 DEF InventoryCall

LEMMA KillsStayUnshared ==
    ASSUME InventoryTypeOK, NEW th \in Threads, InventoryCall(th)
    PROVE  KillsUnshared'
<1>1. th \in DOMAIN call /\ call \in [Threads -> Calls]
  BY DEF InventoryTypeOK
<1>2. \A other \in Threads \ {th} : call'[other].step # "kill"
  BY MoverIsAlone
<1>3. CASE call'[th].step # "kill"
  BY <1>2, <1>3 DEF KillsUnshared
<1>4. CASE call'[th].step = "kill"
  <2>1. RemoveRemote(th)
    <3>1. ~(AddOrUpdateTab(th) \/ NewRemote(th) \/ ChangeRemote(th) \/ ReorderRemotes(th))
      <4>1. ASSUME NEW rows, NEW about, NEW kills, Change(th, "empty", rows, about, kills)
            PROVE  FALSE
        <5>1. call'[th].step = "empty"
          BY <1>1, <4>1 DEF Change
        <5> QED BY <1>4, <5>1
      <4>2. ~AddOrUpdateTab(th)
        BY <4>1 DEF AddOrUpdateTab
      <4>3. ~NewRemote(th)
        BY <4>1 DEF NewRemote
      <4>4. ~ChangeRemote(th)
        BY <4>1 DEF ChangeRemote
      <4>5. ~ReorderRemotes(th)
        BY <4>1 DEF ReorderRemotes
      <4> QED BY <4>2, <4>3, <4>4, <4>5
    <3>2. ~(Kill(th) \/ Empty(th))
      <4> SUFFICES ASSUME Kill(th) \/ Empty(th) PROVE FALSE
        OBVIOUS
      <4>1. PICK step \in {"empty", "fill"} : call' = [call EXCEPT ![th].step = step]
        BY DEF Kill, Empty
      <4>2. call'[th] = [call[th] EXCEPT !.step = step] /\ call[th] \in Calls
        BY <1>1, <4>1
      <4>3. [call[th] EXCEPT !.step = step].step = step
        BY <4>2 DEF Calls
      <4>4. call'[th].step = step
        BY <4>2, <4>3
      <4> QED BY <1>4, <4>4
    <3>3. ~Fill(th)
      BY <1>1, <1>4 DEF Fill, Idle
    <3> QED BY <3>1, <3>2, <3>3 DEF InventoryCall
  <2>2. PICK i \in DOMAIN machines, kill \in BOOLEAN :
          LET kills == /\ kill /\ machines[i].session # None /\ Local(machines[i])
                       /\ Unshared(RemoveAt(machines, i), machines[i].session)
          IN Change(th, IF kills THEN "kill" ELSE "empty", RemoveAt(machines, i),
                    {machines[i].name}, IF kills THEN machines[i].session ELSE None)
    BY <2>1 DEF RemoveRemote
  <2>3. /\ Unshared(RemoveAt(machines, i), machines[i].session) /\ machines' = machines
        /\ call'[th].kills = machines[i].session /\ call'[th].about = {machines[i].name}
    BY <1>1, <1>4, <2>2 DEF Change
  <2>4. ASSUME NEW j \in DOMAIN machines, Local(machines[j]),
               machines[j].session = machines[i].session
        PROVE  machines[j].name \in {machines[i].name}
    <3>1. CASE j # i
      <4>1. PICK k \in DOMAIN RemoveAt(machines, i) : RemoveAt(machines, i)[k] = machines[j]
        BY <3>1, TypesUse, RemovedOK
      <4> QED BY <2>3, <2>4, <4>1 DEF Unshared
    <3> QED BY <3>1
  <2>5. \A j \in DOMAIN machines : Local(machines'[j]) /\ machines'[j].session = call'[th].kills
                                      => machines'[j].name \in call'[th].about
    BY <2>3, <2>4
  <2> QED BY <1>2, <2>3, <2>5 DEF KillsUnshared, Local
<1> QED BY <1>3, <1>4

\* KillsSpareProfiles, for one step.
KillSpares(th) ==
    call[th].step = "kill" /\ call'[th].step = "empty" =>
        \A s \in live \ live' :
            \/ <<s, call[th].kills>> \in Extends
            \/ \A row \in ToSet(machines) :
                  Local(row) /\ row.session = s => row.name \in call[th].about

LEMMA CallsSpareProfiles ==
    ASSUME InventoryTypeOK, KillsUnshared, NEW th \in Threads, InventoryCall(th),
           NEW other \in Threads
    PROVE  KillSpares(other)
<1> SUFFICES ASSUME call[other].step = "kill", NEW s \in live \ live'
             PROVE  \/ <<s, call[other].kills>> \in Extends
                    \/ \A row \in ToSet(machines) :
                          Local(row) /\ row.session = s => row.name \in call[other].about
  BY DEF KillSpares
<1>1. other = th
  BY MoverIsAlone
<1>2. Kill(th)
  BY <1>1 DEF InventoryCall, AddOrUpdateTab, NewRemote, ChangeRemote, RemoveRemote,
              ReorderRemotes, Change, InLock, Empty, Fill
<1>3. s \in Target(call[th].kills)
  BY <1>2 DEF Kill
<1>4. s = call[th].kills \/ <<s, call[th].kills>> \in Extends
  BY <1>3 DEF Target, Longer
<1> QED BY <1>1, <1>4 DEF KillsUnshared, ToSet

-----------------------------------------------------------------------------
(* What a call is about to save, as the abstract list has it.              *)

\* Nobody saves while a call has the lock, so what it will save is still one change of
\* the list, of the profile it is about.
Pending ==
    \A th \in Threads : InLock(th) =>
        Inventory!Outcome(machines, call[th].rows, call[th].about)

\* A call begins, with rows that are one change of the list.
Begins(th) ==
    \E step \in {"kill", "empty"} : \E rows, about, kills :
        /\ Change(th, step, rows, about, kills)
        /\ Inventory!Outcome(machines, rows, about)
        /\ about \in {{}} \cup {{name} : name \in Names}

LEMMA AddedIs ==
    ASSUME NEW rows, NEW row \in Profiles, ~HasName(rows, row.name),
           NEW new, new = Append(rows, row) \/ new = <<row>> \o rows
    PROVE  Inventory!Outcome(rows, new, {row.name})
BY DEF HasName, Inventory!Outcome, Inventory!Added, Inventory!Named

LEMMA ChangedIs ==
    ASSUME NEW rows, NEW i \in DOMAIN rows, NEW row \in Profiles, row.name = rows[i].name,
           NEW new, \/ new = [rows EXCEPT ![i] = row]
                    \/ new = <<row>> \o RemoveAt(rows, i)
                    \/ new = Append(RemoveAt(rows, i), row)
    PROVE  Inventory!Outcome(rows, new, {row.name})
<1>1. i \in Inventory!Named(rows, row.name)
  BY DEF Inventory!Named
<1>2. Inventory!Changed(rows, new, row)
  BY <1>1 DEF Inventory!Changed, Inventory!RemoveAt, RemoveAt
<1> QED BY <1>2 DEF Inventory!Outcome

\* To change a profile and take it out is to take it out.
LEMMA RemovedChanged ==
    ASSUME NEW rows \in Rows, NEW i \in DOMAIN rows, NEW row \in Profiles,
           row.name = rows[i].name
    PROVE  RemoveAt([rows EXCEPT ![i] = row], i) = RemoveAt(rows, i)
<1> DEFINE new == [rows EXCEPT ![i] = row]
           less == RemoveAt(rows, i)
           lessNew == RemoveAt(new, i)
<1>1. /\ rows \in Seq(Profiles) /\ Len(rows) \in Nat /\ DOMAIN rows = 1..Len(rows)
      /\ i \in 1..Len(rows)
  BY RowsOK
<1>2. new \in Rows /\ DOMAIN new = DOMAIN rows /\ i \in DOMAIN new
  BY ChangedOK
<1>3. Len(new) = Len(rows) /\ \A j \in 1..Len(rows) : j # i => new[j] = rows[j]
  <2>1. \A j \in 1..Len(rows) : new[j] = IF j = i THEN row ELSE rows[j]
    BY <1>1
  <2>2. new \in Seq(Profiles) /\ DOMAIN new = 1..Len(rows)
    BY <1>1, <1>2 DEF Rows
  <2> HIDE DEF new
  <2>3. Len(new) = Len(rows)
    BY <1>1, <2>2, LenProperties
  <2> QED BY <2>1, <2>3
<1> HIDE DEF new
<1>4. /\ less \in Seq(Profiles) /\ Len(less) = Len(rows) - 1
      /\ \A j \in 1..(Len(rows) - 1) : less[j] = IF j < i THEN rows[j] ELSE rows[j + 1]
  BY RemovedIs
<1>5. /\ lessNew \in Seq(Profiles) /\ Len(lessNew) = Len(rows) - 1
      /\ \A j \in 1..(Len(rows) - 1) : lessNew[j] = IF j < i THEN new[j] ELSE new[j + 1]
  BY <1>2, <1>3, RemovedIs
<1> HIDE DEF less, lessNew
<1>6. ASSUME NEW j \in 1..(Len(rows) - 1) PROVE lessNew[j] = less[j]
  <2>1. /\ j < i => j \in 1..Len(rows) /\ j # i
        /\ ~(j < i) => j + 1 \in 1..Len(rows) /\ j + 1 # i
    BY <1>1
  <2>2. (j < i => new[j] = rows[j]) /\ (~(j < i) => new[j + 1] = rows[j + 1])
    BY <1>3, <2>1
  <2> QED BY <1>4, <1>5, <2>2
<1>7. Len(lessNew) = Len(less) /\ \A j \in 1..Len(less) : lessNew[j] = less[j]
  BY <1>4, <1>5, <1>6
<1>8. lessNew = less
  BY <1>4, <1>5, <1>7, SeqEqual
<1> QED BY <1>8 DEF less, lessNew, new

LEMMA RemovedOutcome ==
    ASSUME NEW rows \in Rows, NEW i \in DOMAIN rows
    PROVE  Inventory!Outcome(rows, RemoveAt(rows, i), {rows[i].name})
<1>1. rows[i].name \in Names
  BY RowsOK DEF Profiles
<1>2. i \in Inventory!Named(rows, rows[i].name)
  BY DEF Inventory!Named
<1>3. Inventory!Removed(rows, RemoveAt(rows, i), rows[i].name)
  BY <1>2 DEF Inventory!Removed, Inventory!RemoveAt, RemoveAt
<1> QED BY <1>1, <1>3 DEF Inventory!Outcome

\* An order of all the names is a list of the same profiles.
LEMMA ReorderedOutcome ==
    ASSUME NEW rows \in Rows, NEW order \in [DOMAIN rows -> Names],
           {order[i] : i \in DOMAIN order} = {rows[i].name : i \in DOMAIN rows}
    PROVE  Inventory!Outcome(rows, [i \in DOMAIN order |-> rows[IndexOf(rows, order[i])]], {})
<1> DEFINE new == [i \in DOMAIN order |-> rows[IndexOf(rows, order[i])]]
<1>1. Distinct(rows) /\ Len(rows) \in Nat /\ DOMAIN rows = 1..Len(rows)
  BY RowsOK
<1>2. DOMAIN new = 1..Len(rows) /\ new \in Seq(Profiles)
  BY <1>1, ReorderedOK DEF Rows
<1>3. Len(new) = Len(rows)
  <2> HIDE DEF new
  <2> QED BY <1>1, <1>2, LenProperties
<1>4. \A i \in DOMAIN rows : /\ IndexOf(rows, order[i]) \in DOMAIN rows
                             /\ rows[IndexOf(rows, order[i])].name = order[i]
  <2> TAKE i \in DOMAIN rows
  <2>1. \E j \in DOMAIN rows : rows[j].name = order[i]
    OBVIOUS
  <2> QED BY <2>1 DEF IndexOf
<1>5. ToSet(new) \subseteq ToSet(rows)
  BY <1>4 DEF ToSet
<1>6. ASSUME NEW j \in DOMAIN rows PROVE rows[j] \in ToSet(new)
  <2>1. PICK i \in DOMAIN rows : order[i] = rows[j].name
    OBVIOUS
  <2>2. IndexOf(rows, order[i]) = j
    BY <1>1, <1>4, <2>1 DEF Distinct
  <2>3. i \in DOMAIN new /\ new[i] = rows[j]
    BY <2>1, <2>2
  <2> QED BY <2>3 DEF ToSet
<1>7. ToSet(new) = ToSet(rows)
  BY <1>5, <1>6 DEF ToSet
<1> QED BY <1>3, <1>7 DEF Inventory!Outcome, Inventory!Reordered, Inventory!ToSet, ToSet

LEMMA TabBegins ==
    ASSUME InventoryTypeOK, NEW th \in Threads, AddOrUpdateTab(th)
    PROVE  Begins(th)
<1>1. PICK name \in Names, host \in Hosts \cup {None}, session \in Sessions \cup {None} :
          /\ HasName(machines, name) \/ host # None
          /\ Change(th, "empty", TabRows(name, host, session), {name}, None)
  BY DEF AddOrUpdateTab
<1>2. machines \in Rows
  BY TypesUse
<1>3. CASE HasName(machines, name)
  <2> DEFINE i == IndexOf(machines, name)
             row == [machines[i] EXCEPT !.host = Given(host, machines[i].host),
                                        !.session = Given(session, machines[i].session)]
  <2>1. i \in DOMAIN machines /\ machines[i] \in Profiles /\ machines[i].name = name
    BY <1>2, <1>3, IndexOK, RowsOK
  <2>2. row \in Profiles /\ row.name = machines[i].name
    BY <2>1 DEF Profiles, Given
  <2>3. TabRows(name, host, session) = [machines EXCEPT ![i] = row]
    BY <1>3 DEF TabRows
  <2> HIDE DEF i, row
  <2>4. Inventory!Outcome(machines, TabRows(name, host, session), {row.name})
    BY <2>1, <2>2, <2>3, ChangedIs
  <2> QED BY <1>1, <2>1, <2>2, <2>4 DEF Begins
<1>4. CASE ~HasName(machines, name)
  <2> DEFINE row == [name |-> name, host |-> host, session |-> session]
  <2>1. row \in Profiles /\ row.name = name
    BY <1>1, <1>4 DEF Profiles
  <2>2. TabRows(name, host, session) = Append(machines, row)
    BY <1>4 DEF TabRows
  <2> HIDE DEF row
  <2>3. Inventory!Outcome(machines, TabRows(name, host, session), {row.name})
    BY <1>4, <2>1, <2>2, AddedIs
  <2> QED BY <1>1, <2>1, <2>3 DEF Begins
<1> QED BY <1>3, <1>4

LEMMA NewBegins ==
    ASSUME InventoryTypeOK, NEW th \in Threads, NewRemote(th)
    PROVE  Begins(th)
<1> DEFINE Copied(base) == IF base = None THEN None ELSE machines[IndexOf(machines, base)].session
           Row(name, host, session, base) ==
              WithSession([name |-> name, host |-> host, session |-> Copied(base)], session)
<1>1. PICK name \in Names, host \in Hosts, session \in Sessions \cup {None},
           base \in Names \cup {None}, bottom \in BOOLEAN :
         /\ ~HasName(machines, name)
         /\ base # None => HasName(machines, base)
         /\ Change(th, "empty",
                   IF bottom THEN Append(machines, Row(name, host, session, base))
                   ELSE <<Row(name, host, session, base)>> \o machines, {name}, None)
  BY DEF NewRemote
<1>2. Copied(base) \in Sessions \cup {None}
  <2>1. CASE base # None
    <3>1. machines[IndexOf(machines, base)] \in Profiles
      BY <1>1, <2>1, TypesUse, RowsOK, IndexOK
    <3> QED BY <2>1, <3>1 DEF Profiles
  <2> QED BY <2>1
<1> HIDE DEF Copied
<1>3. Row(name, host, session, base) \in Profiles /\ Row(name, host, session, base).name = name
  <2> DEFINE plain == [name |-> name, host |-> host, session |-> Copied(base)]
  <2>1. plain \in Profiles /\ plain.name = name
    BY <1>2 DEF Profiles
  <2> HIDE DEF plain
  <2>2. WithSession(plain, session) \in Profiles /\ WithSession(plain, session).name = name
    BY <2>1, WithSessionOK
  <2> QED BY <2>2 DEF plain
<1> HIDE DEF Row
<1> DEFINE row == Row(name, host, session, base)
           new == IF bottom THEN Append(machines, row) ELSE <<row>> \o machines
<1>4. Change(th, "empty", new, {name}, None)
  BY <1>1
<1>5. row \in Profiles /\ row.name = name /\ ~HasName(machines, row.name)
  BY <1>1, <1>3
<1>6. new = Append(machines, row) \/ new = <<row>> \o machines
  OBVIOUS
<1> HIDE DEF row, new
<1>7. Inventory!Outcome(machines, new, {name})
  BY <1>5, <1>6, AddedIs
<1> QED BY <1>4, <1>7 DEF Begins

LEMMA ChangeBegins ==
    ASSUME InventoryTypeOK, NEW th \in Threads, ChangeRemote(th)
    PROVE  Begins(th)
<1> DEFINE Row(i, host, session) ==
              [WithSession(machines[i], session) EXCEPT
                  !.host = Given(host, WithSession(machines[i], session).host)]
<1>1. PICK i \in DOMAIN machines, host \in Hosts \cup {None}, session \in Sessions \cup {None},
           position \in {"top", "bottom", None} :
         Change(th, "empty", Placed([machines EXCEPT ![i] = Row(i, host, session)], i, position),
                {Row(i, host, session).name}, None)
  BY DEF ChangeRemote
<1>2. machines \in Rows /\ machines[i] \in Profiles
  BY TypesUse, RowsOK
<1>3. WithSession(machines[i], session) \in Profiles
      /\ WithSession(machines[i], session).name = machines[i].name
  BY <1>2, WithSessionOK
<1>4. Row(i, host, session) \in Profiles /\ Row(i, host, session).name = machines[i].name
  BY <1>3 DEF Profiles, Given
<1>5. Row(i, host, session).name \in Names
  BY <1>4 DEF Profiles
<1> HIDE DEF Row
<1> DEFINE row == Row(i, host, session)
           changed == [machines EXCEPT ![i] = row]
           new == Placed(changed, i, position)
<1>6. changed[i] = row /\ RemoveAt(changed, i) = RemoveAt(machines, i)
  BY <1>2, <1>4, ChangedOK, RemovedChanged
<1>7. Change(th, "empty", new, {row.name}, None) /\ row.name \in Names
  BY <1>1, <1>5
<1> HIDE DEF row
<1>8. \/ new = changed \/ new = <<row>> \o RemoveAt(machines, i)
      \/ new = Append(RemoveAt(machines, i), row)
  <2> HIDE DEF changed
  <2> QED BY <1>6 DEF Placed
<1>9. row \in Profiles /\ row.name = machines[i].name
  BY <1>4 DEF row
<1> HIDE DEF new
<1>10. Inventory!Outcome(machines, new, {row.name})
  BY <1>8, <1>9, ChangedIs
<1> QED BY <1>7, <1>10 DEF Begins

LEMMA RemoveBegins ==
    ASSUME InventoryTypeOK, NEW th \in Threads, RemoveRemote(th)
    PROVE  Begins(th)
<1>1. PICK i \in DOMAIN machines, kills \in BOOLEAN :
         Change(th, IF kills THEN "kill" ELSE "empty", RemoveAt(machines, i), {machines[i].name},
                IF kills THEN machines[i].session ELSE None)
  BY DEF RemoveRemote
<1>2. Inventory!Outcome(machines, RemoveAt(machines, i), {machines[i].name})
  BY TypesUse, RemovedOutcome
<1>3. machines[i].name \in Names
  BY TypesUse, RowsOK DEF Profiles
<1> QED BY <1>1, <1>2, <1>3 DEF Begins

LEMMA ReorderBegins ==
    ASSUME InventoryTypeOK, NEW th \in Threads, ReorderRemotes(th)
    PROVE  Begins(th)
<1>1. PICK order \in [DOMAIN machines -> Names] :
         /\ {order[i] : i \in DOMAIN order} = {machines[i].name : i \in DOMAIN machines}
         /\ Change(th, "empty", [i \in DOMAIN order |-> machines[IndexOf(machines, order[i])]], {}, None)
  BY DEF ReorderRemotes
<1>2. Inventory!Outcome(machines, [i \in DOMAIN order |-> machines[IndexOf(machines, order[i])]], {})
  BY <1>1, TypesUse, ReorderedOutcome
<1> QED BY <1>1, <1>2 DEF Begins

LEMMA CallsBegin ==
    ASSUME InventoryTypeOK, NEW th \in Threads, InventoryCall(th)
    PROVE  Begins(th) \/ Kill(th) \/ Empty(th) \/ Fill(th)
BY TabBegins, NewBegins, ChangeBegins, RemoveBegins, ReorderBegins DEF InventoryCall

\* What the steps of a call leave of it.
LEMMA ChangeMoves ==
    ASSUME InventoryTypeOK, NEW th \in Threads, NEW step \in {"kill", "empty"},
           NEW rows, NEW about, NEW kills, Change(th, step, rows, about, kills)
    PROVE  /\ ~InLock(th) /\ InLock(th)' /\ machines' = machines
           /\ call'[th].rows = rows /\ call'[th].about = about
BY DEF InventoryTypeOK, Change, InLock

LEMMA RestMoves ==
    ASSUME InventoryTypeOK, NEW th \in Threads, Kill(th) \/ Empty(th)
    PROVE  /\ InLock(th) /\ InLock(th)' /\ machines' = machines
           /\ call'[th].rows = call[th].rows /\ call'[th].about = call[th].about
<1>1. th \in DOMAIN call /\ call[th] \in Calls
  BY TypesUse DEF InventoryTypeOK
<1>2. PICK step \in {"empty", "fill"} : call' = [call EXCEPT ![th].step = step]
  BY DEF Kill, Empty
<1>3. call'[th] = [call[th] EXCEPT !.step = step]
  BY <1>1, <1>2
<1>4. call'[th].step = step /\ call'[th].rows = call[th].rows /\ call'[th].about = call[th].about
  BY <1>1, <1>3 DEF Calls
<1> QED BY <1>4 DEF Kill, Empty, InLock

LEMMA FillMoves ==
    ASSUME InventoryTypeOK, NEW th \in Threads, Fill(th)
    PROVE  /\ InLock(th) /\ ~InLock(th)' /\ machines' = call[th].rows
           /\ call'[th].about = {}
BY DEF InventoryTypeOK, Fill, InLock, Idle

LEMMA CallsArePending ==
    ASSUME InventoryTypeOK, Pending, NEW th \in Threads, InventoryCall(th)
    PROVE  Pending'
<1>1. \A other \in Threads \ {th} : ~InLock(other)'
  BY MoverIsAlone DEF InLock
<1>2. InLock(th)' => Inventory!Outcome(machines', call'[th].rows, call'[th].about)
  <2>1. CASE Begins(th)
    <3>1. PICK step \in {"kill", "empty"} : \E rows, about, kills :
             Change(th, step, rows, about, kills) /\ Inventory!Outcome(machines, rows, about)
      BY <2>1 DEF Begins
    <3>2. PICK rows, about, kills :
             Change(th, step, rows, about, kills) /\ Inventory!Outcome(machines, rows, about)
      BY <3>1
    <3>3. machines' = machines /\ call'[th].rows = rows /\ call'[th].about = about
      BY <3>2, ChangeMoves
    <3> QED BY <3>2, <3>3
  <2>2. CASE Kill(th) \/ Empty(th)
    <3>1. /\ InLock(th) /\ machines' = machines
          /\ call'[th].rows = call[th].rows /\ call'[th].about = call[th].about
      BY <2>2, RestMoves
    <3> QED BY <3>1 DEF Pending
  <2>3. CASE Fill(th)
    BY <2>3, FillMoves
  <2> QED BY <2>1, <2>2, <2>3, CallsBegin
<1> QED BY <1>1, <1>2 DEF Pending, InLock

LEMMA CallsImplement ==
    ASSUME InventoryTypeOK, Pending, NEW th \in Threads, InventoryCall(th)
    PROVE  [Inventory!Next]_(Inventory!vars)
<1> DEFINE Asked == [t \in Threads |-> [open |-> InLock(t), about |-> call[t].about]]
           Asked1 == [t \in Threads |-> [open |-> InLock(t)', about |-> call'[t].about]]
<1>1. \A t \in Threads \ {th} : call'[t] = call[t] /\ InLock(t)' = InLock(t)
  BY MoverIsAlone DEF InLock
<1>2. \A open, about : InLock(th)' = open /\ call'[th].about = about =>
         Asked1 = [Asked EXCEPT ![th] = [open |-> open, about |-> about]]
  BY <1>1
<1>3. CASE Begins(th)
  <2>1. PICK step \in {"kill", "empty"}, about \in {{}} \cup {{name} : name \in Names} :
           \E rows, kills : Change(th, step, rows, about, kills)
    BY <1>3 DEF Begins
  <2>2. /\ ~InLock(th) /\ InLock(th)' = TRUE /\ machines' = machines /\ call'[th].about = about
    BY <2>1, ChangeMoves DEF InLock
  <2>3. Asked1 = [Asked EXCEPT ![th] = [open |-> TRUE, about |-> about]]
    BY <1>2, <2>2
  <2>4. Inventory!Ask(th)
    BY <2>2, <2>3 DEF Inventory!Ask
  <2> QED BY <2>4 DEF Inventory!Next
<1>4. CASE Kill(th) \/ Empty(th)
  <2>1. InLock(th)' = InLock(th) /\ machines' = machines /\ call'[th].about = call[th].about
    BY <1>4, RestMoves DEF InLock
  <2>2. Asked1 = Asked
    BY <1>1, <2>1
  <2> QED BY <2>1, <2>2 DEF Inventory!vars
<1>5. CASE Fill(th)
  <2>1. /\ InLock(th) /\ InLock(th)' = FALSE /\ machines' = call[th].rows
        /\ call'[th].about = {}
    BY <1>5, FillMoves DEF InLock
  <2>2. Asked1 = [Asked EXCEPT ![th] = Inventory!NotAsked]
    BY <1>2, <2>1 DEF Inventory!NotAsked
  <2>3. Inventory!Outcome(machines, machines', Asked[th].about) /\ Asked[th].open
    BY <2>1 DEF Pending
  <2>4. Inventory!Answer(th)
    BY <2>2, <2>3 DEF Inventory!Answer
  <2> QED BY <2>4 DEF Inventory!Next
<1> QED BY <1>3, <1>4, <1>5, CallsBegin

=============================================================================
