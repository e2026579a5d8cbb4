-------------------------- MODULE SessionEditsProofs --------------------------
(* Proofs about SessionSync: no edit of a careful user is lost, as long as no  *)
(* deletion comes into the page's list while a request of the page is under    *)
(* way.  The Delete button of the panel editor, which records no deletion, is  *)
(* left out; the one that kills the session too (deleteSessionAndKill) is not. *)
EXTENDS SessionSyncProofs

RecordingUsers == Careful /\ "panelDelete" \notin UserOps

-----------------------------------------------------------------------------
(* The invariant.                                                          *)

\* What is true of a page whose user changed the keys in edits that no save has
\* delivered yet.
KeepsEdits(p, edits) ==
    /\ edits # {} => p.unsaved
    /\ p.deleted # {} => p.unsaved
    /\ p.get.stage # "none" => ~p.timer /\ ~p.unsaved /\ p.put.stage = "none"
    /\ p.put.stage = "sent" =>
          \A k \in Keys : SetByUser(p.put.body, k) = SetByUser(p.list, k)
    /\ p.put.stage = "ok" => edits = {}
    /\ \A n \in p.deleted : p.list[n] = None
    /\ \A n \in edits \ {Order} : n \in p.deleted \/ p.list[n] # None

\* The cache of a page, late or not, has no workspace that the page does not know.
Cached(p) == \A n \in Names : p.list[n] = None => p.cache[n] = None \/ n \in p.deleted

Kept(p, edits) == Cached(p) /\ (p.late \/ KeepsEdits(p, edits))

\* Workspaces the user of a page that is not late has made, and that the page does not
\* mark in any other way.
Marked(p) == p.dirty \cup p.deleted \cup {Order}

Created(b) == IF page[b].late THEN {} ELSE unsent[b] \ Marked(page[b])

\* Such a workspace is in no list but the page's own: a conflict cannot bring another
\* one of its name.
Nowhere(n) ==
    /\ server[n] = None
    /\ rrInit # None => rrInit[n] = None
    /\ \A put \in orphans : put.body[n] = None

Lacks(p, n) ==
    /\ p.list[n] = None /\ p.cache[n] = None
    /\ p.put.stage # "none" => p.put.body[n] = None
    /\ p.put.stage \in {"ok", "conflict"} => p.put.reply[n] = None
    /\ p.get.stage = "answered" => p.get.reply[n] = None

NoConflictOver(p, n) == p.put.stage = "conflict" => p.put.reply[n] = None

KnownOnlyTo(b, n) ==
    /\ Nowhere(n) /\ NoConflictOver(page[b], n)
    /\ \A c \in Pages \ {b} : Lacks(page[c], n)

EditsInv ==
    /\ TypeOK
    /\ \A b \in Pages : Kept(page[b], unsent[b])
    /\ \A b \in Pages : \A n \in Created(b) : KnownOnlyTo(b, n)

-----------------------------------------------------------------------------
(* One page changes, and with it the list of the hub or what is on its way.  *)

LEMMA OnePageEdits ==
    ASSUME EditsInv, TypeOK', NEW b \in Pages, NEW q, NEW edits,
           page' = [page EXCEPT ![b] = q], unsent' = [unsent EXCEPT ![b] = edits],
           Kept(q, edits),
           \A c \in Pages \ {b} : \A n \in Created(c) : Nowhere(n)' /\ Lacks(q, n),
           \A n \in edits \ Marked(q) :
              q.late \/ /\ Nowhere(n)' /\ NoConflictOver(q, n)
                        /\ \A c \in Pages \ {b} : Lacks(page[c], n)
    PROVE  EditsInv'
<1>1. page \in [Pages -> PageRecords] /\ unsent \in [Pages -> SUBSET Keys]
  BY DEF EditsInv, TypeOK
<1>2. page'[b] = q /\ unsent'[b] = edits
  BY <1>1
<1>3. \A c \in Pages \ {b} : page'[c] = page[c] /\ unsent'[c] = unsent[c]
  BY <1>1
<1>4. ASSUME NEW c \in Pages PROVE Kept(page'[c], unsent'[c])
  <2>1. CASE c = b
    BY <1>2, <2>1
  <2>2. CASE c # b
    <3>1. page'[c] = page[c] /\ unsent'[c] = unsent[c]
      BY <1>3, <2>2
    <3> QED BY <3>1 DEF EditsInv
  <2> QED BY <2>1, <2>2
<1>5. ASSUME NEW c \in Pages, NEW n \in Created(c)' PROVE KnownOnlyTo(c, n)'
  <2>1. CASE c = b
    <3>1. n \in edits \ Marked(q) /\ ~q.late
      BY <1>2, <1>5, <2>1 DEF Created
    <3>2. \A d \in Pages \ {b} : Lacks(page'[d], n)
      BY <1>3, <3>1
    <3> QED BY <1>2, <2>1, <3>1, <3>2 DEF KnownOnlyTo
  <2>2. CASE c # b
    <3>1. page'[c] = page[c] /\ n \in Created(c)
      BY <1>3, <1>5, <2>2 DEF Created
    <3>2. KnownOnlyTo(c, n)
      BY <3>1 DEF EditsInv
    <3>3. Nowhere(n)' /\ Lacks(q, n)
      BY <2>2, <3>1
    <3>4. ASSUME NEW d \in Pages \ {c} PROVE Lacks(page'[d], n)
      <4>1. CASE d = b
        BY <1>2, <3>3, <4>1
      <4>2. CASE d # b
        <5>1. page'[d] = page[d]
          BY <1>3, <4>2
        <5> QED BY <3>2, <5>1 DEF KnownOnlyTo
      <4> QED BY <4>1, <4>2
    <3> QED BY <3>1, <3>2, <3>3, <3>4 DEF KnownOnlyTo
  <2> QED BY <2>1, <2>2
<1> QED BY <1>4, <1>5 DEF EditsInv

\* Steps of a page, and of the network, that touch no list of anybody else.
LEMMA QuietEdits ==
    ASSUME EditsInv, TypeOK', NEW b \in Pages, NEW q,
           page' = [page EXCEPT ![b] = q], UNCHANGED <<server, rrInit, orphans, unsent>>,
           Kept(q, unsent[b]), q.late = page[b].late,
           \A n \in Names : Nowhere(n) /\ Lacks(page[b], n) => Lacks(q, n),
           \/ q.late \/ unsent[b] = {}
           \/ /\ page[b].dirty \cup page[b].deleted \subseteq q.dirty \cup q.deleted
              /\ q.put.stage = "conflict" => q.put = page[b].put
    PROVE  EditsInv'
<1>1. unsent \in [Pages -> SUBSET Keys]
  BY DEF EditsInv, TypeOK
<1>2. unsent' = [unsent EXCEPT ![b] = unsent[b]]
  BY <1>1
<1>3. ASSUME NEW n, Nowhere(n) PROVE Nowhere(n)'
  BY <1>3 DEF Nowhere
<1>4. ASSUME NEW c \in Pages \ {b}, NEW n \in Created(c) PROVE Nowhere(n)' /\ Lacks(q, n)
  <2>1. n \in Names
    BY <1>1 DEF Created, Marked, Keys
  <2>2. KnownOnlyTo(c, n)
    BY DEF EditsInv
  <2> QED BY <1>3, <2>1, <2>2 DEF KnownOnlyTo
<1>5. ASSUME NEW n \in unsent[b] \ Marked(q), ~q.late
      PROVE  /\ Nowhere(n)' /\ NoConflictOver(q, n)
             /\ \A c \in Pages \ {b} : Lacks(page[c], n)
  <2>1. n \in Created(b)
    BY <1>5 DEF Created, Marked
  <2>2. KnownOnlyTo(b, n)
    BY <2>1 DEF EditsInv
  <2> QED BY <1>3, <1>5, <2>1, <2>2 DEF KnownOnlyTo, NoConflictOver
<1> QED BY <1>2, <1>4, <1>5, OnePageEdits

-----------------------------------------------------------------------------
(* The steps.                                                              *)

LEMMA EditsInit == Init => EditsInv
<1> SUFFICES ASSUME Init PROVE EditsInv
  OBVIOUS
<1>1. TypeOK
  BY SyncInitType
<1>2. \A b \in Pages : page[b] = FreshPage(server, server) /\ unsent[b] = {}
  BY DEF Init
<1> QED BY <1>1, <1>2 DEF EditsInv, Kept, Cached, KeepsEdits, Created, FreshPage, NoPut, NoGet

\* A user's change of the key k while nothing is under way: the page marks it, or nobody
\* else knows the workspace.
ChangesKey(p, q, k) ==
    /\ p.put.stage = "none" /\ p.get.stage = "none"
    /\ q.put = p.put /\ q.get = p.get /\ q.unsaved /\ q.cache = q.list /\ q.late = p.late
    /\ \A n \in Names \ {k} : q.list[n] = p.list[n]
    /\ p.dirty \subseteq q.dirty /\ p.deleted \subseteq q.deleted
    /\ q.deleted \subseteq p.deleted \cup {k}
    /\ p.late \/ (k \in q.deleted => q.list[k] = None)
    /\ \/ k = Order
       \/ k \in q.deleted /\ q.list[k] = None
       \/ p.list[k] # None /\ q.list[k] # None /\ k \in q.dirty
       \/ Unused(k) /\ q.list[k] # None

LEMMA ChangeEdits ==
    ASSUME EditsInv, TypeOK', NEW b \in Pages, NEW q \in PageRecords, NEW k \in Keys,
           page' = [page EXCEPT ![b] = q],
           unsent' = [unsent EXCEPT ![b] = @ \cup {k}],
           UNCHANGED <<server, rrInit, orphans>>,
           ChangesKey(page[b], q, k)
    PROVE  EditsInv'
<1> USE DEF ChangesKey
<1> DEFINE edits == unsent[b] \cup {k}
<1>0. /\ unsent \in [Pages -> SUBSET Keys] /\ page \in [Pages -> PageRecords]
      /\ page[b] \in PageRecords /\ page[b].deleted \subseteq Names
      /\ q.deleted \subseteq Names
      /\ Kept(page[b], unsent[b])
  BY DEF EditsInv, TypeOK, PageRecords
<1>1. Kept(q, edits)
  <2> SUFFICES ASSUME ~page[b].late PROVE KeepsEdits(q, edits)
    BY DEF Kept, Cached
  <2>0. KeepsEdits(page[b], unsent[b])
    BY <1>0 DEF Kept
  <2>1. ASSUME NEW n \in q.deleted PROVE q.list[n] = None
    BY <1>0, <2>0 DEF KeepsEdits
  <2>2. ASSUME NEW n \in edits \ {Order} PROVE n \in q.deleted \/ q.list[n] # None
    <3>1. CASE n = k
      BY <3>1, <2>2
    <3>2. CASE n # k
      <4>1. n \in Names /\ n \in unsent[b] \ {Order}
        BY <1>0, <2>2, <3>2 DEF Keys
      <4> QED BY <1>0, <2>0, <3>2, <4>1 DEF KeepsEdits
    <3> QED BY <3>1, <3>2
  <2> QED BY <2>0, <2>1, <2>2 DEF KeepsEdits
<1>2. ASSUME NEW n, Nowhere(n) PROVE Nowhere(n)'
  BY <1>2 DEF Nowhere
<1>3. ASSUME NEW c \in Pages \ {b}, NEW n \in Created(c) PROVE Nowhere(n)' /\ Lacks(q, n)
  <2>1. n \in Names /\ n # Order /\ KnownOnlyTo(c, n)
    BY <1>0 DEF Created, Marked, Keys, EditsInv
  <2>2. q.list[n] = None
    <3>1. page[c].list[n] # None
      BY <2>1 DEF Created, Marked, EditsInv, Kept, KeepsEdits
    <3>2. page[b].list[n] = None
      BY <2>1 DEF KnownOnlyTo, Lacks
    <3>3. ~Unused(n)
      BY <3>1 DEF Unused
    <3> QED BY <2>1, <3>2, <3>3
  <2> QED BY <1>2, <2>1, <2>2 DEF KnownOnlyTo, Lacks
<1>4. ASSUME NEW n \in edits \ Marked(q), ~q.late
      PROVE  /\ Nowhere(n)' /\ NoConflictOver(q, n)
             /\ \A c \in Pages \ {b} : Lacks(page[c], n)
  <2>1. NoConflictOver(q, n)
    BY DEF NoConflictOver
  <2>2. CASE n \in Created(b)
    BY <1>2, <2>1, <2>2 DEF EditsInv, KnownOnlyTo
  <2>3. CASE n \notin Created(b)
    <3>1. n = k /\ Unused(n) /\ n \in Names
      BY <1>4, <2>3 DEF Created, Marked, Keys
    <3>2. Nowhere(n)
      BY <3>1 DEF Unused, Nowhere
    <3>3. ASSUME NEW c \in Pages \ {b} PROVE Lacks(page[c], n)
      <4>1. page[c].cache[n] = None
        BY <3>1 DEF EditsInv, Kept, Cached, Unused
      <4> QED BY <3>1, <4>1 DEF Unused, Lacks, InFlight
    <3> QED BY <1>2, <2>1, <3>2, <3>3
  <2> QED BY <2>2, <2>3
<1>5. unsent' = [unsent EXCEPT ![b] = edits]
  BY <1>0
<1> HIDE DEF edits
<1> QED BY <1>1, <1>3, <1>4, <1>5, OnePageEdits

LEMMA UserEdits ==
    ASSUME RecordingUsers, EditsInv, TypeOK', NEW b \in Pages, User(b)
    PROVE  EditsInv'
<1> DEFINE p == page[b]
<1> USE DEF Changed
<1>0. /\ p \in PageRecords /\ p.list \in Lists /\ marks + 1 \in Nat
      /\ page \in [Pages -> PageRecords] /\ page' \in [Pages -> PageRecords]
      /\ server \in Lists
  BY DEF EditsInv, TypeOK, PageRecords
<1>1. \A q : page' = [page EXCEPT ![b] = q] => q \in PageRecords
  BY ONLY <1>0
<1>2. ASSUME NEW n \in Names, Edit(b, n) PROVE EditsInv'
  <2> DEFINE l == [p.list EXCEPT ![n].mark = marks + 1]
             q == [SaveProfiles(p, l) EXCEPT !.dirty = p.dirty \cup {n}]
  <2>1. \A m \in Names \ {n} : l[m] = p.list[m]
    BY <1>0 DEF Lists, Keys
  <2>2. /\ q.list = l /\ q.cache = l /\ q.put = p.put /\ q.get = p.get
        /\ q.unsaved = TRUE /\ q.late = p.late /\ q.dirty = p.dirty \cup {n} /\ q.deleted = p.deleted
    BY <1>0 DEF SaveProfiles, PageRecords
  <2>3. /\ p.put.stage = "none" /\ p.get.stage = "none" /\ p.list[n] # None
        /\ n \in Keys /\ UNCHANGED <<server, rrInit, orphans>>
        /\ page' = [page EXCEPT ![b] = q] /\ unsent' = [unsent EXCEPT ![b] = @ \cup {n}]
    BY <1>2 DEF Edit, Acts, RecordingUsers, InFlight, Polling, Keys
  <2>4. l[n] # None
    <3>1. p.list[n] \in Rows /\ l[n] = [p.list[n] EXCEPT !.mark = marks + 1]
      BY <1>0, <2>3 DEF Lists, Keys
    <3> QED BY <1>0, <3>1, NoneIsNoRow DEF Rows
  <2>5. p.late \/ n \notin p.deleted
    BY <2>3 DEF EditsInv, Kept, KeepsEdits
  <2> HIDE DEF q, l
  <2>9. q \in PageRecords
    BY <1>1, <2>3
  <2>10. ChangesKey(p, q, n)
    BY <2>1, <2>2, <2>3, <2>4, <2>5 DEF ChangesKey
  <2> QED BY <2>3, <2>9, <2>10, ChangeEdits
<1>3. ASSUME NEW n \in Names, Create(b, n) PROVE EditsInv'
  <2> DEFINE l == [p.list EXCEPT ![n] = NewRow(marks + 1)]
             q == SaveProfiles(p, l)
  <2>1. \A m \in Names \ {n} : l[m] = p.list[m]
    BY <1>0 DEF Lists, Keys
  <2>2. /\ q.list = l /\ q.cache = l /\ q.put = p.put /\ q.get = p.get
        /\ q.unsaved = TRUE /\ q.late = p.late /\ q.dirty = p.dirty /\ q.deleted = p.deleted
    BY <1>0 DEF SaveProfiles, PageRecords
  <2>3. /\ p.put.stage = "none" /\ p.get.stage = "none" /\ Unused(n)
        /\ n \in Keys /\ UNCHANGED <<server, rrInit, orphans>>
        /\ page' = [page EXCEPT ![b] = q] /\ unsent' = [unsent EXCEPT ![b] = @ \cup {n}]
    BY <1>3 DEF Create, Acts, RecordingUsers, InFlight, Polling, Keys
  <2>4. l[n] # None
    BY <1>0, <2>3, NewRowOK, NoneIsNoRow DEF Lists
  <2>5. n \notin p.deleted
    BY <2>3 DEF Unused
  <2> HIDE DEF q, l
  <2>9. q \in PageRecords
    BY <1>1, <2>3
  <2>10. ChangesKey(p, q, n)
    BY <2>1, <2>2, <2>3, <2>4, <2>5 DEF ChangesKey
  <2> QED BY <2>3, <2>9, <2>10, ChangeEdits
<1>4. ASSUME NEW n \in Names, BeginDelete(b, n) PROVE EditsInv'
  <2> DEFINE q == [p EXCEPT !.killing = n]
  <2>1. page' = [page EXCEPT ![b] = q] /\ UNCHANGED <<server, rrInit, orphans, unsent>>
    BY <1>4 DEF BeginDelete
  <2>2. /\ q.list = p.list /\ q.cache = p.cache /\ q.put = p.put /\ q.get = p.get
        /\ q.unsaved = p.unsaved /\ q.timer = p.timer /\ q.late = p.late
        /\ q.dirty = p.dirty /\ q.deleted = p.deleted
    BY <1>0 DEF PageRecords
  <2>3. Kept(p, unsent[b])
    BY DEF EditsInv
  <2> HIDE DEF q
  <2>4. Kept(q, unsent[b]) /\ \A m \in Names : Lacks(p, m) => Lacks(q, m)
    BY <2>2, <2>3 DEF Kept, Cached, KeepsEdits, Lacks
  <2> QED BY <2>1, <2>2, <2>4, QuietEdits
<1>5. ASSUME Reorder(b) PROVE EditsInv'
  <2> DEFINE l == [p.list EXCEPT ![Order] = Swapped(@)]
             q == SaveProfiles(p, l)
  <2>1. \A m \in Names : l[m] = p.list[m]
    BY <1>0, SyncAssumption DEF Lists, Keys
  <2>2. /\ q.list = l /\ q.cache = l /\ q.put = p.put /\ q.get = p.get
        /\ q.unsaved = TRUE /\ q.late = p.late /\ q.dirty = p.dirty /\ q.deleted = p.deleted
    BY <1>0 DEF SaveProfiles, PageRecords
  <2>3. /\ p.put.stage = "none" /\ p.get.stage = "none"
        /\ Order \in Keys /\ UNCHANGED <<server, rrInit, orphans>>
        /\ page' = [page EXCEPT ![b] = q] /\ unsent' = [unsent EXCEPT ![b] = @ \cup {Order}]
    BY <1>5 DEF Reorder, Acts, RecordingUsers, InFlight, Polling, Keys
  <2>4. Order \notin p.deleted
    BY <1>0, SyncAssumption DEF PageRecords
  <2> HIDE DEF q, l
  <2>9. q \in PageRecords
    BY <1>1, <2>3
  <2>10. ChangesKey(p, q, Order)
    BY <2>1, <2>2, <2>3, <2>4 DEF ChangesKey
  <2> QED BY <2>3, <2>9, <2>10, ChangeEdits
<1>6. ASSUME NEW n \in Names, NEW tab \in Tabs, CloseTab(b, n, tab) PROVE EditsInv'
  <2> DEFINE q == [p EXCEPT !.closing = <<n, tab>>]
  <2>1. /\ page' = [page EXCEPT ![b] = q] /\ UNCHANGED <<rrInit, orphans, unsent>>
        /\ \A m \in Names : server[m] = None => server'[m] = None
    BY <1>0, <1>6 DEF CloseTab, Lists, Keys
  <2>2. /\ q.list = p.list /\ q.cache = p.cache /\ q.put = p.put /\ q.get = p.get
        /\ q.unsaved = p.unsaved /\ q.timer = p.timer /\ q.late = p.late
        /\ q.dirty = p.dirty /\ q.deleted = p.deleted
    BY <1>0 DEF PageRecords
  <2>3. unsent \in [Pages -> SUBSET Keys] /\ Kept(p, unsent[b])
    BY DEF EditsInv, TypeOK
  <2> HIDE DEF q
  <2>4. unsent' = [unsent EXCEPT ![b] = unsent[b]] /\ Kept(q, unsent[b])
    BY <2>1, <2>2, <2>3 DEF Kept, Cached, KeepsEdits
  <2>5. ASSUME NEW m \in Names, Nowhere(m) PROVE Nowhere(m)'
    BY <2>1, <2>5 DEF Nowhere
  <2>6. ASSUME NEW c \in Pages \ {b}, NEW m \in Created(c) PROVE Nowhere(m)' /\ Lacks(q, m)
    <3>1. m \in Names /\ KnownOnlyTo(c, m)
      BY <2>3 DEF Created, Marked, Keys, EditsInv
    <3> QED BY <2>2, <2>5, <3>1 DEF KnownOnlyTo, Lacks
  <2>7. ASSUME NEW m \in unsent[b] \ Marked(q), ~q.late
        PROVE  /\ Nowhere(m)' /\ NoConflictOver(q, m)
               /\ \A c \in Pages \ {b} : Lacks(page[c], m)
    <3>1. m \in Names /\ KnownOnlyTo(b, m)
      BY <2>2, <2>3, <2>7 DEF Created, Marked, Keys, EditsInv
    <3> QED BY <2>2, <2>5, <3>1 DEF KnownOnlyTo, NoConflictOver
  <2> QED BY <2>1, <2>4, <2>6, <2>7, OnePageEdits
<1>7. ASSUME NEW n \in Names, PanelDelete(b, n) PROVE FALSE
  BY <1>7 DEF PanelDelete, Acts, RecordingUsers
<1> QED BY <1>2, <1>3, <1>4, <1>5, <1>6, <1>7 DEF User

LEMMA ScriptEdits ==
    ASSUME EditsInv, TypeOK', NEW b \in Pages, Script(b)
    PROVE  EditsInv'
<1> DEFINE p == page[b]
<1>0. /\ p \in PageRecords /\ Carries(p) /\ p.list \in Lists /\ p.put \in Puts
      /\ page \in [Pages -> PageRecords] /\ Kept(p, unsent[b])
      /\ unsent[b] \in SUBSET Keys /\ p.deleted \in SUBSET Names
  BY DEF EditsInv, TypeOK, PageRecords
<1> USE DEF Kept, Cached
<1>1. CASE EndDelete(b)
  <2> DEFINE n == p.killing
             l == [p.list EXCEPT ![n] = None]
             late == p.late \/ InFlight(b) \/ Polling(b)
             q == [SaveProfiles(p, l) EXCEPT !.deleted = p.deleted \cup {n},
                                             !.killing = None, !.late = late]
  <2>1. n \in Names
    BY <1>0, <1>1 DEF EndDelete, PageRecords
  <2>2. l[n] = None /\ \A m \in Names \ {n} : l[m] = p.list[m]
    BY <1>0, <2>1 DEF Lists, Keys
  <2>3. /\ q.list = l /\ q.cache = l /\ q.put = p.put /\ q.get = p.get
        /\ q.unsaved = TRUE /\ q.late = late
        /\ q.dirty = p.dirty /\ q.deleted = p.deleted \cup {n}
    BY <1>0 DEF SaveProfiles, PageRecords
  <2>4. page' = [page EXCEPT ![b] = q]
    <3>1. SaveProfiles(p, l).deleted = p.deleted /\ SaveProfiles(p, l).late = p.late
      BY <1>0 DEF SaveProfiles, PageRecords
    <3> QED BY <1>1, <3>1 DEF EndDelete
  <2>5. /\ UNCHANGED <<server, rrInit, orphans>> /\ n \in Keys /\ q \in PageRecords
        /\ unsent' = [unsent EXCEPT ![b] = @ \cup {n}]
    BY <1>0, <1>1, <2>1, <2>4 DEF EndDelete, Changed, world, Keys, TypeOK
  <2>6. late \in BOOLEAN /\ p.late \in BOOLEAN
    BY <1>0 DEF PageRecords
  <2> HIDE DEF q, l, n, late
  <2>7. CASE late
    <3>1. ASSUME NEW c \in Pages \ {b}, NEW m \in Created(c)
          PROVE  Nowhere(m)' /\ Lacks(q, m)
      <4>1. m \in Names /\ KnownOnlyTo(c, m)
        BY DEF Created, Marked, Keys, EditsInv, TypeOK
      <4> QED BY <2>2, <2>3, <2>5, <4>1 DEF KnownOnlyTo, Nowhere, Lacks
    <3>2. Kept(q, unsent[b] \cup {n})
      BY <2>3, <2>7
    <3>3. unsent' = [unsent EXCEPT ![b] = unsent[b] \cup {n}]
      BY <2>5
    <3> QED BY <2>3, <2>4, <2>7, <3>1, <3>2, <3>3, OnePageEdits
  <2>8. CASE ~late
    <3>1. p.put.stage = "none" /\ p.get.stage = "none" /\ ~p.late
      BY <2>8 DEF late, InFlight, Polling
    <3>2. ChangesKey(p, q, n)
      BY <2>2, <2>3, <2>6, <2>8, <3>1 DEF ChangesKey
    <3> QED BY <2>4, <2>5, <3>2, ChangeEdits
  <2> QED BY <2>7, <2>8
<1>2. SUFFICES ASSUME ~EndDelete(b) PROVE EditsInv'
  BY <1>1
<1>3. UNCHANGED <<server, rrInit, orphans, unsent>>
  BY <1>2 DEF Script, CloseTabEnds, TimerFires, PutAccepted, PutRejected, Poll, GetAnswered, world
<1>4. CASE CloseTabEnds(b)
  <2> DEFINE n == p.closing[1]
             tab == p.closing[2]
             l == [p.list EXCEPT ![n].tabs = @ \ {tab}]
             kept == [p EXCEPT !.closing = None]
             dropped == [p EXCEPT !.list = l, !.cache = l,
                             !.dirty = p.dirty \cup {n}, !.closing = None]
  <2>1. n \in Names
    BY <1>0, <1>4 DEF CloseTabEnds, PageRecords
  <2>2. CASE p.list[n] = None
    <3>1. page' = [page EXCEPT ![b] = kept]
      BY <1>4, <2>2 DEF CloseTabEnds
    <3>2. /\ Kept(kept, unsent[b]) /\ kept.late = p.late
          /\ \A m \in Names : Lacks(p, m) => Lacks(kept, m)
          /\ kept.dirty = p.dirty /\ kept.deleted = p.deleted /\ kept.put = p.put
      BY <1>0 DEF KeepsEdits, Lacks, PageRecords
    <3> HIDE DEF kept
    <3> QED BY <1>3, <3>1, <3>2, QuietEdits
  <2>3. CASE p.list[n] # None
    <3>1. page' = [page EXCEPT ![b] = dropped]
      BY <1>4, <2>3 DEF CloseTabEnds
    <3>2. p.list[n] \in Rows /\ n \in Keys
      BY <1>0, <2>1, <2>3 DEF Lists, Keys
    <3>3. /\ l[n] = [p.list[n] EXCEPT !.tabs = @ \ {tab}]
          /\ \A k \in Keys \ {n} : l[k] = p.list[k]
      BY <1>0, <3>2 DEF Lists
    <3>4. l[n] # None /\ l[n].mark = p.list[n].mark
      <4> HIDE DEF l, p
      <4>1. l[n] \in Rows /\ l[n].mark = p.list[n].mark
        BY <3>2, <3>3 DEF Rows
      <4> QED BY <4>1, NoneIsNoRow
    <3>5. \A k \in Keys : (l[k] = None <=> p.list[k] = None)
                          /\ SetByUser(l, k) = SetByUser(p.list, k)
      <4> HIDE DEF l, p
      <4>1. ASSUME NEW k \in Keys
            PROVE  /\ l[k] = None <=> p.list[k] = None
                   /\ SetByUser(l, k) = SetByUser(p.list, k)
        <5>1. CASE k = n
          BY <2>3, <3>4, <5>1 DEF SetByUser
        <5>2. CASE k # n
          BY <3>3, <5>2 DEF SetByUser
        <5> QED BY <5>1, <5>2
      <4> QED BY <4>1
    <3>6. /\ dropped.list = l /\ dropped.cache = l /\ dropped.put = p.put
          /\ dropped.get = p.get /\ dropped.timer = p.timer
          /\ dropped.unsaved = p.unsaved /\ dropped.deleted = p.deleted
          /\ dropped.dirty = p.dirty \cup {n} /\ dropped.late = p.late
      BY <1>0 DEF PageRecords
    <3> HIDE DEF dropped, l
    <3>7. Kept(dropped, unsent[b])
      BY <1>0, <3>5, <3>6 DEF KeepsEdits, Keys
    <3>8. \A m \in Names : Lacks(p, m) => Lacks(dropped, m)
      BY <3>5, <3>6 DEF Lacks, Keys
    <3> QED BY <1>3, <3>1, <3>6, <3>7, <3>8, QuietEdits
  <2> QED BY <2>2, <2>3
<1>5. CASE TimerFires(b)
  <2> DEFINE waits == [p EXCEPT !.timer = FALSE]
             sends == [p EXCEPT !.timer = FALSE, !.put = PutOf(p, 2)]
  <2>1. CASE InFlight(b)
    <3>1. page' = [page EXCEPT ![b] = waits]
      <4>1. page' = [page EXCEPT ![b] = [p EXCEPT !.timer = FALSE, !.put = p.put]]
        BY <1>0, <1>5, <2>1 DEF TimerFires
      <4>2. waits = [p EXCEPT !.timer = FALSE, !.put = p.put]
        BY <1>0 DEF PageRecords
      <4> QED BY <4>1, <4>2
    <3>2. /\ Kept(waits, unsent[b]) /\ waits.late = p.late
          /\ \A m \in Names : Lacks(p, m) => Lacks(waits, m)
          /\ waits.dirty = p.dirty /\ waits.deleted = p.deleted /\ waits.put = p.put
      BY <1>0 DEF KeepsEdits, Lacks, PageRecords
    <3> HIDE DEF waits
    <3> QED BY <1>3, <3>1, <3>2, QuietEdits
  <2>2. CASE ~InFlight(b)
    <3>1. page' = [page EXCEPT ![b] = sends]
      BY <1>0, <1>5, <2>2 DEF TimerFires
    <3>2. /\ sends.list = p.list /\ sends.cache = p.cache /\ sends.get = p.get
          /\ sends.unsaved = p.unsaved /\ sends.deleted = p.deleted
          /\ sends.dirty = p.dirty /\ sends.timer = FALSE /\ sends.late = p.late
          /\ sends.put.stage = "sent" /\ sends.put.body = p.list
      BY <1>0, PutOfOK DEF PageRecords
    <3>3. p.late \/ p.get.stage = "none"
      BY <1>0, <1>5 DEF KeepsEdits, TimerFires
    <3> HIDE DEF sends
    <3>4. Kept(sends, unsent[b]) /\ \A m \in Names : Lacks(p, m) => Lacks(sends, m)
      BY <1>0, <3>2, <3>3 DEF KeepsEdits, Lacks
    <3> QED BY <1>3, <3>1, <3>2, <3>4, QuietEdits
  <2> QED BY <2>1, <2>2
<1>6. CASE PutAccepted(b)
  <2> DEFINE q == Acknowledge(p)
  <2>1. p.late \/ (unsent[b] = {} /\ p.get.stage = "none")
    BY <1>0, <1>6 DEF PutAccepted, KeepsEdits
  <2>2. page' = [page EXCEPT ![b] = q]
    BY <1>6 DEF PutAccepted
  <2>3. /\ q.list = p.list /\ q.cache = p.list /\ q.deleted = {}
        /\ q.put.stage = "none" /\ q.get = p.get /\ q.late = p.late
    BY <1>0 DEF Acknowledge, NoPut, PageRecords
  <2> HIDE DEF q
  <2>4. Kept(q, unsent[b]) /\ \A m \in Names : Lacks(p, m) => Lacks(q, m)
    BY <1>0, <2>1, <2>3 DEF KeepsEdits, Lacks
  <2> QED BY <1>3, <1>6, <2>1, <2>2, <2>3, <2>4, QuietEdits DEF PutAccepted
<1>7. CASE PutRejected(b)
  <2> DEFINE list == Rebase(p.list, p.put.reply, p.dirty, p.deleted)
             again == [Rebased(p) EXCEPT !.put = PutOf(Rebased(p), p.put.retries - 1)]
             q == GiveUp(p)
  <2>1. page' = [page EXCEPT ![b] = again] \/ page' = [page EXCEPT ![b] = q]
    BY <1>7 DEF PutRejected
  <2>2. p.put.stage = "conflict" /\ (p.late \/ p.get.stage = "none")
    BY <1>0, <1>7 DEF PutRejected, KeepsEdits
  <2>3. CASE page' = [page EXCEPT ![b] = again]
    <3>1. /\ again.list = list /\ again.cache = p.cache
          /\ again.dirty = p.dirty /\ again.deleted = p.deleted
          /\ again.unsaved = p.unsaved /\ again.timer = p.timer /\ again.get = p.get
          /\ again.put.stage = "sent" /\ again.put.body = list /\ again.late = p.late
      BY <1>0 DEF Rebased, PutOf, PageRecords
    <3>2. \A m \in Names :
             list[m] = IF m \in p.deleted THEN None
                       ELSE IF p.list[m] # None /\ (p.put.reply[m] = None \/ m \in p.dirty)
                       THEN p.list[m] ELSE p.put.reply[m]
      BY SyncAssumption DEF Rebase, Keys
    <3> HIDE DEF again, list
    <3>3. Kept(again, unsent[b])
      <4>1. Cached(again)
        BY <1>0, <3>1, <3>2
      <4>2. p.late \/ KeepsEdits(again, unsent[b])
        BY <1>0, <2>2, <3>1, <3>2 DEF KeepsEdits, Keys
      <4> QED BY <3>1, <4>1, <4>2
    <3>4. \A m \in Names : Lacks(p, m) => Lacks(again, m)
      BY <2>2, <3>1, <3>2 DEF Lacks
    <3> QED BY <1>3, <2>3, <3>1, <3>3, <3>4, QuietEdits
  <2>4. CASE page' = [page EXCEPT ![b] = q]
    <3>1. /\ q.list = p.list /\ q.cache = p.cache /\ q.get = p.get /\ q.timer = p.timer
          /\ q.unsaved = p.unsaved /\ q.deleted = p.deleted
          /\ q.dirty = p.dirty /\ q.put.stage = "none" /\ q.late = p.late
      BY <1>0 DEF GiveUp, NoPut, PageRecords
    <3> HIDE DEF q
    <3>2. Kept(q, unsent[b]) /\ \A m \in Names : Lacks(p, m) => Lacks(q, m)
      BY <1>0, <3>1 DEF KeepsEdits, Lacks
    <3> QED BY <1>3, <2>4, <3>1, <3>2, QuietEdits
  <2> QED BY <2>1, <2>3, <2>4
<1>8. CASE Poll(b)
  <2>1. CASE p.unsaved /\ page' = [page EXCEPT ![b].put = PutOf(p, 2)]
    <3> DEFINE q == [p EXCEPT !.put = PutOf(p, 2)]
    <3>1. page' = [page EXCEPT ![b] = q]
      BY <1>0, <2>1
    <3>2. /\ q.list = p.list /\ q.cache = p.cache /\ q.get = p.get /\ q.timer = p.timer
          /\ q.unsaved = p.unsaved /\ q.deleted = p.deleted
          /\ q.dirty = p.dirty /\ q.put.stage = "sent" /\ q.put.body = p.list
          /\ q.late = p.late
      BY <1>0, PutOfOK DEF PageRecords
    <3>3. p.late \/ p.get.stage = "none"
      BY <1>0, <2>1 DEF KeepsEdits
    <3> HIDE DEF q
    <3>4. Kept(q, unsent[b]) /\ \A m \in Names : Lacks(p, m) => Lacks(q, m)
      BY <1>0, <3>2, <3>3 DEF KeepsEdits, Lacks
    <3> QED BY <1>3, <3>1, <3>2, <3>4, QuietEdits
  <2>2. CASE ~p.unsaved /\ page' = [page EXCEPT ![b].get.stage = "sent"]
    <3> DEFINE q == [p EXCEPT !.get = [p.get EXCEPT !.stage = "sent"]]
    <3>1. page' = [page EXCEPT ![b] = q]
      BY <1>0, <2>2
    <3>2. /\ q.list = p.list /\ q.cache = p.cache /\ q.put = p.put /\ q.timer = p.timer
          /\ q.unsaved = p.unsaved /\ q.deleted = p.deleted
          /\ q.dirty = p.dirty /\ q.get.stage = "sent" /\ q.late = p.late
      BY <1>0 DEF PageRecords, Gets
    <3>3. p.put.stage = "none" /\ ~p.timer
      BY <1>8 DEF Poll, InFlight
    <3> HIDE DEF q
    <3>4. Kept(q, unsent[b]) /\ \A m \in Names : Lacks(p, m) => Lacks(q, m)
      BY <1>0, <2>2, <3>2, <3>3 DEF KeepsEdits, Lacks
    <3> QED BY <1>3, <3>1, <3>2, <3>4, QuietEdits
  <2> QED BY <1>8, <2>1, <2>2 DEF Poll
<1>9. CASE GetAnswered(b)
  <2> DEFINE list == p.get.reply
             kept == [p EXCEPT !.get = NoGet]
             adopted == [p EXCEPT !.list = list, !.cache = list, !.version = list,
                                  !.get = NoGet]
  <2>1. p.late \/ /\ ~p.timer /\ ~p.unsaved /\ p.put.stage = "none"
                  /\ unsent[b] = {} /\ p.deleted = {}
    BY <1>0, <1>9 DEF GetAnswered, KeepsEdits
  <2>2. page' = [page EXCEPT ![b] = kept] \/ page' = [page EXCEPT ![b] = adopted]
    BY <1>0, <1>9 DEF GetAnswered
  <2>3. /\ kept.list = p.list /\ kept.cache = p.cache
        /\ adopted.list = list /\ adopted.cache = list
    BY <1>0 DEF PageRecords
  <2>4. /\ kept.deleted = p.deleted /\ kept.put = p.put /\ kept.get.stage = "none"
        /\ adopted.deleted = p.deleted /\ adopted.put = p.put /\ adopted.get.stage = "none"
        /\ kept.late = p.late /\ adopted.late = p.late
    BY <1>0, <2>1 DEF NoGet, PageRecords
  <2> HIDE DEF kept, adopted
  <2>5. \A q \in {kept, adopted} :
           /\ Kept(q, unsent[b]) /\ q.late = p.late
           /\ \A m \in Names : Lacks(p, m) => Lacks(q, m)
    BY <1>0, <1>9, <2>1, <2>3, <2>4 DEF KeepsEdits, Lacks, GetAnswered
  <2> QED BY <1>3, <1>9, <2>1, <2>2, <2>5, QuietEdits DEF GetAnswered
<1> QED BY <1>4, <1>5, <1>6, <1>7, <1>8, <1>9, <1>2 DEF Script

LEMMA ServeEdits ==
    ASSUME EditsInv, TypeOK', NEW b \in Pages, Serve(b)
    PROVE  EditsInv'
<1> DEFINE p == page[b]
<1>0. /\ p \in PageRecords /\ p.put \in Puts /\ unsent \in [Pages -> SUBSET Keys]
      /\ page \in [Pages -> PageRecords] /\ Kept(p, unsent[b])
  BY DEF EditsInv, TypeOK, PageRecords
<1> USE DEF Kept, Cached
<1>1. ASSUME NEW c \in Pages, NEW n \in Created(c)
      PROVE  n \in Names /\ KnownOnlyTo(c, n)
  BY <1>0 DEF Created, Marked, Keys, EditsInv
<1>2. CASE ServePut(b) /\ Acceptable(p.put)
  <2> DEFINE q == [p EXCEPT !.put = [p.put EXCEPT !.stage = "ok", !.reply = p.put.body]]
             edits == {k \in unsent[b] : SetByUser(p.put.body, k) # SetByUser(p.list, k)}
  <2>1. /\ page' = [page EXCEPT ![b] = q] /\ server' = p.put.body
        /\ UNCHANGED <<rrInit, orphans>> /\ p.put.stage = "sent"
    BY <1>0, <1>2 DEF ServePut, world
  <2>2. unsent' = [unsent EXCEPT ![b] = edits] /\ (p.late \/ edits = {})
    <3>1. p.late \/ edits = {}
      BY <1>0, <2>1 DEF KeepsEdits
    <3> QED BY <1>2, <3>1 DEF ServePut
  <2>3. /\ q.list = p.list /\ q.cache = p.cache /\ q.get = p.get /\ q.timer = p.timer
        /\ q.unsaved = p.unsaved /\ q.deleted = p.deleted
        /\ q.put.stage = "ok" /\ q.put.body = p.put.body /\ q.put.reply = p.put.body
        /\ q.late = p.late
    BY <1>0 DEF PageRecords, Puts
  <2> HIDE DEF q, edits
  <2>4. Kept(q, edits)
    BY <1>0, <2>1, <2>2, <2>3 DEF KeepsEdits
  <2>5. ASSUME NEW c \in Pages \ {b}, NEW n \in Created(c) PROVE Nowhere(n)' /\ Lacks(q, n)
    <3>1. Nowhere(n) /\ Lacks(p, n)
      BY <1>1 DEF KnownOnlyTo
    <3> QED BY <2>1, <2>3, <3>1 DEF Nowhere, Lacks
  <2> QED BY <2>1, <2>2, <2>3, <2>4, <2>5, OnePageEdits
<1>3. CASE ServePut(b) /\ ~Acceptable(p.put)
  <2> DEFINE q == [p EXCEPT !.put = [p.put EXCEPT !.stage = "conflict", !.reply = server]]
  <2>1. /\ page' = [page EXCEPT ![b] = q]
        /\ UNCHANGED <<server, rrInit, orphans>> /\ p.put.stage = "sent"
        /\ unsent' = [unsent EXCEPT ![b] = unsent[b]]
    BY <1>0, <1>3 DEF ServePut, world
  <2>2. /\ q.list = p.list /\ q.cache = p.cache /\ q.get = p.get /\ q.timer = p.timer
        /\ q.unsaved = p.unsaved /\ q.deleted = p.deleted /\ q.dirty = p.dirty
        /\ q.put.stage = "conflict" /\ q.put.body = p.put.body /\ q.put.reply = server
        /\ q.late = p.late
    BY <1>0 DEF PageRecords, Puts
  <2> HIDE DEF q
  <2>3. Kept(q, unsent[b])
    BY <1>0, <2>1, <2>2 DEF KeepsEdits
  <2>4. ASSUME NEW n, Nowhere(n) PROVE Nowhere(n)' /\ NoConflictOver(q, n)
    BY <2>1, <2>2, <2>4 DEF Nowhere, NoConflictOver
  <2>5. ASSUME NEW c \in Pages \ {b}, NEW n \in Created(c) PROVE Nowhere(n)' /\ Lacks(q, n)
    <3>1. Nowhere(n) /\ Lacks(p, n)
      BY <1>1 DEF KnownOnlyTo
    <3> QED BY <2>1, <2>2, <2>4, <3>1 DEF Nowhere, Lacks
  <2>6. ASSUME NEW n \in unsent[b] \ Marked(q), ~q.late
        PROVE  /\ Nowhere(n)' /\ NoConflictOver(q, n)
               /\ \A c \in Pages \ {b} : Lacks(page[c], n)
    <3>1. KnownOnlyTo(b, n)
      BY <1>1, <2>2, <2>6 DEF Created, Marked
    <3> QED BY <2>4, <3>1 DEF KnownOnlyTo
  <2> QED BY <2>1, <2>3, <2>5, <2>6, OnePageEdits
<1>4. CASE ServeGet(b)
  <2> DEFINE q == [p EXCEPT !.get = [stage |-> "answered", reply |-> server]]
  <2>1. /\ page' = [page EXCEPT ![b] = q] /\ p.get.stage = "sent"
        /\ UNCHANGED <<server, rrInit, orphans, unsent>>
    BY <1>4 DEF ServeGet, world
  <2>2. /\ q.list = p.list /\ q.cache = p.cache /\ q.put = p.put /\ q.timer = p.timer
        /\ q.unsaved = p.unsaved /\ q.deleted = p.deleted /\ q.dirty = p.dirty
        /\ q.get.stage = "answered" /\ q.get.reply = server /\ q.late = p.late
    BY <1>0 DEF PageRecords
  <2> HIDE DEF q
  <2>3. /\ Kept(q, unsent[b])
        /\ \A n \in Names : Nowhere(n) /\ Lacks(p, n) => Lacks(q, n)
    BY <1>0, <2>1, <2>2 DEF KeepsEdits, Lacks, Nowhere
  <2> QED BY <2>1, <2>2, <2>3, QuietEdits
<1> QED BY <1>2, <1>3, <1>4 DEF Serve, ServePut

LEMMA NetworkEdits ==
    ASSUME EditsInv, TypeOK', NEW b \in Pages, Network(b)
    PROVE  EditsInv'
<1> DEFINE p == page[b]
<1>0. /\ p \in PageRecords /\ unsent \in [Pages -> SUBSET Keys]
      /\ page \in [Pages -> PageRecords] /\ Kept(p, unsent[b])
  BY DEF EditsInv, TypeOK, PageRecords
<1> USE DEF Kept, Cached
<1>1. ASSUME NEW q, q \in {[p EXCEPT !.put = NoPut], [p EXCEPT !.get = NoGet]},
             page' = [page EXCEPT ![b] = q], LosePut(b) \/ LoseGet(b)
      PROVE  EditsInv'
  <2>1. UNCHANGED <<server, rrInit, orphans, unsent>>
    BY <1>1 DEF LosePut, LoseGet
  <2>2. /\ q.list = p.list /\ q.cache = p.cache /\ q.timer = p.timer
        /\ q.unsaved = p.unsaved /\ q.deleted = p.deleted /\ q.dirty = p.dirty
        /\ q.put = p.put \/ q.put.stage = "none"
        /\ q.get = p.get \/ q.get.stage = "none"
        /\ q.late = p.late
    BY <1>0, <1>1 DEF PageRecords, NoPut, NoGet
  <2>3. Kept(q, unsent[b]) /\ \A n \in Names : Lacks(p, n) => Lacks(q, n)
    BY <1>0, <2>2 DEF KeepsEdits, Lacks
  <2> QED BY <1>1, <2>1, <2>2, <2>3, QuietEdits
<1>2. CASE LosePut(b)
  BY <1>1, <1>2 DEF LosePut
<1>3. CASE LoseGet(b)
  BY <1>1, <1>3 DEF LoseGet
<1>4. CASE Reload(b)
  <2>1. PICK list, version :
           /\ page' = [page EXCEPT ![b] = FreshPage(list, version)]
           /\ list = server \/ list = p.cache
    BY <1>4 DEF Reload
  <2> DEFINE q == FreshPage(list, version)
  <2>2. /\ q.list = list /\ q.cache = list /\ q.put.stage = "none" /\ q.get.stage = "none"
        /\ q.deleted = {}
    BY DEF FreshPage, NoPut, NoGet
  <2>3. /\ page' = [page EXCEPT ![b] = q] /\ unsent' = [unsent EXCEPT ![b] = {}]
        /\ UNCHANGED <<server, rrInit>>
        /\ orphans' = orphans
              \cup (IF p.put.stage = "sent" THEN {p.put} ELSE {})
              \cup (IF p.timer /\ ~InFlight(b) THEN {PutOf(p, 0)} ELSE {})
    BY <1>4, <2>1 DEF Reload
  <2> HIDE DEF q
  <2>4. Kept(q, {})
    BY <2>2 DEF KeepsEdits
  <2>5. ASSUME NEW c \in Pages \ {b}, NEW n \in Created(c) PROVE Nowhere(n)' /\ Lacks(q, n)
    <3>1. Nowhere(n) /\ Lacks(p, n)
      BY <1>0 DEF Created, Marked, Keys, EditsInv, TypeOK, KnownOnlyTo
    <3>2. PutOf(p, 0).body = p.list
      BY DEF PutOf
    <3>3. \A put \in orphans' : put.body[n] = None
      BY <2>3, <3>1, <3>2 DEF Nowhere, Lacks
    <3> QED BY <2>1, <2>2, <2>3, <3>1, <3>3 DEF Nowhere, Lacks
  <2>6. page' = [page EXCEPT ![b] = q] /\ unsent' = [unsent EXCEPT ![b] = {}]
    BY <2>3
  <2> DEFINE edits == {}
  <2>7. \A n \in edits \ Marked(q) : FALSE
    OBVIOUS
  <2>8. Kept(q, edits) /\ unsent' = [unsent EXCEPT ![b] = edits]
    BY <2>4, <2>6
  <2> HIDE DEF edits
  <2> QED BY <2>5, <2>6, <2>7, <2>8, OnePageEdits
<1> QED BY <1>2, <1>3, <1>4 DEF Network

\* Agents, rr-init and the saves of pages that are gone make no workspace that a page has
\* made and not saved.
LEMMA OthersEdits ==
    ASSUME RecordingUsers, EditsInv, TypeOK', Others \/ UNCHANGED vars
    PROVE  EditsInv'
<1>1. page' = page /\ unsent' = unsent
  BY DEF Others, InitReads, AgentChangesTab, InitWrites, ServeOrphan, vars
<1>2. ASSUME NEW b \in Pages, NEW n \in Created(b) PROVE Nowhere(n)'
  <2>1. /\ n \in Names /\ n \in Keys /\ KnownOnlyTo(b, n) /\ Nowhere(n)
        /\ server \in Lists /\ page[b].list[n] # None
    BY DEF Created, Marked, Keys, EditsInv, TypeOK, KnownOnlyTo, Kept, KeepsEdits
  <2>2. ASSUME NEW m \in Names, InitReads(m) PROVE Nowhere(n)'
    <3>1. Unused(m) /\ rrInit' = [server EXCEPT ![m] = NewRow(marks + 1)]
          /\ UNCHANGED <<server, orphans>>
      BY <2>2 DEF InitReads, RecordingUsers
    <3>2. n # m
      BY <2>1, <3>1 DEF Unused
    <3> QED BY <2>1, <3>1, <3>2 DEF Nowhere, Lists
  <2>3. ASSUME NEW m \in Names, NEW tab \in Tabs, AgentChangesTab(m, tab)
        PROVE  Nowhere(n)'
    BY <2>1, <2>3 DEF AgentChangesTab, Nowhere, Lists
  <2>4. CASE InitWrites
    BY <2>1, <2>4 DEF InitWrites, Nowhere
  <2>5. ASSUME NEW put \in orphans, ServeOrphan(put) PROVE Nowhere(n)'
    BY <2>1, <2>5 DEF ServeOrphan, Nowhere
  <2>6. CASE UNCHANGED vars
    BY <2>1, <2>6 DEF vars, Nowhere
  <2> QED BY <2>2, <2>3, <2>4, <2>5, <2>6 DEF Others
<1>3. ASSUME NEW b \in Pages, NEW n \in Created(b)' PROVE KnownOnlyTo(b, n)'
  <2>1. n \in Created(b)
    BY <1>1, <1>3 DEF Created
  <2> QED BY <1>1, <1>2, <2>1 DEF EditsInv, KnownOnlyTo
<1> QED BY <1>1, <1>3 DEF EditsInv

LEMMA EditsStep ==
    ASSUME RecordingUsers, EditsInv, [Next]_vars
    PROVE  EditsInv'
<1>1. TypeOK'
  BY SyncTypeStep DEF EditsInv
<1> QED BY <1>1, UserEdits, ScriptEdits, ServeEdits, NetworkEdits, OthersEdits DEF Next

\* While an edit is in no save the hub took, the page knows that it has to save
\* (saveProfiles to putSessionsToControl, app.js): for any number of pages, lost calls and
\* reloads, until a deletion that awaited the hub comes in during a request
\* (deleteSessionAndKill).
THEOREM EditsAreKnown == RecordingUsers => (Spec => []UnsavedCoversEdits)
<1> SUFFICES ASSUME RecordingUsers PROVE Spec => []UnsavedCoversEdits
  OBVIOUS
<1>1. Init => EditsInv
  BY EditsInit
<1>2. EditsInv /\ [Next]_vars => EditsInv'
  BY EditsStep
<1>3. EditsInv => UnsavedCoversEdits
  BY DEF EditsInv, Kept, KeepsEdits, Prompt, UnsavedCoversEdits
<1> QED BY <1>1, <1>2, <1>3, PTL DEF Spec

\* A conflict brings the hub's list under the page's edits, never over them.
LEMMA RebaseKeepsEdits ==
    ASSUME EditsInv, NEW b \in Pages, Prompt(b), page[b].put.stage = "conflict", NEW k \in unsent[b]
    PROVE  LET p == page[b]
               list == Rebase(p.list, p.put.reply, p.dirty, p.deleted)
           IN  k \in Keys /\ SetByUser(list, k) = SetByUser(p.list, k)
<1> DEFINE p == page[b]
           list == Rebase(p.list, p.put.reply, p.dirty, p.deleted)
<1>1. k \in Keys /\ KeepsEdits(p, unsent[b])
  BY DEF EditsInv, Kept, Prompt, TypeOK
<1>2. CASE k = Order
  BY <1>1, <1>2 DEF Rebase, SetByUser
<1>3. CASE k # Order /\ k \in p.deleted
  BY <1>1, <1>3 DEF Rebase, SetByUser, KeepsEdits
<1>4. CASE k # Order /\ k \notin p.deleted
  <2>1. p.list[k] # None
    BY <1>1, <1>4 DEF KeepsEdits
  <2>2. p.put.reply[k] = None \/ k \in p.dirty
    BY <1>4 DEF Created, Marked, Prompt, EditsInv, KnownOnlyTo, NoConflictOver
  <2>3. list[k] = p.list[k]
    BY <1>1, <1>4, <2>1, <2>2 DEF Rebase
  <2> QED BY <1>1, <2>3 DEF SetByUser
<1> QED BY <1>1, <1>2, <1>3, <1>4

LEMMA UndeliveredStays ==
    ASSUME EditsInv, Next, NEW b \in Pages, Prompt(b), NEW k \in unsent[b],
           marks' = marks, reloads' = reloads, page'[b].closing = page[b].closing,
           page'[b].killing = page[b].killing
    PROVE  SetByUser(page'[b].list, k) = SetByUser(page[b].list, k)
<1> DEFINE p == page[b]
<1>0. /\ p \in PageRecords /\ page \in [Pages -> PageRecords] /\ page[b] = p
      /\ marks \in Nat /\ reloads \in Nat /\ marks + 1 # marks /\ reloads + 1 # reloads
      /\ KeepsEdits(p, unsent[b])
  BY DEF EditsInv, Kept, Prompt, TypeOK
<1>1. ASSUME page'[b].list = p.list
      PROVE  SetByUser(page'[b].list, k) = SetByUser(p.list, k)
  BY <1>1 DEF SetByUser
<1>2. CASE Others
  BY <1>1, <1>2 DEF Others, InitReads, AgentChangesTab, InitWrites, ServeOrphan
<1>3. ASSUME NEW c \in Pages \ {b}, User(c) \/ Script(c) \/ Serve(c) \/ Network(c)
      PROVE  page'[b] = p
  BY <1>3, OnlyItsOwnSteps DEF EditsInv
<1>4. ~User(b)
  BY <1>0 DEF User, Edit, Create, BeginDelete, PanelDelete, Reorder, CloseTab
<1>5. CASE Serve(b)
  BY <1>0, <1>1, <1>5 DEF Serve, ServePut, ServeGet, PageRecords
<1>6. CASE Network(b)
  BY <1>0, <1>1, <1>6 DEF Network, LosePut, LoseGet, Reload, PageRecords
<1>7. ASSUME Script(b)
      PROVE  SetByUser(page'[b].list, k) = SetByUser(p.list, k)
  <2>1. CASE CloseTabEnds(b)
    <3>1. page'[b].closing = None
      BY <1>0, <2>1 DEF CloseTabEnds, PageRecords
    <3> QED BY <2>1, <3>1 DEF CloseTabEnds
  <2>2. CASE TimerFires(b) \/ PutAccepted(b) \/ Poll(b)
    <3>1. CASE TimerFires(b)
      BY <1>0, <1>1, <3>1 DEF TimerFires, PageRecords
    <3>2. CASE PutAccepted(b)
      <4>1. page'[b] = Acknowledge(p)
        BY <1>0, <3>2 DEF PutAccepted
      <4>2. Acknowledge(p).list = p.list
        BY <1>0 DEF Acknowledge, PageRecords
      <4> QED BY <1>1, <4>1, <4>2
    <3>3. CASE Poll(b)
      BY <1>0, <1>1, <3>3 DEF Poll, PageRecords
    <3> QED BY <2>2, <3>1, <3>2, <3>3
  <2>3. CASE PutRejected(b)
    <3> DEFINE list == Rebase(p.list, p.put.reply, p.dirty, p.deleted)
               again == [Rebased(p) EXCEPT !.put = PutOf(Rebased(p), p.put.retries - 1)]
    <3>1. page' = [page EXCEPT ![b] = again] \/ page' = [page EXCEPT ![b] = GiveUp(p)]
      BY <2>3 DEF PutRejected
    <3>2. again.list = list /\ GiveUp(p).list = p.list
      BY <1>0 DEF Rebased, GiveUp, PageRecords
    <3>3. SetByUser(list, k) = SetByUser(p.list, k)
      BY <2>3, RebaseKeepsEdits DEF PutRejected
    <3>4. page'[b].list = list \/ page'[b].list = p.list
      BY <1>0, <3>1, <3>2
    <3> HIDE DEF list
    <3> QED BY <1>1, <3>3, <3>4
  <2>4. ~GetAnswered(b)
    BY <1>0 DEF GetAnswered, KeepsEdits
  <2>5. ~EndDelete(b)
    <3> SUFFICES ASSUME EndDelete(b) PROVE page'[b].killing = None
      BY DEF EndDelete
    <3> DEFINE saved == SaveProfiles(p, [p.list EXCEPT ![p.killing] = None])
               late == saved.late \/ InFlight(b) \/ Polling(b)
    <3>1. page'[b] = [saved EXCEPT !.deleted = saved.deleted \cup {p.killing},
                                   !.killing = None, !.late = late]
      BY <1>0 DEF EndDelete
    <3>2. saved = [p EXCEPT !.list = saved.list, !.cache = saved.cache, !.unsaved = TRUE,
                            !.timer = TRUE]
      BY <1>0 DEF SaveProfiles, PageRecords
    <3> HIDE DEF saved
    <3> QED BY <1>0, <3>1, <3>2 DEF PageRecords
  <2> QED BY <1>7, <2>1, <2>2, <2>3, <2>4, <2>5 DEF Script
<1> QED BY <1>1, <1>2, <1>3, <1>4, <1>5, <1>6, <1>7 DEF Next

\* No answer of the hub, no conflict and no timer of a page undoes an edit of its user
\* that no save has delivered (rebaseOntoServer, refreshSessionsFromControl, app.js),
\* until a deletion that awaited the hub comes in during a request (deleteSessionAndKill).
THEOREM EditsAreNotLost == RecordingUsers => (Spec => EditsSurvive)
<1> SUFFICES ASSUME RecordingUsers PROVE Spec => EditsSurvive
  OBVIOUS
<1>1. Init => EditsInv
  BY EditsInit
<1>2. EditsInv /\ [Next]_vars => EditsInv'
  BY EditsStep
<1>3. EditsInv /\ [Next]_vars =>
        [\A b \in Pages, k \in Keys : Prompt(b) => EditStays(b, k)]_vars
  BY UndeliveredStays DEF EditStays
<1> QED BY <1>1, <1>2, <1>3, PTL DEF Spec, EditsSurvive

=============================================================================
