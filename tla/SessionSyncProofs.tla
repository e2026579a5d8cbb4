--------------------------- MODULE SessionSyncProofs ---------------------------
(* Proofs about SessionSync: types, and that versioned saves of careful users *)
(* keep what others changed.                                                  *)
EXTENDS SessionSync, TLAPS

(***************************************************************************)
(* Types.                                                                  *)
(***************************************************************************)

PageOK(p) == p \in PageRecords /\ Carries(p)

LEMMA RebaseOK ==
    ASSUME NEW local \in Lists, NEW remote \in Lists, NEW dirty, NEW deleted
    PROVE  Rebase(local, remote, dirty, deleted) \in Lists
BY DEF Rebase, Lists, Keys

LEMMA NewRowOK == ASSUME NEW mark \in Nat PROVE NewRow(mark) \in Rows
BY DEF NewRow, Rows

LEMMA PutOfOK ==
    ASSUME NEW p \in PageRecords, NEW retries \in 0..2
    PROVE  /\ PutOf(p, retries) \in Puts
           /\ PutOf(p, retries).stage = "sent"
           /\ PutOf(p, retries).body = p.list
           /\ PutOf(p, retries).base = p.version
           /\ p.list \in Lists
BY DEF PutOf, Puts, PageRecords, MaybeLists

LEMMA NothingUnderWay == NoPut \in Puts /\ NoGet \in Gets
BY DEF NoPut, NoGet, Puts, Gets, MaybeLists

LEMMA FreshPageOK ==
    ASSUME NEW list \in Lists, NEW version \in MaybeLists
    PROVE  PageOK(FreshPage(list, version))
<1>1. FreshPage(list, version) \in PageRecords
  BY NothingUnderWay DEF FreshPage, PageRecords
<1>2. Carries(FreshPage(list, version))
  BY DEF FreshPage, Carries, NoPut, NoGet
<1> QED BY <1>1, <1>2 DEF PageOK

LEMMA SaveProfilesOK ==
    ASSUME NEW p \in PageRecords, Carries(p), NEW list \in Lists
    PROVE  /\ SaveProfiles(p, list) \in PageRecords
           /\ Carries(SaveProfiles(p, list))
BY DEF SaveProfiles, PageRecords, Carries

\* Only page b changes, to a page of the right type.
LEMMA OnePageOK ==
    ASSUME NEW b \in Pages, NEW q, PageOK(q),
           page \in [Pages -> PageRecords], \A c \in Pages : Carries(page[c]),
           page' = [page EXCEPT ![b] = q]
    PROVE  page' \in [Pages -> PageRecords] /\ \A c \in Pages : Carries(page'[c])
BY DEF PageOK

LEMMA SyncInitType == Init => TypeOK
<1> SUFFICES ASSUME Init PROVE TypeOK
  OBVIOUS
<1>1. server \in Lists
  BY NewRowOK DEF Init, Lists
<1>2. \A b \in Pages : page[b] = FreshPage(server, server) /\ PageOK(page[b])
  BY <1>1, FreshPageOK DEF Init, MaybeLists
<1>3. page \in [Pages -> PageRecords] /\ \A b \in Pages : Carries(page[b])
  BY <1>2 DEF Init, PageOK
<1> QED BY <1>1, <1>3 DEF Init, TypeOK, MaybeLists

LEMMA UserType == ASSUME TypeOK, NEW b \in Pages, User(b) PROVE TypeOK'
<1> DEFINE p == page[b]
<1> USE DEF Changed
<1>0. /\ p \in PageRecords /\ Carries(p) /\ p.list \in Lists
      /\ p.deleted \in SUBSET Names /\ p.dirty \in SUBSET Names
      /\ page \in [Pages -> PageRecords] /\ \A c \in Pages : Carries(page[c])
      /\ marks \in Nat /\ marks + 1 \in Nat
  BY DEF TypeOK, PageRecords
<1>1. ASSUME NEW n \in Names, Edit(b, n) PROVE TypeOK'
  <2> DEFINE l == [p.list EXCEPT ![n].mark = marks + 1]
             q == [SaveProfiles(p, l) EXCEPT !.dirty = p.dirty \cup {n}]
  <2>1. l \in Lists
    BY <1>0, <1>1 DEF Edit, Lists, Keys, Rows
  <2>2. PageOK(q)
    BY <1>0, <2>1, SaveProfilesOK DEF PageOK, PageRecords, Carries
  <2>3. page' = [page EXCEPT ![b] = q]
    BY <1>1 DEF Edit
  <2>4. page' \in [Pages -> PageRecords] /\ \A c \in Pages : Carries(page'[c])
    BY ONLY <1>0, <2>2, <2>3, OnePageOK
  <2> QED BY <1>0, <1>1, <2>4 DEF Edit, TypeOK, Keys
<1>2. ASSUME NEW n \in Names, Create(b, n) PROVE TypeOK'
  <2> DEFINE l == [p.list EXCEPT ![n] = NewRow(marks + 1)]
             q == SaveProfiles(p, l)
  <2>1. l \in Lists
    BY <1>0, NewRowOK DEF Lists, Keys
  <2>2. PageOK(q)
    BY <1>0, <2>1, SaveProfilesOK DEF PageOK
  <2>3. page' = [page EXCEPT ![b] = q]
    BY <1>2 DEF Create
  <2>4. page' \in [Pages -> PageRecords] /\ \A c \in Pages : Carries(page'[c])
    BY ONLY <1>0, <2>2, <2>3, OnePageOK
  <2> QED BY <1>0, <1>2, <2>4 DEF Create, TypeOK, Keys
<1>3. ASSUME NEW n \in Names, BeginDelete(b, n) PROVE TypeOK'
  <2> DEFINE q == [p EXCEPT !.killing = n]
  <2>1. PageOK(q)
    BY <1>0 DEF PageOK, PageRecords, Carries
  <2>2. page' = [page EXCEPT ![b] = q]
    BY <1>3 DEF BeginDelete
  <2>3. page' \in [Pages -> PageRecords] /\ \A c \in Pages : Carries(page'[c])
    BY ONLY <1>0, <2>1, <2>2, OnePageOK
  <2> QED BY <1>0, <1>3, <2>3 DEF BeginDelete, TypeOK
<1>4. ASSUME NEW n \in Names, PanelDelete(b, n) PROVE TypeOK'
  <2> DEFINE l == [p.list EXCEPT ![n] = None]
             q == SaveProfiles(p, l)
  <2>1. l \in Lists
    BY <1>0 DEF Lists, Keys
  <2>2. PageOK(q)
    BY <1>0, <2>1, SaveProfilesOK DEF PageOK
  <2>3. page' = [page EXCEPT ![b] = q]
    BY <1>4 DEF PanelDelete
  <2>4. page' \in [Pages -> PageRecords] /\ \A c \in Pages : Carries(page'[c])
    BY ONLY <1>0, <2>2, <2>3, OnePageOK
  <2> QED BY <1>0, <1>4, <2>4 DEF PanelDelete, TypeOK, Keys
<1>5. ASSUME Reorder(b) PROVE TypeOK'
  <2> DEFINE l == [p.list EXCEPT ![Order] = Swapped(@)]
             q == SaveProfiles(p, l)
  <2>1. l \in Lists
    BY <1>0, NewRowOK DEF Lists, Keys, Swapped
  <2>2. PageOK(q)
    BY <1>0, <2>1, SaveProfilesOK DEF PageOK
  <2>3. page' = [page EXCEPT ![b] = q]
    BY <1>5 DEF Reorder
  <2>4. page' \in [Pages -> PageRecords] /\ \A c \in Pages : Carries(page'[c])
    BY ONLY <1>0, <2>2, <2>3, OnePageOK
  <2> QED BY <1>0, <1>5, <2>4 DEF Reorder, TypeOK, Keys
<1>6. ASSUME NEW n \in Names, NEW tab \in Tabs, CloseTab(b, n, tab) PROVE TypeOK'
  <2> DEFINE q == [p EXCEPT !.closing = <<n, tab>>]
  <2>1. server' \in Lists
    BY <1>6 DEF CloseTab, TypeOK, Lists, Keys, Rows
  <2>2. PageOK(q)
    BY <1>0 DEF PageOK, PageRecords, Carries
  <2>3. page' = [page EXCEPT ![b] = q]
    BY <1>6 DEF CloseTab
  <2>4. page' \in [Pages -> PageRecords] /\ \A c \in Pages : Carries(page'[c])
    BY ONLY <1>0, <2>2, <2>3, OnePageOK
  <2>5. losses' \in Nat
    BY <1>6 DEF CloseTab, TypeOK
  <2> QED BY <1>0, <1>6, <2>1, <2>4, <2>5 DEF CloseTab, TypeOK
<1> QED BY <1>1, <1>2, <1>3, <1>4, <1>5, <1>6 DEF User

LEMMA ScriptType == ASSUME TypeOK, NEW b \in Pages, Script(b) PROVE TypeOK'
<1> DEFINE p == page[b]
<1>0. /\ p \in PageRecords /\ Carries(p) /\ p.list \in Lists /\ p.put \in Puts
      /\ page \in [Pages -> PageRecords] /\ \A c \in Pages : Carries(page[c])
      /\ touched \in [Pages -> SUBSET Keys] /\ touched' \in [Pages -> SUBSET Keys]
  BY DEF TypeOK, PageRecords, Script, EndDelete, Changed, CloseTabEnds, TimerFires,
         PutAccepted, PutRejected, Poll, GetAnswered, Keys
<1>1. ASSUME NEW q, PageOK(q), page' = [page EXCEPT ![b] = q],
             UNCHANGED <<server, world, unsent>>
      PROVE  TypeOK'
  <2>1. page' \in [Pages -> PageRecords] /\ \A c \in Pages : Carries(page'[c])
    BY ONLY <1>0, <1>1, OnePageOK
  <2> QED BY <1>0, <1>1, <2>1 DEF TypeOK, world
<1>2. CASE CloseTabEnds(b)
  <2> DEFINE n == p.closing[1]
             tab == p.closing[2]
             l == [p.list EXCEPT ![n].tabs = @ \ {tab}]
             kept == [p EXCEPT !.closing = None]
             dropped == [p EXCEPT !.list = l, !.cache = l,
                             !.dirty = p.dirty \cup {n}, !.closing = None]
  <2>1. p.closing \in Names \X Tabs
    BY <1>0, <1>2 DEF CloseTabEnds, PageRecords
  <2>2. n \in Names
    BY <2>1
  <2>3. PageOK(kept)
    BY <1>0 DEF PageOK, PageRecords, Carries
  <2>4. ASSUME p.list[n] # None PROVE PageOK(dropped)
    <3>1. l \in Lists
      BY <1>0, <2>2, <2>4 DEF Lists, Keys, Rows
    <3> QED BY <1>0, <2>2, <3>1 DEF PageOK, PageRecords, Carries
  <2>5. CASE p.list[n] = None
    <3>1. page' = [page EXCEPT ![b] = kept]
      BY <1>2, <2>5 DEF CloseTabEnds
    <3> QED BY <1>1, <1>2, <2>3, <3>1 DEF CloseTabEnds
  <2>6. CASE p.list[n] # None
    <3>1. page' = [page EXCEPT ![b] = dropped]
      BY <1>2, <2>6 DEF CloseTabEnds
    <3> QED BY <1>1, <1>2, <2>4, <2>6, <3>1 DEF CloseTabEnds
  <2> QED BY <2>5, <2>6
<1>3. CASE TimerFires(b)
  <2> DEFINE waits == [p EXCEPT !.timer = FALSE]
             sends == [p EXCEPT !.timer = FALSE, !.put = PutOf(p, 2)]
  <2>1. PageOK(waits)
    BY <1>0 DEF PageOK, PageRecords, Carries
  <2>2. PageOK(sends)
    <3>1. /\ PutOf(p, 2) \in Puts
          /\ PutOf(p, 2).stage = "sent" /\ PutOf(p, 2).body \in Lists
      BY <1>0, PutOfOK
    <3> QED BY <1>0, <3>1 DEF PageOK, PageRecords, Carries
  <2>3. CASE InFlight(b)
    <3>1. page' = [page EXCEPT ![b] = [p EXCEPT !.timer = FALSE, !.put = p.put]]
      BY <1>0, <1>3, <2>3 DEF TimerFires
    <3>2. waits = [p EXCEPT !.timer = FALSE, !.put = p.put]
      BY <1>0 DEF PageRecords
    <3> HIDE DEF waits, p
    <3> QED BY <1>1, <1>3, <2>1, <3>1, <3>2 DEF TimerFires
  <2>4. CASE ~InFlight(b)
    <3>1. page' = [page EXCEPT ![b] = sends]
      BY <1>0, <1>3, <2>4 DEF TimerFires
    <3> QED BY <1>1, <1>3, <2>2, <3>1 DEF TimerFires
  <2> QED BY <2>3, <2>4
<1>4. CASE PutAccepted(b)
  <2>1. p.put.reply \in Lists
    BY <1>0, <1>4 DEF PutAccepted, Carries
  <2>2. PageOK(Acknowledge(p))
    BY <1>0, <2>1, NothingUnderWay
    DEF Acknowledge, PageOK, PageRecords, Carries, NoPut, MaybeLists
  <2> QED BY <1>1, <1>4, <2>2 DEF PutAccepted
<1>5. CASE PutRejected(b)
  <2> DEFINE again == [Rebased(p) EXCEPT !.put = PutOf(Rebased(p), p.put.retries - 1)]
  <2>1. p.put.reply \in Lists
    BY <1>0, <1>5 DEF PutRejected, Carries
  <2>2. Rebased(p) \in PageRecords /\ Carries(Rebased(p))
    <3>1. Rebase(p.list, p.put.reply, p.dirty, p.deleted) \in Lists
      BY <1>0, <2>1, RebaseOK
    <3> QED BY <1>0, <2>1, <3>1 DEF Rebased, PageRecords, MaybeLists, Carries
  <2>3. ASSUME MayRetry(p.put) PROVE PageOK(again)
    <3>1. p.put.retries - 1 \in 0..2
      BY <1>0, <2>3 DEF MayRetry, Puts
    <3>2. /\ PutOf(Rebased(p), p.put.retries - 1) \in Puts
          /\ PutOf(Rebased(p), p.put.retries - 1).stage = "sent"
          /\ PutOf(Rebased(p), p.put.retries - 1).body \in Lists
      BY <2>2, <3>1, PutOfOK
    <3> QED BY <2>2, <3>2 DEF PageOK, PageRecords, Carries
  <2>4. PageOK(GiveUp(p))
    BY <1>0, NothingUnderWay DEF GiveUp, PageOK, PageRecords, Carries, NoPut
  <2>5. CASE MayRetry(p.put)
    <3>1. page' = [page EXCEPT ![b] = again]
      BY <1>5, <2>5 DEF PutRejected
    <3> QED BY <1>1, <1>5, <2>3, <2>5, <3>1 DEF PutRejected
  <2>6. CASE ~MayRetry(p.put)
    <3>1. page' = [page EXCEPT ![b] = GiveUp(p)]
      BY <1>5, <2>6 DEF PutRejected
    <3> QED BY <1>1, <1>5, <2>4, <3>1 DEF PutRejected
  <2> QED BY <2>5, <2>6
<1>6. CASE Poll(b)
  <2>1. CASE page' = [page EXCEPT ![b].put = PutOf(p, 2)]
    <3> DEFINE q == [p EXCEPT !.put = PutOf(p, 2)]
    <3>1. PageOK(q)
      <4>1. PutOf(p, 2) \in Puts /\ PutOf(p, 2).stage = "sent" /\ PutOf(p, 2).body \in Lists
        BY <1>0, PutOfOK
      <4> QED BY <1>0, <4>1 DEF PageOK, PageRecords, Carries
    <3>2. page' = [page EXCEPT ![b] = q]
      BY <1>0, <2>1
    <3> QED BY <1>1, <1>6, <3>1, <3>2 DEF Poll
  <2>2. CASE page' = [page EXCEPT ![b].get.stage = "sent"]
    <3> DEFINE q == [p EXCEPT !.get = [p.get EXCEPT !.stage = "sent"]]
    <3>1. PageOK(q)
      BY <1>0 DEF PageOK, PageRecords, Carries, Gets
    <3>2. page' = [page EXCEPT ![b] = q]
      BY <1>0, <2>2
    <3> QED BY <1>1, <1>6, <3>1, <3>2 DEF Poll
  <2> QED BY <1>6, <2>1, <2>2 DEF Poll
<1>7. CASE GetAnswered(b)
  <2> DEFINE list == p.get.reply
             kept == [p EXCEPT !.get = NoGet]
             adopted == [p EXCEPT !.list = list, !.cache = list, !.version = list,
                                  !.get = NoGet]
  <2>1. list \in Lists
    BY <1>0, <1>7 DEF GetAnswered, Carries
  <2>2. PageOK(kept) /\ PageOK(adopted)
    BY <1>0, <2>1, NothingUnderWay DEF PageOK, PageRecords, Carries, NoGet, MaybeLists
  <2>3. page' = [page EXCEPT ![b] = kept] \/ page' = [page EXCEPT ![b] = adopted]
    BY <1>0, <1>7 DEF GetAnswered
  <2> QED BY <1>1, <1>7, <2>2, <2>3 DEF GetAnswered
<1>8. CASE EndDelete(b)
  <2> DEFINE n == p.killing
             l == [p.list EXCEPT ![n] = None]
             late == p.late \/ InFlight(b) \/ Polling(b)
             q == [SaveProfiles(p, l) EXCEPT !.deleted = p.deleted \cup {n},
                                             !.killing = None, !.late = late]
  <2>1. n \in Names /\ p.deleted \subseteq Names
    BY <1>0, <1>8 DEF EndDelete, PageRecords
  <2>2. l \in Lists
    BY <1>0, <2>1 DEF Lists, Keys
  <2>3. SaveProfiles(p, l) \in PageRecords /\ Carries(SaveProfiles(p, l))
    BY <1>0, <2>2, SaveProfilesOK
  <2>4. late \in BOOLEAN
    BY <1>0 DEF PageRecords
  <2>5. PageOK(q)
    <3> HIDE DEF late, l, n
    <3> QED BY <2>1, <2>3, <2>4 DEF PageOK, PageRecords, Carries
  <2>6. page' = [page EXCEPT ![b] = q]
    <3>1. SaveProfiles(p, l).deleted = p.deleted /\ SaveProfiles(p, l).late = p.late
      BY <1>0 DEF SaveProfiles, PageRecords
    <3> QED BY <1>8, <3>1 DEF EndDelete
  <2>7. page' \in [Pages -> PageRecords] /\ \A c \in Pages : Carries(page'[c])
    BY ONLY <1>0, <2>5, <2>6, OnePageOK
  <2>8. unsent' \in [Pages -> SUBSET Keys]
    BY <1>8, <2>1 DEF EndDelete, Changed, TypeOK, Keys
  <2> QED BY <1>0, <1>8, <2>7, <2>8 DEF EndDelete, TypeOK, world
<1> QED BY <1>2, <1>3, <1>4, <1>5, <1>6, <1>7, <1>8 DEF Script

LEMMA ServeType == ASSUME TypeOK, NEW b \in Pages, Serve(b) PROVE TypeOK'
<1> DEFINE p == page[b]
<1>0. /\ p \in PageRecords /\ Carries(p) /\ p.put \in Puts
      /\ page \in [Pages -> PageRecords] /\ \A c \in Pages : Carries(page[c])
      /\ server \in Lists /\ unsent \in [Pages -> SUBSET Keys]
  BY DEF TypeOK, PageRecords
<1>1. ASSUME NEW q, PageOK(q), page' = [page EXCEPT ![b] = q], server' \in Lists,
             unsent' \in [Pages -> SUBSET Keys], UNCHANGED <<world, touched>>
      PROVE  TypeOK'
  <2>1. page' \in [Pages -> PageRecords] /\ \A c \in Pages : Carries(page'[c])
    BY ONLY <1>0, <1>1, OnePageOK
  <2> QED BY <1>1, <2>1 DEF TypeOK, world
<1>2. CASE ServePut(b)
  <2> DEFINE answered(stage, reply) ==
                 [p EXCEPT !.put = [p.put EXCEPT !.stage = stage, !.reply = reply]]
  <2>1. p.put.body \in Lists
    BY <1>0, <1>2 DEF ServePut, Carries
  <2>2. PageOK(answered("ok", p.put.body)) /\ PageOK(answered("conflict", server))
    BY <1>0, <2>1 DEF PageOK, PageRecords, Carries, Puts, MaybeLists
  <2>3. CASE Acceptable(p.put)
    <3>1. page' = [page EXCEPT ![b] = answered("ok", p.put.body)]
      BY <1>0, <1>2, <2>3 DEF ServePut
    <3>2. server' \in Lists /\ unsent' \in [Pages -> SUBSET Keys]
      BY <1>0, <1>2, <2>1, <2>3 DEF ServePut
    <3> QED BY <1>1, <1>2, <2>2, <3>1, <3>2 DEF ServePut
  <2>4. CASE ~Acceptable(p.put)
    <3>1. page' = [page EXCEPT ![b] = answered("conflict", server)]
      BY <1>0, <1>2, <2>4 DEF ServePut
    <3>2. server' \in Lists /\ unsent' \in [Pages -> SUBSET Keys]
      BY <1>0, <1>2, <2>4 DEF ServePut
    <3> QED BY <1>1, <1>2, <2>2, <3>1, <3>2 DEF ServePut
  <2> QED BY <2>3, <2>4
<1>3. CASE ServeGet(b)
  <2> DEFINE q == [p EXCEPT !.get = [stage |-> "answered", reply |-> server]]
  <2>1. PageOK(q)
    BY <1>0 DEF PageOK, PageRecords, Carries, Gets, MaybeLists
  <2>2. page' = [page EXCEPT ![b] = q]
    BY <1>0, <1>3 DEF ServeGet
  <2> QED BY <1>0, <1>1, <1>3, <2>1, <2>2 DEF ServeGet
<1> QED BY <1>2, <1>3 DEF Serve

LEMMA NetworkType == ASSUME TypeOK, NEW b \in Pages, Network(b) PROVE TypeOK'
<1> DEFINE p == page[b]
<1>0. /\ p \in PageRecords /\ Carries(p) /\ p.put \in Puts /\ p.cache \in Lists
      /\ page \in [Pages -> PageRecords] /\ \A c \in Pages : Carries(page[c])
      /\ server \in Lists /\ losses \in Nat /\ reloads \in Nat
  BY DEF TypeOK, PageRecords
<1>1. CASE LosePut(b)
  <2> DEFINE q == [p EXCEPT !.put = NoPut]
  <2>1. PageOK(q)
    BY <1>0, NothingUnderWay DEF PageOK, PageRecords, Carries, NoPut
  <2>2. page' = [page EXCEPT ![b] = q]
    BY <1>0, <1>1 DEF LosePut
  <2>3. page' \in [Pages -> PageRecords] /\ \A c \in Pages : Carries(page'[c])
    BY ONLY <1>0, <2>1, <2>2, OnePageOK
  <2> QED BY <1>1, <2>3 DEF LosePut, TypeOK
<1>2. CASE LoseGet(b)
  <2> DEFINE q == [p EXCEPT !.get = NoGet]
  <2>1. PageOK(q)
    BY <1>0, NothingUnderWay DEF PageOK, PageRecords, Carries, NoGet
  <2>2. page' = [page EXCEPT ![b] = q]
    BY <1>0, <1>2 DEF LoseGet
  <2>3. page' \in [Pages -> PageRecords] /\ \A c \in Pages : Carries(page'[c])
    BY ONLY <1>0, <2>1, <2>2, OnePageOK
  <2> QED BY <1>2, <2>3 DEF LoseGet, TypeOK
<1>3. CASE Reload(b)
  <2>1. PageOK(FreshPage(server, server)) /\ PageOK(FreshPage(p.cache, None))
    BY <1>0, FreshPageOK DEF MaybeLists
  <2>2. \/ page' = [page EXCEPT ![b] = FreshPage(server, server)]
        \/ page' = [page EXCEPT ![b] = FreshPage(p.cache, None)]
    BY <1>3 DEF Reload
  <2>3. page' \in [Pages -> PageRecords] /\ \A c \in Pages : Carries(page'[c])
    BY ONLY <1>0, <2>1, <2>2, OnePageOK
  <2>4. PutOf(p, 0) \in {put \in Puts : put.body \in Lists}
    BY <1>0, PutOfOK
  <2>5. p.put.stage = "sent" => p.put \in {put \in Puts : put.body \in Lists}
    BY <1>0 DEF Carries
  <2>6. orphans' \subseteq {put \in Puts : put.body \in Lists}
    BY <1>3, <2>4, <2>5 DEF Reload, TypeOK
  <2> QED BY <1>3, <2>3, <2>6 DEF Reload, TypeOK
<1> QED BY <1>1, <1>2, <1>3 DEF Network

LEMMA OthersType == ASSUME TypeOK, Others PROVE TypeOK'
<1>1. ASSUME NEW n \in Names, InitReads(n) PROVE TypeOK'
  <2>1. rrInit' \in MaybeLists
    BY <1>1, NewRowOK DEF InitReads, TypeOK, MaybeLists, Lists, Keys
  <2> QED BY <1>1, <2>1 DEF InitReads, TypeOK
<1>2. ASSUME NEW n \in Names, NEW tab \in Tabs, AgentChangesTab(n, tab) PROVE TypeOK'
  <2>1. server' \in Lists
    BY <1>2 DEF AgentChangesTab, TypeOK, Lists, Keys, Rows
  <2> QED BY <1>2, <2>1 DEF AgentChangesTab, TypeOK
<1>3. ASSUME InitWrites PROVE TypeOK'
  BY <1>3 DEF InitWrites, TypeOK, MaybeLists
<1>4. ASSUME NEW put \in orphans, ServeOrphan(put) PROVE TypeOK'
  BY <1>4 DEF ServeOrphan, TypeOK
<1> QED BY <1>1, <1>2, <1>3, <1>4 DEF Others

LEMMA SyncTypeStep == TypeOK /\ [Next]_vars => TypeOK'
<1> SUFFICES ASSUME TypeOK, [Next]_vars PROVE TypeOK'
  OBVIOUS
<1>1. CASE UNCHANGED vars
  BY <1>1 DEF vars, TypeOK
<1> QED BY <1>1, UserType, ScriptType, ServeType, NetworkType, OthersType DEF Next

\* Types, and what a message under way carries (the fields of app.js's state, the
\* bodies and answers of putSessionsToControl, at most two retries of a save).
THEOREM SyncTypeCorrect == Spec => []TypeOK
<1> QED BY SyncInitType, SyncTypeStep, PTL DEF Spec

(***************************************************************************)
(* Versioned saves of careful users, who do not act while a request of     *)
(* their page is under way and close no tab through the page.  What the    *)
(* page itself does late - the end of a deletion, when a request has begun *)
(* since - makes it late, and the rest is about pages that are not.        *)
(***************************************************************************)

CarefulUsers == Careful /\ "closeTab" \notin UserOps

\* A page without unsaved changes shows its version; one that saves has some, and its
\* save carries the list it shows.
InStep(p) ==
    /\ ~p.unsaved /\ p.version # None => p.list = p.version
    /\ p.timer \/ p.put.stage # "none" => p.unsaved
    /\ p.put.stage = "sent" => p.put.body = p.list
    /\ p.put.stage = "ok" => p.put.reply = p.list

\* What is true of a page that is not late, besides its type.
Settled(p, keys) == FollowsItsVersion(p, keys) /\ InStep(p) /\ p.closing = None

Late(p) == p.late /\ p.closing = None

SafeInv == TypeOK /\ \A b \in Pages : Settled(page[b], touched[b]) \/ Late(page[b])

\* A rebased list differs from the server's only where its user touched it.
LEMMA RebaseFollows ==
    ASSUME NEW local \in Lists, NEW remote \in Lists, NEW dirty, NEW deleted, NEW keys,
           dirty \cup deleted \subseteq keys
    PROVE  DiffersOnlyWhereTouched(Rebase(local, remote, dirty, deleted), remote, keys)
<1> SUFFICES ASSUME NEW n \in Names \ keys, remote[n] # None
             PROVE  Rebase(local, remote, dirty, deleted)[n] = remote[n]
  BY DEF DiffersOnlyWhereTouched
<1> QED BY SyncAssumption DEF Rebase, Keys

\* A save refused twice ends as if it had been refused once, by the second answer
\* (rebaseOntoServer, called for each 409): only workspaces of the first answer may
\* differ, and of those only what the hub has lost in between, which comes back, and
\* what the user edited and then deleted from the panel editor.
THEOREM RebasesCompose ==
    ASSUME NEW local \in Lists, NEW first \in Lists, NEW second \in Lists,
           NEW dirty, NEW deleted, NEW k \in Keys,
           Rebase(Rebase(local, first, dirty, deleted), second, dirty, deleted)[k]
               # Rebase(local, second, dirty, deleted)[k]
    PROVE  /\ k \in Names \ deleted /\ first[k] # None
           /\ second[k] = None \/ (local[k] = None /\ k \in dirty)
BY DEF Rebase, Keys

\* A user's change of the keys in changed, made while nothing is under way.
LEMMA ChangeFollows ==
    ASSUME NEW p \in PageRecords, NEW keys, Settled(p, keys),
           NEW q \in PageRecords, NEW changed,
           p.put.stage = "none", p.get.stage = "none",
           \A n \in Names \ changed : q.list[n] = p.list[n],
           q.version = p.version, q.put = p.put, q.get = p.get, q.closing = p.closing,
           q.unsaved, q.dirty \cup q.deleted \subseteq p.dirty \cup p.deleted \cup changed
    PROVE  Settled(q, keys \cup changed)
BY DEF Settled, InStep, FollowsItsVersion, DiffersOnlyWhereTouched

\* Only page b changes, and the keys its user touched.
LEMMA OnePageSettled ==
    ASSUME SafeInv, TypeOK', NEW b \in Pages, NEW q, NEW keys,
           page' = [page EXCEPT ![b] = q], touched' = [touched EXCEPT ![b] = keys],
           Settled(q, keys) \/ Late(q)
    PROVE  SafeInv'
<1>1. ASSUME NEW c \in Pages PROVE Settled(page'[c], touched'[c]) \/ Late(page'[c])
  <2>1. CASE c = b
    <3>1. page'[c] = q /\ touched'[c] = keys
      BY <2>1 DEF SafeInv, TypeOK
    <3> QED BY <3>1
  <2>2. CASE c # b
    <3>1. page'[c] = page[c] /\ touched'[c] = touched[c]
      BY <2>2 DEF SafeInv, TypeOK
    <3> QED BY <3>1 DEF SafeInv
  <2> QED BY <2>1, <2>2
<1> QED BY <1>1 DEF SafeInv

\* No step but a reload makes a late page prompt again.
LEMMA LateStays ==
    ASSUME CarefulUsers, SafeInv, TypeOK', NEW b \in Pages, Late(page[b]),
           User(b) \/ Script(b) \/ Serve(b) \/ LosePut(b) \/ LoseGet(b)
    PROVE  SafeInv'
<1> DEFINE p == page[b]
<1>0. /\ page \in [Pages -> PageRecords] /\ p \in PageRecords
      /\ touched \in [Pages -> SUBSET Keys] /\ touched' \in [Pages -> SUBSET Keys]
      /\ p.late = TRUE /\ p.closing = None
  BY DEF SafeInv, TypeOK, Late, PageRecords
<1>1. page' = [page EXCEPT ![b] = page'[b]]
  <2>1. ASSUME NEW c \in Pages \ {b} PROVE page'[c] = page[c]
    <3>1. CASE User(b)
      BY <1>0, <3>1 DEF User, Edit, Create, BeginDelete, PanelDelete, Reorder, CloseTab
    <3>2. CASE Script(b)
      BY <1>0, <3>2 DEF Script, EndDelete, CloseTabEnds, TimerFires, PutAccepted,
         PutRejected, Poll, GetAnswered
    <3>3. CASE Serve(b) \/ LosePut(b) \/ LoseGet(b)
      BY <1>0, <3>3 DEF Serve, ServePut, ServeGet, LosePut, LoseGet
    <3> QED BY <3>1, <3>2, <3>3
  <2>2. page' \in [Pages -> PageRecords]
    BY DEF TypeOK
  <2> QED BY ONLY <1>0, <2>1, <2>2
<1>2. touched' = [touched EXCEPT ![b] = touched'[b]]
  <2>1. ASSUME NEW c \in Pages \ {b} PROVE touched'[c] = touched[c]
    <3>1. CASE User(b)
      BY <1>0, <3>1 DEF Changed, User, Edit, Create, BeginDelete, PanelDelete, Reorder,
         CloseTab
    <3>2. CASE Script(b)
      BY <1>0, <3>2 DEF Changed, Script, EndDelete, CloseTabEnds, TimerFires, PutAccepted,
         PutRejected, Poll, GetAnswered
    <3>3. CASE Serve(b) \/ LosePut(b) \/ LoseGet(b)
      BY <1>0, <3>3 DEF Serve, ServePut, ServeGet, LosePut, LoseGet
    <3> QED BY <3>1, <3>2, <3>3
  <2> QED BY ONLY <1>0, <2>1
<1>3. Late(page'[b])
  <2>1. ASSUME User(b) PROVE Late(page'[b])
    <3>2. ASSUME NEW n \in Names, Edit(b, n) PROVE Late(page'[b])
      BY <1>0, <3>2 DEF Edit, SaveProfiles, PageRecords, Late
    <3>3. ASSUME NEW n \in Names, Create(b, n) PROVE Late(page'[b])
      BY <1>0, <3>3 DEF Create, SaveProfiles, PageRecords, Late
    <3>4. ASSUME NEW n \in Names, BeginDelete(b, n) PROVE Late(page'[b])
      BY <1>0, <3>4 DEF BeginDelete, PageRecords, Late
    <3>5. ASSUME NEW n \in Names, PanelDelete(b, n) PROVE Late(page'[b])
      BY <1>0, <3>5 DEF PanelDelete, SaveProfiles, PageRecords, Late
    <3>6. ASSUME Reorder(b) PROVE Late(page'[b])
      BY <1>0, <3>6 DEF Reorder, SaveProfiles, PageRecords, Late
    <3>7. ASSUME NEW n \in Names, NEW tab \in Tabs, CloseTab(b, n, tab) PROVE FALSE
      BY <3>7 DEF CloseTab, Acts, CarefulUsers
    <3> QED BY <2>1, <3>2, <3>3, <3>4, <3>5, <3>6, <3>7 DEF User
  <2>2. ASSUME EndDelete(b) PROVE Late(page'[b])
    <3> DEFINE q == SaveProfiles(p, [p.list EXCEPT ![p.killing] = None])
               late == q.late \/ InFlight(b) \/ Polling(b)
    <3>1. page'[b] = [q EXCEPT !.deleted = q.deleted \cup {p.killing},
                               !.killing = None, !.late = late]
      BY <1>0, <2>2 DEF EndDelete
    <3>2. q = [p EXCEPT !.list = q.list, !.cache = q.cache, !.unsaved = TRUE, !.timer = TRUE]
      BY <1>0 DEF SaveProfiles, PageRecords
    <3> HIDE DEF q
    <3> QED BY <1>0, <3>1, <3>2 DEF PageRecords, Late
  <2>3. ASSUME TimerFires(b) \/ PutAccepted(b) \/ Poll(b) PROVE Late(page'[b])
    <3>1. CASE TimerFires(b)
      BY <1>0, <3>1 DEF TimerFires, PageRecords, Late
    <3>2. CASE PutAccepted(b)
      BY <1>0, <3>2 DEF PutAccepted, Acknowledge, PageRecords, Late
    <3>3. CASE Poll(b)
      BY <1>0, <3>3 DEF Poll, PageRecords, Late
    <3> QED BY <2>3, <3>1, <3>2, <3>3
  <2>4. ASSUME PutRejected(b) PROVE Late(page'[b])
    BY <1>0, <2>4 DEF PutRejected, Rebased, GiveUp, PageRecords, Late
  <2>5. ASSUME GetAnswered(b) PROVE Late(page'[b])
    <3> DEFINE list == p.get.reply
               kept == [p EXCEPT !.get = NoGet]
               adopted == [p EXCEPT !.list = list, !.cache = list, !.version = list,
                                    !.get = NoGet]
    <3>1. page' = [page EXCEPT ![b] = kept] \/ page' = [page EXCEPT ![b] = adopted]
      BY <1>0, <2>5 DEF GetAnswered
    <3>2. Late(kept) /\ Late(adopted)
      BY <1>0 DEF PageRecords, Late
    <3> HIDE DEF kept, adopted
    <3> QED BY <1>0, <3>1, <3>2
  <2>6. ~CloseTabEnds(b)
    BY <1>0 DEF CloseTabEnds
  <2>7. ASSUME Serve(b) \/ LosePut(b) \/ LoseGet(b) PROVE Late(page'[b])
    BY <1>0, <2>7 DEF Serve, ServePut, ServeGet, LosePut, LoseGet, PageRecords, Late
  <2> QED BY <2>1, <2>2, <2>3, <2>4, <2>5, <2>6, <2>7 DEF Script
<1> QED BY <1>1, <1>2, <1>3, OnePageSettled

LEMMA SafeInit == Init => SafeInv
<1> SUFFICES ASSUME Init PROVE SafeInv
  OBVIOUS
<1>1. TypeOK
  BY SyncInitType
<1>2. ASSUME NEW b \in Pages PROVE Settled(page[b], touched[b])
  <2>1. page[b] = FreshPage(server, server) /\ touched[b] = {}
    BY <1>2 DEF Init
  <2> QED BY <2>1 DEF FreshPage, NoPut, NoGet, Settled, InStep, FollowsItsVersion,
                     DiffersOnlyWhereTouched
<1> QED BY <1>1, <1>2 DEF SafeInv

LEMMA UserSafe ==
    ASSUME CarefulUsers, SafeInv, TypeOK', NEW b \in Pages, Settled(page[b], touched[b]),
           User(b)
    PROVE  SafeInv'
<1> DEFINE p == page[b]
<1> USE DEF Changed
<1>0. /\ p \in PageRecords /\ p.list \in Lists /\ Settled(p, touched[b])
      /\ page \in [Pages -> PageRecords] /\ touched \in [Pages -> SUBSET Keys]
      /\ page' \in [Pages -> PageRecords] /\ marks + 1 \in Nat
  BY DEF SafeInv, TypeOK, PageRecords
<1>1. ASSUME NEW q, NEW changed,
             page' = [page EXCEPT ![b] = q],
             touched' = [touched EXCEPT ![b] = @ \cup changed],
             p.put.stage = "none", p.get.stage = "none",
             \A n \in Names \ changed : q.list[n] = p.list[n],
             q.version = p.version, q.put = p.put, q.get = p.get,
             q.closing = p.closing, q.unsaved,
             q.dirty \cup q.deleted \subseteq p.dirty \cup p.deleted \cup changed
      PROVE  SafeInv'
  <2>1. q \in PageRecords
    BY ONLY <1>0, <1>1
  <2>2. Settled(q, touched[b] \cup changed)
    BY ONLY <1>0, <1>1, <2>1, ChangeFollows
  <2> QED BY <1>0, <1>1, <2>2, OnePageSettled
<1>2. ASSUME NEW n \in Names, Edit(b, n) PROVE SafeInv'
  <2> DEFINE l == [p.list EXCEPT ![n].mark = marks + 1]
             q == [SaveProfiles(p, l) EXCEPT !.dirty = p.dirty \cup {n}]
  <2>1. \A m \in Names \ {n} : l[m] = p.list[m]
    BY <1>0 DEF Lists, Keys
  <2>2. /\ q.list = l /\ q.version = p.version /\ q.put = p.put /\ q.get = p.get
        /\ q.closing = p.closing /\ q.unsaved = TRUE
        /\ q.dirty = p.dirty \cup {n} /\ q.deleted = p.deleted
    BY <1>0 DEF SaveProfiles, PageRecords
  <2>3. p.put.stage = "none" /\ p.get.stage = "none"
    BY <1>2 DEF Edit, Acts, CarefulUsers, InFlight, Polling
  <2>4. page' = [page EXCEPT ![b] = q] /\ touched' = [touched EXCEPT ![b] = @ \cup {n}]
    BY <1>2 DEF Edit
  <2> HIDE DEF q, l
  <2> QED BY <1>1, <2>1, <2>2, <2>3, <2>4
<1>3. ASSUME NEW n \in Names, Create(b, n) PROVE SafeInv'
  <2> DEFINE l == [p.list EXCEPT ![n] = NewRow(marks + 1)]
             q == SaveProfiles(p, l)
  <2>1. \A m \in Names \ {n} : l[m] = p.list[m]
    BY <1>0 DEF Lists, Keys
  <2>2. /\ q.list = l /\ q.version = p.version /\ q.put = p.put /\ q.get = p.get
        /\ q.closing = p.closing /\ q.unsaved = TRUE
        /\ q.dirty = p.dirty /\ q.deleted = p.deleted
    BY <1>0 DEF SaveProfiles, PageRecords
  <2>3. p.put.stage = "none" /\ p.get.stage = "none"
    BY <1>3 DEF Create, Acts, CarefulUsers, InFlight, Polling
  <2>4. page' = [page EXCEPT ![b] = q] /\ touched' = [touched EXCEPT ![b] = @ \cup {n}]
    BY <1>3 DEF Create
  <2> HIDE DEF q, l
  <2> QED BY <1>1, <2>1, <2>2, <2>3, <2>4
<1>4. ASSUME NEW n \in Names, BeginDelete(b, n) PROVE SafeInv'
  <2> DEFINE q == [p EXCEPT !.killing = n]
  <2>1. Settled(q, touched[b])
    BY <1>0 DEF Settled, InStep, FollowsItsVersion, DiffersOnlyWhereTouched, PageRecords
  <2>2. page' = [page EXCEPT ![b] = q] /\ touched' = [touched EXCEPT ![b] = touched[b]]
    BY <1>0, <1>4 DEF BeginDelete
  <2> HIDE DEF q
  <2> QED BY <2>1, <2>2, OnePageSettled
<1>5. ASSUME NEW n \in Names, PanelDelete(b, n) PROVE SafeInv'
  <2> DEFINE l == [p.list EXCEPT ![n] = None]
             q == SaveProfiles(p, l)
  <2>1. \A m \in Names \ {n} : l[m] = p.list[m]
    BY <1>0 DEF Lists, Keys
  <2>2. /\ q.list = l /\ q.version = p.version /\ q.put = p.put /\ q.get = p.get
        /\ q.closing = p.closing /\ q.unsaved = TRUE
        /\ q.dirty = p.dirty /\ q.deleted = p.deleted
    BY <1>0 DEF SaveProfiles, PageRecords
  <2>3. p.put.stage = "none" /\ p.get.stage = "none"
    BY <1>5 DEF PanelDelete, Acts, CarefulUsers, InFlight, Polling
  <2>4. page' = [page EXCEPT ![b] = q] /\ touched' = [touched EXCEPT ![b] = @ \cup {n}]
    BY <1>5 DEF PanelDelete
  <2> HIDE DEF q, l
  <2> QED BY <1>1, <2>1, <2>2, <2>3, <2>4
<1>6. ASSUME Reorder(b) PROVE SafeInv'
  <2> DEFINE l == [p.list EXCEPT ![Order] = Swapped(@)]
             q == SaveProfiles(p, l)
  <2>1. \A m \in Names \ {Order} : l[m] = p.list[m]
    BY <1>0 DEF Lists, Keys
  <2>2. /\ q.list = l /\ q.version = p.version /\ q.put = p.put /\ q.get = p.get
        /\ q.closing = p.closing /\ q.unsaved = TRUE
        /\ q.dirty = p.dirty /\ q.deleted = p.deleted
    BY <1>0 DEF SaveProfiles, PageRecords
  <2>3. p.put.stage = "none" /\ p.get.stage = "none"
    BY <1>6 DEF Reorder, Acts, CarefulUsers, InFlight, Polling
  <2>4. page' = [page EXCEPT ![b] = q] /\ touched' = [touched EXCEPT ![b] = @ \cup {Order}]
    BY <1>6 DEF Reorder
  <2> HIDE DEF q, l
  <2> QED BY <1>1, <2>1, <2>2, <2>3, <2>4
<1>7. ASSUME NEW n \in Names, NEW tab \in Tabs, CloseTab(b, n, tab) PROVE FALSE
  BY <1>7 DEF CloseTab, Acts, CarefulUsers
<1> QED BY <1>2, <1>3, <1>4, <1>5, <1>6, <1>7 DEF User

LEMMA ScriptSafe ==
    ASSUME SafeInv, TypeOK', NEW b \in Pages, Settled(page[b], touched[b]), Script(b)
    PROVE  SafeInv'
<1> DEFINE p == page[b]
           keys == touched[b]
<1>0. /\ p \in PageRecords /\ Carries(p) /\ p.list \in Lists /\ Settled(p, keys)
      /\ page \in [Pages -> PageRecords] /\ touched \in [Pages -> SUBSET Keys]
      /\ touched = [touched EXCEPT ![b] = keys]
  BY DEF SafeInv, TypeOK, PageRecords
<1>1. ASSUME NEW q, page' = [page EXCEPT ![b] = q], Settled(q, keys), touched' = touched
      PROVE  SafeInv'
  <2>1. touched' = [touched EXCEPT ![b] = keys]
    BY <1>0, <1>1
  <2> HIDE DEF keys
  <2> QED BY <1>1, <2>1, OnePageSettled
<1>2. CASE CloseTabEnds(b)
  BY <1>0, <1>2 DEF CloseTabEnds, Settled
<1>3. CASE TimerFires(b)
  <2> DEFINE waits == [p EXCEPT !.timer = FALSE]
             sends == [p EXCEPT !.timer = FALSE, !.put = PutOf(p, 2)]
  <2>1. ~InFlight(b) /\ p.get.stage = "none"
    BY <1>0, <1>3 DEF TimerFires, Settled, InStep, FollowsItsVersion, InFlight
  <2>2. Settled(sends, keys)
    <3>1. /\ sends.list = p.list /\ sends.version = p.version /\ sends.unsaved = p.unsaved
          /\ sends.dirty = p.dirty /\ sends.deleted = p.deleted /\ sends.timer = FALSE
          /\ sends.get = p.get /\ sends.closing = p.closing /\ sends.put.stage = "sent"
          /\ sends.put.body = p.list /\ sends.put.base = p.version
      BY <1>0 DEF PutOf, PageRecords
    <3>2. p.unsaved
      BY <1>0, <1>3 DEF TimerFires, Settled, InStep
    <3> HIDE DEF sends
    <3> QED BY <1>0, <2>1, <3>1, <3>2
            DEF Settled, InStep, FollowsItsVersion, DiffersOnlyWhereTouched
  <2>3. page' = [page EXCEPT ![b] = sends]
    BY <1>0, <1>3, <2>1 DEF TimerFires
  <2> QED BY <1>1, <1>3, <2>2, <2>3 DEF TimerFires
<1>4. CASE PutAccepted(b)
  <2>1. Settled(Acknowledge(p), keys)
    BY <1>0, <1>4
    DEF PutAccepted, Acknowledge, Settled, InStep, FollowsItsVersion, NoPut, PageRecords
  <2> QED BY <1>1, <1>4, <2>1 DEF PutAccepted
<1>5. CASE PutRejected(b)
  <2> DEFINE list == Rebase(p.list, p.put.reply, p.dirty, p.deleted)
             put == PutOf(Rebased(p), p.put.retries - 1)
             again == [Rebased(p) EXCEPT !.put = put]
  <2>1. p.put.reply \in Lists /\ ~p.timer /\ p.get.stage = "none" /\ p.unsaved
    BY <1>0, <1>5 DEF PutRejected, Carries, Settled, InStep, FollowsItsVersion
  <2>2. DiffersOnlyWhereTouched(list, p.put.reply, keys)
    BY <1>0, <2>1, RebaseFollows DEF Settled, InStep, FollowsItsVersion
  <2>3. /\ again.list = list /\ again.version = p.put.reply
        /\ again.dirty = p.dirty /\ again.deleted = p.deleted
        /\ again.unsaved = p.unsaved /\ again.timer = p.timer /\ again.get = p.get
        /\ again.closing = p.closing
        /\ again.put.stage = "sent" /\ again.put.body = list
        /\ again.put.base = p.put.reply
    BY <1>0 DEF Rebased, PutOf, PageRecords
  <2>4. Settled(again, keys)
    <3> HIDE DEF again, list
    <3> QED BY <1>0, <2>1, <2>2, <2>3
            DEF Settled, InStep, FollowsItsVersion, DiffersOnlyWhereTouched
  <2>5. Settled(GiveUp(p), keys)
    BY <1>0, <2>1 DEF GiveUp, NoPut, Settled, InStep, FollowsItsVersion, PageRecords
  <2>6. page' = [page EXCEPT ![b] = again] \/ page' = [page EXCEPT ![b] = GiveUp(p)]
    BY <1>5 DEF PutRejected
  <2>7. touched' = touched
    BY <1>5 DEF PutRejected
  <2> HIDE DEF again
  <2> QED BY <1>1, <2>4, <2>5, <2>6, <2>7
<1>6. CASE Poll(b)
  <2>1. CASE p.unsaved /\ page' = [page EXCEPT ![b].put = PutOf(p, 2)]
    <3> DEFINE q == [p EXCEPT !.put = PutOf(p, 2)]
    <3>1. Settled(q, keys)
      BY <1>0, <1>6, <2>1
      DEF Poll, Settled, InStep, FollowsItsVersion, DiffersOnlyWhereTouched, PutOf, PageRecords
    <3>2. page' = [page EXCEPT ![b] = q]
      BY <1>0, <2>1
    <3> QED BY <1>1, <1>6, <3>1, <3>2 DEF Poll
  <2>2. CASE ~p.unsaved /\ page' = [page EXCEPT ![b].get.stage = "sent"]
    <3> DEFINE q == [p EXCEPT !.get = [p.get EXCEPT !.stage = "sent"]]
    <3>1. Settled(q, keys)
      BY <1>0, <1>6, <2>2
      DEF Poll, InFlight, Settled, InStep, FollowsItsVersion, PageRecords, Gets
    <3>2. page' = [page EXCEPT ![b] = q]
      BY <1>0, <2>2
    <3> QED BY <1>1, <1>6, <3>1, <3>2 DEF Poll
  <2> QED BY <1>6, <2>1, <2>2 DEF Poll
<1>7. CASE GetAnswered(b)
  <2> DEFINE list == p.get.reply
             kept == [p EXCEPT !.get = NoGet]
             adopted == [p EXCEPT !.list = list, !.cache = list, !.version = list,
                                  !.get = NoGet]
  <2>1. ~p.timer /\ ~p.unsaved /\ p.put.stage = "none" /\ p.dirty \cup p.deleted = {}
    BY <1>0, <1>7 DEF GetAnswered, Settled, InStep, FollowsItsVersion
  <2>2. Settled(kept, keys)
    BY <1>0, <2>1 DEF NoGet, Settled, InStep, FollowsItsVersion, PageRecords
  <2>3. Settled(adopted, {})
    BY <1>0, <2>1 DEF NoGet, Settled, InStep, FollowsItsVersion, DiffersOnlyWhereTouched, PageRecords
  <2>4. CASE list = p.version
    <3>1. page' = [page EXCEPT ![b] = kept]
      BY <1>0, <1>7, <2>4 DEF GetAnswered
    <3> QED BY <1>1, <1>7, <2>2, <2>4, <3>1 DEF GetAnswered
  <2>5. CASE list # p.version
    <3>1. page' = [page EXCEPT ![b] = adopted] /\ touched' = [touched EXCEPT ![b] = {}]
      BY <1>7, <2>1, <2>5 DEF GetAnswered, InFlight
    <3> HIDE DEF adopted
    <3> QED BY <2>3, <3>1, OnePageSettled
  <2> QED BY <2>4, <2>5
<1>8. CASE EndDelete(b)
  <2> DEFINE n == p.killing
             l == [p.list EXCEPT ![n] = None]
             late == p.late \/ InFlight(b) \/ Polling(b)
             q == [SaveProfiles(p, l) EXCEPT !.deleted = p.deleted \cup {n},
                                             !.killing = None, !.late = late]
  <2>1. \A m \in Names \ {n} : l[m] = p.list[m]
    BY <1>0 DEF Lists, Keys
  <2>2. /\ q.list = l /\ q.version = p.version /\ q.put = p.put /\ q.get = p.get
        /\ q.closing = p.closing /\ q.unsaved = TRUE /\ q.late = late
        /\ q.dirty = p.dirty /\ q.deleted = p.deleted \cup {n}
    BY <1>0 DEF SaveProfiles, PageRecords
  <2>3. page' = [page EXCEPT ![b] = q]
    <3>1. SaveProfiles(p, l).deleted = p.deleted /\ SaveProfiles(p, l).late = p.late
      BY <1>0 DEF SaveProfiles, PageRecords
    <3> QED BY <1>8, <3>1 DEF EndDelete
  <2>4. touched' = [touched EXCEPT ![b] = keys \cup {n}] /\ q \in PageRecords
    BY <1>0, <1>8, <2>3 DEF EndDelete, Changed, TypeOK
  <2>5. Settled(q, keys \cup {n}) \/ Late(q)
    <3>1. CASE InFlight(b) \/ Polling(b)
      BY <1>0, <2>2, <3>1 DEF Late, Settled
    <3>2. CASE ~InFlight(b) /\ ~Polling(b)
      <4>1. p.put.stage = "none" /\ p.get.stage = "none"
        BY <3>2 DEF InFlight, Polling
      <4> HIDE DEF q, l, n, keys, p
      <4> QED BY <1>0, <2>1, <2>2, <2>4, <4>1, ChangeFollows
    <3> QED BY <3>1, <3>2
  <2> HIDE DEF q, keys
  <2> QED BY <2>3, <2>4, <2>5, OnePageSettled
<1> QED BY <1>2, <1>3, <1>4, <1>5, <1>6, <1>7, <1>8 DEF Script

LEMMA ServeSafe ==
    ASSUME SafeInv, TypeOK', NEW b \in Pages, Settled(page[b], touched[b]), Serve(b)
    PROVE  SafeInv'
<1> DEFINE p == page[b]
           keys == touched[b]
<1>0. /\ p \in PageRecords /\ p.put \in Puts /\ p.list \in Lists /\ Settled(p, keys)
      /\ touched \in [Pages -> SUBSET Keys] /\ page \in [Pages -> PageRecords]
      /\ touched' = [touched EXCEPT ![b] = keys]
  BY DEF SafeInv, TypeOK, PageRecords, Serve, ServePut, ServeGet
<1>1. CASE ServePut(b)
  <2> DEFINE answered(stage, reply) ==
                 [p EXCEPT !.put = [p.put EXCEPT !.stage = stage, !.reply = reply]]
  <2>1. /\ p.put.stage = "sent" /\ ~p.timer /\ p.get.stage = "none"
        /\ DiffersOnlyWhereTouched(p.list, p.put.body, keys)
    BY <1>0, <1>1 DEF ServePut, Settled, InStep, FollowsItsVersion
  <2>2. Settled(answered("ok", p.put.body), keys)
    BY <1>0, <2>1 DEF Settled, InStep, FollowsItsVersion, PageRecords, Puts
  <2>3. Settled(answered("conflict", server), keys)
    BY <1>0, <2>1 DEF Settled, InStep, FollowsItsVersion, PageRecords, Puts
  <2>4. \/ page' = [page EXCEPT ![b] = answered("ok", p.put.body)]
        \/ page' = [page EXCEPT ![b] = answered("conflict", server)]
    BY <1>0, <1>1 DEF ServePut
  <2> HIDE DEF keys, answered
  <2> QED BY <1>0, <2>2, <2>3, <2>4, OnePageSettled
<1>2. CASE ServeGet(b)
  <2> DEFINE q == [p EXCEPT !.get = [stage |-> "answered", reply |-> server]]
  <2>1. Settled(q, keys)
    BY <1>0, <1>2 DEF ServeGet, Settled, InStep, FollowsItsVersion, PageRecords
  <2>2. page' = [page EXCEPT ![b] = q]
    BY <1>0, <1>2 DEF ServeGet
  <2> HIDE DEF keys, q
  <2> QED BY <1>0, <2>1, <2>2, OnePageSettled
<1> QED BY <1>1, <1>2 DEF Serve

LEMMA NetworkSafe ==
    ASSUME SafeInv, TypeOK', NEW b \in Pages, Settled(page[b], touched[b]),
           LosePut(b) \/ LoseGet(b)
    PROVE  SafeInv'
<1> DEFINE p == page[b]
           keys == touched[b]
<1>0. /\ p \in PageRecords /\ Settled(p, keys)
      /\ touched \in [Pages -> SUBSET Keys]
      /\ touched = [touched EXCEPT ![b] = keys]
  BY DEF SafeInv, TypeOK
<1>1. CASE LosePut(b)
  <2>1. Settled([p EXCEPT !.put = NoPut], keys)
    BY <1>0 DEF NoPut, Settled, InStep, FollowsItsVersion, PageRecords
  <2>2. page' = [page EXCEPT ![b] = [p EXCEPT !.put = NoPut]]
    BY <1>0, <1>1 DEF LosePut, SafeInv, TypeOK
  <2>3. touched' = [touched EXCEPT ![b] = keys]
    BY <1>0, <1>1 DEF LosePut
  <2> HIDE DEF keys
  <2> QED BY <2>1, <2>2, <2>3, OnePageSettled
<1>2. CASE LoseGet(b)
  <2>1. Settled([p EXCEPT !.get = NoGet], keys)
    BY <1>0 DEF NoGet, Settled, InStep, FollowsItsVersion, PageRecords
  <2>2. page' = [page EXCEPT ![b] = [p EXCEPT !.get = NoGet]]
    BY <1>0, <1>2 DEF LoseGet, SafeInv, TypeOK
  <2>3. touched' = [touched EXCEPT ![b] = keys]
    BY <1>0, <1>2 DEF LoseGet
  <2> HIDE DEF keys
  <2> QED BY <2>1, <2>2, <2>3, OnePageSettled
<1> QED BY <1>1, <1>2

LEMMA ReloadSafe ==
    ASSUME SafeInv, TypeOK', NEW b \in Pages, Reload(b)
    PROVE  SafeInv'
<1> DEFINE p == page[b]
<1>1. /\ Settled(FreshPage(server, server), {})
      /\ Settled(FreshPage(p.cache, None), {})
  BY DEF FreshPage, NoPut, NoGet, Settled, InStep, FollowsItsVersion, DiffersOnlyWhereTouched
<1>2. /\ \/ page' = [page EXCEPT ![b] = FreshPage(server, server)]
         \/ page' = [page EXCEPT ![b] = FreshPage(p.cache, None)]
      /\ touched' = [touched EXCEPT ![b] = {}]
  BY DEF Reload
<1> QED BY <1>1, <1>2, OnePageSettled

LEMMA SafeStep ==
    ASSUME CarefulUsers, SafeInv, [Next]_vars
    PROVE  SafeInv'
<1>1. TypeOK'
  BY SyncTypeStep DEF SafeInv
<1>2. CASE Others \/ UNCHANGED vars
  <2>1. page' = page /\ touched' = touched
    BY <1>2 DEF Others, InitReads, AgentChangesTab, InitWrites, ServeOrphan, vars
  <2> QED BY <1>1, <2>1 DEF SafeInv
<1>3. ASSUME NEW b \in Pages,
             User(b) \/ Script(b) \/ Serve(b) \/ LosePut(b) \/ LoseGet(b)
      PROVE  SafeInv'
  <2>1. CASE Settled(page[b], touched[b])
    BY <1>1, <1>3, <2>1, UserSafe, ScriptSafe, ServeSafe, NetworkSafe
  <2>2. CASE Late(page[b])
    BY <1>1, <1>3, <2>2, LateStays
  <2> QED BY <2>1, <2>2 DEF SafeInv
<1> QED BY <1>1, <1>2, <1>3, ReloadSafe DEF Next, Network

\* Whatever pages, users, agents, rr-init and the network do, the list of a careful
\* user's page and its save on the way differ from the version they are based on only
\* in what that user touched (submitAddModal to putSessionsToControl, app.js), until one
\* of the user's deletions comes into the list while a request is under way.
THEOREM PagesFollow == CarefulUsers => (Spec => []PagesFollowTheirVersion)
<1> SUFFICES ASSUME CarefulUsers PROVE Spec => []PagesFollowTheirVersion
  OBVIOUS
<1>1. Init => SafeInv
  BY SafeInit
<1>2. SafeInv /\ [Next]_vars => SafeInv'
  BY SafeStep
<1>3. SafeInv => PagesFollowTheirVersion
  BY DEF SafeInv, Settled, Late, Prompt, PagesFollowTheirVersion
<1> QED BY <1>1, <1>2, <1>3, PTL DEF Spec

\* A careful user's page with nothing to save shows the list whose version it holds, so
\* the poll that compares versions misses nothing (refreshSessionsFromControlIfChanged).
\* It takes that a save carries the list the page shows until its answer is handled, which
\* the end of a deletion (deleteSessionAndKill) may break: such pages are set aside.
THEOREM SavedPagesInStep == CarefulUsers => (Spec => []SavedPagesShowTheirVersion)
<1> SUFFICES ASSUME CarefulUsers PROVE Spec => []SavedPagesShowTheirVersion
  OBVIOUS
<1>1. Init => SafeInv
  BY SafeInit
<1>2. SafeInv /\ [Next]_vars => SafeInv'
  BY SafeStep
<1>3. SafeInv => SavedPagesShowTheirVersion
  BY DEF SafeInv, Settled, InStep, Late, Prompt, SavedPagesShowTheirVersion
<1> QED BY <1>1, <1>2, <1>3, PTL DEF Spec

LEMMA OnlyItsOwnSteps ==
    ASSUME TypeOK, NEW b \in Pages, NEW c \in Pages \ {b},
           User(c) \/ Script(c) \/ Serve(c) \/ Network(c)
    PROVE  page'[b] = page[b]
<1>0. page \in [Pages -> PageRecords]
  BY DEF TypeOK
<1>1. CASE User(c)
  BY <1>0, <1>1 DEF User, Edit, Create, BeginDelete, PanelDelete, Reorder, CloseTab
<1>2. CASE Script(c)
  BY <1>0, <1>2
  DEF Script, EndDelete, CloseTabEnds, TimerFires, PutAccepted, PutRejected, Poll, GetAnswered
<1>3. CASE Serve(c) \/ Network(c)
  BY <1>0, <1>3 DEF Serve, ServePut, ServeGet, Network, LosePut, LoseGet, Reload
<1> QED BY <1>1, <1>2, <1>3

\* Only the hub's answer makes a save accepted: its other steps, the page's own and
\* those of other pages leave a save on its way, drop it, or send one.
LEMMA OnlyTheHubAccepts ==
    ASSUME TypeOK, Next, NEW b \in Pages, SaveAccepted(b)
    PROVE  ServePut(b) /\ Acceptable(page[b].put)
<1> DEFINE p == page[b]
<1>0. /\ page \in [Pages -> PageRecords] /\ p \in PageRecords
      /\ page'[b].put.stage # p.put.stage /\ p.put.stage = "sent"
      /\ page'[b].put.stage = "ok"
  BY DEF TypeOK, SaveAccepted
<1>1. ~Others
  BY <1>0 DEF Others, InitReads, AgentChangesTab, InitWrites, ServeOrphan
<1>2. ASSUME NEW c \in Pages, c # b, User(c) \/ Script(c) \/ Serve(c) \/ Network(c)
      PROVE  page'[b] = p
  BY <1>2, OnlyItsOwnSteps
<1>3. ~User(b)
  <2> SUFFICES ASSUME User(b) PROVE page'[b].put = p.put
    BY <1>0
  <2>1. ASSUME NEW n \in Names, Edit(b, n) PROVE page'[b].put = p.put
    BY <1>0, <2>1 DEF Edit, SaveProfiles, PageRecords
  <2>2. ASSUME NEW n \in Names, Create(b, n) PROVE page'[b].put = p.put
    BY <1>0, <2>2 DEF Create, SaveProfiles, PageRecords
  <2>3. ASSUME NEW n \in Names, BeginDelete(b, n) PROVE page'[b].put = p.put
    BY <1>0, <2>3 DEF BeginDelete, PageRecords
  <2>4. ASSUME NEW n \in Names, PanelDelete(b, n) PROVE page'[b].put = p.put
    BY <1>0, <2>4 DEF PanelDelete, SaveProfiles, PageRecords
  <2>5. ASSUME Reorder(b) PROVE page'[b].put = p.put
    BY <1>0, <2>5 DEF Reorder, SaveProfiles, PageRecords
  <2>6. ASSUME NEW n \in Names, NEW tab \in Tabs, CloseTab(b, n, tab)
        PROVE  page'[b].put = p.put
    BY <1>0, <2>6 DEF CloseTab, PageRecords
  <2> QED BY <2>1, <2>2, <2>3, <2>4, <2>5, <2>6 DEF User
<1>4. ~Script(b)
  <2>1. ~CloseTabEnds(b)
    <3> SUFFICES ASSUME CloseTabEnds(b) PROVE page'[b].put = p.put
      BY <1>0
    <3>1. PICK q : /\ page' = [page EXCEPT ![b] = q] /\ q.put = p.put
      <4>1. CASE page' = [page EXCEPT ![b].closing = None]
        <5>1. page' = [page EXCEPT ![b] = [p EXCEPT !.closing = None]]
          BY <1>0, <4>1
        <5> QED BY <1>0, <5>1 DEF PageRecords
      <4>2. CASE page' # [page EXCEPT ![b].closing = None]
        <5>1. PICK without, dirty :
                 page' = [page EXCEPT ![b] =
                     [p EXCEPT !.list = without, !.cache = without, !.dirty = dirty,
                               !.closing = None]]
          BY <4>2 DEF CloseTabEnds
        <5> QED BY <1>0, <5>1 DEF PageRecords
      <4> QED BY <4>1, <4>2
    <3> QED BY <1>0, <3>1
  <2>2. ~TimerFires(b)
    BY <1>0 DEF TimerFires, InFlight, PageRecords
  <2>3. ~PutAccepted(b) /\ ~PutRejected(b)
    BY <1>0 DEF PutAccepted, PutRejected
  <2>4. ~Poll(b)
    BY <1>0 DEF Poll, InFlight
  <2>5. ~GetAnswered(b)
    <3> SUFFICES ASSUME GetAnswered(b) PROVE page'[b].put = p.put
      BY <1>0
    <3> DEFINE list == p.get.reply
               kept == [p EXCEPT !.get = NoGet]
               adopted == [p EXCEPT !.list = list, !.cache = list, !.version = list,
                                    !.get = NoGet]
    <3>1. page' = [page EXCEPT ![b] = kept] \/ page' = [page EXCEPT ![b] = adopted]
      BY <1>0 DEF GetAnswered
    <3>2. kept.put = p.put /\ adopted.put = p.put
      BY <1>0 DEF PageRecords
    <3> HIDE DEF kept, adopted
    <3> QED BY <1>0, <3>1, <3>2
  <2>6. ~EndDelete(b)
    <3> SUFFICES ASSUME EndDelete(b) PROVE page'[b].put = p.put
      BY <1>0
    <3> DEFINE q == SaveProfiles(p, [p.list EXCEPT ![p.killing] = None])
               late == q.late \/ InFlight(b) \/ Polling(b)
    <3>1. page'[b] = [q EXCEPT !.deleted = q.deleted \cup {p.killing},
                               !.killing = None, !.late = late]
      BY <1>0 DEF EndDelete
    <3>2. q = [p EXCEPT !.list = q.list, !.cache = q.cache, !.unsaved = TRUE, !.timer = TRUE]
      BY <1>0 DEF SaveProfiles, PageRecords
    <3> HIDE DEF q
    <3> QED BY <1>0, <3>1, <3>2 DEF PageRecords
  <2> QED BY <2>1, <2>2, <2>3, <2>4, <2>5, <2>6 DEF Script
<1>5. ~Network(b)
  BY <1>0 DEF Network, LosePut, LoseGet, Reload, FreshPage, NoPut, PageRecords
<1>6. ~ServeGet(b)
  BY <1>0 DEF ServeGet, PageRecords
<1>7. ServePut(b)
  BY <1>0, <1>1, <1>2, <1>3, <1>4, <1>5, <1>6 DEF Next, Serve
<1>8. Acceptable(p.put)
  <2> SUFFICES ASSUME ~Acceptable(p.put) PROVE FALSE
    OBVIOUS
  <2>1. page' = [page EXCEPT ![b].put = [p.put EXCEPT !.stage = "conflict", !.reply = server]]
    BY <1>7 DEF ServePut
  <2> QED BY <1>0, <2>1 DEF PageRecords, Puts
<1> QED BY <1>7, <1>8

\* A save the hub accepts because its page worked on the current version changes no
\* workspace that page's user did not touch (replace_sessions, rebaseOntoServer):
\* the same assumptions and exception, for every number of pages, workspaces and agents.
THEOREM SavesKeep == CarefulUsers => (Spec => SavesKeepWhatOthersChanged)
<1> SUFFICES ASSUME CarefulUsers PROVE Spec => SavesKeepWhatOthersChanged
  OBVIOUS
<1>1. Init => SafeInv
  BY SafeInit
<1>2. SafeInv /\ [Next]_vars => SafeInv'
  BY SafeStep
<1>3. SafeInv /\ [Next]_vars =>
        [\A b \in Pages : Prompt(b) /\ SaveAccepted(b) /\ page[b].put.base # None =>
            KeepsWhatOthersChanged(b)]_vars
  <2> SUFFICES ASSUME SafeInv, Next, NEW b \in Pages,
                      Prompt(b), SaveAccepted(b), page[b].put.base # None
               PROVE  KeepsWhatOthersChanged(b)
    OBVIOUS
  <2>1. ServePut(b) /\ Acceptable(page[b].put)
    BY OnlyTheHubAccepts DEF SafeInv
  <2>2. page[b].put.base = server /\ server' = page[b].put.body
    BY <2>1 DEF ServePut, Acceptable
  <2>3. DiffersOnlyWhereTouched(page[b].put.body, page[b].put.base, touched[b])
    BY DEF SafeInv, Settled, Late, Prompt, InStep, FollowsItsVersion, SaveAccepted
  <2> QED BY <2>2, <2>3 DEF KeepsWhatOthersChanged, DiffersOnlyWhereTouched
<1> QED BY <1>1, <1>2, <1>3, PTL DEF Spec, SavesKeepWhatOthersChanged

=============================================================================
