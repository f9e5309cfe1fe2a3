--------------------------- MODULE WikiPagesProofs ---------------------------
(***************************************************************************)
(* Theorems about WikiPages, for every number of sessions, items, pages,   *)
(* runs and rollbacks.                                                     *)
(***************************************************************************)
EXTENDS WikiPages, TLAPS

-----------------------------------------------------------------------------
(* Types and locks *)

\* A session that is on an item has it; one that has matched a page has it.
SessionTyped ==
    \A s \in Sessions :
        /\ pc[s] # "idle" => job[s] \in Items
        /\ pc[s] \notin {"idle", "search", "create"} => target[s] \in Pages

\* From its first flush to its commit a session holds the row, and the page
\* is there.
InTransaction(s) == pc[s] \in {"events", "commit", "aborted"}
Locked ==
    \A s \in Sessions :
        InTransaction(s) => lock[target[s]] = s /\ target[s] \in Live

Typed == PagesTypeOK /\ SessionTyped /\ Locked

LEMMA InitTyped == PagesInit => Typed
  BY PagesAssumption
  DEF PagesInit, Typed, PagesTypeOK, SessionTyped, Locked, InTransaction, Live,
      Absent, Page, NoSnapshot, Snapshot, NoDraft, Draft, Steps

LEMMA NextCases ==
  ASSUME PagesNext
  PROVE  \/ \E s \in Sessions, i \in Items : Begin(s, i)
         \/ \E s \in Sessions, p \in Pages : Match(s, p)
         \/ \E s \in Sessions : NoMatch(s)
         \/ \E s \in Sessions : SaveSnapshot(s)
         \/ \E s \in Sessions : UpdatePage(s)
         \/ \E s \in Sessions : StoreEvents(s)
         \/ \E s \in Sessions : Commit(s)
         \/ \E s \in Sessions : CommitAborted(s)
         \/ \E s \in Sessions : CreatePage(s)
         \/ \E s \in Sessions : Complete(s)
         \/ \E s \in Sessions : PageIsGone(s)
         \/ \E s \in Sessions : Fail(s)
         \/ \E i \in Items : Rollback(i)
  BY Zenon DEF PagesNext, Advance

\* The row of a page that a rollback restores.
LEMMA RestoredRow ==
  ASSUME NEW p \in Pages, NEW shot \in Snapshot, page[p] \in Page,
         shot.kind # "created"
  PROVE  /\ Restored(shot, p) \in Page
         /\ Restored(shot, p).state = page[p].state
         /\ Restored(shot, p).creator = page[p].creator
         /\ Restored(shot, p).sections = shot.sections
         /\ Restored(shot, p).bare = shot.sections
         /\ Restored(shot, p).text = shot.text
<1>1. Restored(shot, p) = [page[p] EXCEPT !.sections = shot.sections,
                                          !.bare = shot.sections,
                                          !.text = shot.text]
  BY DEF Restored
<1>2. shot.sections \in SUBSET Section /\ shot.text \in SUBSET Section
  BY DEF Snapshot
<1>3. QED
  BY <1>1, <1>2 DEF Page

\* What _create_page does, for the page that it creates.
Created(s, p, new) ==
    /\ page[p].state = "unused"
    /\ page' = [page EXCEPT ![p] =
          [state |-> "live", creator |-> job[s], sections |-> new,
           bare |-> {}, text |-> new]]
    /\ snapshot' = [snapshot EXCEPT ![p][job[s]] =
          [kind |-> "created", run |-> run[s], sections |-> {}, text |-> {}]]

LEMMA CreatedPage ==
  ASSUME NEW s \in Sessions, CreatePage(s)
  PROVE  \E p \in Pages, new \in Written(s) : Created(s, p, new)
<1> DEFINE p == CHOOSE q \in Pages : page[q].state = "unused"
<1>1. p \in Pages /\ page[p].state = "unused"
  BY DEF CreatePage
<1>2. \E new \in Written(s) : Created(s, p, new)
  BY <1>1 DEF CreatePage, Created
<1>3. QED
  BY <1>1, <1>2

LEMMA StepTyped ==
  ASSUME Typed, [PagesNext]_vars
  PROVE  Typed'
<1> USE PagesAssumption DEF Typed, PagesTypeOK, SessionTyped, Locked,
        InTransaction, Live, Steps, Goto
<1>1. ASSUME NEW s \in Sessions, NEW i \in Items, Begin(s, i)
      PROVE  Typed'
  BY <1>1 DEF Begin
<1>2. ASSUME NEW s \in Sessions, NEW p \in Pages, Match(s, p)
      PROVE  Typed'
  BY <1>2 DEF Match, Page
<1>3. ASSUME NEW s \in Sessions, NoMatch(s)
      PROVE  Typed'
  BY <1>3 DEF NoMatch
<1>4. ASSUME NEW s \in Sessions, SaveSnapshot(s)
      PROVE  Typed'
  BY <1>4 DEF SaveSnapshot, Snapshot, KindOf, NoSnapshot, Page
<1>5. ASSUME NEW s \in Sessions, UpdatePage(s)
      PROVE  Typed'
  BY <1>5 DEF UpdatePage, Draft, Written, Section, OldSections, RowIsFree, Page
<1>6. ASSUME NEW s \in Sessions, StoreEvents(s)
      PROVE  Typed'
  BY <1>6 DEF StoreEvents
<1>7. ASSUME NEW s \in Sessions, Commit(s)
      PROVE  Typed'
  <2> DEFINE p == target[s]
             d == draft[s]
  <2>1. /\ p \in Live /\ page[p] \in Page /\ d \in Draft
        /\ lock[p] = s /\ pc[s] = "commit"
    BY <1>7 DEF Commit
  <2>2. page' = [page EXCEPT ![p] = Updated(page[p], d)]
    BY <1>7 DEF Commit
  <2>3. /\ Updated(page[p], d) \in Page
        /\ Updated(page[p], d).state = "live"
        /\ Updated(page[p], d).bare \subseteq Updated(page[p], d).sections
    BY <2>1 DEF Page, Draft, Updated
  <2>4. \A q \in Pages : q # p => page'[q] = page[q]
    BY <2>2
  <2>5. page' \in [Pages -> Page] /\ Live' = Live
    BY <2>1, <2>2, <2>3
  <2>6. draft' \in [Sessions -> Draft]
    BY <1>7 DEF Commit, Release, Draft, NoDraft
  <2>7. PagesTypeOK'
    BY <1>7, <2>1, <2>2, <2>3, <2>4, <2>5, <2>6 DEF Commit, Release
  <2>8. Locked'
    <3>1. lock' = [lock EXCEPT ![p] = None] /\ pc' = [pc EXCEPT ![s] = "embed"]
      BY <1>7 DEF Commit, Release
    <3>2. QED
      BY <1>7, <2>1, <2>5, <3>1 DEF Commit, Release
  <2>9. SessionTyped'
    BY <1>7 DEF Commit, Release
  <2>10. QED
    BY <2>7, <2>8, <2>9
<1>8. ASSUME NEW s \in Sessions, CommitAborted(s)
      PROVE  Typed'
  BY <1>8 DEF CommitAborted, Release, Draft, NoDraft
<1>9. ASSUME NEW s \in Sessions, CreatePage(s)
      PROVE  Typed'
  BY <1>9 DEF CreatePage, Written, Section, Page, Snapshot, NoSnapshot
<1> USE DEF Close, CloseVariables, Draft, NoDraft
<1>10. ASSUME NEW s \in Sessions, Complete(s)
       PROVE  Typed'
  BY <1>10 DEF Complete, Snapshot, NoSnapshot
<1>11. ASSUME NEW s \in Sessions, PageIsGone(s)
       PROVE  Typed'
  BY <1>11 DEF PageIsGone
<1>12. ASSUME NEW s \in Sessions, Fail(s)
       PROVE  Typed'
  BY <1>12 DEF Fail
<1>13. ASSUME NEW i \in Items, Rollback(i)
       PROVE  Typed'
  <2> DEFINE mine == {p \in Pages : snapshot[p][i].kind # "none"}
  <2>1. /\ page' = [p \in Pages |-> IF p \in mine THEN Restored(snapshot[p][i], p) ELSE page[p]]
        /\ snapshot' = [p \in Pages |-> [j \in Items |->
                IF p \in mine /\ (j = i \/ snapshot[p][i].kind = "created")
                THEN NoSnapshot ELSE snapshot[p][j]]]
        /\ rollbacks' = rollbacks + 1
        /\ \A p \in mine : lock[p] = None
        /\ UNCHANGED <<lock, sessionVars, runs>>
    BY <1>13 DEF Rollback
  <2>2. \A p \in Pages : snapshot[p] \in [Items -> Snapshot] /\ snapshot[p][i] \in Snapshot
    OBVIOUS
  <2>3. mine \subseteq Live
    BY DEF NoSnapshot
  <2>4. ASSUME NEW p \in mine
        PROVE  /\ page'[p] \in Page
               /\ page'[p].bare \subseteq page'[p].sections
               /\ page'[p].state = "live" \/ page'[p].sections = {}
               /\ page'[p].state # "live" => snapshot[p][i].kind = "created"
    <3>1. page[p] \in Page /\ page[p].state = "live" /\ snapshot[p][i] \in Snapshot
      BY <2>2, <2>3
    <3>2. page'[p] = Restored(snapshot[p][i], p)
      BY <2>1
    <3>3. CASE snapshot[p][i].kind = "created"
      BY <3>2, <3>3 DEF Restored, Absent, Page
    <3>4. CASE snapshot[p][i].kind # "created"
      BY <3>1, <3>2, <3>4, RestoredRow
    <3>5. QED
      BY <3>3, <3>4
  <2>5. \A p \in Pages : p \notin mine => page'[p] = page[p] /\ snapshot'[p] = snapshot[p]
    BY <2>1, <2>2
  <2>6. page' \in [Pages -> Page]
    BY <2>1, <2>4, <2>5
  <2>7. snapshot' \in [Pages -> [Items -> Snapshot]]
    BY <2>1 DEF Snapshot, NoSnapshot
  <2>8. \A p \in Pages : p \notin Live' => \A j \in Items : snapshot'[p][j] = NoSnapshot
    BY <2>1, <2>4, <2>5
  <2>9. PagesTypeOK'
    <3>1. \A p \in Pages : /\ page'[p].bare \subseteq page'[p].sections
                           /\ p \notin Live' => page'[p].sections = {}
      BY <2>4, <2>5
    <3>2. rollbacks' \in Nat
      BY <2>1
    <3>3. UNCHANGED <<lock, pc, job, run, target, loaded, draft, runs>>
      BY <2>1 DEF sessionVars
    <3>4. QED
      BY <2>6, <2>7, <2>8, <3>1, <3>2, <3>3
  <2>10. Locked'
    BY <2>1, <2>5 DEF sessionVars
  <2>11. SessionTyped'
    BY <2>1 DEF sessionVars
  <2>12. QED
    BY <2>9, <2>10, <2>11
<1>14. CASE UNCHANGED vars
  BY <1>14 DEF vars, sessionVars
<1>15. QED
  BY <1>1, <1>2, <1>3, <1>4, <1>5, <1>6, <1>7, <1>8, <1>9, <1>10, <1>11,
     <1>12, <1>13, <1>14, NextCases, Zenon

\* Rows have their types; a page that is not there has no sections and no
\* snapshots, whatever sessions and rollbacks interleave.
THEOREM PagesTypeCorrect == PagesSpec => []PagesTypeOK
<1>1. Typed /\ [PagesNext]_vars => Typed'
  BY StepTyped
<1>2. Typed => PagesTypeOK
  BY DEF Typed
<1>3. QED
  BY InitTyped, <1>1, <1>2, PTL DEF PagesSpec

-----------------------------------------------------------------------------
(* Snapshots without content *)

LEMMA InitCreators == PagesInit => OnlyCreatorsDelete
  BY DEF PagesInit, OnlyCreatorsDelete, NoSnapshot

LEMMA StepCreators ==
  ASSUME Typed, OnlyCreatorsDelete, [PagesNext]_vars
  PROVE  OnlyCreatorsDelete'
<1> USE DEF OnlyCreatorsDelete
<1>1. CASE UNCHANGED <<page, snapshot>>
  BY <1>1
<1>2. ASSUME NEW s \in Sessions, SaveSnapshot(s)
      PROVE  OnlyCreatorsDelete'
  BY <1>2 DEF SaveSnapshot, KindOf, Typed, PagesTypeOK
<1>3. ASSUME NEW s \in Sessions, Commit(s)
      PROVE  OnlyCreatorsDelete'
  <2>1. page' = [page EXCEPT ![target[s]] = Updated(page[target[s]], draft[s])]
        /\ snapshot' = snapshot
    BY <1>3 DEF Commit, Release
  <2>2. target[s] \in Pages /\ page[target[s]] \in Page
    BY <1>3 DEF Commit, Typed, SessionTyped, PagesTypeOK
  <2>3. Updated(page[target[s]], draft[s]).creator = page[target[s]].creator
    BY <2>2 DEF Updated, Page
  <2>4. \A p \in Pages : page'[p].creator = page[p].creator
    BY <2>1, <2>2, <2>3 DEF Typed, PagesTypeOK
  <2>5. QED
    BY <2>1, <2>4
<1>4. ASSUME NEW s \in Sessions, CreatePage(s)
      PROVE  OnlyCreatorsDelete'
  <2>1. PICK p \in Pages, new \in Written(s) : Created(s, p, new)
    BY <1>4, CreatedPage
  <2>2. \A i \in Items : snapshot[p][i] = NoSnapshot
    BY <2>1 DEF Typed, PagesTypeOK, Live, Created
  <2>3. QED
    BY <2>1, <2>2 DEF Typed, PagesTypeOK, NoSnapshot, Created
<1>5. ASSUME NEW s \in Sessions, Complete(s)
      PROVE  OnlyCreatorsDelete'
  BY <1>5 DEF Complete, NoSnapshot, Typed, PagesTypeOK
<1>6. ASSUME NEW i \in Items, Rollback(i)
      PROVE  OnlyCreatorsDelete'
  <2> DEFINE mine == {p \in Pages : snapshot[p][i].kind # "none"}
  <2>1. /\ page' = [p \in Pages |-> IF p \in mine THEN Restored(snapshot[p][i], p) ELSE page[p]]
        /\ snapshot' = [p \in Pages |-> [j \in Items |->
                IF p \in mine /\ (j = i \/ snapshot[p][i].kind = "created")
                THEN NoSnapshot ELSE snapshot[p][j]]]
    BY <1>6 DEF Rollback
  <2>2. ASSUME NEW p \in Pages, NEW j \in Items, snapshot'[p][j].kind = "created"
        PROVE  page'[p].creator = j
    <3>1. snapshot[p][j].kind = "created" /\ (p \in mine => snapshot[p][i].kind # "created")
      BY <2>1, <2>2 DEF NoSnapshot
    <3>2. page[p].creator = j /\ page[p] \in Page /\ snapshot[p][i] \in Snapshot
      BY <3>1 DEF Typed, PagesTypeOK
    <3>3. CASE p \in mine
      BY <2>1, <3>1, <3>2, <3>3, RestoredRow
    <3>4. CASE p \notin mine
      BY <2>1, <3>2, <3>4
    <3>5. QED
      BY <3>3, <3>4
  <2>3. QED
    BY <2>2
<1>7. \/ UNCHANGED <<page, snapshot>>
      \/ \E s \in Sessions : SaveSnapshot(s) \/ Commit(s) \/ CreatePage(s) \/ Complete(s)
      \/ \E i \in Items : Rollback(i)
  BY NextCases DEF vars, Begin, Match, NoMatch, UpdatePage, StoreEvents, CommitAborted,
     Release, PageIsGone, Fail
<1>8. QED
  BY <1>1, <1>2, <1>3, <1>4, <1>5, <1>6, <1>7

\* However empty the pages that updates find, only the item that created a
\* page has a snapshot for which a rollback deletes it.
THEOREM CreatorsDelete == PagesSpec => []OnlyCreatorsDelete
<1>1. Typed /\ OnlyCreatorsDelete /\ [PagesNext]_vars => (Typed /\ OnlyCreatorsDelete)'
  BY StepTyped, StepCreators
<1>2. QED
  BY InitTyped, InitCreators, <1>1, PTL DEF PagesSpec

-----------------------------------------------------------------------------
(* Runs: what a session writes bears a run of its own *)

Active(s) == pc[s] # "idle"
RunsDiffer ==
    /\ \A s \in Sessions : run[s] <= runs
    /\ \A s, t \in Sessions : Active(s) /\ Active(t) /\ s # t => run[s] # run[t]

\* A step of one session, a rollback, or nothing: the others' state stays.
StepOf(s) ==
    \A t \in Sessions \ {s} :
        /\ pc'[t] = pc[t] /\ job'[t] = job[t] /\ run'[t] = run[t]
        /\ target'[t] = target[t] /\ loaded'[t] = loaded[t] /\ draft'[t] = draft[t]

\* What a step does to the run of the session that takes it.
RunOf(s) ==
    \/ pc[s] = "idle" /\ run'[s] = runs + 1 /\ runs' = runs + 1 /\ pc'[s] = "search"
    \/ pc[s] \notin {"idle", "embed"} /\ run'[s] = run[s] /\ runs' = runs
    \/ pc'[s] = "idle" /\ run'[s] = 0 /\ runs' = runs

LEMMA RunStep ==
  ASSUME Typed, PagesNext
  PROVE  \/ \E s \in Sessions : StepOf(s) /\ RunOf(s)
         \/ UNCHANGED <<sessionVars, runs>>
<1> USE DEF Typed, PagesTypeOK, StepOf, RunOf, Goto
<1>1. ASSUME NEW s \in Sessions, NEW i \in Items, Begin(s, i)
      PROVE  StepOf(s) /\ RunOf(s)
  BY <1>1 DEF Begin
<1>2. ASSUME NEW s \in Sessions, NEW p \in Pages, Match(s, p)
      PROVE  StepOf(s) /\ RunOf(s)
  BY <1>2 DEF Match
<1>3. ASSUME NEW s \in Sessions, NoMatch(s) \/ SaveSnapshot(s) \/ StoreEvents(s)
      PROVE  StepOf(s) /\ RunOf(s)
  BY <1>3 DEF NoMatch, SaveSnapshot, StoreEvents
<1>4. ASSUME NEW s \in Sessions, UpdatePage(s)
      PROVE  StepOf(s) /\ RunOf(s)
  BY <1>4 DEF UpdatePage
<1>5. ASSUME NEW s \in Sessions, Commit(s) \/ CommitAborted(s)
      PROVE  StepOf(s) /\ RunOf(s)
  BY <1>5 DEF Commit, CommitAborted, Release
<1>6. ASSUME NEW s \in Sessions, CreatePage(s)
      PROVE  StepOf(s) /\ RunOf(s)
  BY <1>6 DEF CreatePage
<1>7. ASSUME NEW s \in Sessions, Complete(s) \/ PageIsGone(s) \/ Fail(s)
      PROVE  StepOf(s) /\ RunOf(s)
  BY <1>7 DEF Complete, PageIsGone, Fail, Close, CloseVariables
<1>8. ASSUME NEW i \in Items, Rollback(i)
      PROVE  UNCHANGED <<sessionVars, runs>>
  BY <1>8 DEF Rollback
<1>9. QED
  <2> HIDE DEF Typed, PagesTypeOK, StepOf, RunOf, Goto
  <2>1. QED
    BY <1>1, <1>2, <1>3, <1>4, <1>5, <1>6, <1>7, <1>8, NextCases, Zenon

LEMMA StepRuns ==
  ASSUME Typed, RunsDiffer, [PagesNext]_vars
  PROVE  RunsDiffer'
<1>1. ASSUME NEW s \in Sessions, StepOf(s), RunOf(s)
      PROVE  RunsDiffer'
  <2>1. /\ \A t \in Sessions : run[t] \in Nat /\ run[t] <= runs
        /\ runs \in Nat
        /\ \A t \in Sessions \ {s} : pc'[t] = pc[t] /\ run'[t] = run[t]
    BY <1>1 DEF StepOf, RunsDiffer, Typed, PagesTypeOK
  <2>2. CASE run'[s] = runs + 1 /\ runs' = runs + 1
    BY <2>1, <2>2 DEF RunsDiffer, Active
  <2>3. CASE pc[s] \notin {"idle", "embed"} /\ run'[s] = run[s] /\ runs' = runs
    BY <2>1, <2>3 DEF RunsDiffer, Active
  <2>4. CASE pc'[s] = "idle" /\ run'[s] = 0 /\ runs' = runs
    BY <2>1, <2>4 DEF RunsDiffer, Active
  <2>5. QED
    BY <1>1, <2>2, <2>3, <2>4 DEF RunOf
<1>2. CASE UNCHANGED <<sessionVars, runs>>
  BY <1>2 DEF sessionVars, RunsDiffer, Active
<1>3. QED
  BY <1>1, <1>2, RunStep DEF vars

-----------------------------------------------------------------------------
(* An open transaction *)

Kept(s) ==
    /\ page'[target[s]] = page[target[s]]
    /\ target'[s] = target[s] /\ loaded'[s] = loaded[s]
    /\ job'[s] = job[s] /\ run'[s] = run[s] /\ draft'[s] = draft[s]

\* Nobody else changes a page while a session holds its row.
LEMMA PageIsLocked ==
  ASSUME Typed, [PagesNext]_vars, NEW s \in Sessions,
         InTransaction(s), InTransaction(s)'
  PROVE  Kept(s)
<1> USE DEF Kept
<1>1. /\ target[s] \in Pages /\ lock[target[s]] = s /\ page[target[s]].state = "live"
      /\ pc[s] \in {"events", "commit", "aborted"}
      /\ pc'[s] \in {"events", "commit", "aborted"}
  BY DEF Typed, Locked, SessionTyped, InTransaction, Live
<1>2. /\ page \in [Pages -> Page] /\ pc \in [Sessions -> Steps]
      /\ target \in [Sessions -> Pages \cup {None}]
      /\ loaded \in [Sessions -> SUBSET Section]
      /\ job \in [Sessions -> Items \cup {None}] /\ run \in [Sessions -> Nat]
      /\ draft \in [Sessions -> Draft]
  BY DEF Typed, PagesTypeOK
<1>3. ASSUME NEW t \in Sessions, Commit(t)
      PROVE  Kept(s)
  <2>1. t # s
    BY <1>1, <1>2, <1>3 DEF Commit, Release, Goto
  <2>2. lock[target[t]] = t
    BY <1>3 DEF Commit, Typed, Locked, InTransaction
  <2>3. target[t] # target[s]
    BY <1>1, <2>1, <2>2
  <2>4. page'[target[s]] = page[target[s]]
    BY <1>1, <1>2, <1>3, <2>3 DEF Commit
  <2>5. QED
    BY <1>2, <1>3, <2>1, <2>4 DEF Commit, Release
<1>4. ASSUME NEW t \in Sessions, CreatePage(t)
      PROVE  Kept(s)
  <2>1. t # s
    BY <1>1, <1>4 DEF CreatePage
  <2>2. PICK p \in Pages, new \in Written(t) : Created(t, p, new)
    BY <1>4, CreatedPage
  <2>3. page'[target[s]] = page[target[s]]
    BY <1>1, <1>2, <2>2 DEF Created
  <2>4. QED
    BY <1>2, <1>4, <2>1, <2>3 DEF CreatePage
<1>5. ASSUME NEW i \in Items, Rollback(i)
      PROVE  Kept(s)
  <2>1. lock[target[s]] # None
    BY <1>1, PagesAssumption
  <2>2. page'[target[s]] = page[target[s]]
    BY <1>1, <1>5, <2>1 DEF Rollback
  <2>3. QED
    BY <1>5, <2>2 DEF Rollback, sessionVars
<1>6. ASSUME NEW t \in Sessions, NEW i \in Items, Begin(t, i)
      PROVE  Kept(s)
  BY <1>1, <1>2, <1>6 DEF Begin
<1>7. ASSUME NEW t \in Sessions, NEW p \in Pages, Match(t, p)
      PROVE  Kept(s)
  BY <1>1, <1>2, <1>7 DEF Match
<1>8. ASSUME NEW t \in Sessions, NoMatch(t) \/ SaveSnapshot(t) \/ StoreEvents(t)
      PROVE  Kept(s)
  BY <1>8 DEF NoMatch, SaveSnapshot, StoreEvents
<1>9. ASSUME NEW t \in Sessions, UpdatePage(t)
      PROVE  Kept(s)
  BY <1>1, <1>2, <1>9 DEF UpdatePage
<1>10. ASSUME NEW t \in Sessions, CommitAborted(t)
       PROVE  Kept(s)
  BY <1>1, <1>2, <1>10 DEF CommitAborted, Release, Goto
<1>11. ASSUME NEW t \in Sessions, Complete(t) \/ PageIsGone(t) \/ Fail(t)
       PROVE  Kept(s)
  <2>1. UNCHANGED page /\ CloseVariables(t)
    BY <1>11 DEF Complete, PageIsGone, Fail, Close
  <2>2. QED
    BY <1>1, <1>2, <2>1 DEF CloseVariables, Goto
<1>12. CASE UNCHANGED vars
  BY <1>12 DEF vars, sessionVars
<1>13. QED
  <2> HIDE DEF Kept
  <2>1. QED
    BY <1>3, <1>4, <1>5, <1>6, <1>7, <1>8, <1>9, <1>10, <1>11, <1>12, NextCases, Zenon

\* What the transaction will write is computed from the page as it is.
DraftOf(s) ==
    LET d == draft[s]
        row == page[target[s]]
    IN  /\ d.text = (row.sections \ d.drop) \cup d.add
        /\ d.rewrite <=> (d.text # {} /\ d.text # loaded[s])
        /\ \A x \in d.add : x.run = run[s]
        /\ \A x \in d.drop : x.by = job[s]
Drafted == \A s \in Sessions : InTransaction(s) => DraftOf(s)

\* Only the first flush of an update opens a transaction.
LEMMA Opens ==
  ASSUME Typed, [PagesNext]_vars, NEW s \in Sessions,
         ~InTransaction(s), InTransaction(s)'
  PROVE  UpdatePage(s)
<1>1. pc \in [Sessions -> Steps]
  BY DEF Typed, PagesTypeOK
<1> USE <1>1 DEF InTransaction, Goto
<1>2. ASSUME NEW t \in Sessions, NEW i \in Items, Begin(t, i)
      PROVE  FALSE
  BY <1>2 DEF Begin
<1>3. ASSUME NEW t \in Sessions, NEW p \in Pages, Match(t, p)
      PROVE  FALSE
  BY <1>3 DEF Match
<1>4. ASSUME NEW t \in Sessions,
             NoMatch(t) \/ SaveSnapshot(t) \/ StoreEvents(t) \/ CreatePage(t)
      PROVE  FALSE
  BY <1>4 DEF NoMatch, SaveSnapshot, StoreEvents, CreatePage
<1>5. ASSUME NEW t \in Sessions, UpdatePage(t)
      PROVE  UpdatePage(s)
  <2>1. t = s
    BY <1>5 DEF UpdatePage
  <2>2. QED
    BY <1>5, <2>1
<1>6. ASSUME NEW t \in Sessions, Commit(t) \/ CommitAborted(t)
      PROVE  FALSE
  BY <1>6 DEF Commit, CommitAborted, Release
<1>7. ASSUME NEW t \in Sessions, Complete(t) \/ PageIsGone(t) \/ Fail(t)
      PROVE  FALSE
  <2>1. CloseVariables(t)
    BY <1>7 DEF Complete, PageIsGone, Fail, Close
  <2>2. QED
    BY <2>1 DEF CloseVariables
<1>8. ASSUME NEW i \in Items, Rollback(i)
      PROVE  FALSE
  BY <1>8 DEF Rollback, sessionVars
<1>9. CASE UNCHANGED vars
  BY <1>9 DEF vars, sessionVars
<1>10. QED
  <2> HIDE DEF InTransaction, Goto
  <2>1. QED
    BY <1>2, <1>3, <1>4, <1>5, <1>6, <1>7, <1>8, <1>9, NextCases, Zenon

LEMMA StepDrafted ==
  ASSUME Typed, Drafted, [PagesNext]_vars
  PROVE  Drafted'
<1>1. ASSUME NEW s \in Sessions, InTransaction(s)', InTransaction(s)
      PROVE  DraftOf(s)'
  <2>1. DraftOf(s)
    BY <1>1 DEF Drafted
  <2>2. QED
    BY <1>1, <2>1, PageIsLocked DEF DraftOf, Kept
<1>2. ASSUME NEW s \in Sessions, UpdatePage(s)
      PROVE  DraftOf(s)'
  <2>1. PICK add \in Written(s) :
          draft' = [draft EXCEPT ![s] =
             [drop |-> OldSections(s), add |-> add,
              text |-> (page[target[s]].sections \ OldSections(s)) \cup add,
              rewrite |-> /\ (page[target[s]].sections \ OldSections(s)) \cup add # {}
                          /\ (page[target[s]].sections \ OldSections(s)) \cup add # loaded[s]]]
    BY <1>2 DEF UpdatePage
  <2>2. draft'[s] = [drop |-> OldSections(s), add |-> add,
              text |-> (page[target[s]].sections \ OldSections(s)) \cup add,
              rewrite |-> /\ (page[target[s]].sections \ OldSections(s)) \cup add # {}
                          /\ (page[target[s]].sections \ OldSections(s)) \cup add # loaded[s]]
    BY <2>1 DEF Typed, PagesTypeOK
  <2>3. UNCHANGED <<page, target, loaded, run, job>>
    BY <1>2 DEF UpdatePage
  <2>4. /\ \A x \in add : x.run = run[s]
        /\ \A x \in OldSections(s) : x.by = job[s]
    BY DEF Written, OldSections
  <2>5. QED
    BY <2>2, <2>3, <2>4 DEF DraftOf
<1>3. QED
  BY <1>1, <1>2, Opens DEF Drafted

-----------------------------------------------------------------------------
(* Nothing that a run has yet to write is anywhere *)

Writing(s) == pc[s] \in Steps \ {"idle", "embed"}
Past(r) == r <= runs /\ \A s \in Sessions : Writing(s) => r # run[s]

\* The sections that a page, a snapshot or a page object shows.
Known(x) ==
    \/ \E p \in Pages : x \in page[p].sections \/ x \in page[p].text
    \/ \E p \in Pages, i \in Items :
          x \in snapshot[p][i].sections \/ x \in snapshot[p][i].text
    \/ \E s \in Sessions : x \in loaded[s]
Fresh == \A x \in Section : Known(x) => Past(x.run)

LEMMA InitFresh == PagesInit => RunsDiffer /\ Drafted /\ Fresh
<1> SUFFICES ASSUME PagesInit PROVE RunsDiffer /\ Drafted /\ Fresh
  OBVIOUS
<1>1. RunsDiffer /\ Drafted
  BY DEF PagesInit, RunsDiffer, Active, Drafted, InTransaction
<1>2. \A x : ~Known(x)
  BY DEF PagesInit, Known, Absent, NoSnapshot
<1>3. QED
  BY <1>1, <1>2 DEF Fresh

\* A past run stays past: a session that begins takes a later one.
LEMMA PastStays ==
  ASSUME Typed, [PagesNext]_vars, NEW r \in Nat, Past(r)
  PROVE  Past(r)'
<1>1. ASSUME NEW s \in Sessions, StepOf(s), RunOf(s)
      PROVE  Past(r)'
  <2>1. runs \in Nat /\ pc[s] \in Steps /\ r <= runs
        /\ \A t \in Sessions \ {s} : pc'[t] = pc[t] /\ run'[t] = run[t]
    BY <1>1 DEF StepOf, Typed, PagesTypeOK, Past
  <2>2. CASE run'[s] = runs + 1 /\ runs' = runs + 1
    BY <2>1, <2>2 DEF Past, Writing
  <2>3. CASE pc[s] \notin {"idle", "embed"} /\ run'[s] = run[s] /\ runs' = runs
    BY <2>1, <2>3 DEF Past, Writing
  <2>4. CASE pc'[s] = "idle" /\ runs' = runs
    BY <2>1, <2>4 DEF Past, Writing
  <2>5. QED
    BY <1>1, <2>2, <2>3, <2>4 DEF RunOf
<1>2. CASE UNCHANGED <<sessionVars, runs>>
  BY <1>2 DEF sessionVars, Past, Writing
<1>3. QED
  BY <1>1, <1>2, RunStep DEF vars

\* Once its sections are committed a run is past.
LEMMA OwnRunPasses ==
  ASSUME Typed, RunsDiffer, NEW s \in Sessions, Commit(s) \/ CreatePage(s),
         NEW r \in Nat, r = run[s]
  PROVE  Past(r)'
<1>1. /\ pc[s] # "idle" /\ pc' = [pc EXCEPT ![s] = "embed"]
      /\ run' = run /\ runs' = runs
  BY DEF Commit, CreatePage, Release, Goto
<1>2. pc \in [Sessions -> Steps]
  BY DEF Typed, PagesTypeOK
<1>3. QED
  BY <1>1, <1>2 DEF Past, Writing, RunsDiffer, Active

\* A step makes known only what a session commits or creates.
LEMMA KnownStep ==
  ASSUME Typed, Drafted, [PagesNext]_vars, NEW x \in Section, Known(x)'
  PROVE  \/ Known(x)
         \/ \E s \in Sessions : (Commit(s) \/ CreatePage(s)) /\ x.run = run[s]
<1> DEFINE Own == \E s \in Sessions :
                      (Commit(s) \/ CreatePage(s)) /\ x.run = run[s]
<1>1. /\ page \in [Pages -> Page]
      /\ snapshot \in [Pages -> [Items -> Snapshot]]
      /\ loaded \in [Sessions -> SUBSET Section]
  BY DEF Typed, PagesTypeOK
<1>2. CASE UNCHANGED <<page, snapshot, loaded>>
  BY <1>2 DEF Known
<1>3. ASSUME NEW s \in Sessions, NEW p \in Pages, Match(s, p)
      PROVE  Known(x)
  BY <1>1, <1>3 DEF Match, Known
<1>4. ASSUME NEW s \in Sessions, SaveSnapshot(s)
      PROVE  Known(x)
  <2> DEFINE p == target[s]
             i == job[s]
  <2>1. p \in Pages /\ i \in Items
    BY <1>4 DEF SaveSnapshot, Typed, SessionTyped
  <2>2. UNCHANGED <<page, loaded>>
    BY <1>4 DEF SaveSnapshot
  <2>3. \A q \in Pages, j \in Items :
          \/ snapshot'[q][j] = snapshot[q][j]
          \/ /\ snapshot'[q][j].sections = page[p].sections
             /\ snapshot'[q][j].text = loaded[s]
    BY <1>1, <1>4, <2>1 DEF SaveSnapshot
  <2>4. QED
    BY <2>1, <2>2, <2>3 DEF Known
<1>5. ASSUME NEW s \in Sessions, Commit(s)
      PROVE  Known(x) \/ Own
  <2> DEFINE p == target[s]
             d == draft[s]
  <2>1. /\ p \in Pages /\ page[p] \in Page
        /\ DraftOf(s)
    BY <1>1, <1>5 DEF Commit, Typed, SessionTyped, Drafted, InTransaction
  <2>2. /\ page' = [page EXCEPT ![p] = Updated(page[p], d)]
        /\ UNCHANGED <<snapshot, loaded>>
    BY <1>5 DEF Commit, Release
  <2>3. /\ Updated(page[p], d).sections = (page[p].sections \ d.drop) \cup d.add
        /\ Updated(page[p], d).text = IF d.rewrite THEN d.text ELSE page[p].text
    BY <2>1 DEF Updated, Page
  <2>4. \A q \in Pages :
           IF q = p
           THEN /\ page'[q].sections \subseteq page[q].sections \cup d.add
                /\ page'[q].text \subseteq page[q].text \cup page[q].sections \cup d.add
           ELSE page'[q] = page[q]
    <3>1. d.text = (page[p].sections \ d.drop) \cup d.add
      BY <2>1 DEF DraftOf
    <3>2. page'[p] = Updated(page[p], d) /\ \A q \in Pages : q # p => page'[q] = page[q]
      BY <1>1, <2>1, <2>2
    <3>3. QED
      BY <2>3, <3>1, <3>2
  <2>5. Known(x) \/ x \in d.add
    BY <2>1, <2>2, <2>4 DEF Known
  <2>6. x \in d.add => x.run = run[s]
    BY <2>1 DEF DraftOf
  <2>7. QED
    BY <1>5, <2>5, <2>6
<1>6. ASSUME NEW s \in Sessions, CreatePage(s)
      PROVE  Known(x) \/ Own
  <2>1. PICK p \in Pages, new \in Written(s) : Created(s, p, new)
    BY <1>6, CreatedPage
  <2>2. loaded' = loaded
    BY <1>6 DEF CreatePage
  <2>3. \A q \in Pages :
          \/ page'[q] = page[q]
          \/ page'[q].sections = new /\ page'[q].text = new
    BY <1>1, <2>1 DEF Created
  <2>4. \A q \in Pages, j \in Items :
          \/ snapshot'[q][j] = snapshot[q][j]
          \/ snapshot'[q][j].sections = {} /\ snapshot'[q][j].text = {}
    BY <1>1, <2>1 DEF Created
  <2>5. Known(x) \/ x \in new
    BY <2>2, <2>3, <2>4 DEF Known
  <2>6. x \in new => x.run = run[s]
    BY <2>1 DEF Written
  <2>7. QED
    BY <1>6, <2>5, <2>6
<1>7. ASSUME NEW s \in Sessions, Complete(s) \/ PageIsGone(s) \/ Fail(s)
      PROVE  Known(x)
  <2>1. UNCHANGED page /\ \A t \in Sessions : loaded'[t] \subseteq loaded[t]
    BY <1>1, <1>7 DEF Complete, PageIsGone, Fail, Close, CloseVariables
  <2>2. \A q \in Pages, j \in Items :
          \/ snapshot'[q][j] = snapshot[q][j]
          \/ snapshot'[q][j].sections = {} /\ snapshot'[q][j].text = {}
    BY <1>1, <1>7 DEF Complete, PageIsGone, Fail, NoSnapshot
  <2>3. QED
    BY <2>1, <2>2 DEF Known
<1>8. ASSUME NEW i \in Items, Rollback(i)
      PROVE  Known(x)
  <2> DEFINE mine == {p \in Pages : snapshot[p][i].kind # "none"}
  <2>1. /\ page' = [p \in Pages |-> IF p \in mine THEN Restored(snapshot[p][i], p) ELSE page[p]]
        /\ snapshot' = [p \in Pages |-> [j \in Items |->
                IF p \in mine /\ (j = i \/ snapshot[p][i].kind = "created")
                THEN NoSnapshot ELSE snapshot[p][j]]]
        /\ loaded' = loaded
    BY <1>8 DEF Rollback, sessionVars
  <2>2. \A q \in Pages :
          \/ page'[q] = page[q]
          \/ page'[q].sections = {} /\ page'[q].text = {}
          \/ page'[q].sections = snapshot[q][i].sections /\ page'[q].text = snapshot[q][i].text
    <3> SUFFICES ASSUME NEW q \in Pages, q \in mine
                 PROVE  \/ page'[q].sections = {} /\ page'[q].text = {}
                        \/ /\ page'[q].sections = snapshot[q][i].sections
                           /\ page'[q].text = snapshot[q][i].text
      BY <2>1
    <3>1. page'[q] = Restored(snapshot[q][i], q)
      BY <2>1
    <3>2. CASE snapshot[q][i].kind = "created"
      BY <3>1, <3>2 DEF Restored, Absent
    <3>3. CASE snapshot[q][i].kind # "created"
      BY <1>1, <3>1, <3>3, RestoredRow
    <3>4. QED
      BY <3>2, <3>3
  <2>3. \A q \in Pages, j \in Items :
          \/ snapshot'[q][j] = snapshot[q][j]
          \/ snapshot'[q][j].sections = {} /\ snapshot'[q][j].text = {}
    BY <2>1 DEF NoSnapshot
  <2>4. QED
    BY <2>1, <2>2, <2>3 DEF Known
<1>9. \/ UNCHANGED <<page, snapshot, loaded>>
      \/ \E s \in Sessions, p \in Pages : Match(s, p)
      \/ \E s \in Sessions : \/ SaveSnapshot(s) \/ Commit(s) \/ CreatePage(s)
                             \/ Complete(s) \/ PageIsGone(s) \/ Fail(s)
      \/ \E i \in Items : Rollback(i)
  BY NextCases DEF vars, sessionVars, Begin, NoMatch, UpdatePage, StoreEvents,
     CommitAborted, Release
<1>10. QED
  <2> HIDE DEF Own
  <2>1. Known(x) \/ Own
    BY <1>2, <1>3, <1>4, <1>5, <1>6, <1>7, <1>8, <1>9
  <2>2. QED
    BY <2>1 DEF Own

LEMMA StepFresh ==
  ASSUME Typed, RunsDiffer, Drafted, Fresh, [PagesNext]_vars
  PROVE  Fresh'
<1> SUFFICES ASSUME NEW x \in Section, Known(x)'
             PROVE  Past(x.run)'
  BY DEF Fresh
<1>1. x.run \in Nat
  BY DEF Section
<1>2. CASE Known(x)
  BY <1>1, <1>2, PastStays DEF Fresh
<1>3. ASSUME NEW s \in Sessions, Commit(s) \/ CreatePage(s), x.run = run[s]
      PROVE  Past(x.run)'
  BY <1>1, <1>3, OwnRunPasses
<1>4. QED
  BY <1>2, <1>3, KnownStep

-----------------------------------------------------------------------------
(* Pages show their sections, and keep them *)

PagesInv == Typed /\ RunsDiffer /\ Drafted /\ Fresh

LEMMA InitInv == PagesInit => PagesInv
  BY InitTyped, InitFresh DEF PagesInv

LEMMA StepInv ==
  ASSUME PagesInv, [PagesNext]_vars
  PROVE  PagesInv'
  BY StepTyped, StepRuns, StepDrafted, StepFresh DEF PagesInv

\* A commit that leaves the text alone adds no section: the text that the
\* session loaded shows none of its own run.
LEMMA NoRewriteAddsNothing ==
  ASSUME PagesInv, NEW s \in Sessions, Commit(s), ~draft[s].rewrite
  PROVE  draft[s].add = {}
<1> DEFINE d == draft[s]
<1>1. /\ pc[s] = "commit" /\ d \in Draft /\ loaded[s] \subseteq Section
      /\ DraftOf(s)
  BY DEF Commit, PagesInv, Typed, PagesTypeOK, Drafted, InTransaction
<1>2. d.text = {} \/ d.text = loaded[s]
  BY <1>1 DEF DraftOf
<1>3. d.add \subseteq d.text
  BY <1>1 DEF DraftOf
<1>4. ASSUME NEW x \in d.add, x \in loaded[s]
      PROVE  FALSE
  <2>1. x \in Section /\ Known(x)
    BY <1>1, <1>4 DEF Known
  <2>2. x.run # run[s]
    BY <1>1, <2>1 DEF PagesInv, Fresh, Past, Writing, Steps
  <2>3. QED
    BY <1>1, <2>2 DEF DraftOf
<1>5. QED
  BY <1>2, <1>3, <1>4

\* The effect of a commit on the rows of pages.
LEMMA CommittedPage ==
  ASSUME PagesInv, NEW s \in Sessions, Commit(s)
  PROVE  LET p == target[s]
             d == draft[s]
         IN  /\ p \in Pages /\ DraftOf(s)
             /\ \A q \in Pages \ {p} : page'[q] = page[q]
             /\ page'[p].state = page[p].state
             /\ page'[p].sections = (page[p].sections \ d.drop) \cup d.add
             /\ page'[p].bare = page[p].bare \ d.drop
             /\ page'[p].text = IF d.rewrite THEN d.text ELSE page[p].text
<1> DEFINE p == target[s]
           d == draft[s]
<1>1. /\ p \in Pages /\ page \in [Pages -> Page] /\ page[p] \in Page /\ DraftOf(s)
  BY DEF Commit, PagesInv, Typed, PagesTypeOK, SessionTyped, Drafted, InTransaction
<1>2. page' = [page EXCEPT ![p] = Updated(page[p], d)]
  BY DEF Commit
<1>3. /\ page'[p] = Updated(page[p], d)
      /\ \A q \in Pages \ {p} : page'[q] = page[q]
  BY <1>1, <1>2
<1>4. QED
  BY <1>1, <1>3 DEF Updated, Page

\* The effect of a rollback on a row of pages.
LEMMA RolledBackPage ==
  ASSUME PagesInv, NEW i \in Items, Rollback(i), NEW p \in Pages
  PROVE  \/ page'[p] = page[p]
         \/ page'[p].state = "gone"
         \/ page'[p].sections = page'[p].bare
<1>1. page \in [Pages -> Page] /\ snapshot[p][i] \in Snapshot
  BY DEF PagesInv, Typed, PagesTypeOK
<1>2. page'[p] = page[p] \/ page'[p] = Restored(snapshot[p][i], p)
  BY DEF Rollback
<1>3. CASE snapshot[p][i].kind = "created"
  BY <1>2, <1>3 DEF Restored, Absent
<1>4. CASE snapshot[p][i].kind # "created"
  BY <1>1, <1>2, <1>4, RestoredRow
<1>5. QED
  BY <1>3, <1>4

\* Which steps write pages.
LEMMA WritesPages ==
  ASSUME [PagesNext]_vars
  PROVE  \/ UNCHANGED page
         \/ \E s \in Sessions : Commit(s) \/ CreatePage(s)
         \/ \E i \in Items : Rollback(i)
  BY NextCases DEF vars, Begin, Match, NoMatch, SaveSnapshot, UpdatePage, StoreEvents,
     CommitAborted, Release, Complete, PageIsGone, Fail

LEMMA StepShown ==
  ASSUME PagesInv, EverySectionIsShown, [PagesNext]_vars
  PROVE  EverySectionIsShown'
<1>1. ASSUME NEW s \in Sessions, Commit(s)
      PROVE  EverySectionIsShown'
  <2> DEFINE p == target[s]
             d == draft[s]
  <2>1. /\ p \in Pages /\ DraftOf(s)
        /\ \A q \in Pages \ {p} : page'[q] = page[q]
        /\ page'[p].state = page[p].state
        /\ page'[p].sections = (page[p].sections \ d.drop) \cup d.add
        /\ page'[p].bare = page[p].bare \ d.drop
        /\ page'[p].text = IF d.rewrite THEN d.text ELSE page[p].text
    BY <1>1, CommittedPage
  <2>2. CASE d.rewrite
    BY <2>1, <2>2 DEF DraftOf, EverySectionIsShown, Live
  <2>3. CASE ~d.rewrite
    <3>1. d.add = {}
      BY <1>1, <2>3, NoRewriteAddsNothing
    <3>2. Live' = Live
      BY <2>1 DEF Live
    <3>3. \/ ~(page[p].sections # page[p].bare => page[p].sections \subseteq page[p].text)
          \/ page'[p].sections # page'[p].bare => page'[p].sections \subseteq page'[p].text
      BY <2>1, <2>3, <3>1
    <3>4. ASSUME NEW q \in Live'
          PROVE  page'[q].sections # page'[q].bare
                 => page'[q].sections \subseteq page'[q].text
      <4>1. CASE q = p
        BY <3>2, <3>3, <4>1 DEF EverySectionIsShown
      <4>2. CASE q # p
        BY <2>1, <3>2, <4>2 DEF EverySectionIsShown, Live
      <4>3. QED
        BY <4>1, <4>2
    <3>5. QED
      BY <3>4 DEF EverySectionIsShown
  <2>4. QED
    BY <2>2, <2>3
<1>2. ASSUME NEW s \in Sessions, CreatePage(s)
      PROVE  EverySectionIsShown'
  <2>1. PICK p \in Pages, new \in Written(s) : Created(s, p, new)
    BY <1>2, CreatedPage
  <2>2. page \in [Pages -> Page]
    BY DEF PagesInv, Typed, PagesTypeOK
  <2>3. page'[p].sections = page'[p].text /\ \A q \in Pages \ {p} : page'[q] = page[q]
    BY <2>1, <2>2 DEF Created
  <2>4. QED
    BY <2>3 DEF EverySectionIsShown, Live
<1>3. ASSUME NEW i \in Items, Rollback(i)
      PROVE  EverySectionIsShown'
  BY <1>3, RolledBackPage DEF EverySectionIsShown, Live
<1>4. CASE UNCHANGED page
  BY <1>4 DEF EverySectionIsShown, Live
<1>5. QED
  BY <1>1, <1>2, <1>3, <1>4, WritesPages

\* Whatever sessions run at the same time, fail or are rolled back, a page
\* shows all of its sections once something was added to it.
THEOREM SectionsAreShown == PagesSpec => []EverySectionIsShown
<1>1. PagesInit => EverySectionIsShown
  BY DEF PagesInit, EverySectionIsShown, Live, Absent
<1>2. PagesInv /\ EverySectionIsShown /\ [PagesNext]_vars
        => (PagesInv /\ EverySectionIsShown)'
  BY StepInv, StepShown
<1>3. QED
  BY InitInv, <1>1, <1>2, PTL DEF PagesSpec

LEMMA StepKeeps ==
  ASSUME PagesInv, [PagesNext]_vars, rollbacks' = rollbacks,
         NEW p \in Pages, NEW x \in page[p].sections \ page'[p].sections
  PROVE  \E s \in Sessions : pc[s] = "commit" /\ job[s] = x.by
<1>1. ASSUME NEW s \in Sessions, Commit(s)
      PROVE  pc[s] = "commit" /\ job[s] = x.by
  <2>1. x \in draft[s].drop /\ DraftOf(s)
    BY <1>1, CommittedPage
  <2>2. QED
    BY <1>1, <2>1 DEF DraftOf, Commit
<1>2. ASSUME NEW s \in Sessions, CreatePage(s)
      PROVE  FALSE
  <2>1. PICK q \in Pages, new \in Written(s) : Created(s, q, new)
    BY <1>2, CreatedPage
  <2>2. page \in [Pages -> Page] /\ page[q].sections = {}
    BY <2>1 DEF PagesInv, Typed, PagesTypeOK, Live, Created
  <2>3. QED
    BY <2>1, <2>2 DEF Created
<1>3. ASSUME NEW i \in Items, Rollback(i)
      PROVE  FALSE
  BY <1>3 DEF Rollback, PagesInv, Typed, PagesTypeOK
<1>4. QED
  BY <1>1, <1>2, <1>3, WritesPages

\* Without a rollback nobody loses a section but to a session on its own item.
THEOREM OthersAreKept == PagesSpec => IntegrationKeepsOthers
<1>1. PagesInv /\ [PagesNext]_vars =>
        [rollbacks' = rollbacks =>
           \A p \in Pages : \A x \in page[p].sections \ page'[p].sections :
              \E s \in Sessions : pc[s] = "commit" /\ job[s] = x.by]_vars
  BY StepKeeps
<1>2. PagesInv /\ [PagesNext]_vars => PagesInv'
  BY StepInv
<1>3. QED
  BY InitInv, <1>1, <1>2, PTL DEF PagesSpec, IntegrationKeepsOthers
=============================================================================
