------------------------------ MODULE WikiPages ------------------------------
(***************************************************************************)
(* The pages of the wiki and the two kinds of job that write them:         *)
(*   - a consumer's session integrates an item: WikiIntegrator.integrate   *)
(*     (application/use_cases/ingestion/wiki_integrator.py), called by     *)
(*     process_wiki_job (infrastructure/entrypoints/wiki_consumer.py),     *)
(*     creates a page or merges the item into a page that it matches;      *)
(*   - a CPU worker whose job on an item fails undoes what earlier runs of *)
(*     that item did: _rollback_snapshots                                  *)
(*     (infrastructure/entrypoints/cpu_worker.py).                         *)
(*                                                                         *)
(* What an LLM wrote is abstracted to who wrote it: a section is the part  *)
(* that one run of one item added to a page, and the text of a page        *)
(* (content_markdown) is the set of the sections it shows.  Which pages    *)
(* lie near the item, and whether the gates of _should_merge let it in, is *)
(* a choice.                                                               *)
(*                                                                         *)
(* An action is one transaction, except that the update of a page takes    *)
(* three steps, for it holds the page's row lock while events are stored.  *)
(***************************************************************************)
EXTENDS Naturals

CONSTANTS
    Items,
    Pages,        \* page ids, no fewer than MaxRuns if every page is to fit
    Sessions,     \* the consumers, one job at a time each
    None,
    MaxRuns,      \* bound: integrations begun
    MaxRollbacks  \* bound: rollbacks that find a snapshot

ASSUME PagesAssumption ==
    /\ None \notin Pages /\ None \notin Items /\ None \notin Sessions
    /\ MaxRuns \in Nat /\ MaxRollbacks \in Nat

VARIABLES
    page,       \* page[p]: the row of pages and its rows of page_sections
    snapshot,   \* snapshot[p][i]: the row of page_snapshots
    lock,       \* lock[p]: the session whose transaction holds page p's row
    pc,         \* pc[s]: where session s stands in integrate()
    job,        \* job[s]: its item
    run,        \* run[s]: which integration this is, a time stamp
    target,     \* target[s]: the page it matched or created
    loaded,     \* loaded[s]: content_markdown of the page object it holds
    draft,      \* draft[s]: what its open transaction will change
    runs,       \* how many have begun
    rollbacks

sessionVars == <<pc, job, run, target, loaded, draft>>
vars == <<page, snapshot, lock, sessionVars, runs, rollbacks>>

-----------------------------------------------------------------------------
(* Rows *)

\* own: source_ref is the default "yt:<source_item_id>"; the prompt also
\* lets the LLM write a source_ref of its own.
Section == [by : Items, run : Nat, own : BOOLEAN]

\* bare: the sections that a rollback has inserted, without source_id and
\* without section_vector.
Page == [state : {"unused", "live", "gone"},
         creator : Items \cup {None},
         sections : SUBSET Section,
         bare : SUBSET Section,
         text : SUBSET Section]

Absent(state) == [state |-> state, creator |-> None, sections |-> {},
                  bare |-> {}, text |-> {}]

\* created: content_markdown is NULL; run stands for created_at.
Snapshot == [kind : {"none", "created", "content"}, run : Nat,
             sections : SUBSET Section, text : SUBSET Section]

NoSnapshot == [kind |-> "none", run |-> 0, sections |-> {}, text |-> {}]

Draft == [drop : SUBSET Section, add : SUBSET Section,
          text : SUBSET Section, rewrite : BOOLEAN]

NoDraft == [drop |-> {}, add |-> {}, text |-> {}, rewrite |-> FALSE]

Live == {p \in Pages : page[p].state = "live"}

Steps == {"idle", "search", "snapshot", "create", "update", "events",
          "commit", "aborted", "embed"}

PagesTypeOK ==
    /\ page \in [Pages -> Page]
    /\ snapshot \in [Pages -> [Items -> Snapshot]]
    /\ lock \in [Pages -> Sessions \cup {None}]
    /\ pc \in [Sessions -> Steps]
    /\ job \in [Sessions -> Items \cup {None}]
    /\ run \in [Sessions -> Nat]
    /\ target \in [Sessions -> Pages \cup {None}]
    /\ loaded \in [Sessions -> SUBSET Section]
    /\ draft \in [Sessions -> Draft]
    /\ runs \in Nat
    /\ rollbacks \in Nat
    /\ \A p \in Pages :
          /\ page[p].bare \subseteq page[p].sections
          /\ p \notin Live => /\ page[p].sections = {}
                              /\ \A i \in Items : snapshot[p][i] = NoSnapshot

PagesInit ==
    /\ page = [p \in Pages |-> Absent("unused")]
    /\ snapshot = [p \in Pages |-> [i \in Items |-> NoSnapshot]]
    /\ lock = [p \in Pages |-> None]
    /\ pc = [s \in Sessions |-> "idle"]
    /\ job = [s \in Sessions |-> None]
    /\ run = [s \in Sessions |-> 0]
    /\ target = [s \in Sessions |-> None]
    /\ loaded = [s \in Sessions |-> {}]
    /\ draft = [s \in Sessions |-> NoDraft]
    /\ runs = 0
    /\ rollbacks = 0

-----------------------------------------------------------------------------
(* A session *)

Goto(s, step) == pc' = [pc EXCEPT ![s] = step]

\* The session is closed, by success, by an exception or by a crash; an open
\* transaction ends and its locks with it.
CloseVariables(s) ==
    /\ Goto(s, "idle")
    /\ job' = [job EXCEPT ![s] = None]
    /\ run' = [run EXCEPT ![s] = 0]
    /\ target' = [target EXCEPT ![s] = None]
    /\ loaded' = [loaded EXCEPT ![s] = {}]
    /\ draft' = [draft EXCEPT ![s] = NoDraft]
CloseWithoutRollback(s) == CloseVariables(s) /\ UNCHANGED lock       \* a mutant
Close(s) ==
    /\ CloseVariables(s)
    /\ lock' = [p \in Pages |-> IF lock[p] = s THEN None ELSE lock[p]]

\* process_wiki_job: an item that came off the queue, perhaps one that
\* another consumer is on as well.  Pass 1 follows.
Begin(s, i) ==
    /\ pc[s] = "idle" /\ runs < MaxRuns
    /\ Goto(s, "search")
    /\ job' = [job EXCEPT ![s] = i]
    /\ run' = [run EXCEPT ![s] = runs + 1]
    /\ runs' = runs + 1
    /\ UNCHANGED <<page, snapshot, lock, target, loaded, draft, rollbacks>>

\* _vector_search_existing_pages loads pages; _should_merge accepts p.
Match(s, p) ==
    /\ pc[s] = "search" /\ p \in Live
    /\ Goto(s, "snapshot")
    /\ target' = [target EXCEPT ![s] = p]
    /\ loaded' = [loaded EXCEPT ![s] = page[p].text]
    /\ UNCHANGED <<page, snapshot, lock, job, run, draft, runs, rollbacks>>

NoMatch(s) ==
    /\ pc[s] = "search"
    /\ Goto(s, "create")
    /\ UNCHANGED <<page, snapshot, lock, job, run, target, loaded, draft, runs, rollbacks>>

\* A page has a text from its creation on, if only an empty one, so a
\* snapshot that is taken for an update is never without content.
KindForEmpty(text) == IF text = {} THEN "created" ELSE "content"   \* a mutant
KindOf(text) == "content"

\* _save_snapshot: the sections are read now, the text was loaded by the
\* search; an older snapshot stays (ON CONFLICT DO NOTHING).
SaveSnapshot(s) ==
    LET p == target[s]
        i == job[s]
    IN  /\ pc[s] = "snapshot" /\ p \in Live
        /\ snapshot' = [snapshot EXCEPT ![p][i] =
                IF @.kind # "none" THEN @
                ELSE [kind |-> KindOf(loaded[s]), run |-> run[s],
                      sections |-> page[p].sections, text |-> loaded[s]]]
        /\ Goto(s, "update")
        /\ UNCHANGED <<page, lock, job, run, target, loaded, draft, runs, rollbacks>>

\* The sections that survive the checks: none, or some with the default
\* source_ref, or some with another one, or both.
Written(s) == SUBSET [by : {job[s]}, run : {run[s]}, own : BOOLEAN]

\* The sections that the update removes first.
EverySection(s) == page[target[s]].sections                        \* a mutant
OldSections(s) == {x \in page[target[s]].sections : x.by = job[s] /\ x.own}

\* Whether the transaction of an update may go on: its first flush updates the
\* row (updated_at), so it waits for another one that has done so.
NoWait(p) == TRUE                                                  \* a mutant
RowIsFree(p) == lock[p] = None

\* _update_page.  Sections with the item's default source_ref go, new ones
\* come, and the text is regenerated from all of them, unless there are none.
\* SQLAlchemy writes the text only if it differs from the one that was loaded.
UpdatePage(s) ==
    LET p == target[s]
        drop == OldSections(s)
    IN  /\ pc[s] = "update" /\ p \in Live /\ RowIsFree(p)
        /\ lock' = [lock EXCEPT ![p] = s]
        /\ \E add \in Written(s) :
              LET all == (page[p].sections \ drop) \cup add
              IN  draft' = [draft EXCEPT ![s] =
                       [drop |-> drop, add |-> add, text |-> all,
                        rewrite |-> all # {} /\ all # loaded[s]]]
        /\ Goto(s, "events")
        /\ UNCHANGED <<page, snapshot, job, run, target, loaded, runs, rollbacks>>

\* _handle_event_extraction, and the links.  A statement that fails there
\* (a value too long, a deadlock) aborts the transaction; integrate() and
\* extract_and_store_events catch the exception and go on.  A later statement
\* raises again and ends the session, but without links there is none.
StoreEvents(s) ==
    /\ pc[s] = "events"
    /\ \E step \in {"commit", "aborted"} : Goto(s, step)
    /\ UNCHANGED <<page, snapshot, lock, job, run, target, loaded, draft, runs, rollbacks>>

\* The transaction is over, whichever way; the embedding follows.
Release(s) ==
    /\ lock' = [lock EXCEPT ![target[s]] = None]
    /\ draft' = [draft EXCEPT ![s] = NoDraft]
    /\ Goto(s, "embed")
    /\ UNCHANGED <<snapshot, job, run, target, loaded, runs, rollbacks>>

Updated(row, d) ==
    [row EXCEPT !.sections = (row.sections \ d.drop) \cup d.add,
                !.bare = row.bare \ d.drop,
                !.text = IF d.rewrite THEN d.text ELSE row.text]

\* The commit after integrate() in process_wiki_job.
Commit(s) ==
    /\ pc[s] = "commit"
    /\ page' = [page EXCEPT ![target[s]] = Updated(page[target[s]], draft[s])]
    /\ Release(s)

\* COMMIT of an aborted transaction: PostgreSQL rolls it back and reports no
\* error.
CommitAborted(s) ==
    /\ pc[s] = "aborted"
    /\ Release(s)
    /\ UNCHANGED page

\* _create_page, the snapshot without content and the commit.
CreatePage(s) ==
    LET p == CHOOSE q \in Pages : page[q].state = "unused"
    IN  /\ pc[s] = "create" /\ \E q \in Pages : page[q].state = "unused"
        /\ \E new \in Written(s) :
              page' = [page EXCEPT ![p] =
                  [state |-> "live", creator |-> job[s], sections |-> new,
                   bare |-> {}, text |-> new]]
        /\ snapshot' = [snapshot EXCEPT ![p][job[s]] =
                [kind |-> "created", run |-> run[s], sections |-> {}, text |-> {}]]
        /\ target' = [target EXCEPT ![s] = p]
        /\ Goto(s, "embed")
        /\ UNCHANGED <<lock, job, run, loaded, draft, runs, rollbacks>>

\* _save_section_vectors, status completed, and the deletion of the item's
\* snapshots that are older than seven days: none is that was taken by a run
\* still going on.
Complete(s) ==
    /\ pc[s] = "embed"
    /\ \E oldest \in 0 .. run[s] :
          /\ \A t \in Sessions : job[t] = job[s] => oldest <= run[t]
          /\ snapshot' = [p \in Pages |-> [snapshot[p] EXCEPT ![job[s]] =
                              IF @.run < oldest THEN NoSnapshot ELSE @]]
    /\ Close(s)
    /\ UNCHANGED <<page, runs, rollbacks>>

\* The page was deleted since: the snapshot's foreign key fails, or the
\* UPDATE finds no row (StaleDataError).
PageIsGone(s) ==
    /\ pc[s] \in {"snapshot", "update"} /\ target[s] \notin Live
    /\ Close(s)
    /\ UNCHANGED <<page, snapshot, runs, rollbacks>>

\* Any other exception, the timeout of the job, or a crash.
Fail(s) ==
    /\ pc[s] # "idle"
    /\ Close(s)
    /\ UNCHANGED <<page, snapshot, runs, rollbacks>>

-----------------------------------------------------------------------------
(* A rollback *)

RestoredWithoutCascade(shot, p) ==                                 \* a mutant
    IF shot.kind = "created"
    THEN [page[p] EXCEPT !.state = "gone"]
    ELSE [page[p] EXCEPT !.sections = shot.sections, !.bare = shot.sections,
                         !.text = shot.text]
Restored(shot, p) ==
    IF shot.kind = "created"
    THEN Absent("gone")
    ELSE [page[p] EXCEPT !.sections = shot.sections, !.bare = shot.sections,
                         !.text = shot.text]

\* _rollback_snapshots, called by handle_job_failure for an item whose job in
\* a CPU worker failed.  It waits for the locks of the pages it writes.  The
\* snapshots of a deleted page go with it (ON DELETE CASCADE).
Rollback(i) ==
    LET mine == {p \in Pages : snapshot[p][i].kind # "none"}
    IN  /\ mine # {} /\ rollbacks < MaxRollbacks
        /\ \A p \in mine : lock[p] = None
        /\ page' = [p \in Pages |->
                       IF p \in mine THEN Restored(snapshot[p][i], p) ELSE page[p]]
        /\ snapshot' = [p \in Pages |-> [j \in Items |->
                IF p \in mine /\ (j = i \/ snapshot[p][i].kind = "created")
                THEN NoSnapshot ELSE snapshot[p][j]]]
        /\ rollbacks' = rollbacks + 1
        /\ UNCHANGED <<lock, sessionVars, runs>>

-----------------------------------------------------------------------------

Advance(s) ==
    \/ \E p \in Pages : Match(s, p)
    \/ NoMatch(s)
    \/ CreatePage(s)
    \/ SaveSnapshot(s)
    \/ UpdatePage(s)
    \/ StoreEvents(s)
    \/ Commit(s)
    \/ CommitAborted(s)
    \/ Complete(s)
    \/ PageIsGone(s)

PagesNext ==
    \/ \E s \in Sessions : Advance(s) \/ Fail(s)
    \/ \E s \in Sessions, i \in Items : Begin(s, i)
    \/ \E i \in Items : Rollback(i)

PagesSpec == PagesInit /\ [][PagesNext]_vars

\* A session is a coroutine that nobody suspends for ever.  Failures and
\* rollbacks need not happen.
FairPagesSpec == PagesSpec /\ \A s \in Sessions : WF_vars(Advance(s))

-----------------------------------------------------------------------------
(* Properties *)

\* A page to which anything was added since its last rollback shows every
\* section it has: "Regenerate page.content_markdown from ALL sections"
\* (_update_page) holds although two sessions update one page at a time and
\* each regenerates the text from what it reads.  (A rollback may restore a
\* text and sections that were read at two different times.)
EverySectionIsShown ==
    \A p \in Live : page[p].sections # page[p].bare
                        => page[p].sections \subseteq page[p].text

\* A snapshot without content, for which a rollback deletes the page, belongs
\* to the item that created the page: however empty the page was when another
\* item found it, that item's failure does not delete it.
OnlyCreatorsDelete ==
    \A p \in Pages, i \in Items :
        snapshot[p][i].kind = "created" => page[p].creator = i

\* Integrations of other items, concurrent or retried, take nothing away from
\* what an item added: a section disappears only by a rollback or by a session
\* of its own item.
IntegrationKeepsOthers ==
    [][rollbacks' = rollbacks =>
         \A p \in Pages : \A x \in page[p].sections \ page'[p].sections :
            \E s \in Sessions : pc[s] = "commit" /\ job[s] = x.by]_vars

\* No session waits for ever for the lock of a page.
EverySessionEnds == \A s \in Sessions : []<>(pc[s] = "idle")

\* "Rollback all wiki changes made by this job" (_rollback_snapshots): those of
\* other items stay.
RollbackKeepsOthers ==
    [][\A i \in Items : Rollback(i) =>
         \A p \in Pages : {x \in page[p].sections : x.by # i} \subseteq page'[p].sections]_vars
=============================================================================
