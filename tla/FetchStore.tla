----------------------------- MODULE FetchStore -----------------------------
(***************************************************************************)
(* A source that is a file of people: the runs that go through its rows    *)
(* (run_seed looks each person up on a web site, run_enrichment asks       *)
(* People Data Labs), the fetches they store, and the counters             *)
(* pages_fetched_total and urls_known_total that every run and the         *)
(* maintenance job write from what they counted.                           *)
(*                                                                         *)
(* Nothing orders the writers: a run that was stopped goes on beside the   *)
(* one that replaces it, jobs die and are retried, maintenance runs at any *)
(* time, and each statement of a transaction at READ COMMITTED reads what  *)
(* is committed by then. How a page is recognised as unchanged is the      *)
(* subject of ParsePipeline, the life of a run's row that of RunLifecycle, *)
(* the file itself that of Uploads: here a page is stored or not, a run's  *)
(* row is queued, running or ended, and its file is there or not.          *)
(***************************************************************************)
EXTENDS Naturals, Sequences, FiniteSets

CONSTANTS Urls,
          Jobs,          \* the runs of the source, each with its job
          RowsOf,        \* [Jobs -> the rows of the file the run was created for]
          MaxPages,      \* setting: rows of a file a run looks at
          RefreshEvery,  \* pages between two refreshes of the counters
          Budgets        \* bound: the runs requested, and jobs started again

Row == [url : Urls, named : BOOLEAN]
ASSUME FileTypes == RowsOf \in [Jobs -> Seq(Row)]
ASSUME Bounds == MaxPages \in Nat /\ RefreshEvery \in Nat \ {0}
ASSUME BudgetTypes == \A b \in Budgets : b.jobs \subseteq Jobs /\ b.retries \in Nat
ASSUME UrlsFinite == IsFiniteSet(Urls)

VARIABLES kind,       \* of the source: a seed file or an enrichment list
          live,       \* the source exists
          stored,     \* pages_fetched_total, urls_known_total
          recrawled,  \* the runs that set last_full_recrawl_at
          fetches,    \* url and result of each fetch, by run
          run,        \* status of each run's row
          job,        \* where each job is, what it has counted and read
          retries,    \* times a job may still be started again
          upkeep      \* the maintenance job

vars == <<kind, live, stored, recrawled, fetches, run, job, retries, upkeep>>

Zero == [pages |-> 0, known |-> 0]
Fresh(pc) == [pc |-> pc, next |-> 1, fetched |-> 0, missed |-> FALSE,
              count |-> Zero, dirty |-> {}]
Resting == [pc |-> "idle", count |-> Zero, dirty |-> {}]

Active(j) == run[j] \in {"queued", "running"}
HasRow(j) == Active(j) \/ run[j] = "ended"
AtWork == {"rows", "pages", "known", "load", "commit", "close", "stamp", "raised"}

Rows(j) == {i \in DOMAIN RowsOf[j] : i <= MaxPages}

-----------------------------------------------------------------------------
\* The counts: pages_fetched, urls_known.
Pages == Cardinality({f.url : f \in {g \in fetches : g.result = "stored"}})
Known == Cardinality({f.url : f \in fetches})

Counters(count) ==
    [pages |-> count.pages,
     known |-> IF count.known < count.pages THEN count.pages ELSE count.known]

\* The ORM updates the columns whose new value differs from the one loaded,
\* at the commit.
Columns == {"pages", "known"}
Changed(row, new) == {c \in Columns : new[c] # row[c]}
Only(columns, new) ==
    [pages |-> IF "pages" \in columns THEN new.pages ELSE 0,
     known |-> IF "known" \in columns THEN new.known ELSE 0]
\* Variant: what was counted is added to what is stored.
Added(w) ==
    [pages |-> IF "pages" \in w.dirty THEN stored.pages + w.count.pages ELSE stored.pages,
     known |-> IF "known" \in w.dirty THEN stored.known + w.count.known ELSE stored.known]
Written(w) ==
    [pages |-> IF "pages" \in w.dirty THEN w.count.pages ELSE stored.pages,
     known |-> IF "known" \in w.dirty THEN w.count.known ELSE stored.known]

\* What verify_source_integrity reports as drift.
Drift == stored # [pages |-> Pages, known |-> Known]

-----------------------------------------------------------------------------
\* What a run hears about a row: its page, the credits are spent, or neither -
\* an error or no match. PdlClient asks once more when told to wait (429), and
\* reports an error when told so again.
SeedAnswers == {"stored", "error"}
PdlAnswers == {"stored", "error", "spent"}

Goes(j, pc) == job' = [job EXCEPT ![j].pc = pc]
Ends(j) == job' = [job EXCEPT ![j] = Fresh("done")]

\* One run of a source and kind is active at a time; one that was stopped may
\* have a job that is not.
Create(j) ==
    /\ live
    /\ run[j] = "none" /\ job[j].pc = "none"
    /\ \A i \in Jobs : ~Active(i)
    /\ run' = [run EXCEPT ![j] = "queued"]
    /\ Goes(j, "launched")
    /\ UNCHANGED <<kind, live, stored, recrawled, fetches, retries, upkeep>>

\* run_source_run sets the row running, whatever it was, and the runner reads
\* the file, which may be gone by now.
Start(j) ==
    /\ job[j].pc = "launched"
    /\ \/ ~HasRow(j) /\ Ends(j) /\ UNCHANGED run
       \/ /\ HasRow(j)
          /\ run' = [run EXCEPT ![j] = "running"]
          /\ \E there \in BOOLEAN : Goes(j, IF there THEN "rows" ELSE "raised")
    /\ UNCHANGED <<kind, live, stored, recrawled, fetches, retries, upkeep>>

\* The except of run_source_run.
Raise(j) ==
    /\ job[j].pc = "raised"
    /\ run' = [run EXCEPT ![j] = IF HasRow(j) THEN "ended" ELSE @]
    /\ Ends(j)
    /\ UNCHANGED <<kind, live, stored, recrawled, fetches, retries, upkeep>>

CurrentRow(j) == RowsOf[j][job[j].next]

\* A row of a seed file without a name has no candidate URL and leaves no
\* fetch; to enrichment it is an error.
Hears(j, row, result) ==
    IF kind = "file"
    THEN /\ result \in (IF row.named THEN SeedAnswers ELSE {"error"})
         /\ fetches' = IF row.named
                       THEN fetches \cup {[run |-> j, url |-> row.url, result |-> result]}
                       ELSE fetches
    ELSE /\ result \in (IF row.named THEN PdlAnswers ELSE {"error"})
         /\ fetches' = fetches \cup {[run |-> j, url |-> row.url, result |-> result]}

\* Without credits the loop ends.
NextRow(j, result) == IF result = "spent" THEN MaxPages + 1 ELSE job[j].next + 1

\* run_seed refreshes when the number of pages is a multiple of RefreshEvery,
\* zero included. The number is kept modulo RefreshEvery.
AfterRow(fetched) == IF kind = "file" /\ fetched = 0 THEN "pages" ELSE "rows"

\* Variant: a row without a name does not count as missed.
VisitedQuietly(j, result) ==
    LET found == IF kind = "file" /\ result = "stored" THEN 1 ELSE 0
        fetched == (job[j].fetched + found) % RefreshEvery IN
    job' = [job EXCEPT ![j] = [@ EXCEPT !.next = NextRow(j, result), !.fetched = fetched,
                                        !.missed = job[j].missed \/ (CurrentRow(j).named /\ found = 0),
                                        !.pc = AfterRow(fetched)]]

\* The numbers of an enrichment run decide nothing.
Visited(j, result) ==
    LET found == IF kind = "file" /\ result = "stored" THEN 1 ELSE 0
        fetched == (job[j].fetched + found) % RefreshEvery IN
    job' = [job EXCEPT ![j] = [@ EXCEPT !.next = NextRow(j, result), !.fetched = fetched,
                                        !.missed = job[j].missed \/ (kind = "file" /\ found = 0),
                                        !.pc = AfterRow(fetched)]]

\* One row: the request, its fetch stored, the numbers of the run.
Visit(j) ==
    /\ job[j].pc = "rows"
    /\ job[j].next \in Rows(j)
    /\ HasRow(j)
    /\ \E result \in PdlAnswers : Hears(j, CurrentRow(j), result) /\ Visited(j, result)
    /\ UNCHANGED <<kind, live, stored, recrawled, run, retries, upkeep>>

\* The run's row is gone: the fetch cannot be stored.
VisitRefused(j) ==
    /\ job[j].pc = "rows"
    /\ job[j].next \in Rows(j)
    /\ ~HasRow(j)
    /\ Goes(j, "raised")
    /\ UNCHANGED <<kind, live, stored, recrawled, fetches, run, retries, upkeep>>

LastRow(j) ==
    /\ job[j].pc = "rows"
    /\ job[j].next \notin Rows(j)
    /\ job' = [job EXCEPT ![j] = [@ EXCEPT !.pc = "pages", !.next = 0, !.fetched = 0]]
    /\ UNCHANGED <<kind, live, stored, recrawled, fetches, run, retries, upkeep>>

-----------------------------------------------------------------------------
\* refresh_source_crawl_counters: two counts, the row, the update.
CountPages(j) ==
    /\ job[j].pc = "pages"
    /\ job' = [job EXCEPT ![j].pc = "known", ![j].count = [pages |-> Pages, known |-> 0]]
    /\ UNCHANGED <<kind, live, stored, recrawled, fetches, run, retries, upkeep>>

CountKnown(j) ==
    /\ job[j].pc = "known"
    /\ job' = [job EXCEPT ![j].pc = "load", ![j].count = [pages |-> @.pages, known |-> Known]]
    /\ UNCHANGED <<kind, live, stored, recrawled, fetches, run, retries, upkeep>>

\* next is 0 after the last row.
Refreshed(j) == IF job[j].next = 0 THEN "close" ELSE "rows"
Forgets(j, pc) == job' = [job EXCEPT ![j] = [@ EXCEPT !.pc = pc, !.count = Zero, !.dirty = {}]]

LoadRow(j) ==
    LET new == Counters(job[j].count)
        changed == Changed(stored, new) IN
    /\ job[j].pc = "load"
    /\ \/ /\ live /\ changed # {}
          /\ job' = [job EXCEPT ![j] = [@ EXCEPT !.pc = "commit", !.dirty = changed,
                                                 !.count = Only(changed, new)]]
       \/ (~live \/ changed = {}) /\ Forgets(j, Refreshed(j))
    /\ UNCHANGED <<kind, live, stored, recrawled, fetches, run, retries, upkeep>>

\* An update of a row that is gone raises.
CommitCounters(j) ==
    /\ job[j].pc = "commit"
    /\ \/ live /\ stored' = Written(job[j]) /\ Forgets(j, Refreshed(j))
       \/ ~live /\ Forgets(j, "raised") /\ UNCHANGED stored
    /\ UNCHANGED <<kind, live, recrawled, fetches, run, retries, upkeep>>

\* complete, partial or failed; enrichment is complete whatever it heard.
Complete(j) == ~job[j].missed

Close(j) ==
    /\ job[j].pc = "close"
    /\ run' = [run EXCEPT ![j] = IF HasRow(j) THEN "ended" ELSE @]
    /\ IF Complete(j) THEN Goes(j, "stamp") ELSE Ends(j)
    /\ UNCHANGED <<kind, live, stored, recrawled, fetches, retries, upkeep>>

\* mark_source_full_recrawl_complete.
Stamp(j) ==
    /\ job[j].pc = "stamp"
    /\ recrawled' = IF live THEN recrawled \cup {j} ELSE recrawled
    /\ Ends(j)
    /\ UNCHANGED <<kind, live, stored, fetches, run, retries, upkeep>>

\* The container dies; Cloud Run starts the task again from the first row.
Die(j) ==
    /\ job[j].pc \in AtWork
    /\ job' = [job EXCEPT ![j] = Fresh("dead")]
    /\ UNCHANGED <<kind, live, stored, recrawled, fetches, run, retries, upkeep>>

Retry(j) ==
    /\ job[j].pc = "dead"
    /\ retries > 0
    /\ retries' = retries - 1
    /\ Goes(j, "launched")
    /\ UNCHANGED <<kind, live, stored, recrawled, fetches, run, upkeep>>

\* The row says stopped; neither runner looks at it.
Stop(j) ==
    /\ Active(j)
    /\ run' = [run EXCEPT ![j] = "ended"]
    /\ UNCHANGED <<kind, live, stored, recrawled, fetches, job, retries, upkeep>>

-----------------------------------------------------------------------------
\* reconcile_source: the row is loaded first and stale runs are failed (their
\* rows stay locked until the commit), the counts come later, the update last.
ReconcileOpen ==
    /\ upkeep.pc = "idle"
    /\ live
    /\ \E stale \in SUBSET {j \in Jobs : run[j] = "running"} :
        run' = [j \in Jobs |-> IF j \in stale THEN "ended" ELSE run[j]]
    /\ upkeep' = [pc |-> "pages", count |-> stored, dirty |-> {}]
    /\ UNCHANGED <<kind, live, stored, recrawled, fetches, job, retries>>

ReconcilePages ==
    /\ upkeep.pc = "pages"
    /\ upkeep' = [pc |-> "known", count |-> [pages |-> Pages, known |-> upkeep.count.known],
                  dirty |-> Changed(upkeep.count, [pages |-> Pages, known |-> upkeep.count.known])]
    /\ UNCHANGED <<kind, live, stored, recrawled, fetches, run, job, retries>>

\* Variant: only the known URLs are compared.
CorrectsKnown(u) == u.count.known # Known
\* The counts are compared with the row before the maximum is taken.
Corrects(u) == "pages" \in u.dirty \/ u.count.known # Known

ReconcileKnown ==
    LET new == Counters([pages |-> upkeep.count.pages, known |-> Known])
        changed == IF ~Corrects(upkeep) THEN {}
                   ELSE upkeep.dirty \cup (Changed(upkeep.count, new) \cap {"known"}) IN
    /\ upkeep.pc = "known"
    /\ upkeep' = IF changed = {} THEN Resting
                 ELSE [pc |-> "commit", count |-> Only(changed, new), dirty |-> changed]
    /\ UNCHANGED <<kind, live, stored, recrawled, fetches, run, job, retries>>

ReconcileCommit ==
    /\ upkeep.pc = "commit"
    /\ stored' = IF live THEN Written(upkeep) ELSE stored
    /\ upkeep' = Resting
    /\ UNCHANGED <<kind, live, recrawled, fetches, run, job, retries>>

Reconcile == ReconcileOpen \/ ReconcilePages \/ ReconcileKnown \/ ReconcileCommit

\* delete_source, with all that the source's runs left.
Delete ==
    /\ live
    /\ \A j \in Jobs : ~Active(j)
    /\ live' = FALSE
    /\ stored' = Zero
    /\ recrawled' = {}
    /\ fetches' = {}
    /\ run' = [j \in Jobs |-> IF run[j] = "none" THEN "none" ELSE "gone"]
    /\ UNCHANGED <<kind, job, retries, upkeep>>

-----------------------------------------------------------------------------
Init ==
    /\ kind \in {"file", "enrichment"}
    /\ live = TRUE
    /\ stored = Zero
    /\ recrawled = {}
    /\ fetches = {}
    /\ \E b \in Budgets : /\ run = [j \in Jobs |-> IF j \in b.jobs THEN "none" ELSE "gone"]
                          /\ retries = b.retries
    /\ job = [j \in Jobs |-> Fresh("none")]
    /\ upkeep = Resting

Refreshes(j) == CountPages(j) \/ CountKnown(j) \/ LoadRow(j) \/ CommitCounters(j)
Works(j) == \/ Start(j) \/ Visit(j) \/ VisitRefused(j) \/ LastRow(j)
            \/ Refreshes(j) \/ Close(j) \/ Stamp(j) \/ Raise(j)

Next ==
    \/ \E j \in Jobs : Create(j) \/ Works(j) \/ Die(j) \/ Retry(j) \/ Stop(j)
    \/ Reconcile
    \/ Delete

\* The scheduler starts maintenance every six hours. Nothing else is assumed to
\* go on: a run may hang or die with numbers it has read long ago.
Spec == Init /\ [][Next]_vars /\ WF_vars(Reconcile)

-----------------------------------------------------------------------------
Numbers == [pages : Nat, known : Nat]
Results == SeedAnswers \cup PdlAnswers

TypeOK ==
    /\ kind \in {"file", "enrichment"}
    /\ live \in BOOLEAN
    /\ stored \in Numbers
    /\ recrawled \subseteq Jobs
    /\ fetches \subseteq [run : Jobs, url : Urls, result : Results]
    /\ run \in [Jobs -> {"none", "queued", "running", "ended", "gone"}]
    /\ job \in [Jobs -> [pc : AtWork \cup {"none", "launched", "dead", "done"},
                        next : Nat, fetched : Nat, missed : BOOLEAN,
                        count : Numbers, dirty : SUBSET Columns]]
    /\ \A j \in Jobs : job[j].dirty # {} => job[j].pc = "commit"
    /\ retries \in Nat
    /\ upkeep \in [pc : {"idle", "pages", "known", "commit"}, count : Numbers, dirty : SUBSET Columns]

\* The stored counters never promise more than the fetches there are, whoever
\* wrote them last and however long ago it had counted
\* (store.py refresh_source_crawl_counters, reconcile.py).
NeverOverstated == live => stored.pages <= Pages /\ stored.known <= Known

\* A source is marked fully recrawled by a run only if each row the run had to
\* look at has its page (a seed file) or an answer (enrichment), stored by that
\* run, after any number of deaths and retries - or the credits ran out and a
\* fetch of the run says so (seed.py, enrichment.py, mark_source_full_recrawl_complete).
RecrawlEarned ==
    \A j \in recrawled :
        \/ \A i \in Rows(j) :
              \E f \in fetches : /\ f.run = j /\ f.url = RowsOf[j][i].url
                               /\ kind = "file" => f.result = "stored"
        \/ \E f \in fetches : f.run = j /\ f.result = "spent"

\* When no run changes anything any more, maintenance brings the counters back
\* to what the fetches say, whatever refreshes had overwritten each other
\* (reconcile.py; docs/reliability-design.md: maintenance self-heals drifted
\* source counters).
CountersSettle == <>[](live => ~Drift)
=============================================================================
