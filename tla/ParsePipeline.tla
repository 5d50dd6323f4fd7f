--------------------------- MODULE ParsePipeline ---------------------------
(***************************************************************************)
(* From fetches to claims: crawls append fetch rows, storing a body only   *)
(* where it differs from the page's previous one, and parse runs turn      *)
(* those bodies into documents and the documents into raw claims.          *)
(*                                                                         *)
(* A parse run is a process of its own (one Cloud Run execution), so any   *)
(* two of them interleave between database transactions; each action of a  *)
(* job below is one transaction, or an awaited call to the embedding or    *)
(* extraction model together with the transaction that stores its answer.  *)
(* Runs of different sources meet in the documents: a document belongs to  *)
(* a content hash, not to a source.                                        *)
(***************************************************************************)
EXTENDS Integers, Sequences, FiniteSets, FiniteSetsExt

CONSTANTS
  Runs,          \* the parse runs
  Urls,          \* the pages crawled
  Sources,
  SourceOf,      \* the source each page belongs to
  Contents,      \* the distinct bodies, up to content_hash
  Barren,        \* the contents from which no claim is extracted
  Scopes,        \* the values of ParseRequest.scope that are requested
  MaxLog,        \* bound: fetch rows
  MaxInFlight,   \* bound: pages read whose row is not yet written
  MaxDeletes,    \* bound: deletions of the document of one content
  MaxKills,      \* bound: executions killed
  MaxTries,      \* bound: retries of one run's execution
  Late,          \* bound: runs whose request may record the execution late
  None           \* a column or a variable without a value

ASSUME PageAssumption == SourceOf \in [Urls -> Sources] /\ Barren \subseteq Contents
ASSUME BoundAssumption ==
  /\ {MaxLog, MaxInFlight, MaxDeletes, MaxKills, MaxTries} \subseteq Nat
  /\ Scopes \subseteq {"unparsed", "all"}
ASSUME NoneAssumption ==
  /\ None \notin {"active", "stopped", "superseded", "failed", "complete", "running"}
  /\ None \notin Contents \X Nat

VARIABLES
  log,        \* the fetches with a 2xx status, oldest first
  reading,    \* hash-diff lookups done whose row is not yet written
  docs,       \* the documents
  links,      \* the rows of document_fetches: <<document, fetch>>
  deletions,  \* how often the document of a content was deleted
  batches,    \* extractions of a document that were committed
  row,        \* the source_runs rows of the parse runs
  job,        \* the process that executes each run
  kills,
  abandoned   \* history: documents in the hands of a job that did not get to the end

store == <<log, reading, docs, links, deletions, batches>>
vars == <<store, row, job, kills, abandoned>>

\* A document that is deleted and parsed again is a new row: its identity is
\* its content and how often that content's document was deleted before.
Documents == Contents \X (0..MaxDeletes)
Fetches == DOMAIN log

Fetch == [url : Urls, content : Contents, since : Nat]
Pages == {"launch", "freeze", "load", "create", "link", "tick"}
Steps == Pages \cup {"pick", "ask", "asked", "finish", "complete", "close", "fail"}
Job == [pc : {"idle", "dead", "closed", "done"} \cup Steps, frozen : SUBSET (1..MaxLog),
        todo : SUBSET (1..MaxLog), doc : Documents \cup {None}, got : SUBSET Documents,
        queue : SUBSET Documents, extractor : {None, "running", "complete", "failed"},
        snapshot : {None} \cup (0..MaxLog), tries : 0..MaxTries]
Row == [status : {None, "active", "stopped", "superseded", "failed", "complete"},
        source : Sources \cup {None}, scope : {None} \cup Scopes,
        snapshot : {None} \cup (0..MaxLog),
        first : {None} \cup (0..MaxLog),  \* history: the snapshot of the first try
        erased : BOOLEAN]                 \* history: RecordExecution took it away

Fresh(tries) ==
  [pc |-> "launch", frozen |-> {}, todo |-> {}, doc |-> None, got |-> {}, queue |-> {},
   extractor |-> None, snapshot |-> None, tries |-> tries]

Init ==
  /\ log = <<>> /\ reading = {} /\ docs = {} /\ links = {}
  /\ deletions = [c \in Contents |-> 0]
  /\ batches = [d \in Documents |-> 0]
  /\ row = [p \in Runs |-> [status |-> None, source |-> None, scope |-> None, snapshot |-> None,
                            first |-> None, erased |-> FALSE]]
  /\ job = [p \in Runs |-> [Fresh(0) EXCEPT !.pc = "idle"]]
  /\ kills = 0 /\ abandoned = {}

-----------------------------------------------------------------------------
\* The crawl side: a page is read, compared with its latest fetch, and stored.

PageOf(f) == log[f].url
Content(f) == log[f].content
HasBody(f) == log[f].since = 0

\* store.latest_successful_fetch_for_url: every row of the log is a success.
Latest(u) == LET fs == {f \in Fetches : PageOf(f) = u} IN IF fs = {} THEN 0 ELSE Max(fs)

\* Variant of HashDiff: a page seen before counts as unchanged.
HashDiffSeen(u, c) == [url |-> u, content |-> c, since |-> Latest(u)]

\* The row a page gets: body_unchanged_since its latest fetch when the hashes
\* agree (and then no body), a body otherwise.
HashDiff(u, c) ==
  LET prior == Latest(u)
  IN  [url |-> u, content |-> c,
       since |-> IF prior # 0 /\ log[prior].content = c THEN prior ELSE 0]

\* The lookup of the prior fetch; two overlapping crawls of a source (one
\* stopped, one resumed) may both be between it and their insert.
ReadPage(u, c) ==
  /\ Len(log) + Cardinality(reading) < MaxLog /\ Cardinality(reading) < MaxInFlight
  /\ reading' = reading \cup {HashDiff(u, c)}
  /\ UNCHANGED <<log, docs, links, deletions, batches, row, job, kills, abandoned>>

\* add_fetch.
StorePage(r) ==
  /\ reading' = reading \ {r}
  /\ log' = Append(log, r)
  /\ UNCHANGED <<docs, links, deletions, batches, row, job, kills, abandoned>>

-----------------------------------------------------------------------------
\* Queries of the parse side.

Linked(f) == \E d \in docs : <<d, f>> \in links
OfSource(f, s) == SourceOf[PageOf(f)] = s

\* stats_queries._pending_fetch_query; parse_skip_reason is never written.
Pending(s) == {f \in Fetches : OfSource(f, s) /\ HasBody(f) /\ ~Linked(f)}

\* Variant of Scope: the query without its snapshot.
ScopeUnfrozen(p) ==
  {f \in Fetches : /\ OfSource(f, row[p].source) /\ HasBody(f)
                   /\ row[p].scope = "unparsed" => f \in Pending(row[p].source)}

\* _parse_fetch_ids: the frozen scope of a run.
Scope(p) ==
  {f \in Fetches : /\ f <= job[p].snapshot /\ OfSource(f, row[p].source) /\ HasBody(f)
                   /\ row[p].scope = "unparsed" => f \in Pending(row[p].source)}

\* get_document_by_hash. Variant: whatever document comes first.
AnyDocument(c) == docs

DocumentsOf(c) == {d \in docs : d[1] = c}
HasClaims(d) == batches[d] > 0 /\ d[1] \notin Barren

Active(p) == row[p].status = "active"
SlotTaken(p, s) == \E q \in Runs \ {p} : Active(q) /\ row[q].source = s

-----------------------------------------------------------------------------
\* The API: a parse run is requested, paused, or swept by maintenance.

\* POST /admin/sources/{id}/parse: one active parse per source; the stopped
\* parses of the source are superseded.
Request(p, s, scope) ==
  /\ row[p].status = None
  /\ \A q \in Runs : ~(Active(q) /\ row[q].source = s)
  /\ row' = [q \in Runs |->
       CASE q = p -> [status |-> "active", source |-> s, scope |-> scope, snapshot |-> None,
                      first |-> None, erased |-> FALSE]
         [] row[q].source = s /\ row[q].status = "stopped" -> [row[q] EXCEPT !.status = "superseded"]
         [] OTHER -> row[q]]
  /\ job' = [job EXCEPT ![p].pc = "launch"]
  /\ UNCHANGED <<store, kills, abandoned>>

\* patch_source_run_spec by the request, once the execution is started: it reads
\* the spec and writes it back with the execution's name, without the snapshot
\* if the job took it in between. Any other order leaves the snapshot alone.
RecordExecution(p) ==
  /\ p \in Late /\ ~row[p].erased /\ row[p].snapshot # None
  /\ row' = [row EXCEPT ![p].snapshot = None, ![p].erased = TRUE]
  /\ UNCHANGED <<store, job, kills, abandoned>>

Pause(p) ==
  /\ Active(p)
  /\ row' = [row EXCEPT ![p].status = "stopped"]
  /\ UNCHANGED <<store, job, kills, abandoned>>

\* reconcile_source: a run without progress for 30 minutes, because its
\* execution is gone or because it waits for a model's answer. Only a run
\* that got as far as a snapshot is running; a queued one is not looked at.
Sweep(p) ==
  /\ Active(p) /\ row[p].first # None /\ job[p].pc \in {"dead", "create", "ask"}
  /\ row' = [row EXCEPT ![p].status = "failed"]
  /\ UNCHANGED <<store, job, kills, abandoned>>

\* store.delete_document: links and raw claims go with the document.
DeleteDocument(d) ==
  /\ d \in docs /\ deletions[d[1]] < MaxDeletes
  /\ docs' = docs \ {d}
  /\ links' = {l \in links : l[1] # d}
  /\ deletions' = [deletions EXCEPT ![d[1]] = @ + 1]
  /\ UNCHANGED <<log, reading, batches, row, job, kills, abandoned>>

-----------------------------------------------------------------------------
\* A job. Hands(p) are the documents it has normalized but not extracted.

Goto(p, pc) == job' = [job EXCEPT ![p].pc = pc]
Hands(p) == job[p].got \cup ({job[p].doc} \cap Documents)
Abandon(p) == abandoned' = abandoned \cup Hands(p)

\* run_from_env: the row is set running whatever it was, which the unique
\* index refuses while another parse of the source is active; the snapshot is
\* taken once and kept by a retry that finds it in the spec.
Launch(p) ==
  /\ job[p].pc = "launch"
  /\ IF SlotTaken(p, row[p].source)
     THEN Goto(p, "dead") /\ UNCHANGED row
     ELSE LET taken == IF row[p].snapshot = None THEN Len(log) ELSE row[p].snapshot
          IN  /\ row' = [row EXCEPT ![p].status = "active", ![p].snapshot = taken,
                                    ![p].first = IF @ = None THEN taken ELSE @]
              /\ job' = [job EXCEPT ![p].pc = "freeze", ![p].snapshot = taken]
  /\ UNCHANGED <<store, kills, abandoned>>

\* The start of run_full_parse: the pending scope is frozen.
Freeze(p) ==
  /\ job[p].pc = "freeze"
  /\ LET scope == Scope(p)
         next == IF ~Active(p) THEN "close" ELSE IF scope = {} THEN "pick" ELSE "load"
     IN  job' = [job EXCEPT ![p].pc = next, ![p].frozen = scope, ![p].todo = scope,
                            ![p].snapshot = None]
  /\ UNCHANGED <<store, row, kills, abandoned>>

Current(p) == Min(job[p].todo)

\* Variant of Load: a document that exists is taken without being linked.
LoadUnlinked(p) ==
  /\ job[p].pc = "load"
  /\ LET found == DocumentsOf(Content(Current(p)))
     IN  IF found = {} THEN Goto(p, "create")
         ELSE job' = [job EXCEPT ![p].pc = "tick", ![p].got = @ \cup found]
  /\ UNCHANGED <<store, row, kills, abandoned>>

\* normalize_fetch up to get_document_by_hash.
Load(p) ==
  /\ job[p].pc = "load"
  /\ LET found == DocumentsOf(Content(Current(p)))
     IN  IF found = {} THEN Goto(p, "create")
         ELSE job' = [job EXCEPT ![p].pc = "link", ![p].doc = CHOOSE d \in found : TRUE]
  /\ UNCHANGED <<store, row, kills, abandoned>>

\* embed_text answers, then create_document: the unique content_hash makes
\* the loser of a race adopt the winner's document, still to be linked.
Create(p) ==
  /\ job[p].pc = "create"
  /\ LET f == Current(p)
         c == Content(f)
         found == DocumentsOf(c)
         new == <<c, deletions[c]>>
     IN  IF found = {}
         THEN /\ docs' = docs \cup {new} /\ links' = links \cup {<<new, f>>}
              /\ job' = [job EXCEPT ![p].pc = "link", ![p].doc = new]
         ELSE /\ job' = [job EXCEPT ![p].pc = "link", ![p].doc = CHOOSE d \in found : TRUE]
              /\ UNCHANGED <<docs, links>>
  /\ UNCHANGED <<log, reading, deletions, batches, row, kills, abandoned>>

\* Variant of Link: nothing checks that the document is still there.
LinkUnchecked(p) ==
  /\ job[p].pc = "link"
  /\ links' = links \cup {<<job[p].doc, Current(p)>>}
  /\ job' = [job EXCEPT ![p].pc = "tick", ![p].doc = None, ![p].got = @ \cup {job[p].doc}]
  /\ UNCHANGED <<log, reading, docs, deletions, batches, row, kills, abandoned>>

\* link_document_fetch swallows the IntegrityError of a document deleted since
\* it was looked up; either way its id is handed to the extraction.
Link(p) ==
  /\ job[p].pc = "link"
  /\ links' = links \cup ({<<job[p].doc, Current(p)>>} \cap (docs \X Fetches))
  /\ job' = [job EXCEPT ![p].pc = "tick", ![p].doc = None, ![p].got = @ \cup {job[p].doc}]
  /\ UNCHANGED <<log, reading, docs, deletions, batches, row, kills, abandoned>>

\* Variant of Tick: a fetch is not done until its document has claims.
TickUntilClaims(p) ==
  /\ job[p].pc = "tick"
  /\ LET rest == {f \in job[p].todo : \A d \in DocumentsOf(Content(f)) : ~HasClaims(d)}
         next == IF ~Active(p) THEN "close" ELSE IF rest = {} THEN "pick" ELSE "load"
     IN  job' = [job EXCEPT ![p].pc = next, ![p].todo = rest]
  /\ UNCHANGED <<store, row, kills, abandoned>>

\* _item_progress after a fetch: a run that is no longer active raises _RunStopped.
Tick(p) ==
  /\ job[p].pc = "tick"
  /\ LET rest == job[p].todo \ {Current(p)}
         next == IF ~Active(p) THEN "close" ELSE IF rest = {} THEN "pick" ELSE "load"
     IN  job' = [job EXCEPT ![p].pc = next, ![p].todo = rest]
  /\ UNCHANGED <<store, row, kills, abandoned>>

\* Variants of ToExtract: the query stops at one document; it looks for no claims.
ToExtractOne(p) ==
  LET some == {d \in job[p].got \cap docs : ~HasClaims(d)}
  IN  IF some = {} THEN {} ELSE {CHOOSE d \in some : TRUE}
ToExtractAll(p) == job[p].got \cap docs

\* The query of extract_pending: of the documents just normalized, those
\* without a raw claim.
ToExtract(p) == {d \in job[p].got \cap docs : ~HasClaims(d)}

Pick(p) ==
  /\ job[p].pc = "pick"
  /\ LET queue == ToExtract(p)
     IN  IF ~Active(p) THEN Goto(p, "close")
         ELSE IF queue = {} THEN Goto(p, "finish")
         ELSE job' = [job EXCEPT ![p].pc = "ask", ![p].queue = queue, ![p].extractor = "running"]
  /\ UNCHANGED <<store, row, kills, abandoned>>

\* extract_claims answers for a document, and the claims are committed: the
\* document's foreign key fails, if there are any, when it was deleted meanwhile.
Extract(p, d) ==
  /\ job[p].pc = "ask" /\ d \in job[p].queue
  /\ IF d \in docs \/ d[1] \in Barren
     THEN /\ batches' = [batches EXCEPT ![d] = @ + 1]
          /\ job' = [job EXCEPT ![p].pc = "asked", ![p].queue = @ \ {d}]
     ELSE Goto(p, "fail") /\ UNCHANGED batches
  /\ UNCHANGED <<log, reading, docs, links, deletions, row, kills, abandoned>>

\* Variant of Extracted: _RunStopped passes by the extractor run.
ExtractedUnsettled(p) ==
  /\ job[p].pc = "asked"
  /\ LET ended == job[p].queue = {}
     IN  job' = [job EXCEPT
           ![p].pc = IF ~Active(p) THEN "close" ELSE IF ended THEN "finish" ELSE "ask",
           ![p].extractor = IF Active(p) /\ ended THEN "complete" ELSE @]
  /\ UNCHANGED <<store, row, kills, abandoned>>

\* _item_progress after a document; _RunStopped fails the extractor run.
Extracted(p) ==
  /\ job[p].pc = "asked"
  /\ LET ended == job[p].queue = {}
     IN  job' = [job EXCEPT
           ![p].pc = IF ~Active(p) THEN "close" ELSE IF ended THEN "finish" ELSE "ask",
           ![p].extractor = IF ~Active(p) THEN "failed" ELSE IF ended THEN "complete" ELSE @]
  /\ UNCHANGED <<store, row, kills, abandoned>>

\* The embedding or extraction model fails while its answer is awaited.
ModelFails(p) ==
  /\ job[p].pc \in {"create", "ask"}
  /\ Goto(p, "fail")
  /\ UNCHANGED <<store, row, kills, abandoned>>

\* The last _ensure_run_active of run_full_parse, and the write after it.
Finish(p) ==
  /\ job[p].pc = "finish"
  /\ Goto(p, IF Active(p) THEN "complete" ELSE "close")
  /\ UNCHANGED <<store, row, kills, abandoned>>

Complete(p) ==
  /\ job[p].pc = "complete"
  /\ row' = [row EXCEPT ![p].status = "complete"]
  /\ Goto(p, "done")
  /\ UNCHANGED <<store, kills, abandoned>>

\* run_from_env after a _RunStopped: every status but stopped becomes complete.
Close(p) ==
  /\ job[p].pc = "close"
  /\ row' = [row EXCEPT ![p].status = IF @ = "stopped" THEN @ ELSE "complete"]
  /\ Goto(p, "closed")
  /\ Abandon(p)
  /\ UNCHANGED <<store, kills>>

\* An exception: extract_pending fails its row, run_from_env the run, unless
\* it was stopped; the execution then ends with an error and may be retried.
Fail(p) ==
  /\ job[p].pc = "fail"
  /\ row' = [row EXCEPT ![p].status = IF @ = "stopped" THEN @ ELSE "failed"]
  /\ job' = [job EXCEPT ![p].pc = IF row[p].status = "stopped" THEN "closed" ELSE "dead",
                        ![p].extractor = IF @ = "running" THEN "failed" ELSE @]
  /\ Abandon(p)
  /\ UNCHANGED <<store, kills>>

\* The execution is killed, by a cancelled run or by the platform.
Kill(p) ==
  /\ job[p].pc \in Steps /\ kills < MaxKills
  /\ kills' = kills + 1
  /\ Goto(p, "dead")
  /\ Abandon(p)
  /\ UNCHANGED <<store, row>>

\* Cloud Run retries the task of a failed execution: nothing but the
\* database survives from the first try.
Retry(p) ==
  /\ job[p].pc = "dead" /\ job[p].tries < MaxTries
  /\ job' = [job EXCEPT ![p] = Fresh(@.tries + 1)]
  /\ UNCHANGED <<store, row, kills, abandoned>>

-----------------------------------------------------------------------------
Step(p) ==
  \/ Launch(p) \/ Freeze(p) \/ Load(p) \/ Create(p) \/ Link(p) \/ Tick(p) \/ Pick(p)
  \/ (\E d \in Documents : Extract(p, d))
  \/ Extracted(p) \/ ModelFails(p) \/ Finish(p) \/ Complete(p) \/ Close(p) \/ Fail(p)

Next ==
  \/ \E u \in Urls, c \in Contents : ReadPage(u, c)
  \/ \E r \in reading : StorePage(r)
  \/ \E d \in docs : DeleteDocument(d)
  \/ \E p \in Runs :
       \/ (\E s \in Sources, scope \in Scopes : Request(p, s, scope))
       \/ RecordExecution(p) \/ Pause(p) \/ Sweep(p) \/ Step(p) \/ Kill(p) \/ Retry(p)

Spec == Init /\ [][Next]_vars

\* A job that is not killed goes on: the model calls answer or raise.
FairSpec == Spec /\ \A p \in Runs : WF_vars(Step(p))

-----------------------------------------------------------------------------
\* Types of the state.
TypeOK ==
  /\ log \in Seq(Fetch) /\ Len(log) <= MaxLog /\ reading \subseteq Fetch
  /\ docs \subseteq Documents /\ links \subseteq docs \X Fetches
  /\ deletions \in [Contents -> 0..MaxDeletes] /\ batches \in [Documents -> Nat]
  /\ row \in [Runs -> Row] /\ job \in [Runs -> Job] /\ kills \in 0..MaxKills
  /\ abandoned \subseteq Documents

\* A fetch has at most one document, and it is the one of its own content,
\* however many runs meet the same content at the same time.
OneDocumentPerFetch ==
  /\ \A d, e \in docs : d[1] = e[1] => d = e
  /\ \A l \in links : l[1][1] = Content(l[2])
  /\ \A l, m \in links : l[2] = m[2] => l = m

\* Hash-diff loses nothing: the body of a fetch that stores none is found by
\* following body_unchanged_since, at the same page with the same content.
BodyOf[f \in Fetches] == IF HasBody(f) THEN f ELSE BodyOf[log[f].since]
UnchangedBodiesResolve ==
  \A f \in Fetches : LET b == BodyOf[f] IN PageOf(b) = PageOf(f) /\ Content(b) = Content(f)

\* Fetches that a crawl adds after a run's snapshot wait for the next parse:
\* a run links only fetches of its source, in its frozen scope and no later
\* than the snapshot its first try took. A retry keeps to that snapshot unless
\* the request recorded the execution over it.
SnapshotKept(p) == job[p].tries = 0 \/ ~row[p].erased
MayLink(l) == \E p \in Runs :
  /\ l[2] \in job[p].frozen /\ OfSource(l[2], row[p].source)
  /\ SnapshotKept(p) => l[2] <= row[p].first
LinksWithinSnapshot == [][\A l \in links' \ links : MayLink(l)]_vars

\* A run that gets past normalization has left no fetch of its scope without
\* a document, unless an admin deleted the document of that content.
ScopeNormalized ==
  \A p \in Runs : job[p].pc \in {"pick", "ask", "asked", "finish", "complete"} =>
    \A f \in job[p].frozen : Linked(f) \/ deletions[Content(f)] > 0

\* A document that was never extracted is still in the hands of a running
\* job, or was in the hands of one that was stopped, failed or was killed: a
\* run that ends by itself extracts all it normalized, or finds it extracted.
UnextractedIsExplained ==
  \A d \in docs : batches[d] = 0 =>
    d \in abandoned \/ \E p \in Runs : job[p].pc \in Steps /\ d \in Hands(p)

\* A run pays once for a document that has claims, however often its
\* execution is retried; only two runs that chose it before either stored its
\* claims both pay (and both store them).
PaidOncePerRun ==
  \A d \in docs : d[1] \notin Barren =>
    batches[d] <= Cardinality({p \in Runs : row[p].status # None})

\* Stopping or failing a run never leaves its extractor_runs row running:
\* only a killed execution does.
ExtractorRunSettles ==
  \A p \in Runs : job[p].extractor = "running" => job[p].pc \in {"ask", "asked", "fail", "dead"}

\* A job that is started comes to its end, however it ends.
ParseEnds == \A p \in Runs : job[p].pc = "launch" ~> job[p].pc \in {"done", "closed", "dead"}

-----------------------------------------------------------------------------
\* What the documents say and the code does not keep.

\* docs/parse-trigger-policy.md: a click on Parse drains the pending work. So
\* once a parse went through to its last step, nothing of its source is
\* pending and no job runs, every document of the source was extracted.
DrainedIsExtracted ==
  \A p \in Runs :
    /\ job[p].pc = "done" /\ Pending(row[p].source) = {}
    /\ \A q \in Runs : job[q].pc \notin Steps
    => \A l \in links : OfSource(l[2], row[p].source) => batches[l[1]] > 0
=============================================================================
