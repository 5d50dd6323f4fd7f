-------------------------- MODULE SchemaMigrations --------------------------
(***************************************************************************)
(* The Alembic revisions 0001 to 0027, upgrade and downgrade, over the     *)
(* rows they can refuse, rewrite or lose: columns come and go with their   *)
(* defaults, check constraints widen and narrow, sources are renamed and   *)
(* merged, deletes cascade. A command runs in one transaction, so each     *)
(* step is taken whole or refused with the rows as they were. Left out are *)
(* tables and columns no revision reads, fills or checks (texts, logs,     *)
(* temporal columns, evidence weights, times of full recrawls), the        *)
(* counters 0015 fills and the document_id 0026 recomputes. An identifier  *)
(* is its host and the rest; no domain source has an empty host.           *)
(***************************************************************************)
EXTENDS Naturals, Sequences, FiniteSets, Functions

CONSTANTS Words,       \* what text columns and lines of notes hold
          HeadRows,    \* tables of databases the program of revision 0027 used
          LegacyRows   \* tables of databases of revision 0001

VARIABLES db,   \* revision, check constraints, index of active runs, tables
          was,  \* the database at first
          low   \* the lowest revision since

schemaVars == <<db, was, low>>

Latest == 27
Active == {"queued", "running"}

-----------------------------------------------------------------------------
\* The tables. A column that a revision does not have yet is absent; the page of a
\* source is what its identifier says besides the host, "site" for nothing. "none"
\* is NULL, and 0 for the mention of a candidate.
Absent == "absent"
SourceRow == [kind : Words, host : Words, page : Words, notes : Seq(Words), status : Words,
              robots : Words, recrawl : Words, depth : Words]
RunRow == [source : Nat, kind : Words, status : Words, beat : Words]
FetchRow == [run : Nat, since : Words]
DocumentRow == [vector : Words]
ClaimRow == [chunk : BOOLEAN, subject : Words]
EvidenceRow == [claim : Nat, source : Nat]
MentionRow == [claim : Nat, method : Words]
CandidateRow == [mention : Nat, decision : Words, context : Words]
EntityRow == [status : Words, curation : Words, heir : Words]

IsTable(rows, Row) == DOMAIN rows \subseteq Nat \ {0} /\ rows \in [DOMAIN rows -> Row]
\* The tables and nothing else.
Tabled(rows) ==
    [sources |-> rows.sources, runs |-> rows.runs, fetches |-> rows.fetches,
     documents |-> rows.documents, claims |-> rows.claims, evidence |-> rows.evidence,
     mentions |-> rows.mentions, candidates |-> rows.candidates, entities |-> rows.entities]
IsDatabase(rows) ==
    /\ rows = Tabled(rows)
    /\ IsTable(rows.sources, SourceRow)
    /\ IsTable(rows.runs, RunRow) /\ IsFiniteSet(DOMAIN rows.runs)
    /\ IsTable(rows.fetches, FetchRow) /\ IsTable(rows.documents, DocumentRow)
    /\ IsTable(rows.claims, ClaimRow) /\ IsTable(rows.evidence, EvidenceRow)
    /\ IsTable(rows.mentions, MentionRow) /\ IsTable(rows.candidates, CandidateRow)
    /\ IsTable(rows.entities, EntityRow)

\* The words the revisions themselves write.
Written == {"site", "absent", "none", "active", "archived", "paused", "respected", "unbounded",
            "weekly", "running", "stopped", "cancelled", "parse", "pipeline", "started", "person"}

ASSUME WordTypes == Written \subseteq Words
ASSUME HeadTypes == \A rows \in HeadRows : IsDatabase(rows)
ASSUME LegacyTypes == \A rows \in LegacyRows : IsDatabase(rows) /\ DOMAIN rows.candidates = {}

-----------------------------------------------------------------------------
\* What the columns with a check may hold, by the revision that says so.

Kinds1 == {"domain", "file", "api", "human"}
Kinds9 == {"domain", "file"}
Kinds25 == {"domain", "file", "enrichment"}
RunKinds1 == {"sitemap", "seed", "adhoc", "api", "manual_upload"}
RunKinds8 == RunKinds1 \cup {"parse"}
RunKinds9 == {"sitemap", "seed", "parse"}
Pipelines == {"sitemap", "seed", "pipeline"}
RunKinds25 == RunKinds9 \cup {"enrichment"}
Statuses1 == {"running", "complete", "failed", "partial", "cancelled"}
Statuses4 == Statuses1 \cup {"queued"}
Statuses16 == Statuses4 \cup {"paused"}
Statuses17 == {"queued", "running", "stopped", "superseded", "complete", "failed", "partial"}
States10 == {"active", "paused", "archived"}
States14 == {"active", "archived"}
Methods1 == {"exact_match", "alias", "embedding", "llm", "human"}
Methods2 == Methods1 \cup {"new_entity"}
Methods22 == Methods2 \cup {"strict_qualifier"}
Decisions20 == {"none", "confirm", "merge", "split"}
Decisions22 == Decisions20 \cup {"defer"}
Entities22 == {"active", "archived", "merged"}

\* The checks of 0001, those each revision creates, and those its downgrade
\* restores. The check of claims.confidence, which only its presence tells, comes
\* with the column in 0018 and goes with it in 0023, whose downgrade brings back
\* the column alone.
FirstChecks ==
    [sourceKind |-> Kinds1, sourceStatus |-> {Absent}, runKind |-> RunKinds1, runStatus |-> Statuses1,
     method |-> Methods1, decision |-> {}, entity |-> {Absent}, chunk |-> {TRUE},
     confidence |-> FALSE]

NewChecks(r, checks) ==
    CASE r = 2 -> [checks EXCEPT !.method = Methods2]
      [] r = 4 -> [checks EXCEPT !.runStatus = Statuses4]
      [] r = 8 -> [checks EXCEPT !.runKind = RunKinds8]
      [] r = 9 -> [checks EXCEPT !.sourceKind = Kinds9, !.runKind = RunKinds9]
      [] r = 10 -> [checks EXCEPT !.sourceStatus = States10]
      [] r = 12 -> [checks EXCEPT !.runKind = RunKinds9]
      [] r = 14 -> [checks EXCEPT !.sourceStatus = States14]
      [] r = 16 -> [checks EXCEPT !.runStatus = Statuses16]
      [] r = 17 -> [checks EXCEPT !.runStatus = Statuses17]
      [] r = 18 -> [checks EXCEPT !.confidence = TRUE]
      [] r = 20 -> [checks EXCEPT !.decision = Decisions20]
      [] r = 22 -> [checks EXCEPT !.decision = Decisions22, !.method = Methods22,
                                  !.entity = Entities22]
      [] r = 23 -> [checks EXCEPT !.confidence = FALSE]
      [] r = 25 -> [checks EXCEPT !.sourceKind = Kinds25, !.runKind = RunKinds25]
      [] r = 26 -> [checks EXCEPT !.chunk = BOOLEAN]
      [] OTHER -> checks

OldChecks(r, checks) ==
    CASE r = 2 -> [checks EXCEPT !.method = Methods1]
      [] r = 4 -> [checks EXCEPT !.runStatus = Statuses1]
      [] r = 8 -> [checks EXCEPT !.runKind = RunKinds1]
      [] r = 9 -> [checks EXCEPT !.sourceKind = Kinds1, !.runKind = RunKinds8]
      [] r = 10 -> [checks EXCEPT !.sourceStatus = {Absent}]
      [] r = 12 -> [checks EXCEPT !.runKind = Pipelines]
      [] r = 14 -> [checks EXCEPT !.sourceStatus = States10]
      [] r = 16 -> [checks EXCEPT !.runStatus = Statuses4]
      [] r = 17 -> [checks EXCEPT !.runStatus = Statuses16]
      [] r = 18 -> [checks EXCEPT !.confidence = FALSE]
      [] r = 20 -> [checks EXCEPT !.decision = {}]
      [] r = 22 -> [checks EXCEPT !.decision = Decisions20, !.method = Methods2,
                                  !.entity = {Absent}]
      [] r = 25 -> [checks EXCEPT !.sourceKind = Kinds9, !.runKind = RunKinds9]
      [] r = 26 -> [checks EXCEPT !.chunk = {TRUE}]
      [] OTHER -> checks

\* What models.py declares for the program.
ModelChecks ==
    [sourceKind |-> {"domain", "file", "enrichment"}, sourceStatus |-> {"active", "archived"},
     runKind |-> {"sitemap", "seed", "parse", "enrichment"},
     runStatus |-> {"queued", "running", "stopped", "superseded", "complete", "failed", "partial"},
     method |-> {"exact_match", "alias", "embedding", "llm", "human", "new_entity",
                 "strict_qualifier"},
     decision |-> {"none", "confirm", "merge", "split", "defer"},
     entity |-> {"active", "archived", "merged"}, chunk |-> BOOLEAN, confidence |-> FALSE]

-----------------------------------------------------------------------------
\* The sources. 0007: a domain source is identified by its host; sources of one
\* host become the one with most runs, the oldest of these, and their runs
\* become its runs.
SameSite(s, t, rows) ==
    \/ s = t
    \/ /\ rows.sources[s].kind = "domain" /\ rows.sources[t].kind = "domain"
       /\ rows.sources[s].host = rows.sources[t].host
RunCount(s, rows) == Cardinality({r \in DOMAIN rows.runs : rows.runs[r].source = s})
Survives(t, s, rows) ==
    /\ SameSite(s, t, rows)
    /\ \A u \in DOMAIN rows.sources : SameSite(s, u, rows) =>
        \/ RunCount(u, rows) < RunCount(t, rows)
        \/ RunCount(u, rows) = RunCount(t, rows) /\ t <= u
Survivor(s, rows) == CHOOSE t \in DOMAIN rows.sources : Survives(t, s, rows)

Hosted(row) == IF row.kind = "domain" THEN [row EXCEPT !.page = "site"] ELSE row
MergedSources(rows) ==
    [s \in {Survivor(t, rows) : t \in DOMAIN rows.sources} |-> Hosted(rows.sources[s])]
MergedRuns(rows) ==
    [r \in DOMAIN rows.runs |->
        [rows.runs[r] EXCEPT !.source = Survivor(rows.runs[r].source, rows)]]

\* 0010: the status moves between the first line of the notes, where a line
\* 'status:archived' or 'status:paused' stands as "archived" or "paused", and a
\* column of its own.
HasTag(row) == row.notes # <<>> /\ row.notes[1] \in {"archived", "paused"}
Untagged(row) ==
    IF HasTag(row) THEN [row EXCEPT !.status = row.notes[1], !.notes = Tail(row.notes)]
    ELSE [row EXCEPT !.status = "active"]
Tagged(row) ==
    [row EXCEPT !.status = Absent,
                !.notes = IF row.status \in {"archived", "paused"} THEN <<row.status>> \o @ ELSE @]

\* 0014 has no paused sources any more.
\* Variant: their rows are left to the check.
Untouched(row) == row
Resumed(row) == IF row.status = "paused" THEN [row EXCEPT !.status = "active"] ELSE row

NewSource(r, row) ==
    CASE r = 6 -> [row EXCEPT !.robots = "respected"]
      [] r = 10 -> Untagged(row)
      [] r = 14 -> Resumed(row)
      [] r = 19 -> [row EXCEPT !.recrawl = "weekly"]
      [] r = 27 -> [row EXCEPT !.depth = "unbounded"]
      [] OTHER -> row
OldSource(r, row) ==
    CASE r = 6 -> [row EXCEPT !.robots = Absent]
      [] r = 10 -> Tagged(row)
      [] r = 19 -> [row EXCEPT !.recrawl = Absent]
      [] r = 27 -> [row EXCEPT !.depth = Absent]
      [] OTHER -> row

-----------------------------------------------------------------------------
\* The runs, and the graph.
Becomes(row, old, new) == IF row.status \in old THEN [row EXCEPT !.status = new] ELSE row
Rekinded(row, old, new) == IF row.kind = old THEN [row EXCEPT !.kind = new] ELSE row

\* Variant: 0019 forgets the runs there are.
NewRunUnfilled(r, row) ==
    CASE r = 12 -> Rekinded(row, "pipeline", "parse")
      [] r = 17 -> Becomes(row, {"paused", "cancelled"}, "stopped")
      [] OTHER -> row
NewRun(r, row) ==
    CASE r = 12 -> Rekinded(row, "pipeline", "parse")
      [] r = 17 -> Becomes(row, {"paused", "cancelled"}, "stopped")
      [] r = 19 -> [row EXCEPT !.beat = "started"]
      [] OTHER -> row
OldRun(r, row) ==
    CASE r = 4 -> Becomes(row, {"queued"}, "running")
      [] r = 12 -> Rekinded(row, "parse", "pipeline")
      [] r = 16 -> Becomes(row, {"paused"}, "cancelled")
      [] r = 17 -> Becomes(row, {"stopped", "superseded"}, "cancelled")
      [] r = 19 -> [row EXCEPT !.beat = Absent]
      [] OTHER -> row

NewFetch(r, row) == IF r = 19 THEN [row EXCEPT !.since = "none"] ELSE row
OldFetch(r, row) == IF r = 19 THEN [row EXCEPT !.since = Absent] ELSE row
NewDocument(r, row) == IF r = 26 THEN [row EXCEPT !.vector = "none"] ELSE row
OldDocument(r, row) == IF r = 26 THEN [row EXCEPT !.vector = Absent] ELSE row
NewClaim(r, row) == IF r = 24 THEN [row EXCEPT !.subject = "person"] ELSE row
OldClaim(r, row) == IF r = 24 THEN [row EXCEPT !.subject = Absent] ELSE row
NewCandidate(r, row) == IF r = 22 THEN [row EXCEPT !.context = "none"] ELSE row
OldCandidate(r, row) == IF r = 22 THEN [row EXCEPT !.context = Absent] ELSE row
NewEntity(r, row) ==
    CASE r = 21 -> [row EXCEPT !.heir = "none"]
      [] r = 22 -> [row EXCEPT !.status = "active", !.curation = "none"]
      [] OTHER -> row
OldEntity(r, row) ==
    CASE r = 21 -> [row EXCEPT !.heir = Absent]
      [] r = 22 -> [row EXCEPT !.status = Absent, !.curation = Absent]
      [] OTHER -> row

\* A claim of a whole document, which has no chunk, came with 0026. Its evidence
\* and mentions go with it; a candidate of such a mention stays without it.
Whole(rows) == {c \in DOMAIN rows.claims : ~rows.claims[c].chunk}
Apart(table, claims) == Restrict(table, {id \in DOMAIN table : table[id].claim \notin claims})
Unlinked(row, mentions) == IF row.mention \in mentions THEN row ELSE [row EXCEPT !.mention = 0]
WithoutClaims(rows, claims) ==
    [rows EXCEPT !.claims = Restrict(@, DOMAIN @ \ claims),
                 !.evidence = Apart(@, claims),
                 !.mentions = Apart(@, claims),
                 !.candidates = [c \in DOMAIN @ |->
                     Unlinked(@[c], DOMAIN Apart(rows.mentions, claims))]]

\* 0020 creates the table of candidates.
Shed(r, rows) ==
    CASE r = 20 -> [rows EXCEPT !.candidates = Restrict(@, {})]
      [] r = 26 -> WithoutClaims(rows, Whole(rows))
      [] OTHER -> rows

Each(rows, Change(_)) == [id \in DOMAIN rows |-> Change(rows[id])]

Upgraded(r, rows) ==
    [sources |-> Each(IF r = 7 THEN MergedSources(rows) ELSE rows.sources,
                      LAMBDA row : NewSource(r, row)),
     runs |-> Each(IF r = 7 THEN MergedRuns(rows) ELSE rows.runs, LAMBDA row : NewRun(r, row)),
     fetches |-> Each(rows.fetches, LAMBDA row : NewFetch(r, row)),
     documents |-> Each(rows.documents, LAMBDA row : NewDocument(r, row)),
     claims |-> Each(rows.claims, LAMBDA row : NewClaim(r, row)),
     evidence |-> rows.evidence,
     mentions |-> rows.mentions,
     candidates |-> Each(rows.candidates, LAMBDA row : NewCandidate(r, row)),
     entities |-> Each(rows.entities, LAMBDA row : NewEntity(r, row))]

Downgraded(r, rows) ==
    LET left == Shed(r, rows) IN
    [sources |-> Each(left.sources, LAMBDA row : OldSource(r, row)),
     runs |-> Each(left.runs, LAMBDA row : OldRun(r, row)),
     fetches |-> Each(left.fetches, LAMBDA row : OldFetch(r, row)),
     documents |-> Each(left.documents, LAMBDA row : OldDocument(r, row)),
     claims |-> Each(left.claims, LAMBDA row : OldClaim(r, row)),
     evidence |-> left.evidence,
     mentions |-> left.mentions,
     candidates |-> Each(left.candidates, LAMBDA row : OldCandidate(r, row)),
     entities |-> Each(left.entities, LAMBDA row : OldEntity(r, row))]

\* What the partial unique index of active runs is on, by revision.
Index5 == {"source"}
Index15 == {"source", "kind"}
IndexedBy(r) == IF r < 5 THEN {} ELSE IF r < 15 THEN Index5 ELSE Index15

-----------------------------------------------------------------------------
\* A step commits when every row satisfies the new schema: checks, the unique
\* index of active runs, the unique identifier of sources, and references.
Checked(d) ==
    /\ \A s \in DOMAIN d.rows.sources :
        /\ d.rows.sources[s].kind \in d.checks.sourceKind
        /\ d.rows.sources[s].status \in d.checks.sourceStatus
    /\ \A r \in DOMAIN d.rows.runs :
        /\ d.rows.runs[r].kind \in d.checks.runKind
        /\ d.rows.runs[r].status \in d.checks.runStatus
    /\ \A c \in DOMAIN d.rows.claims : d.rows.claims[c].chunk \in d.checks.chunk
    /\ \A m \in DOMAIN d.rows.mentions : d.rows.mentions[m].method \in d.checks.method
    /\ \A c \in DOMAIN d.rows.candidates : d.rows.candidates[c].decision \in d.checks.decision
    /\ \A e \in DOMAIN d.rows.entities : d.rows.entities[e].status \in d.checks.entity
OneActive(d) ==
    \A a, b \in DOMAIN d.rows.runs :
        /\ d.index # {} /\ {d.rows.runs[a].status, d.rows.runs[b].status} \subseteq Active
        /\ "source" \in d.index => d.rows.runs[a].source = d.rows.runs[b].source
        /\ "kind" \in d.index => d.rows.runs[a].kind = d.rows.runs[b].kind
        => a = b
Identified(d) ==
    \A s, t \in DOMAIN d.rows.sources :
        /\ d.rows.sources[s].host = d.rows.sources[t].host
        /\ d.rows.sources[s].page = d.rows.sources[t].page
        => s = t
Referenced(d) ==
    /\ \A r \in DOMAIN d.rows.runs : d.rows.runs[r].source \in DOMAIN d.rows.sources
    /\ \A f \in DOMAIN d.rows.fetches : d.rows.fetches[f].run \in DOMAIN d.rows.runs
    /\ \A v \in DOMAIN d.rows.evidence :
        /\ d.rows.evidence[v].claim \in DOMAIN d.rows.claims
        /\ d.rows.evidence[v].source \in DOMAIN d.rows.sources
    /\ \A m \in DOMAIN d.rows.mentions : d.rows.mentions[m].claim \in DOMAIN d.rows.claims
    /\ \A c \in DOMAIN d.rows.candidates :
        d.rows.candidates[c].mention \in DOMAIN d.rows.mentions \cup {0}
Fits(d) == Checked(d) /\ OneActive(d) /\ Identified(d) /\ Referenced(d)

Above(d) == LET r == d.rev + 1 IN
    [rev |-> r, checks |-> NewChecks(r, d.checks), index |-> IndexedBy(r),
     rows |-> Upgraded(r, d.rows)]
Below(d) == LET r == d.rev IN
    [rev |-> r - 1, checks |-> OldChecks(r, d.checks), index |-> IndexedBy(r - 1),
     rows |-> Downgraded(r, d.rows)]

SchemaInit ==
    /\ \/ \E rows \in HeadRows : db = [rev |-> Latest, checks |-> ModelChecks,
                                       index |-> IndexedBy(Latest), rows |-> rows]
       \/ \E rows \in LegacyRows : db = [rev |-> 1, checks |-> FirstChecks,
                                         index |-> IndexedBy(1), rows |-> rows]
    /\ Fits(db)
    /\ was = db /\ low = db.rev

Upgrade ==
    /\ db.rev < Latest /\ Fits(Above(db))
    /\ db' = Above(db)
    /\ UNCHANGED <<was, low>>

\* 0018 drops the check of confidence, and fails when it is gone.
Downgrade ==
    /\ db.rev > 1 /\ Fits(Below(db))
    /\ db.rev = 18 => db.checks.confidence
    /\ db' = Below(db)
    /\ low' = IF db.rev = low THEN low - 1 ELSE low
    /\ UNCHANGED was

SchemaNext == Upgrade \/ Downgrade

SchemaSpec == SchemaInit /\ [][SchemaNext]_schemaVars
-----------------------------------------------------------------------------
\* What a column holds that came with revision r.
Since(r, default, value) == IF low < r THEN default ELSE value

\* What a database that left revision 0027 and came back still holds.
Remaining(old) ==
    LET gone == IF low < 26 THEN Whole(old) ELSE {}
        left == WithoutClaims(old, gone)
    IN  [sources |-> Each(old.sources, LAMBDA row :
                        [row EXCEPT !.recrawl = Since(19, "weekly", @),
                                    !.depth = Since(27, "unbounded", @)]),
         runs |-> Each(old.runs, LAMBDA row : [row EXCEPT !.beat = Since(19, "started", @)]),
         fetches |-> Each(old.fetches, LAMBDA row : [row EXCEPT !.since = Since(19, "none", @)]),
         documents |-> Each(old.documents, LAMBDA row : [row EXCEPT !.vector = Since(26, "none", @)]),
         claims |-> Each(left.claims, LAMBDA row : [row EXCEPT !.subject = Since(24, "person", @)]),
         evidence |-> left.evidence,
         mentions |-> left.mentions,
         candidates |-> Each(Restrict(left.candidates, Since(20, {}, DOMAIN left.candidates)),
                             LAMBDA row : [row EXCEPT !.context = Since(22, "none", @)]),
         entities |-> Each(old.entities, LAMBDA row :
                         [row EXCEPT !.status = Since(22, "active", @),
                                     !.curation = Since(22, "none", @),
                                     !.heir = Since(21, "none", @)])]

\* A source and a run of revision 0001 at the head. A source of the site is there,
\* whose notes told its status; the run is a run of that site in the state it was in.
Told(row, old) ==
    old.notes # <<>> /\ old.notes[1] = "archived" =>
        row.status = "archived" /\ row.notes = Tail(old.notes)
Carried(row, old, rows) ==
    /\ SameSite(row.source, old.source, rows) /\ row.kind = old.kind
    /\ row.status = IF old.status = "cancelled" THEN "stopped" ELSE old.status

\* A database that was taken back any number of revisions and then forward to
\* the head has the schema models.py declares. One the program used never gets
\* below 0018, and holds what it held but for the columns that came since the
\* lowest revision, filled anew, and the rows that revision has no place for:
\* candidates, and claims of whole documents with their evidence and mentions.
\* One of revision 0001 has a source for every site, archived when its notes said
\* so, and every run.
RoundTrips ==
    db.rev = Latest =>
    /\ db.checks = ModelChecks /\ db.index = Index15
    /\ was.rev = Latest => low >= 18 /\ db.rows = Remaining(was.rows)
    /\ was.rev = 1 =>
        /\ \A s \in DOMAIN was.rows.sources :
              \E t \in DOMAIN db.rows.sources : SameSite(s, t, was.rows)
        /\ \A t \in DOMAIN db.rows.sources :
              t \in DOMAIN was.rows.sources /\ Told(db.rows.sources[t], was.rows.sources[t])
        /\ DOMAIN db.rows.runs = DOMAIN was.rows.runs
        /\ \A r \in DOMAIN db.rows.runs : Carried(db.rows.runs[r], was.rows.runs[r], was.rows)

\* `alembic upgrade head`, which every deployment runs, is refused only where
\* rows have no place in a later schema: two active runs of one source (0005),
\* pages of one site, where the active runs or the evidence of two would meet, or
\* a site whose bare host another kind of source is named by (0007), and kinds
\* that were given up (0009).
Stuck == db.rev < Latest /\ ~Fits(Above(db))
Overlap ==
    \E a, b \in DOMAIN db.rows.runs :
        /\ a # b /\ {db.rows.runs[a].status, db.rows.runs[b].status} \subseteq Active
        /\ db.rows.runs[a].source = db.rows.runs[b].source
SiteShared == \E s, t \in DOMAIN db.rows.sources : s # t /\ SameSite(s, t, db.rows)
HostTaken ==
    \E s, t \in DOMAIN db.rows.sources :
        /\ db.rows.sources[s].kind = "domain" /\ db.rows.sources[t].kind # "domain"
        /\ db.rows.sources[t].page = "site"
        /\ db.rows.sources[s].host = db.rows.sources[t].host
GivenUp ==
    \/ \E s \in DOMAIN db.rows.sources : db.rows.sources[s].kind \notin Kinds9
    \/ \E r \in DOMAIN db.rows.runs : db.rows.runs[r].kind \notin RunKinds9
StuckOnlyFor ==
    Stuck => \/ db.rev = 4 /\ Overlap
             \/ db.rev = 6 /\ (SiteShared \/ HostTaken)
             \/ db.rev = 8 /\ GivenUp
=============================================================================
