----------------------------- MODULE MCServices -----------------------------
\* Four parts that share nothing, each in behaviours of its own: the fetches of
\* a process and their robots rules, the stream of log lines, the stream of a
\* run's progress, and the migrations.
EXTENDS RobotsCache, ProgressStream, SchemaMigrations, TLC

CONSTANTS f1, f2, f3, f4, o1, o2, w1, w2

VARIABLES part, clock, table, write, cursor, seen, shown, passed
-----------------------------------------------------------------------------
\* Three fetches of one origin, and one of a malformed URL.
Origin(f) == IF f = f4 THEN o2 ELSE o1

L == INSTANCE LiveLogs WITH
        Writers <- {w1, w2}, Ids <- 1..4, Cap <- 2, Replay <- 1, MaxTime <- 2
-----------------------------------------------------------------------------

\* Words of rows that no revision writes.
AllWords ==
    Written \cup {"domain", "file", "api", "enrichment", "h", "f", "g", "l", "/p", "/q", "note",
                 "ignored", "limited", "monthly", "sitemap", "seed", "adhoc", "queued",
                 "superseded", "partial", "fresh", "fetch", "embedded", "exact_match", "alias",
                 "llm", "strict_qualifier", "merge", "confirm", "defer", "chunk", "merged",
                 "verified", "entity", "org"}

Site == [kind |-> "domain", host |-> "h", page |-> "site", notes |-> <<>>, status |-> "active",
         robots |-> "ignored", recrawl |-> "monthly", depth |-> "unbounded"]
Page(p) == [Site EXCEPT !.page = p, !.depth = "limited", !.status = "archived",
                        !.notes = <<"archived", "note">>]
Upload(k, p) == [Site EXCEPT !.kind = k, !.host = p]
RunOf(k, source) ==
    IF k = "parse" THEN k
    ELSE CASE source.kind = "domain" -> "sitemap" [] source.kind = "file" -> "seed"
           [] OTHER -> "enrichment"

\* A claim of a chunk and one of a whole document, each with its mention, and a
\* candidate of each mention.
Graph(method, decision) ==
    [fetches |-> <<[run |-> 1, since |-> "fetch"], [run |-> 2, since |-> "none"]>>,
     documents |-> <<[vector |-> "embedded"]>>,
     claims |-> <<[chunk |-> TRUE, subject |-> "org"], [chunk |-> FALSE, subject |-> "org"]>>,
     evidence |-> <<[claim |-> 1, source |-> 1], [claim |-> 2, source |-> 2]>>,
     mentions |-> <<[claim |-> 1, method |-> "llm"], [claim |-> 2, method |-> method]>>,
     candidates |-> <<[mention |-> 1, decision |-> "confirm", context |-> "chunk"],
                      [mention |-> 2, decision |-> decision, context |-> "none"]>>,
     entities |-> <<[status |-> "merged", curation |-> "verified", heir |-> "entity"]>>]
Graphs == {Graph("exact_match", "merge"), Graph("strict_qualifier", "none"),
           Graph("exact_match", "defer")}

HeadTables ==
    {[sources |-> <<a, b>>,
      runs |-> <<[source |-> 1, kind |-> RunOf(k, a), status |-> s, beat |-> "fresh"],
                 [source |-> o, kind |-> RunOf(l, IF o = 1 THEN a ELSE b), status |-> t,
                  beat |-> "fresh"]>>] @@ g :
        a \in {Site, Page("/p"), Upload("file", "f"), Upload("enrichment", "l")},
        b \in {Page("/q"), Upload("file", "g")},
        k \in {"crawl", "parse"}, s \in {"queued", "running", "superseded"},
        o \in {1, 2}, l \in {"crawl", "parse"}, t \in {"running", "stopped"},
        g \in Graphs}

\* At revision 0001 many columns are not there yet.
OldSite(k, p, n) == [Site EXCEPT !.kind = k, !.page = p, !.notes = n, !.status = Absent,
                                 !.robots = Absent, !.recrawl = Absent, !.depth = Absent]
OldRunOf(s, k, t) == [source |-> s, kind |-> k, status |-> t, beat |-> Absent]
LegacyTables ==
    {[sources |-> <<OldSite(k, "site", n), OldSite("domain", "/q", <<"paused">>)>>,
      runs |-> <<OldRunOf(1, IF l THEN "adhoc" ELSE "sitemap", "cancelled"),
                 OldRunOf(o, "sitemap", "running"), OldRunOf(2, "sitemap", t)>>,
      fetches |-> <<[run |-> 1, since |-> Absent]>>, documents |-> <<[vector |-> Absent]>>,
      claims |-> <<[chunk |-> TRUE, subject |-> Absent]>>,
      evidence |-> <<[claim |-> 1, source |-> v]>>,
      mentions |-> <<[claim |-> 1, method |-> "alias"]>>, candidates |-> <<>>,
      entities |-> <<[status |-> Absent, curation |-> Absent, heir |-> Absent]>>] :
        k \in {"domain", "file", "api"}, l \in BOOLEAN, n \in {<<>>, <<"archived", "note">>},
        o \in {1, 2}, t \in {"running", "partial"}, v \in {1, 2}}
NewDatabase ==
    [rev |-> Latest, checks |-> ModelChecks, index |-> Index15,
     rows |-> [sources |-> <<>>, runs |-> <<>>, fetches |-> <<>>, documents |-> <<>>, claims |-> <<>>,
               evidence |-> <<>>, mentions |-> <<>>, candidates |-> <<>>, entities |-> <<>>]]
-----------------------------------------------------------------------------
logs == <<clock, table, write, cursor, seen, shown, passed>>

\* A part that is not under way keeps one state.
MCInit ==
    /\ part \in {"robots", "logs", "progress", "schema"}
    /\ Init /\ L!LogInit /\ ProgressInit
    /\ IF part = "schema" THEN SchemaInit ELSE db = NewDatabase /\ was = db /\ low = Latest

RobotsNext == part = "robots" /\ Next /\ UNCHANGED <<part, schemaVars, logs, progressVars>>
LogsNext == part = "logs" /\ L!LogNext /\ UNCHANGED <<part, schemaVars, vars, progressVars>>
StreamNext == part = "progress" /\ ProgressNext /\ UNCHANGED <<part, schemaVars, vars, logs>>
MigrationsNext == part = "schema" /\ SchemaNext /\ UNCHANGED <<part, vars, logs, progressVars>>
Polled == part = "logs" /\ (L!Poll \/ L!Join) /\ UNCHANGED <<part, schemaVars, vars, progressVars>>

MCSpec ==
    /\ MCInit
    /\ [][RobotsNext \/ LogsNext \/ StreamNext \/ MigrationsNext]_<<part, schemaVars, vars, logs, progressVars>>
    /\ WF_logs(Polled)

\* See LiveLogs.
LinesArrive == L!LinesArrive
=============================================================================
