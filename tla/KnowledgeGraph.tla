--------------------------- MODULE KnowledgeGraph ---------------------------
(***************************************************************************)
(* The rows a source leaves behind - fetches, documents, raw claims, and   *)
(* the graph of claims, mentions and entities built on them - under the    *)
(* operations of the API that delete or merge: delete_source,              *)
(* delete_document, the review of identity candidates, the aliases and     *)
(* the conflicts. Several sessions are open at a time (there are several   *)
(* instances of the API, and jobs that fetch and parse meanwhile).         *)
(*                                                                         *)
(* Each session is a transaction of PostgreSQL at READ COMMITTED: it reads *)
(* committed rows and its own writes, collects what it will delete or      *)
(* update, and takes effect when it commits. A commit re-checks the rows   *)
(* the way the database does: foreign keys, unique keys, rows gone in      *)
(* between. Row locks are abstracted: a statement that would wait for      *)
(* another session runs as if it had come before.                          *)
(***************************************************************************)
EXTENDS Naturals, FiniteSets, Functions

CONSTANTS Sources, Fetches, Docs, Raws, Claims, Mentions, Entities, Candidates,
          Conflicts, Texts,
          Sessions,  \* sessions of the API open at a time
          None,
          SourceOf,  \* [Fetches -> Sources]: through the run that fetched it
          Content,   \* [Fetches -> Docs]: the document its content is
          DocOf,     \* [Raws -> Docs]
          RawOf,     \* [Mentions -> Raws]
          NameOf,    \* [Entities -> Texts]: canonical_name
          TextOf,    \* [Candidates -> Texts]: mention_text
          Fold,      \* [Texts -> Texts]: one spelling for all that fold to the same
          Key,       \* [Texts -> Texts]: the same for _alias_key, spaces collapsed too
          Invalid,   \* persons whose canonical_name cannot be a person's
          Graphs,    \* the databases considered at first
          MaxRequests  \* bound: requests of the API and runs started

ASSUME StaticTypes ==
    /\ SourceOf \in [Fetches -> Sources]
    /\ Content \in [Fetches -> Docs]
    /\ DocOf \in [Raws -> Docs]
    /\ RawOf \in [Mentions -> Raws]
    /\ NameOf \in [Entities -> Texts]
    /\ TextOf \in [Candidates -> Texts]
    /\ MaxRequests \in Nat
    /\ \A x, y \in Texts : Fold[x] = Fold[y] => Key[x] = Key[y]

ASSUME NoneIsNoRow == None \notin Sources \cup Fetches \cup Docs \cup Mentions \cup Entities \cup Sessions

\* Every document is linked to the fetch it was first seen by.
ASSUME GraphsLinked ==
    \A g \in Graphs :
        /\ g.fetches \subseteq Fetches
        /\ g.links \subseteq Docs \X g.fetches
        /\ g.first \in [Docs -> g.fetches \cup {None}]
        /\ \A d \in Docs : g.first[d] # None => <<d, g.first[d]>> \in g.links
        /\ \A l \in g.links : g.first[l[1]] # None

Evidence == [claim : Claims, raw : Raws, source : Sources]
ClaimRow == [subject : Entities, object : Entities \cup {None}]
EntityRow == [status : {"active", "merged"}, into : Entities \cup {None}]
CandidateRow == [mention : Mentions \cup {None}, entity : Entities,
                 decision : {None, "merge", "split"}]

\* The foreign keys of the graph hold.
ASSUME GraphsRefer ==
    \A g \in Graphs :
        /\ g.raws \subseteq Raws
        /\ g.evidence \subseteq Evidence
        /\ \A e \in g.evidence : e.raw \in g.raws
        /\ g.entities \subseteq Entities
        /\ DOMAIN g.claims \subseteq Claims /\ g.claims \in [DOMAIN g.claims -> ClaimRow]
        /\ \A c \in DOMAIN g.claims : /\ g.claims[c].subject \in g.entities
                                      /\ g.claims[c].object \in g.entities \cup {None}
        /\ DOMAIN g.mentions \subseteq Mentions /\ g.mentions \in [DOMAIN g.mentions -> g.entities]
        /\ \A m \in DOMAIN g.mentions : RawOf[m] \in g.raws
        /\ g.aliases \subseteq g.entities \X Texts
        /\ DOMAIN g.candidates \subseteq Candidates
        /\ g.candidates \in [DOMAIN g.candidates -> CandidateRow]
        /\ \A k \in DOMAIN g.candidates : /\ g.candidates[k].entity \in g.entities
                                          /\ g.candidates[k].mention \in DOMAIN g.mentions \cup {None}

\* What the pipeline leaves: claims that rest on evidence, aliases that differ
\* in more than their spelling, and no candidate decided yet for a merge.
ASSUME GraphsSettled ==
    \A g \in Graphs :
        /\ \A c \in DOMAIN g.claims : \E e \in g.evidence : e.claim = c
        /\ \A a, b \in g.aliases : a[1] = b[1] /\ Fold[a[2]] = Fold[b[2]] => a = b
        /\ \A k \in DOMAIN g.candidates : g.candidates[k].decision # "merge"

VARIABLES sources,     \* the sources that exist
          active,      \* the ones with a run that is active
          fetches,     \* the fetches that exist
          first,       \* first_seen_fetch_id; None: no such document
          links,       \* document_fetches
          raws,        \* claims_raw
          evidence,    \* claim_evidence
          claims,      \* claim -> its subject and object entity
          mentions,    \* mention -> its entity
          entities,    \* entity -> status and merged_into_entity_id
          verified,    \* entities with verified_by
          aliases,     \* entity_aliases
          candidates,  \* candidate -> mention, entity, review_decision
          conflicts,   \* conflict -> its claims and resolution
          retracted,   \* human_signals: retract_claim, by conflict
          tx,          \* what each session has read and is about to write
          requests,    \* requests so far
          skewed,      \* history: a deletion committed on reads another had outdated
          doubled,     \* history: so did a session that adds aliases
          tangled,     \* history: so did a review, or one merged into a merged entity
          severed      \* history: a deletion that merges had outdated deleted an
                       \* entity others were merged into

documents == <<sources, active, fetches, first, links>>
graph == <<raws, evidence, claims, mentions, entities, aliases, candidates, conflicts>>
signals == <<retracted, verified>>
history == <<skewed, doubled, tangled, severed>>
vars == <<documents, graph, signals, tx, requests, history>>

Idle == [op |-> "idle"]
Opens(s, t) == tx' = [tx EXCEPT ![s] = t]

Request == requests < MaxRequests /\ requests' = requests + 1

Deleting(t) == t.op \in {"select", "delete"}

\* What becomes of an open deletion when another session or a job commits and
\* docs are gone: it is not alone any more; they need not be deleted, and
\* moving one of them would fail.
Overtaken(t, docs, current) ==
    [op |-> t.op, source |-> t.source, fetches |-> t.fetches, docs |-> t.docs \ docs,
     moved |-> [d \in DOMAIN t.moved |-> IF d \in docs THEN None ELSE t.moved[d]],
     claims |-> t.claims, entities |-> t.entities,
     current |-> t.current /\ current, alone |-> FALSE]

\* The other sessions when session s (None: a job) commits.
Others(s, docs, current) ==
    tx' = [x \in Sessions |-> IF x = s THEN Idle
                              ELSE IF Deleting(tx[x]) THEN Overtaken(tx[x], docs, current)
                              ELSE tx[x]]

Documents == {d \in Docs : first[d] # None}
FetchesOf(source) == {f \in fetches : SourceOf[f] = source}
AliasesOf(e) == {t \in Texts : <<e, t>> \in aliases}

TypeOK ==
    /\ active \subseteq sources /\ sources \subseteq Sources
    /\ fetches \subseteq Fetches
    /\ first \in [Docs -> Fetches \cup {None}]
    /\ links \subseteq Docs \X Fetches
    /\ raws \subseteq Raws
    /\ evidence \subseteq Evidence
    /\ \A c \in DOMAIN claims : claims[c].subject \in DOMAIN entities
                             /\ claims[c].object \in DOMAIN entities \cup {None}
    /\ \A m \in DOMAIN mentions : RawOf[m] \in raws /\ mentions[m] \in DOMAIN entities
    /\ \A e \in DOMAIN entities : entities[e].status \in {"active", "merged"}
                               /\ entities[e].into \in DOMAIN entities \cup {None}
    /\ aliases \subseteq (DOMAIN entities) \X Texts
    /\ \A k \in DOMAIN candidates : candidates[k].mention \in DOMAIN mentions \cup {None}
                                 /\ candidates[k].entity \in DOMAIN entities

Init ==
    /\ \E g \in Graphs :
        /\ fetches = g.fetches
        /\ first = g.first
        /\ links = g.links
        /\ raws = g.raws
        /\ evidence = g.evidence
        /\ claims = g.claims
        /\ mentions = g.mentions
        /\ entities = [e \in g.entities |-> [status |-> "active", into |-> None]]
        /\ aliases = g.aliases
        /\ candidates = g.candidates
        /\ conflicts = g.conflicts
    /\ sources = Sources
    /\ active = {}
    /\ verified = {}
    /\ retracted = {}
    /\ tx = [s \in Sessions |-> Idle]
    /\ requests = 0
    /\ skewed = FALSE /\ doubled = FALSE /\ tangled = FALSE /\ severed = FALSE

-----------------------------------------------------------------------------
(* The jobs.                                                               *)

\* A run of the source starts; it ends.
StartRun(source) ==
    /\ Request
    /\ source \in sources \ active
    /\ active' = active \cup {source}
    /\ Others(None, {}, TRUE)
    /\ UNCHANGED <<sources, fetches, first, links, graph, signals, history>>

EndRun(source) ==
    /\ source \in active
    /\ active' = active \ {source}
    /\ UNCHANGED <<sources, fetches, first, links, graph, signals, tx, requests, history>>

\* An active run stores a fetch.
AddFetch(f) ==
    /\ f \notin fetches
    /\ SourceOf[f] \in active
    /\ fetches' = fetches \cup {f}
    /\ Others(None, {}, TRUE)
    /\ UNCHANGED <<sources, active, first, links, graph, signals, requests, history>>

\* An active run parses a fetch: the document with its content is linked to
\* it, after it was created if there was none.
Parse(f) ==
    LET d == Content[f]
    IN /\ f \in fetches
       /\ SourceOf[f] \in active
       /\ <<d, f>> \notin links
       /\ first' = [first EXCEPT ![d] = IF @ = None THEN f ELSE @]
       /\ links' = links \cup {<<d, f>>}
       /\ Others(None, {}, TRUE)
       /\ UNCHANGED <<sources, active, fetches, graph, signals, requests, history>>

-----------------------------------------------------------------------------
(* Deleting a source or a document.                                        *)

\* Variant: the links of other sources are not looked at.
OrphansByFirst(gone) == {d \in Documents : first[d] \in gone}

\* _orphan_document_ids_for_fetches: first seen by one of the fetches and
\* linked to no other.
Orphans(gone) ==
    {d \in Documents : first[d] \in gone /\ \A f \in fetches : <<d, f>> \in links => f \in gone}

\* Variant: a document keeps the fetch it was first seen by.
NoReplacements(gone, orphans) == {[d \in {} |-> None]}

\* _repoint_shared_documents: the other documents first seen by one of the
\* fetches get one that another source holds.
Replacements(gone, orphans) ==
    {p \in [{d \in Documents : first[d] \in gone} \ orphans -> fetches \ gone] :
        \A d \in DOMAIN p : <<d, p[d]>> \in links}

\* delete_source refuses while a run of the source is active, and then reads
\* its fetches and what becomes of the documents.
SelectSource(s, source) ==
    LET gone == FetchesOf(source)
    IN /\ tx[s].op = "idle"
       /\ Request
       /\ source \in sources \ active
       /\ \E moved \in Replacements(gone, Orphans(gone)) :
            Opens(s, [op |-> "select", source |-> source, fetches |-> gone,
                      docs |-> Orphans(gone), moved |-> moved, claims |-> {}, entities |-> {},
                      current |-> TRUE, alone |-> TRUE])
       /\ UNCHANGED <<documents, graph, signals, history>>

\* The rows left of a relation once the documents docs are gone.
RawsLeft(docs) == {r \in raws : DocOf[r] \notin docs}
MentionsLeft(docs) == {m \in DOMAIN mentions : RawOf[m] \in RawsLeft(docs)}

\* _delete_claims_without_evidence, given the evidence that is left.
Unsupported(left) == {c \in DOMAIN claims : \A e \in left : e.claim # c}

\* _delete_entities_without_refs (require_no_aliases=False).
Unreferenced(left, kept) ==
    {e \in DOMAIN entities : /\ \A m \in left : mentions[m] # e
                             /\ \A c \in kept : e \notin {claims[c].subject, claims[c].object}}

\* delete_source: the evidence goes with the documents or with the source;
\* then every claim without evidence, then every entity nothing refers to.
SweepSource(s) ==
    LET t == tx[s]
        left == {e \in evidence : e.raw \in RawsLeft(t.docs) /\ e.source # t.source}
        lost == Unsupported(left)
    IN /\ t.op = "select"
       /\ Opens(s, [op |-> "delete", source |-> t.source, fetches |-> t.fetches,
                    docs |-> t.docs, moved |-> t.moved, claims |-> lost,
                    entities |-> Unreferenced(MentionsLeft(t.docs), DOMAIN claims \ lost),
                    current |-> TRUE, alone |-> t.alone])
       /\ UNCHANGED <<documents, graph, signals, requests, history>>

\* Variant: the claims the document supported are not looked at.
LeaveClaims(d) == {}

\* delete_document: the claims the document supported that have no evidence
\* without it.
Impacted(d) ==
    Unsupported({e \in evidence : DocOf[e.raw] # d})
        \cap {e.claim : e \in {x \in evidence : DocOf[x.raw] = d}}

\* delete_document: the entities stay.
SweepDocument(s, d) ==
    /\ tx[s].op = "idle"
    /\ Request
    /\ d \in Documents
    /\ Opens(s, [op |-> "delete", source |-> None, fetches |-> {}, docs |-> {d},
                 moved |-> [x \in {} |-> None], claims |-> Impacted(d), entities |-> {},
                 current |-> TRUE, alone |-> TRUE])
    /\ UNCHANGED <<documents, graph, signals, history>>

\* Variant of ForeignKeysHold: documents.first_seen_fetch_id refers to nothing.
GraphKeysHold(t) ==
    /\ FetchesOf(t.source) \subseteq t.fetches
    /\ \A d \in DOMAIN t.moved : first[d] # None
    /\ \A m \in MentionsLeft(t.docs) : mentions[m] \notin t.entities
    /\ \A c \in DOMAIN claims \ t.claims :
        {claims[c].subject, claims[c].object} \cap t.entities = {}

\* Variant of ForeignKeysHold: mentions and claims refer to nothing.
DocumentKeysHold(t) ==
    /\ FetchesOf(t.source) \subseteq t.fetches
    /\ \A d \in Documents \ (t.docs \cup DOMAIN t.moved) : first[d] \notin t.fetches
    /\ \A d \in DOMAIN t.moved : first[d] # None /\ t.moved[d] \in fetches

\* The deletion can commit: no fetch of the source is left (its run is
\* deleted), none of the fetches is a document's first, the documents moved
\* and the fetches they move to exist, no mention or claim that stays refers
\* to an entity that goes.
ForeignKeysHold(t) ==
    /\ FetchesOf(t.source) \subseteq t.fetches
    /\ \A d \in Documents \ (t.docs \cup DOMAIN t.moved) : first[d] \notin t.fetches
    /\ \A d \in DOMAIN t.moved : first[d] # None /\ t.moved[d] \in fetches
    /\ \A m \in MentionsLeft(t.docs) : mentions[m] \notin t.entities
    /\ \A c \in DOMAIN claims \ t.claims :
        {claims[c].subject, claims[c].object} \cap t.entities = {}

\* The rows of documents, with the ON DELETE rules of the schema.
DeleteDocuments(t) ==
    /\ sources' = sources \ {t.source}
    /\ active' = active \ {t.source}
    /\ fetches' = fetches \ t.fetches
    /\ first' = [d \in Docs |-> IF d \in t.docs THEN None
                                ELSE IF d \in DOMAIN t.moved THEN t.moved[d] ELSE first[d]]
    /\ links' = {l \in links : l[1] \notin t.docs /\ l[2] \notin t.fetches}

\* The rows of the graph: raw claims and mentions go with their document,
\* aliases and candidates with their entity, evidence and conflicts with
\* their claim; references to a mention or a merged entity become null.
DeleteGraph(t) ==
    LET heard == MentionsLeft(t.docs)
        known == DOMAIN entities \ t.entities
        held == DOMAIN claims \ t.claims
    IN /\ raws' = RawsLeft(t.docs)
       /\ mentions' = Restrict(mentions, heard)
       /\ claims' = Restrict(claims, held)
       /\ evidence' = {e \in evidence : /\ e.raw \in RawsLeft(t.docs)
                                        /\ e.claim \in held
                                        /\ e.source # t.source}
       /\ entities' = [e \in known |->
                          [entities[e] EXCEPT !.into = IF @ \in known THEN @ ELSE None]]
       /\ aliases' = {a \in aliases : a[1] \in known}
       /\ candidates' = [k \in {k \in DOMAIN candidates : candidates[k].entity \in known} |->
                          [candidates[k] EXCEPT !.mention = IF @ \in heard THEN @ ELSE None]]
       /\ conflicts' = RestrictValues(conflicts, LAMBDA x : {x.a, x.b} \subseteq held)
       /\ verified' = verified \cap known

\* A source's deletion that no other outdated has removed every claim without
\* evidence, also the ones that outdated deletions have left.
CommitDelete(s) ==
    LET t == tx[s]
    IN /\ t.op = "delete"
       /\ ForeignKeysHold(t)
       /\ DeleteDocuments(t)
       /\ DeleteGraph(t)
       /\ Others(s, t.docs, FALSE)
       /\ skewed' = IF t.current THEN skewed /\ t.source = None ELSE TRUE
       /\ severed' = (severed \/ (~t.alone /\ \E e \in DOMAIN entities \ t.entities :
                                                 entities[e].into \in t.entities))
       /\ UNCHANGED <<retracted, requests, doubled, tangled>>

\* A session that fails, or is killed, before it commits; the listing of the
\* identity candidates, which never does.
Rollback(s) ==
    /\ tx[s].op # "idle"
    /\ Opens(s, Idle)
    /\ UNCHANGED <<documents, graph, signals, requests, history>>

-----------------------------------------------------------------------------
(* Reviewing identity candidates.                                          *)

\* list_identity_review: the pending candidates whose entity has an invalid
\* name are split in the session of the listing, which is never committed.
ListReview(s) ==
    /\ tx[s].op = "idle"
    /\ Request
    /\ Opens(s, [op |-> "list", split |-> {k \in DOMAIN candidates :
                                            /\ candidates[k].decision = None
                                            /\ candidates[k].entity \in Invalid}])
    /\ UNCHANGED <<documents, graph, signals, history>>

MentionsOf(e) == {m \in DOMAIN mentions : mentions[m] = e}
SubjectOf(e) == {c \in DOMAIN claims : claims[c].subject = e}
ObjectOf(e) == {c \in DOMAIN claims : claims[c].object = e}
Keys(texts) == {Key[t] : t \in texts}

\* Variant: every alias moves.
MoveAll(from, to) == {AliasesOf(from)}

\* _migrate_aliases: one alias of the source entity for every key the target
\* entity lacks moves to it, once it has the source's name; the others are
\* deleted.
Moves(from, to) ==
    LET known == Keys(AliasesOf(to) \cup {NameOf[to], NameOf[from]})
    IN {moved \in SUBSET AliasesOf(from) :
            /\ \A x, y \in moved : Key[x] = Key[y] => x = y
            /\ Keys(moved) = Keys(AliasesOf(from)) \ known}

\* _migrate_aliases, _add_alias_if_missing: the source's name and the text of
\* the mention, if the target entity has no alias (or name) of that key.
Additions(k, from, to, moved) ==
    LET known == Keys(AliasesOf(to) \cup {NameOf[to]})
        name == {t \in {NameOf[from]} : Key[t] \notin known}
    IN name \cup {t \in {TextOf[k]} : Key[t] \notin known \cup Keys(name \cup moved)}

\* What a merge has read of the entity that goes, of the entity that stays and
\* of the candidate.
Reads(k, from) ==
    [row |-> candidates[k], from |-> entities[from], mentions |-> MentionsOf(from),
     subject |-> SubjectOf(from), object |-> ObjectOf(from)]

\* review_identity_candidate answers 404 and 409 to the others.
Pending(k) == k \in DOMAIN candidates /\ candidates[k].decision = None

\* A review reads. A merge needs the mention; nothing is merged if its entity
\* is the candidate already. (defer and confirm are recorded like split.)
OpenReview(s, k, decision) ==
    /\ tx[s].op = "idle"
    /\ Request
    /\ Pending(k)
    /\ LET m == candidates[k].mention
           to == candidates[k].entity
       IN \/ /\ decision = "split" \/ (m # None /\ mentions[m] = to)
             /\ Opens(s, [op |-> "decide", cand |-> k, decision |-> decision,
                          row |-> candidates[k]])
          \/ /\ decision = "merge" /\ m # None
             /\ mentions[m] # to
             /\ \E moved \in Moves(mentions[m], to) :
                Opens(s, [op |-> "merge", cand |-> k, from |-> mentions[m], to |-> to,
                          reads |-> Reads(k, mentions[m]), known |-> AliasesOf(to),
                          moved |-> moved, dropped |-> AliasesOf(mentions[m]) \ moved,
                          added |-> Additions(k, mentions[m], to, moved)])
    /\ UNCHANGED <<documents, graph, signals, history>>

\* A review that merges nothing commits: the candidate must still be there.
CommitDecision(s) ==
    LET t == tx[s]
    IN /\ t.op = "decide"
       /\ t.cand \in DOMAIN candidates
       /\ candidates' = [candidates EXCEPT ![t.cand].decision = t.decision]
       /\ tangled' = (tangled \/ candidates[t.cand] # t.row)
       /\ Opens(s, Idle)
       /\ UNCHANGED <<documents, raws, evidence, claims, mentions, entities, aliases,
                      conflicts, signals, requests, skewed, doubled, severed>>

\* Variant of Repoint: only the claims the entity is the subject of move.
RepointSubjects(t) ==
    /\ claims' = [c \in DOMAIN claims |->
                    IF c \in t.reads.subject /\ claims[c].subject = t.from
                    THEN [claims[c] EXCEPT !.subject = t.to] ELSE claims[c]]
    /\ mentions' = [m \in DOMAIN mentions |->
                      IF m \in t.reads.mentions /\ mentions[m] = t.from THEN t.to ELSE mentions[m]]

\* Variant of Repoint: the mentions stay.
RepointClaims(t) ==
    /\ claims' = [c \in DOMAIN claims |->
                    [subject |-> IF claims[c].subject = t.from THEN t.to ELSE claims[c].subject,
                     object |-> IF claims[c].object = t.from THEN t.to ELSE claims[c].object]]
    /\ mentions' = mentions

\* _merge_identity_candidate: the claims and mentions found move, unless
\* another merge has moved them.
Repoint(t) ==
    /\ claims' = [c \in DOMAIN claims |->
                    [subject |-> IF c \in t.reads.subject /\ claims[c].subject = t.from
                                 THEN t.to ELSE claims[c].subject,
                     object |-> IF c \in t.reads.object /\ claims[c].object = t.from
                                THEN t.to ELSE claims[c].object]]
    /\ mentions' = [m \in DOMAIN mentions |->
                      IF m \in t.reads.mentions /\ mentions[m] = t.from THEN t.to ELSE mentions[m]]

\* Where the alias row is that a merge moves: another may have moved it on.
Holder(t, text) == IF <<t.from, text>> \in aliases THEN t.from ELSE entities[t.from].into

\* The aliases move; entity_aliases has (entity_id, alias) unique.
MigrateAliases(t) ==
    /\ \A x \in t.moved : <<Holder(t, x), x>> \in aliases
    /\ ({t.to} \X (t.added \cup {x \in t.moved : Holder(t, x) # t.to})) \cap aliases = {}
    /\ aliases' = (aliases \ ({<<Holder(t, x), x>> : x \in t.moved} \cup ({t.from} \X t.dropped)))
                    \cup ({t.to} \X (t.moved \cup t.added))

\* A merge commits: the candidate and both entities must still be there.
CommitMerge(s) ==
    LET t == tx[s]
    IN /\ t.op = "merge"
       /\ t.cand \in DOMAIN candidates
       /\ {t.from, t.to} \subseteq DOMAIN entities
       /\ Repoint(t)
       /\ MigrateAliases(t)
       /\ entities' = [entities EXCEPT ![t.from] = [status |-> "merged", into |-> t.to]]
       /\ candidates' = [candidates EXCEPT ![t.cand].decision = "merge"]
       /\ verified' = verified \cup {t.to}
       /\ doubled' = (doubled \/ AliasesOf(t.to) # t.known)
       /\ tangled' = (\/ tangled
                      \/ Reads(t.cand, t.from) # t.reads
                      \/ entities[t.to].status = "merged")
       /\ Others(s, {}, TRUE)
       /\ UNCHANGED <<documents, raws, evidence, conflicts, retracted, requests, skewed, severed>>

-----------------------------------------------------------------------------
(* Aliases, verification, conflicts.                                       *)

\* add_entity_alias reads. Nothing is written when one row folds to the same;
\* two such rows are an error.
OpenAlias(s, e, text) ==
    LET same == {t \in AliasesOf(e) : Fold[t] = Fold[text]}
    IN /\ tx[s].op = "idle"
       /\ Request
       /\ e \in DOMAIN entities
       /\ same = {}
       /\ Opens(s, [op |-> "alias", entity |-> e, text |-> text, known |-> AliasesOf(e)])
       /\ UNCHANGED <<documents, graph, verified, retracted, history>>

CommitAlias(s) ==
    LET t == tx[s]
    IN /\ t.op = "alias"
       /\ t.entity \in DOMAIN entities
       /\ <<t.entity, t.text>> \notin aliases
       /\ aliases' = aliases \cup {<<t.entity, t.text>>}
       /\ doubled' = (doubled \/ AliasesOf(t.entity) # t.known)
       /\ Opens(s, Idle)
       /\ UNCHANGED <<documents, raws, evidence, claims, mentions, entities, candidates,
                      conflicts, signals, requests, skewed, tangled, severed>>

\* verify_entity.
VerifyEntity(e) ==
    /\ Request
    /\ e \in DOMAIN entities
    /\ verified' = verified \cup {e}
    /\ UNCHANGED <<documents, graph, retracted, tx, history>>

\* resolve_conflict: the claim that loses gets a signal that retracts it,
\* each time; signals stay when the resolution changes.
ResolveConflict(x, resolution) ==
    /\ Request
    /\ x \in DOMAIN conflicts
    /\ conflicts' = [conflicts EXCEPT ![x].resolution = resolution]
    /\ retracted' = retracted \cup
            CASE resolution = "claim_a_wins" -> {<<x, conflicts[x].b>>}
              [] resolution = "claim_b_wins" -> {<<x, conflicts[x].a>>}
              [] OTHER -> {}
    /\ UNCHANGED <<documents, raws, evidence, claims, mentions, entities, aliases, candidates,
                   verified, tx, history>>

-----------------------------------------------------------------------------
Jobs ==
    \/ \E source \in Sources : StartRun(source) \/ EndRun(source)
    \/ \E f \in Fetches : AddFetch(f) \/ Parse(f)

Deletions(s) ==
    \/ \E source \in Sources : SelectSource(s, source)
    \/ SweepSource(s)
    \/ \E d \in Docs : SweepDocument(s, d)
    \/ CommitDelete(s)

Reviews(s) ==
    \/ ListReview(s)
    \/ \E k \in Candidates, decision \in {"merge", "split"} : OpenReview(s, k, decision)
    \/ CommitDecision(s)
    \/ CommitMerge(s)

Edits ==
    \/ \E s \in Sessions, e \in Entities, text \in Texts : OpenAlias(s, e, text)
    \/ \E s \in Sessions : CommitAlias(s)
    \/ \E e \in Entities : VerifyEntity(e)
    \/ \E x \in Conflicts, resolution \in {"claim_a_wins", "claim_b_wins", "unresolved"} :
        ResolveConflict(x, resolution)

Next ==
    \/ Jobs
    \/ \E s \in Sessions : Deletions(s) \/ Reviews(s) \/ Rollback(s)
    \/ Edits

Spec == Init /\ [][Next]_vars

-----------------------------------------------------------------------------
(* Properties.                                                             *)

\* Every document is linked to the fetch it was first seen by. So delete_source
\* (web_api.py, _orphan_document_ids_for_fetches), which looks for orphans
\* among the documents first seen by its fetches only, leaves no document
\* without a fetch, whatever is deleted and parsed at the same time.
FirstSeenLinked == \A d \in Documents : <<d, first[d]>> \in links /\ first[d] \in fetches

\* delete_source and delete_document delete in an order and to an extent that
\* satisfies every foreign key: a deletion that nothing came in between of is
\* never refused by the database.
UndisturbedCommits ==
    \A s \in Sessions : tx[s].op = "delete" /\ tx[s].alone => ForeignKeysHold(tx[s])

\* Every claim has evidence, unless a deletion committed on a look at the
\* evidence that another deletion had outdated (each then took the other's
\* evidence for support); the next deletion of a source repairs that.
ClaimsSupported == skewed \/ Unsupported(evidence) = {}

\* An entity that was merged away holds no mention and no claim, unless merges
\* raced or one was made into an entity merged before: neither is refused.
MergedHoldNothing ==
    tangled \/ \A e \in DOMAIN entities :
        entities[e].status = "merged" => MentionsOf(e) \cup SubjectOf(e) \cup ObjectOf(e) = {}

\* The entity is in every set that contains e and what its members merged into.
Leads(e, to) ==
    \A S \in SUBSET (DOMAIN entities) :
        e \in S /\ (\A x \in S : entities[x].into \in S \cup {None}) => to \in S

\* A candidate whose recorded decision is a merge was merged: its mention is
\* with the candidate's entity, or where later merges lead from there. Two
\* merges between the look of a deletion for entities without references and
\* its commit can leave an entity on the way to be deleted: what was merged
\* into it then leads nowhere. A deletion by itself never does that.
MergeTookEffect ==
    tangled \/ severed \/ \A k \in DOMAIN candidates :
        candidates[k].decision = "merge" /\ candidates[k].mention # None
            => Leads(candidates[k].entity, mentions[candidates[k].mention])

\* No entity has two aliases that fold to the same, unless two sessions added
\* aliases to it at once: add_entity_alias fails ever after for such an alias.
OneAliasPerSpelling ==
    doubled \/ \A e \in DOMAIN entities :
        \A x, y \in AliasesOf(e) : Fold[x] = Fold[y] => x = y
=============================================================================
