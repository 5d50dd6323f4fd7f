------------------------ MODULE KnowledgeGraphProofs ------------------------
(***************************************************************************)
(* The safety of the deletions and the merges of the graph.                *)
(*                                                                         *)
(* Documents: FirstSeenLinked speaks of rows, but depends on what the open *)
(* deletions are about to write: a document is moved to a fetch that was   *)
(* linked to it when the deletion looked. LinkInv adds that such a fetch   *)
(* is either still linked to the document, or gone for good, its source    *)
(* deleted - then the foreign key refuses the commit.                      *)
(*                                                                         *)
(* The graph: each of the other invariants adds, of the open sessions,     *)
(* what their commit relies on, and as long as what they have read holds:  *)
(*   GraphInv     the keys between the rows, and the spelling of the       *)
(*                aliases a session adds;                                  *)
(*   DeletionInv  what a deletion that is alone has read is up to date;    *)
(*   SupportInv   the claims a deletion leaves have evidence that stays;   *)
(*   MergeInv     what a review will decide for a merge is merged.         *)
(***************************************************************************)
EXTENDS KnowledgeGraph, TLAPS

USE DEF Documents, Deleting

\* What an open deletion has read stays true of the rows it may still change.
Sound(t) ==
    /\ t.docs \subseteq Docs
    /\ t.fetches \subseteq Fetches
    /\ \A f \in t.fetches : SourceOf[f] = t.source
    /\ \A d \in DOMAIN t.moved :
        /\ d \in Docs \ t.docs
        /\ t.moved[d] # None =>
            /\ t.moved[d] \in Fetches \ t.fetches
            /\ t.moved[d] \in fetches => <<d, t.moved[d]>> \in links
            /\ t.moved[d] \notin fetches => SourceOf[t.moved[d]] \notin sources

Rows ==
    /\ sources \subseteq Sources
    /\ active \subseteq sources
    /\ fetches \subseteq Fetches
    /\ first \in [Docs -> Fetches \cup {None}]
    /\ links \subseteq Docs \X Fetches

LinkInv ==
    /\ Rows
    /\ FirstSeenLinked
    /\ \A s \in Sessions : Deleting(tx[s]) => Sound(tx[s])

\* The rows of documents are the same, and no deletion is opened.
LEMMA OvertakenIsSound ==
    ASSUME NEW t, NEW docs, NEW current, Sound(t)
    PROVE  LET u == Overtaken(t, docs, current)
           IN /\ u.docs = t.docs \ docs
              /\ u.fetches = t.fetches
              /\ u.source = t.source
              /\ DOMAIN u.moved = DOMAIN t.moved
              /\ \A d \in DOMAIN t.moved : u.moved[d] = IF d \in docs THEN None ELSE t.moved[d]
  BY DEF Overtaken

LEMMA InitLinked == Init => LinkInv
  BY StaticTypes, NoneIsNoRow, GraphsLinked DEF Init, LinkInv, Rows, FirstSeenLinked, Idle

\* A step that changes no row and opens no deletion.
LEMMA SameRows ==
    ASSUME LinkInv, UNCHANGED <<sources, active, fetches, first, links>>,
           \A x \in Sessions : tx'[x] = tx[x] \/ ~Deleting(tx'[x])
    PROVE  LinkInv'
  <1>1. Rows' /\ FirstSeenLinked'
    BY DEF LinkInv, Rows, FirstSeenLinked
  <1>2. ASSUME NEW x \in Sessions, Deleting(tx[x])' PROVE Sound(tx[x])'
    BY <1>2 DEF LinkInv, Sound
  <1> QED BY <1>1, <1>2 DEF LinkInv

\* A step that adds rows only: a fetch of a source that exists, a document or a
\* link.
LEMMA MoreRows ==
    ASSUME LinkInv, Rows', FirstSeenLinked', UNCHANGED sources,
           fetches \subseteq fetches', links \subseteq links',
           \A f \in fetches' \ fetches : SourceOf[f] \in sources,
           NEW s, NEW current, Others(s, {}, current)
    PROVE  LinkInv'
  <1>1. ASSUME NEW x \in Sessions, Deleting(tx[x])' PROVE Sound(tx[x])'
    <2>1. Deleting(tx[x]) /\ tx'[x] = Overtaken(tx[x], {}, current)
      BY <1>1 DEF Others, Idle
    <2>2. Sound(tx[x])
      BY <2>1 DEF LinkInv
    <2> QED BY <2>1, <2>2, OvertakenIsSound DEF Sound, Rows
  <1> QED BY <1>1 DEF LinkInv

LEMMA JobsLinked ==
    ASSUME LinkInv, Jobs
    PROVE  LinkInv'
  <1>1. ASSUME NEW source \in Sources, StartRun(source) PROVE LinkInv'
    <2>1. Rows' /\ FirstSeenLinked'
      BY <1>1 DEF LinkInv, Rows, FirstSeenLinked, StartRun
    <2> QED BY <1>1, <2>1, MoreRows DEF StartRun
  <1>2. ASSUME NEW source \in Sources, EndRun(source) PROVE LinkInv'
    BY <1>2 DEF LinkInv, Rows, FirstSeenLinked, Sound, EndRun
  <1>3. ASSUME NEW f \in Fetches, AddFetch(f) PROVE LinkInv'
    <2>1. Rows' /\ FirstSeenLinked'
      BY <1>3 DEF LinkInv, Rows, FirstSeenLinked, AddFetch
    <2>2. SourceOf[f] \in sources /\ fetches' = fetches \cup {f} /\ links' = links
      BY <1>3 DEF LinkInv, Rows, AddFetch
    <2> QED BY <1>3, <2>1, <2>2, MoreRows DEF AddFetch
  <1>4. ASSUME NEW f \in Fetches, Parse(f) PROVE LinkInv'
    <2>1. Rows' /\ FirstSeenLinked'
      BY <1>4, StaticTypes, NoneIsNoRow DEF LinkInv, Rows, FirstSeenLinked, Parse
    <2> QED BY <1>4, <2>1, MoreRows DEF Parse
  <1> QED BY <1>1, <1>2, <1>3, <1>4 DEF Jobs

LEMMA SelectLinked ==
    ASSUME LinkInv, NEW s \in Sessions, NEW source \in Sources, SelectSource(s, source)
    PROVE  LinkInv'
  <1> DEFINE gone == FetchesOf(source)
  <1>1. PICK moved \in Replacements(gone, Orphans(gone)) :
            tx' = [tx EXCEPT ![s] =
                     [op |-> "select", source |-> source, fetches |-> gone,
                      docs |-> Orphans(gone), moved |-> moved, claims |-> {}, entities |-> {},
                      current |-> TRUE, alone |-> TRUE]]
    BY DEF SelectSource, Opens
  <1>2. Rows' /\ FirstSeenLinked'
    BY DEF LinkInv, Rows, FirstSeenLinked, SelectSource, documents
  <1>3. /\ gone \subseteq fetches
        /\ \A f \in gone : SourceOf[f] = source
        /\ Orphans(gone) \subseteq Docs
        /\ DOMAIN moved \subseteq Docs \ Orphans(gone)
        /\ \A d \in DOMAIN moved : moved[d] \in fetches \ gone /\ <<d, moved[d]>> \in links
    BY <1>1 DEF FetchesOf, Orphans, Replacements
  <1>4. ASSUME NEW x \in Sessions, Deleting(tx[x])' PROVE Sound(tx[x])'
    <2>1. CASE x = s /\ s \in DOMAIN tx
      <3>1. /\ tx'[x].docs = Orphans(gone) /\ tx'[x].fetches = gone
            /\ tx'[x].source = source /\ tx'[x].moved = moved
        BY <1>1, <2>1
      <3> QED BY <3>1, <1>3 DEF Sound, LinkInv, Rows, SelectSource, documents
    <2>2. CASE x # s \/ s \notin DOMAIN tx
      BY <2>2, <1>1, <1>4 DEF Sound, LinkInv, Rows, SelectSource, documents
    <2> QED BY <2>1, <2>2
  <1> QED BY <1>2, <1>4 DEF LinkInv

LEMMA SweepSourceLinked ==
    ASSUME LinkInv, NEW s \in Sessions, SweepSource(s)
    PROVE  LinkInv'
  <1>1. Rows' /\ FirstSeenLinked'
    BY DEF LinkInv, Rows, FirstSeenLinked, SweepSource, documents
  <1>2. PICK lost, dropped :
            tx' = [tx EXCEPT ![s] =
                     [op |-> "delete", source |-> tx[s].source, fetches |-> tx[s].fetches,
                      docs |-> tx[s].docs, moved |-> tx[s].moved, claims |-> lost,
                      entities |-> dropped, current |-> TRUE, alone |-> tx[s].alone]]
    BY DEF SweepSource, Opens
  <1>3. ASSUME NEW x \in Sessions, Deleting(tx[x])' PROVE Sound(tx[x])'
    <2>1. Deleting(tx[x]) /\ Sound(tx[x])
      BY <1>2, <1>3 DEF LinkInv, SweepSource
    <2>2. /\ tx'[x].docs = tx[x].docs /\ tx'[x].fetches = tx[x].fetches
          /\ tx'[x].source = tx[x].source /\ tx'[x].moved = tx[x].moved
      BY <1>2
    <2> QED BY <2>1, <2>2 DEF Sound, SweepSource, documents
  <1> QED BY <1>1, <1>3 DEF LinkInv

LEMMA SweepDocumentLinked ==
    ASSUME LinkInv, NEW s \in Sessions, NEW d \in Docs, SweepDocument(s, d)
    PROVE  LinkInv'
  <1>1. Rows' /\ FirstSeenLinked'
    BY DEF LinkInv, Rows, FirstSeenLinked, SweepDocument, documents
  <1>2. PICK lost :
            tx' = [tx EXCEPT ![s] =
                     [op |-> "delete", source |-> None, fetches |-> {}, docs |-> {d},
                      moved |-> [x \in {} |-> None], claims |-> lost, entities |-> {},
                      current |-> TRUE, alone |-> TRUE]]
    BY DEF SweepDocument, Opens
  <1>3. ASSUME NEW x \in Sessions, Deleting(tx[x])' PROVE Sound(tx[x])'
    <2>1. CASE x = s /\ s \in DOMAIN tx
      <3>1. /\ tx'[x].docs = {d} /\ tx'[x].fetches = {}
            /\ tx'[x].source = None /\ DOMAIN tx'[x].moved = {}
        BY <1>2, <2>1
      <3> QED BY <3>1 DEF Sound
    <2>2. CASE x # s \/ s \notin DOMAIN tx
      BY <2>2, <1>2, <1>3 DEF Sound, LinkInv, SweepDocument, documents
    <2> QED BY <2>1, <2>2
  <1> QED BY <1>1, <1>3 DEF LinkInv

LEMMA CommitDeleteLinked ==
    ASSUME LinkInv, NEW s \in Sessions, CommitDelete(s)
    PROVE  LinkInv'
  <1> DEFINE t == tx[s]
  <1>1. Sound(t) /\ ForeignKeysHold(t) /\ DeleteDocuments(t) /\ Others(s, t.docs, FALSE)
    BY DEF CommitDelete, LinkInv
  <1> HIDE DEF t
  <1>2. Rows'
    BY <1>1, NoneIsNoRow DEF LinkInv, Rows, Sound, DeleteDocuments, ForeignKeysHold
  <1>3. FirstSeenLinked'
    <2> SUFFICES ASSUME NEW d \in Docs, first'[d] # None
                 PROVE  <<d, first'[d]>> \in links' /\ first'[d] \in fetches'
      BY DEF FirstSeenLinked
    <2>1. d \notin t.docs
      BY <1>1 DEF DeleteDocuments
    <2>2. CASE d \in DOMAIN t.moved
      <3>1. first'[d] = t.moved[d] /\ t.moved[d] \in fetches
        BY <1>1, <2>1, <2>2 DEF DeleteDocuments, ForeignKeysHold
      <3>2. t.moved[d] \notin t.fetches /\ <<d, t.moved[d]>> \in links
        BY <1>1, <2>2, <3>1 DEF Sound
      <3> QED BY <1>1, <2>1, <3>1, <3>2 DEF DeleteDocuments
    <2>3. CASE d \notin DOMAIN t.moved
      <3>1. first'[d] = first[d]
        BY <1>1, <2>1, <2>3 DEF DeleteDocuments
      <3>2. first[d] \notin t.fetches
        BY <1>1, <2>1, <2>3, <3>1 DEF ForeignKeysHold
      <3> QED BY <1>1, <2>1, <3>1, <3>2 DEF DeleteDocuments, FirstSeenLinked, LinkInv
    <2> QED BY <2>2, <2>3
  <1>4. ASSUME NEW x \in Sessions, Deleting(tx[x])' PROVE Sound(tx[x])'
    <2>1. Deleting(tx[x]) /\ tx'[x] = Overtaken(tx[x], t.docs, FALSE)
      BY <1>1, <1>4 DEF Others, Idle
    <2>2. Sound(tx[x])
      BY <2>1 DEF LinkInv
    <2>3. ASSUME NEW d \in DOMAIN tx[x].moved, d \notin t.docs, tx[x].moved[d] # None,
                 tx[x].moved[d] \in fetches'
          PROVE  <<d, tx[x].moved[d]>> \in links'
      BY <1>1, <2>2, <2>3 DEF Sound, DeleteDocuments
    <2>4. ASSUME NEW d \in DOMAIN tx[x].moved, tx[x].moved[d] # None,
                 tx[x].moved[d] \notin fetches'
          PROVE  SourceOf[tx[x].moved[d]] \notin sources'
      BY <1>1, <2>2, <2>4 DEF Sound, DeleteDocuments
    <2>5. ASSUME NEW d \in DOMAIN tx[x].moved, d \notin t.docs, tx[x].moved[d] # None
          PROVE  /\ d \in Docs \ tx[x].docs
                 /\ tx[x].moved[d] \in Fetches \ tx[x].fetches
      BY <2>2, <2>5 DEF Sound
    <2> DEFINE u == Overtaken(tx[x], t.docs, FALSE)
    <2>6. /\ u.docs = tx[x].docs \ t.docs /\ u.fetches = tx[x].fetches
          /\ u.source = tx[x].source /\ DOMAIN u.moved = DOMAIN tx[x].moved
          /\ \A d \in DOMAIN u.moved :
                u.moved[d] = IF d \in t.docs THEN None ELSE tx[x].moved[d]
      BY DEF Overtaken
    <2>7. tx'[x] = u
      BY <2>1
    <2> HIDE DEF u
    <2>8. ASSUME NEW d \in DOMAIN u.moved
          PROVE  /\ d \in Docs \ u.docs
                 /\ u.moved[d] # None =>
                    /\ u.moved[d] \in Fetches \ u.fetches
                    /\ u.moved[d] \in fetches' => <<d, u.moved[d]>> \in links'
                    /\ u.moved[d] \notin fetches' => SourceOf[u.moved[d]] \notin sources'
      <3>1. d \in Docs \ u.docs
        BY <2>2, <2>6 DEF Sound
      <3> QED BY <3>1, <2>3, <2>4, <2>5, <2>6
    <2> QED BY <2>2, <2>6, <2>7, <2>8 DEF Sound
  <1> QED BY <1>2, <1>3, <1>4 DEF LinkInv

\* A session that opens something else than a deletion, or closes.
LEMMA OpensOther ==
    ASSUME LinkInv, UNCHANGED <<sources, active, fetches, first, links>>,
           NEW s \in Sessions, NEW r, ~Deleting(r), Opens(s, r)
    PROVE  LinkInv'
  <1>1. ASSUME NEW x \in Sessions PROVE tx'[x] = tx[x] \/ ~Deleting(tx'[x])
    BY DEF Opens
  <1> QED BY <1>1, SameRows

LEMMA ReviewsLinked ==
    ASSUME LinkInv, NEW s \in Sessions, Reviews(s) \/ Rollback(s)
    PROVE  LinkInv'
  <1>1. CASE CommitMerge(s)
    <2>1. Rows' /\ FirstSeenLinked'
      BY <1>1 DEF LinkInv, Rows, FirstSeenLinked, CommitMerge, documents
    <2>2. UNCHANGED <<sources, active, fetches, first, links>> /\ Others(s, {}, TRUE)
      BY <1>1, Zenon DEF CommitMerge, documents
    <2> QED BY <2>1, <2>2, MoreRows
  <1>2. CASE CommitDecision(s) \/ Rollback(s)
    <2>1. UNCHANGED <<sources, active, fetches, first, links>> /\ Opens(s, Idle)
      BY <1>2 DEF CommitDecision, Rollback, documents
    <2> QED BY <2>1, OpensOther DEF Idle
  <1>3. CASE ListReview(s)
    <2>1. PICK split : Opens(s, [op |-> "list", split |-> split])
      BY <1>3 DEF ListReview
    <2> QED BY <1>3, <2>1, OpensOther DEF ListReview, documents
  <1>4. ASSUME NEW k \in Candidates, NEW decision, OpenReview(s, k, decision) PROVE LinkInv'
    <2>1. CASE \E row : Opens(s, [op |-> "decide", cand |-> k, decision |-> decision,
                                   row |-> row])
      <3>1. PICK row : Opens(s, [op |-> "decide", cand |-> k, decision |-> decision, row |-> row])
        BY <2>1
      <3> QED BY <1>4, <3>1, OpensOther DEF OpenReview, documents
    <2>2. CASE \E from, to, reads, known, moved, dropped, added :
                  Opens(s, [op |-> "merge", cand |-> k, from |-> from, to |-> to,
                            reads |-> reads, known |-> known, moved |-> moved,
                            dropped |-> dropped, added |-> added])
      <3>1. PICK from, to, reads, known, moved, dropped, added :
                  Opens(s, [op |-> "merge", cand |-> k, from |-> from, to |-> to,
                            reads |-> reads, known |-> known, moved |-> moved,
                            dropped |-> dropped, added |-> added])
        BY <2>2
      <3> QED BY <1>4, <3>1, OpensOther DEF OpenReview, documents
    <2> QED BY <1>4, <2>1, <2>2, Zenon DEF OpenReview
  <1> QED BY <1>1, <1>2, <1>3, <1>4 DEF Reviews

LEMMA EditsLinked ==
    ASSUME LinkInv, Edits
    PROVE  LinkInv'
  <1>1. ASSUME NEW s \in Sessions, NEW e \in Entities, NEW text \in Texts, OpenAlias(s, e, text)
        PROVE  LinkInv'
    <2>1. PICK known : Opens(s, [op |-> "alias", entity |-> e, text |-> text, known |-> known])
      BY <1>1 DEF OpenAlias
    <2> QED BY <1>1, <2>1, OpensOther DEF OpenAlias, documents
  <1>2. ASSUME NEW s \in Sessions, CommitAlias(s) PROVE LinkInv'
    BY <1>2, OpensOther DEF CommitAlias, Idle, documents
  <1>3. ASSUME NEW e \in Entities, VerifyEntity(e) PROVE LinkInv'
    BY <1>3, SameRows DEF VerifyEntity, documents
  <1>4. ASSUME NEW x \in Conflicts, NEW resolution, ResolveConflict(x, resolution) PROVE LinkInv'
    BY <1>4, SameRows DEF ResolveConflict, documents
  <1> QED BY <1>1, <1>2, <1>3, <1>4 DEF Edits

LEMMA LinksHold == Spec => []LinkInv
  <1>1. LinkInv /\ [Next]_vars => LinkInv'
    <2> SUFFICES ASSUME LinkInv, [Next]_vars PROVE LinkInv'
      OBVIOUS
    <2>1. CASE UNCHANGED vars
      BY <2>1 DEF LinkInv, Rows, FirstSeenLinked, Sound, vars, documents
    <2>2. CASE Next
      BY <2>2, JobsLinked, SelectLinked, SweepSourceLinked, SweepDocumentLinked,
         CommitDeleteLinked, ReviewsLinked, EditsLinked DEF Next, Deletions
    <2> QED BY <2>1, <2>2
  <1> QED BY <1>1, InitLinked, PTL DEF Spec

\* No document is left without a fetch: delete_source, which looks for orphans
\* by first_seen_fetch only, misses none, for any sources, sessions and graph.
THEOREM FirstSeenAlwaysLinked == Spec => []FirstSeenLinked
  <1>1. LinkInv => FirstSeenLinked
    BY DEF LinkInv
  <1> QED BY <1>1, LinksHold, PTL

-----------------------------------------------------------------------------
(* The rows of the graph, and what the open sessions have read. *)

\* The rows of the graph and the keys between them.
GraphRows ==
    /\ raws \subseteq Raws
    /\ evidence \subseteq Evidence
    /\ \A e \in evidence : e.raw \in raws
    /\ DOMAIN entities \subseteq Entities /\ entities \in [DOMAIN entities -> EntityRow]
    /\ \A e \in DOMAIN entities : /\ entities[e].into \in DOMAIN entities \cup {None}
                                  /\ entities[e].status = "active" => entities[e].into = None
    /\ DOMAIN claims \subseteq Claims /\ claims \in [DOMAIN claims -> ClaimRow]
    /\ \A c \in DOMAIN claims : /\ claims[c].subject \in DOMAIN entities
                                /\ claims[c].object \in DOMAIN entities \cup {None}
    /\ DOMAIN mentions \subseteq Mentions /\ mentions \in [DOMAIN mentions -> DOMAIN entities]
    /\ \A m \in DOMAIN mentions : RawOf[m] \in raws
    /\ aliases \subseteq (DOMAIN entities) \X Texts
    /\ DOMAIN candidates \subseteq Candidates
    /\ candidates \in [DOMAIN candidates -> CandidateRow]
    /\ \A k \in DOMAIN candidates : /\ candidates[k].entity \in DOMAIN entities
                                    /\ candidates[k].mention \in DOMAIN mentions \cup {None}

\* Texts of which no two fold to the same, nor to the same as a known one.
Spelt(new, known) ==
    /\ new \subseteq Texts
    /\ \A x, y \in new : Fold[x] = Fold[y] => x = y
    /\ \A x \in new, y \in known : Fold[x] # Fold[y]

\* What a review or an edit has read, as far as its commit relies on it.
Considered(t) ==
    /\ t.op = "decide" => t.decision \in {"merge", "split"}
    /\ t.op = "merge" => /\ t.from # t.to
                         /\ t.reads.row.entity = t.to
                         /\ t.reads.row.mention \in t.reads.mentions
                         /\ Spelt(t.moved \cup t.added, t.known)
    /\ t.op = "alias" => Spelt({t.text}, t.known)

GraphInv ==
    /\ GraphRows
    /\ DOMAIN tx = Sessions
    /\ \A s \in Sessions : Considered(tx[s])


LEMMA SameGraph ==
    ASSUME GraphRows, UNCHANGED <<raws, evidence, claims, mentions, entities, aliases, candidates>>
    PROVE  GraphRows'
  BY DEF GraphRows

\* A session opens or closes; the others wait, or their deletions are overtaken.
LEMMA OpensConsidered ==
    ASSUME GraphInv, NEW s \in Sessions, NEW r, Opens(s, r), Considered(r)
    PROVE  DOMAIN tx' = Sessions /\ \A x \in Sessions : Considered(tx[x])'
  BY DEF GraphInv, Opens, Considered

LEMMA OthersConsidered ==
    ASSUME GraphInv, NEW s, NEW docs, NEW current, Others(s, docs, current)
    PROVE  DOMAIN tx' = Sessions /\ \A x \in Sessions : Considered(tx[x])'
  <1>1. ASSUME NEW x \in Sessions PROVE Considered(tx[x])'
    <2>1. CASE x # s /\ Deleting(tx[x])
      <3>1. tx'[x].op \in {"select", "delete"}
        BY <2>1 DEF Others, Overtaken
      <3> QED BY <3>1 DEF Considered
    <2>2. CASE x = s
      BY <2>2 DEF Others, Idle, Considered
    <2>3. CASE x # s /\ ~Deleting(tx[x])
      <3>1. tx'[x] = tx[x]
        BY <2>3 DEF Others
      <3> QED BY <3>1 DEF GraphInv, Considered
    <2> QED BY <2>1, <2>2, <2>3
  <1> QED BY <1>1 DEF Others

LEMMA InitGraph == Init => GraphInv
  <1> SUFFICES ASSUME Init PROVE GraphInv
    OBVIOUS
  <1>1. GraphRows
    BY GraphsRefer, NoneIsNoRow DEF Init, GraphRows, EntityRow
  <1>2. DOMAIN tx = Sessions /\ \A s \in Sessions : Considered(tx[s])
    BY DEF Init, Idle, Considered
  <1> QED BY <1>1, <1>2 DEF GraphInv

\* An alias of each key: the aliases a merge moves and adds are spelt apart.
LEMMA MovesApart ==
    ASSUME GraphRows, NEW k \in Candidates, NEW from \in Entities, NEW to \in Entities,
           NEW moved \in Moves(from, to)
    PROVE  Spelt(moved \cup Additions(k, from, to, moved), AliasesOf(to))
  <1> DEFINE near == Keys(AliasesOf(to) \cup {NameOf[to]})
             name == {t \in {NameOf[from]} : Key[t] \notin near}
             text == {t \in {TextOf[k]} : Key[t] \notin near \cup Keys(name \cup moved)}
  <1>1. /\ moved \subseteq Texts
        /\ \A x, y \in moved : Key[x] = Key[y] => x = y
        /\ \A x \in moved : Key[x] \notin Keys(AliasesOf(to)) /\ Key[x] # Key[NameOf[from]]
    BY DEF Moves, Keys, AliasesOf
  <1>2. Additions(k, from, to, moved) = name \cup text
    BY DEF Additions
  <1>3. name \cup text \subseteq Texts
    BY StaticTypes
  <1>4. \A x \in moved, y \in name : Key[x] # Key[y]
    BY <1>1
  <1>5. \A x \in moved \cup name, y \in text : Key[x] # Key[y]
    BY DEF Keys
  <1>6. \A x \in name \cup text, y \in AliasesOf(to) : Key[x] # Key[y]
    BY DEF Keys
  <1>7. \A x \in moved, y \in AliasesOf(to) : Key[x] # Key[y]
    BY <1>1 DEF Keys
  <1>8. \A x, y \in name : x = y
    OBVIOUS
  <1>9. \A x, y \in text : x = y
    OBVIOUS
  <1>10. AliasesOf(to) \subseteq Texts
    BY DEF AliasesOf
  <1> HIDE DEF name, text, near
  <1>11. ASSUME NEW x \in moved \cup name \cup text, NEW y \in moved \cup name \cup text, Key[x] = Key[y]
         PROVE  x = y
    BY <1>1, <1>4, <1>5, <1>8, <1>9, <1>11
  <1>12. ASSUME NEW x \in moved \cup name \cup text, NEW y \in AliasesOf(to) PROVE Key[x] # Key[y]
    BY <1>6, <1>7
  <1> QED BY <1>1, <1>2, <1>3, <1>10, <1>11, <1>12, StaticTypes DEF Spelt

\* What a deletion leaves of the graph.
Deleted(t) ==
    /\ DOMAIN entities' = DOMAIN entities \ t.entities
    /\ \A e \in DOMAIN entities' :
        /\ entities'[e].status = entities[e].status
        /\ entities'[e].into = IF entities[e].into \in DOMAIN entities'
                               THEN entities[e].into ELSE None
    /\ DOMAIN mentions' = MentionsLeft(t.docs)
    /\ \A m \in DOMAIN mentions' : m \in DOMAIN mentions /\ mentions'[m] = mentions[m]
    /\ DOMAIN claims' = DOMAIN claims \ t.claims
    /\ \A c \in DOMAIN claims' : claims'[c] = claims[c]
    /\ \A k \in DOMAIN candidates' :
        /\ k \in DOMAIN candidates
        /\ candidates'[k].entity = candidates[k].entity
        /\ candidates'[k].entity \in DOMAIN entities'
        /\ candidates'[k].decision = candidates[k].decision
        /\ candidates'[k].mention = IF candidates[k].mention \in DOMAIN mentions'
                                    THEN candidates[k].mention ELSE None
    /\ evidence' = {e \in evidence : /\ e.raw \in RawsLeft(t.docs)
                                     /\ e.claim \in DOMAIN claims'
                                     /\ e.source # t.source}
    /\ aliases' = {a \in aliases : a[1] \in DOMAIN entities'}

LEMMA DeleteLeaves ==
    ASSUME GraphRows, NEW t, DeleteGraph(t)
    PROVE  Deleted(t) /\ DOMAIN candidates' \subseteq Candidates
                      /\ candidates' \in [DOMAIN candidates' -> CandidateRow]
                      /\ entities' \in [DOMAIN entities' -> EntityRow]
  <1> DEFINE heard == MentionsLeft(t.docs)
             known == DOMAIN entities \ t.entities
             held == DOMAIN claims \ t.claims
  <1>2. /\ evidence' = {e \in evidence : /\ e.raw \in RawsLeft(t.docs)
                                         /\ e.claim \in held
                                         /\ e.source # t.source}
        /\ aliases' = {a \in aliases : a[1] \in known}
    BY DEF DeleteGraph
  <1>3. entities' = [e \in known |-> [entities[e] EXCEPT !.into = IF @ \in known THEN @ ELSE None]]
    BY DEF DeleteGraph
  <1>4. candidates' = [k \in {k \in DOMAIN candidates : candidates[k].entity \in known} |->
                          [candidates[k] EXCEPT !.mention = IF @ \in heard THEN @ ELSE None]]
    BY DEF DeleteGraph
  <1>5. mentions' = [m \in heard |-> mentions[m]]
    BY DEF DeleteGraph, Restrict
  <1>6. claims' = [c \in held |-> claims[c]]
    BY DEF DeleteGraph, Restrict
  <1>7. known \subseteq DOMAIN entities /\ held \subseteq DOMAIN claims /\ heard \subseteq DOMAIN mentions
    BY DEF MentionsLeft
  <1> HIDE DEF heard, known, held
  <1>8. DOMAIN entities' = known /\ DOMAIN mentions' = heard /\ DOMAIN claims' = held
    BY <1>3, <1>5, <1>6
  <1>9. ASSUME NEW e \in known
        PROVE  /\ entities'[e] \in EntityRow
               /\ entities'[e].status = entities[e].status
               /\ entities'[e].into = IF entities[e].into \in known THEN entities[e].into ELSE None
    <2>1. PICK r \in EntityRow : r = entities[e]
      BY <1>7 DEF GraphRows
    <2>2. entities'[e] = [status |-> r.status, into |-> IF r.into \in known THEN r.into ELSE None]
      BY <1>3, <2>1 DEF EntityRow
    <2> QED BY <2>1, <2>2 DEF EntityRow
  <1>10. DOMAIN candidates' = {k \in DOMAIN candidates : candidates[k].entity \in known}
    BY <1>4
  <1>11. ASSUME NEW k \in DOMAIN candidates'
         PROVE  /\ candidates'[k] \in CandidateRow
                /\ candidates'[k].entity = candidates[k].entity
                /\ candidates'[k].decision = candidates[k].decision
                /\ candidates'[k].mention = IF candidates[k].mention \in heard
                                            THEN candidates[k].mention ELSE None
    <2>1. PICK r \in CandidateRow : r = candidates[k]
      BY <1>10 DEF GraphRows
    <2>2. candidates'[k] = [mention |-> IF r.mention \in heard THEN r.mention ELSE None,
                            entity |-> r.entity, decision |-> r.decision]
      BY <1>4, <1>10, <2>1 DEF CandidateRow
    <2>3. heard \subseteq Mentions
      BY <1>7 DEF GraphRows
    <2> QED BY <2>1, <2>2, <2>3 DEF CandidateRow
  <1>12. entities' = [e \in known |-> entities'[e]]
    BY <1>3
  <1>13. candidates' = [k \in DOMAIN candidates' |-> candidates'[k]]
    BY <1>4
  <1>14. entities' \in [known -> EntityRow] /\ candidates' \in [DOMAIN candidates' -> CandidateRow]
    BY <1>9, <1>11, <1>12, <1>13, Zenon
  <1>15. \A m \in heard : mentions'[m] = mentions[m]
    BY <1>5
  <1>16. \A c \in held : claims'[c] = claims[c]
    BY <1>6
  <1>17. \A k \in DOMAIN candidates' : k \in DOMAIN candidates /\ candidates[k].entity \in known
    BY <1>10
  <1>18. DOMAIN candidates' \subseteq Candidates
    BY <1>10 DEF GraphRows
  <1>19. Deleted(t)
    BY <1>2, <1>7, <1>8, <1>9, <1>11, <1>15, <1>16, <1>17 DEF Deleted, heard, known, held
  <1> QED BY <1>8, <1>14, <1>18, <1>19

LEMMA CommitDeleteRows ==
    ASSUME GraphRows, NEW s \in Sessions, CommitDelete(s)
    PROVE  GraphRows' /\ Deleted(tx[s])
  <1> DEFINE t == tx[s]
  <1>1. ForeignKeysHold(t) /\ DeleteGraph(t) /\ raws' = RawsLeft(t.docs)
    BY DEF CommitDelete, DeleteGraph
  <1>2. /\ Deleted(t)
        /\ DOMAIN candidates' \subseteq Candidates
        /\ candidates' \in [DOMAIN candidates' -> CandidateRow]
        /\ entities' \in [DOMAIN entities' -> EntityRow]
    BY <1>1, DeleteLeaves
  <1> HIDE DEF t
  <1>3. mentions' = [m \in DOMAIN mentions' |-> mentions'[m]] /\ claims' = [c \in DOMAIN claims' |-> claims'[c]]
    BY <1>1 DEF DeleteGraph, Restrict
  <1>4. raws' \subseteq Raws /\ evidence' \subseteq Evidence /\ \A e \in evidence' : e.raw \in raws'
    BY <1>1, <1>2 DEF GraphRows, RawsLeft, Deleted
  <1>5. ASSUME NEW e \in DOMAIN entities'
        PROVE  /\ e \in Entities
               /\ entities'[e].into \in DOMAIN entities' \cup {None}
               /\ entities'[e].status = "active" => entities'[e].into = None
    BY <1>2 DEF GraphRows, Deleted
  <1>6. ASSUME NEW c \in DOMAIN claims'
        PROVE  /\ c \in Claims
               /\ claims'[c] \in ClaimRow
               /\ claims'[c].subject \in DOMAIN entities'
               /\ claims'[c].object \in DOMAIN entities' \cup {None}
    <2>1. c \in DOMAIN claims \ t.claims /\ claims'[c] = claims[c]
      BY <1>2 DEF Deleted
    <2>2. claims[c].subject \notin t.entities /\ claims[c].object \notin t.entities
      BY <1>1, <2>1 DEF ForeignKeysHold
    <2> QED BY <1>2, <2>1, <2>2 DEF GraphRows, Deleted
  <1>7. ASSUME NEW m \in DOMAIN mentions'
        PROVE  m \in Mentions /\ mentions'[m] \in DOMAIN entities' /\ RawOf[m] \in raws'
    <2>1. m \in MentionsLeft(t.docs) /\ mentions'[m] = mentions[m]
      BY <1>2 DEF Deleted
    <2>2. m \in DOMAIN mentions /\ mentions[m] \notin t.entities /\ RawOf[m] \in raws'
      BY <1>1, <2>1 DEF ForeignKeysHold, MentionsLeft
    <2> QED BY <1>2, <2>1, <2>2 DEF GraphRows, Deleted
  <1>8. aliases' \subseteq (DOMAIN entities') \X Texts
    BY <1>2 DEF GraphRows, Deleted
  <1>9. ASSUME NEW k \in DOMAIN candidates'
        PROVE  /\ candidates'[k].entity \in DOMAIN entities'
               /\ candidates'[k].mention \in DOMAIN mentions' \cup {None}
    BY <1>2 DEF Deleted
  <1>10. claims' \in [DOMAIN claims' -> ClaimRow] /\ mentions' \in [DOMAIN mentions' -> DOMAIN entities']
    BY <1>3, <1>6, <1>7, Zenon
  <1>11. GraphRows'
    BY <1>2, <1>4, <1>5, <1>6, <1>7, <1>8, <1>9, <1>10 DEF GraphRows
  <1> QED BY <1>2, <1>11 DEF t

LEMMA CommitMergeRows ==
    ASSUME GraphInv, NEW s \in Sessions, CommitMerge(s)
    PROVE  GraphRows'
  <1> DEFINE t == tx[s]
  <1>1. /\ t.op = "merge" /\ t.cand \in DOMAIN candidates
        /\ t.from \in DOMAIN entities /\ t.to \in DOMAIN entities
        /\ Repoint(t) /\ MigrateAliases(t)
        /\ entities' = [entities EXCEPT ![t.from] = [status |-> "merged", into |-> t.to]]
        /\ candidates' = [candidates EXCEPT ![t.cand].decision = "merge"]
        /\ raws' = raws /\ evidence' = evidence
    BY DEF CommitMerge
  <1>2. GraphRows /\ t.moved \cup t.added \subseteq Texts
    BY <1>1 DEF GraphInv, Considered, Spelt
  <1> HIDE DEF t
  <1>3. DOMAIN entities' = DOMAIN entities /\ entities' \in [DOMAIN entities -> EntityRow]
    BY <1>1, <1>2 DEF GraphRows, EntityRow
  <1>4. \A e \in DOMAIN entities : /\ entities'[e].into \in DOMAIN entities \cup {None}
                                   /\ entities'[e].status = "active" => entities'[e].into = None
    BY <1>1, <1>2 DEF GraphRows
  <1>5. /\ DOMAIN claims' = DOMAIN claims
        /\ \A c \in DOMAIN claims : /\ claims'[c] \in ClaimRow
                                    /\ claims'[c].subject \in DOMAIN entities
                                    /\ claims'[c].object \in DOMAIN entities \cup {None}
    BY <1>1, <1>2 DEF GraphRows, Repoint, ClaimRow
  <1>6. claims' = [c \in DOMAIN claims |-> claims'[c]]
    BY <1>1 DEF Repoint
  <1>7. claims' \in [DOMAIN claims -> ClaimRow]
    BY <1>5, <1>6, Zenon
  <1>8. mentions' \in [DOMAIN mentions -> DOMAIN entities] /\ DOMAIN mentions' = DOMAIN mentions
    BY <1>1, <1>2 DEF GraphRows, Repoint
  <1>9. aliases' \subseteq (DOMAIN entities) \X Texts
    BY <1>1, <1>2 DEF GraphRows, MigrateAliases
  <1>10. /\ DOMAIN candidates' = DOMAIN candidates
         /\ \A k \in DOMAIN candidates : /\ candidates'[k] \in CandidateRow
                                         /\ candidates'[k].entity = candidates[k].entity
                                         /\ candidates'[k].mention = candidates[k].mention
    BY <1>1, <1>2 DEF GraphRows, CandidateRow
  <1>11. candidates' = [k \in DOMAIN candidates |-> candidates'[k]]
    BY <1>1
  <1>12. candidates' \in [DOMAIN candidates -> CandidateRow]
    BY <1>10, <1>11, Zenon
  <1> QED BY <1>1, <1>2, <1>3, <1>4, <1>5, <1>7, <1>8, <1>9, <1>10, <1>12 DEF GraphRows

LEMMA CommitDecisionRows ==
    ASSUME GraphInv, NEW s \in Sessions, CommitDecision(s)
    PROVE  GraphRows'
  <1> DEFINE t == tx[s]
  <1>1. /\ t.op = "decide" /\ t.cand \in DOMAIN candidates
        /\ candidates' = [candidates EXCEPT ![t.cand].decision = t.decision]
        /\ UNCHANGED <<raws, evidence, claims, mentions, entities, aliases>>
    BY DEF CommitDecision
  <1>2. GraphRows /\ t.decision \in {"merge", "split"}
    BY <1>1 DEF GraphInv, Considered
  <1> HIDE DEF t
  <1>3. /\ DOMAIN candidates' = DOMAIN candidates
        /\ \A k \in DOMAIN candidates : /\ candidates'[k] \in CandidateRow
                                        /\ candidates'[k].entity = candidates[k].entity
                                        /\ candidates'[k].mention = candidates[k].mention
    BY <1>1, <1>2 DEF GraphRows, CandidateRow
  <1>4. candidates' = [k \in DOMAIN candidates |-> candidates'[k]]
    BY <1>1
  <1>5. candidates' \in [DOMAIN candidates -> CandidateRow]
    BY <1>3, <1>4, Zenon
  <1> QED BY <1>1, <1>2, <1>3, <1>5 DEF GraphRows

LEMMA OpenReviewConsidered ==
    ASSUME GraphInv, NEW s \in Sessions, NEW k \in Candidates, NEW decision \in {"merge", "split"},
           OpenReview(s, k, decision)
    PROVE  GraphInv'
  <1> DEFINE to == candidates[k].entity
             from == mentions[candidates[k].mention]
  <1>1. GraphRows'
    BY SameGraph DEF GraphInv, OpenReview, graph
  <1>2. CASE Opens(s, [op |-> "decide", cand |-> k, decision |-> decision, row |-> candidates[k]])
    BY <1>1, <1>2, OpensConsidered DEF Considered, GraphInv
  <1>3. ASSUME candidates[k].mention # None, from # to, NEW moved \in Moves(from, to),
               Opens(s, [op |-> "merge", cand |-> k, from |-> from, to |-> to,
                         reads |-> Reads(k, from), known |-> AliasesOf(to),
                         moved |-> moved, dropped |-> AliasesOf(from) \ moved,
                         added |-> Additions(k, from, to, moved)])
        PROVE  GraphInv'
    <2> DEFINE r == [op |-> "merge", cand |-> k, from |-> from, to |-> to,
                     reads |-> Reads(k, from), known |-> AliasesOf(to),
                     moved |-> moved, dropped |-> AliasesOf(from) \ moved,
                     added |-> Additions(k, from, to, moved)]
    <2>1. k \in DOMAIN candidates
      BY DEF OpenReview, Pending
    <2>2. candidates[k].mention \in DOMAIN mentions /\ from \in Entities /\ to \in Entities
      BY <1>3, <2>1 DEF GraphInv, GraphRows
    <2>3. Spelt(moved \cup Additions(k, from, to, moved), AliasesOf(to))
      BY <1>3, <2>2, MovesApart DEF GraphInv
    <2>4. /\ r.op = "merge" /\ r.from = from /\ r.to = to /\ r.moved = moved /\ r.known = AliasesOf(to)
          /\ r.added = Additions(k, from, to, moved) /\ r.reads = Reads(k, from)
      OBVIOUS
    <2>5. r.reads.row.entity = to /\ r.reads.row.mention \in r.reads.mentions
      BY <2>2, <2>4 DEF Reads, MentionsOf
    <2>6. Opens(s, r)
      BY <1>3
    <2> HIDE DEF r, from, to
    <2>7. Considered(r)
      BY <1>3, <2>3, <2>4, <2>5 DEF Considered
    <2> QED BY <1>1, <2>6, <2>7, OpensConsidered DEF GraphInv
  <1> QED BY <1>2, <1>3, Zenon DEF OpenReview

LEMMA DeletionsGraph ==
    ASSUME GraphInv, NEW s \in Sessions, Deletions(s)
    PROVE  GraphInv'
  <1>1. ASSUME NEW source \in Sources, SelectSource(s, source) PROVE GraphInv'
    <2>1. GraphRows'
      BY <1>1, SameGraph DEF GraphInv, SelectSource, graph
    <2>2. PICK r : Opens(s, r) /\ r.op = "select"
      BY <1>1 DEF SelectSource
    <2> QED BY <2>1, <2>2, OpensConsidered DEF GraphInv, Considered
  <1>2. CASE SweepSource(s)
    <2>1. GraphRows'
      BY <1>2, SameGraph DEF GraphInv, SweepSource, graph
    <2>2. PICK r : Opens(s, r) /\ r.op = "delete"
      BY <1>2 DEF SweepSource
    <2> QED BY <2>1, <2>2, OpensConsidered DEF GraphInv, Considered
  <1>3. ASSUME NEW d \in Docs, SweepDocument(s, d) PROVE GraphInv'
    <2>1. GraphRows'
      BY <1>3, SameGraph DEF GraphInv, SweepDocument, graph
    <2>2. PICK r : Opens(s, r) /\ r.op = "delete"
      BY <1>3 DEF SweepDocument
    <2> QED BY <2>1, <2>2, OpensConsidered DEF GraphInv, Considered
  <1>4. CASE CommitDelete(s)
    <2>1. GraphRows'
      BY <1>4, CommitDeleteRows DEF GraphInv
    <2>2. Others(s, tx[s].docs, FALSE)
      BY <1>4 DEF CommitDelete
    <2> QED BY <2>1, <2>2, OthersConsidered DEF GraphInv
  <1> QED BY <1>1, <1>2, <1>3, <1>4 DEF Deletions

LEMMA ReviewsGraph ==
    ASSUME GraphInv, NEW s \in Sessions, Reviews(s) \/ Rollback(s)
    PROVE  GraphInv'
  <1>1. CASE ListReview(s)
    <2>1. GraphRows'
      BY <1>1, SameGraph DEF GraphInv, ListReview, graph
    <2>2. PICK r : Opens(s, r) /\ r.op = "list"
      BY <1>1 DEF ListReview
    <2> QED BY <2>1, <2>2, OpensConsidered DEF GraphInv, Considered
  <1>2. CASE CommitDecision(s)
    <2>1. Opens(s, Idle)
      BY <1>2 DEF CommitDecision
    <2> QED BY <1>2, <2>1, CommitDecisionRows, OpensConsidered DEF GraphInv, Considered, Idle
  <1>3. CASE CommitMerge(s)
    <2>1. Others(s, {}, TRUE)
      BY <1>3, Zenon DEF CommitMerge
    <2> QED BY <1>3, <2>1, CommitMergeRows, OthersConsidered DEF GraphInv
  <1>4. CASE Rollback(s)
    <2>1. GraphRows' /\ Opens(s, Idle)
      BY <1>4, SameGraph DEF GraphInv, Rollback, graph
    <2> QED BY <2>1, OpensConsidered DEF GraphInv, Considered, Idle
  <1> QED BY <1>1, <1>2, <1>3, <1>4, OpenReviewConsidered DEF Reviews

LEMMA JobsGraph ==
    ASSUME GraphInv, Jobs
    PROVE  GraphInv'
  <1>1. GraphRows'
    BY SameGraph DEF GraphInv, Jobs, StartRun, EndRun, AddFetch, Parse, graph
  <1>2. Others(None, {}, TRUE) \/ tx' = tx
    BY DEF Jobs, StartRun, EndRun, AddFetch, Parse
  <1> QED BY <1>1, <1>2, OthersConsidered DEF GraphInv, Considered

LEMMA EditsGraph ==
    ASSUME GraphInv, Edits
    PROVE  GraphInv'
  <1>1. ASSUME NEW s \in Sessions, NEW e \in Entities, NEW text \in Texts, OpenAlias(s, e, text)
        PROVE  GraphInv'
    <2> DEFINE r == [op |-> "alias", entity |-> e, text |-> text, known |-> AliasesOf(e)]
    <2>1. GraphRows' /\ Opens(s, r)
      BY <1>1, SameGraph DEF GraphInv, OpenAlias, graph
    <2>2. Spelt({text}, AliasesOf(e))
      BY <1>1 DEF OpenAlias, Spelt
    <2>3. Considered(r)
      BY <2>2 DEF Considered
    <2> QED BY <2>1, <2>3, OpensConsidered DEF GraphInv
  <1>2. ASSUME NEW s \in Sessions, CommitAlias(s) PROVE GraphInv'
    <2>1. /\ tx[s].op = "alias" /\ tx[s].entity \in DOMAIN entities
          /\ aliases' = aliases \cup {<<tx[s].entity, tx[s].text>>}
          /\ Opens(s, Idle)
          /\ UNCHANGED <<raws, evidence, claims, mentions, entities, candidates>>
      BY <1>2 DEF CommitAlias
    <2>2. tx[s].text \in Texts
      BY <2>1 DEF GraphInv, Considered, Spelt
    <2>3. aliases' \subseteq (DOMAIN entities) \X Texts
      BY <2>1, <2>2 DEF GraphInv, GraphRows
    <2>4. GraphRows'
      BY <2>1, <2>3 DEF GraphInv, GraphRows
    <2> QED BY <2>1, <2>4, OpensConsidered DEF GraphInv, Considered, Idle
  <1>3. ASSUME NEW e \in Entities, VerifyEntity(e) PROVE GraphInv'
    BY <1>3, SameGraph DEF GraphInv, Considered, VerifyEntity, graph
  <1>4. ASSUME NEW x \in Conflicts, NEW resolution, ResolveConflict(x, resolution) PROVE GraphInv'
    BY <1>4, SameGraph DEF GraphInv, Considered, ResolveConflict
  <1> QED BY <1>1, <1>2, <1>3, <1>4 DEF Edits

LEMMA GraphStep ==
    ASSUME GraphInv, [Next]_vars
    PROVE  GraphInv'
  <1>1. CASE UNCHANGED vars
    BY <1>1, SameGraph DEF GraphInv, Considered, vars, graph
  <1>2. CASE Next
    BY <1>2, JobsGraph, DeletionsGraph, ReviewsGraph, EditsGraph DEF Next
  <1> QED BY <1>1, <1>2

THEOREM GraphConsistent == Spec => []GraphInv
  <1>1. GraphInv /\ [Next]_vars => GraphInv'
    BY GraphStep
  <1> QED BY <1>1, InitGraph, PTL DEF Spec

\* Every row refers to rows that exist, for any sources, sessions and graph:
\* what the deletions and the merges commit leaves no reference to a row that
\* is gone.
THEOREM TypeCorrect == Spec => []TypeOK
  <1>1. LinkInv /\ GraphInv => TypeOK
    BY DEF LinkInv, Rows, GraphInv, GraphRows, EntityRow, TypeOK
  <1>2. Spec => []LinkInv
    BY LinksHold
  <1> QED BY <1>1, <1>2, GraphConsistent, PTL

-----------------------------------------------------------------------------
(* A deletion that nothing came in between of. *)

\* An entity nothing refers to.
Idler(e) == MentionsOf(e) \cup SubjectOf(e) \cup ObjectOf(e) = {}

\* What a deletion has read is up to date as long as it is alone.
UpToDate(t) ==
    /\ t.op = "select" => /\ t.fetches = FetchesOf(t.source)
                          /\ t.docs = Orphans(t.fetches)
                          /\ t.moved \in Replacements(t.fetches, t.docs)
    /\ t.op = "delete" => /\ ForeignKeysHold(t)
                          /\ t.entities # {} => \A e \in DOMAIN entities : Idler(e) => e \in t.entities

DeletionInv == \A s \in Sessions : Deleting(tx[s]) /\ tx[s].alone => UpToDate(tx[s])

LEMMA InitDeletion == Init => DeletionInv
  BY DEF Init, Idle, DeletionInv

\* A step that leaves the rows the deletions read.
LEMMA UpToDateFrame ==
    ASSUME NEW t, UpToDate(t), UNCHANGED <<fetches, first, links, raws, claims, mentions, entities>>
    PROVE  UpToDate(t)'
  <1>1. FetchesOf(t.source)' = FetchesOf(t.source) /\ Orphans(t.fetches)' = Orphans(t.fetches)
    BY DEF FetchesOf, Orphans
  <1>2. Replacements(t.fetches, t.docs)' = Replacements(t.fetches, t.docs)
    BY DEF Replacements
  <1>3. ForeignKeysHold(t) => ForeignKeysHold(t)'
    BY DEF ForeignKeysHold, MentionsLeft, RawsLeft, FetchesOf
  <1>4. \A e \in DOMAIN entities : Idler(e)' => Idler(e)
    BY DEF Idler, MentionsOf, SubjectOf, ObjectOf
  <1> QED BY <1>1, <1>2, <1>3, <1>4 DEF UpToDate

LEMMA SameReads ==
    ASSUME DeletionInv, UNCHANGED <<fetches, first, links, raws, claims, mentions, entities>>,
           \A x \in Sessions : Deleting(tx'[x]) /\ tx'[x].alone =>
                                tx'[x] = tx[x] \/ UpToDate(tx'[x])
    PROVE  DeletionInv'
  <1> SUFFICES ASSUME NEW x \in Sessions, NEW t, t = tx'[x], Deleting(t), t.alone PROVE UpToDate(t)'
    BY DEF DeletionInv, UpToDate, FetchesOf, Orphans, Replacements, ForeignKeysHold, MentionsLeft,
           RawsLeft, Idler, MentionsOf, SubjectOf, ObjectOf
  <1>1. UpToDate(t)
    BY DEF DeletionInv
  <1> QED BY <1>1, UpToDateFrame

\* A session that opens something, or closes.
LEMMA OpensUpToDate ==
    ASSUME DeletionInv, UNCHANGED <<fetches, first, links, raws, claims, mentions, entities>>,
           NEW s \in Sessions, NEW r, Opens(s, r), ~Deleting(r) \/ UpToDate(r)
    PROVE  DeletionInv'
  <1>1. ASSUME NEW x \in Sessions PROVE tx'[x] = tx[x] \/ ~Deleting(tx'[x]) \/ UpToDate(tx'[x])
    <2>1. CASE x = s /\ s \in DOMAIN tx
      <3>1. tx'[x] = r
        BY <2>1 DEF Opens
      <3> QED BY <3>1
    <2>2. CASE x # s \/ s \notin DOMAIN tx
      BY <2>2 DEF Opens
    <2> QED BY <2>1, <2>2
  <1> QED BY <1>1, SameReads

LEMMA OthersNotAlone ==
    ASSUME NEW s, NEW docs, NEW current, Others(s, docs, current)
    PROVE  DeletionInv'
  <1> SUFFICES ASSUME NEW x \in Sessions, Deleting(tx'[x]) PROVE ~tx'[x].alone
    BY DEF DeletionInv
  <1>1. Deleting(tx[x]) /\ tx'[x] = Overtaken(tx[x], docs, current)
    BY DEF Others, Idle
  <1> QED BY <1>1 DEF Overtaken

\* The source is read again with its documents before it is deleted.
LEMMA SelectUpToDate ==
    ASSUME DeletionInv, NEW s \in Sessions, NEW source \in Sources, SelectSource(s, source)
    PROVE  DeletionInv'
  <1> DEFINE gone == FetchesOf(source)
  <1>1. PICK moved \in Replacements(gone, Orphans(gone)) :
            Opens(s, [op |-> "select", source |-> source, fetches |-> gone,
                      docs |-> Orphans(gone), moved |-> moved, claims |-> {}, entities |-> {},
                      current |-> TRUE, alone |-> TRUE])
    BY DEF SelectSource
  <1> DEFINE r == [op |-> "select", source |-> source, fetches |-> gone,
                   docs |-> Orphans(gone), moved |-> moved, claims |-> {}, entities |-> {},
                   current |-> TRUE, alone |-> TRUE]
  <1>2. Opens(s, r)
    BY <1>1
  <1>3. UpToDate(r)
    BY <1>1 DEF UpToDate
  <1> HIDE DEF r
  <1> QED BY <1>2, <1>3, OpensUpToDate DEF SelectSource, documents, graph

LEMMA SweepSourceUpToDate ==
    ASSUME DeletionInv, Rows, GraphRows, NEW s \in Sessions, SweepSource(s)
    PROVE  DeletionInv'
  <1> DEFINE t == tx[s]
             left == {e \in evidence : e.raw \in RawsLeft(t.docs) /\ e.source # t.source}
             lost == Unsupported(left)
             bare == Unreferenced(MentionsLeft(t.docs), DOMAIN claims \ lost)
             r == [op |-> "delete", source |-> t.source, fetches |-> t.fetches,
                   docs |-> t.docs, moved |-> t.moved, claims |-> lost,
                   entities |-> bare, current |-> TRUE, alone |-> t.alone]
  <1>1. Opens(s, r) /\ t.op = "select" /\ UNCHANGED <<documents, graph>>
    BY DEF SweepSource
  <1>2. ASSUME t.alone PROVE UpToDate(r)
    <2>1. /\ t.fetches = FetchesOf(t.source)
          /\ t.docs = Orphans(t.fetches)
          /\ t.moved \in Replacements(t.fetches, t.docs)
      BY <1>1, <1>2 DEF DeletionInv, UpToDate
    <2>2. /\ r.op = "delete" /\ r.source = t.source /\ r.fetches = t.fetches /\ r.docs = t.docs
          /\ r.moved = t.moved /\ r.claims = lost /\ r.entities = bare
      OBVIOUS
    <2> HIDE DEF r
    <2>3. /\ \A m \in MentionsLeft(t.docs) : mentions[m] \notin bare
          /\ \A c \in DOMAIN claims \ lost : {claims[c].subject, claims[c].object} \cap bare = {}
      BY DEF Unreferenced
    <2>4. \A e \in DOMAIN entities : Idler(e) => e \in bare
      BY DEF Unreferenced, Idler, MentionsOf, SubjectOf, ObjectOf, MentionsLeft
    <2> HIDE DEF lost, bare
    <2>5. /\ \A d \in Documents \ (t.docs \cup DOMAIN t.moved) : first[d] \notin t.fetches
          /\ \A d \in DOMAIN t.moved : first[d] # None /\ t.moved[d] \in fetches
      BY <2>1 DEF Replacements
    <2>6. ForeignKeysHold(r)
      BY <2>1, <2>2, <2>3, <2>5 DEF ForeignKeysHold
    <2> QED BY <2>2, <2>4, <2>6 DEF UpToDate
  <1>3. r.alone = t.alone
    OBVIOUS
  <1> HIDE DEF r
  <1>4. ASSUME NEW x \in Sessions, Deleting(tx'[x]), tx'[x].alone
        PROVE  tx'[x] = tx[x] \/ UpToDate(tx'[x])
    <2>1. CASE x = s /\ s \in DOMAIN tx
      <3>1. tx'[x] = r
        BY <1>1, <2>1 DEF Opens
      <3> QED BY <1>2, <1>3, <1>4, <3>1
    <2>2. CASE x # s \/ s \notin DOMAIN tx
      BY <1>1, <2>2 DEF Opens
    <2> QED BY <2>1, <2>2
  <1> QED BY <1>1, <1>4, SameReads DEF documents, graph

LEMMA SweepDocumentUpToDate ==
    ASSUME DeletionInv, Rows, NEW s \in Sessions, NEW d \in Docs, SweepDocument(s, d)
    PROVE  DeletionInv'
  <1> DEFINE r == [op |-> "delete", source |-> None, fetches |-> {}, docs |-> {d},
                   moved |-> [x \in {} |-> None], claims |-> Impacted(d), entities |-> {},
                   current |-> TRUE, alone |-> TRUE]
  <1>1. Opens(s, r)
    BY DEF SweepDocument
  <1>2. /\ r.op = "delete" /\ r.source = None /\ r.fetches = {} /\ r.entities = {}
        /\ DOMAIN r.moved = {}
    OBVIOUS
  <1> HIDE DEF r
  <1>3. FetchesOf(None) = {}
    BY StaticTypes, NoneIsNoRow DEF FetchesOf, Rows
  <1>4. UpToDate(r)
    BY <1>2, <1>3 DEF UpToDate, ForeignKeysHold
  <1> QED BY <1>1, <1>4, OpensUpToDate DEF SweepDocument, documents, graph

\* A review opens no deletion.
LEMMA ReviewOpens ==
    ASSUME NEW s \in Sessions, NEW k \in Candidates, NEW decision, OpenReview(s, k, decision)
    PROVE  \E r : Opens(s, r) /\ ~Deleting(r)
  <1>1. CASE Opens(s, [op |-> "decide", cand |-> k, decision |-> decision, row |-> candidates[k]])
    BY <1>1
  <1>2. CASE \E from, to, reads, known, moved, dropped, added :
                Opens(s, [op |-> "merge", cand |-> k, from |-> from, to |-> to,
                          reads |-> reads, known |-> known, moved |-> moved,
                          dropped |-> dropped, added |-> added])
    BY <1>2
  <1> QED BY <1>1, <1>2, Zenon DEF OpenReview

LEMMA ReviewsUpToDate ==
    ASSUME DeletionInv, NEW s \in Sessions, Reviews(s) \/ Rollback(s)
    PROVE  DeletionInv'
  <1>1. CASE ListReview(s)
    <2>1. PICK r : Opens(s, r) /\ r.op = "list"
      BY <1>1 DEF ListReview
    <2> QED BY <1>1, <2>1, OpensUpToDate DEF ListReview, documents, graph
  <1>2. CASE CommitDecision(s)
    BY <1>2, OpensUpToDate DEF CommitDecision, Idle, documents
  <1>3. CASE CommitMerge(s)
    <2>1. Others(s, {}, TRUE)
      BY <1>3, Zenon DEF CommitMerge
    <2> QED BY <2>1, OthersNotAlone
  <1>4. CASE Rollback(s)
    BY <1>4, OpensUpToDate DEF Rollback, Idle, documents, graph
  <1>5. ASSUME NEW k \in Candidates, NEW decision, OpenReview(s, k, decision) PROVE DeletionInv'
    <2>1. \E r : Opens(s, r) /\ ~Deleting(r)
      BY <1>5, ReviewOpens
    <2> QED BY <1>5, <2>1, OpensUpToDate DEF OpenReview, documents, graph
  <1> QED BY <1>1, <1>2, <1>3, <1>4, <1>5 DEF Reviews

LEMMA JobsUpToDate ==
    ASSUME DeletionInv, Jobs
    PROVE  DeletionInv'
  <1>1. CASE Others(None, {}, TRUE)
    BY <1>1, OthersNotAlone
  <1>2. ASSUME NEW source \in Sources, EndRun(source) PROVE DeletionInv'
    BY <1>2, SameReads DEF EndRun, graph
  <1> QED BY <1>1, <1>2 DEF Jobs, StartRun, AddFetch, Parse

LEMMA EditsUpToDate ==
    ASSUME DeletionInv, Edits
    PROVE  DeletionInv'
  <1>1. ASSUME NEW s \in Sessions, NEW e \in Entities, NEW text \in Texts, OpenAlias(s, e, text)
        PROVE  DeletionInv'
    <2>1. PICK r : Opens(s, r) /\ r.op = "alias"
      BY <1>1 DEF OpenAlias
    <2> QED BY <1>1, <2>1, OpensUpToDate DEF OpenAlias, documents, graph
  <1>2. ASSUME NEW s \in Sessions, CommitAlias(s) PROVE DeletionInv'
    BY <1>2, OpensUpToDate DEF CommitAlias, Idle, documents
  <1>3. ASSUME NEW e \in Entities, VerifyEntity(e) PROVE DeletionInv'
    BY <1>3, SameReads DEF VerifyEntity, documents, graph
  <1>4. ASSUME NEW x \in Conflicts, NEW resolution, ResolveConflict(x, resolution) PROVE DeletionInv'
    BY <1>4, SameReads DEF ResolveConflict, documents
  <1> QED BY <1>1, <1>2, <1>3, <1>4 DEF Edits

THEOREM DeletionsUpToDate == Spec => []DeletionInv
  <1>1. LinkInv /\ GraphInv /\ DeletionInv /\ [Next]_vars => DeletionInv'
    <2> SUFFICES ASSUME LinkInv, GraphInv, DeletionInv, [Next]_vars PROVE DeletionInv'
      OBVIOUS
    <2>1. Rows /\ GraphRows
      BY DEF LinkInv, GraphInv
    <2>2. CASE UNCHANGED vars
      BY <2>2, SameReads DEF vars, documents, graph
    <2>3. ASSUME NEW s \in Sessions, Deletions(s) PROVE DeletionInv'
      <3>1. CASE CommitDelete(s)
        BY <3>1, OthersNotAlone DEF CommitDelete
      <3> QED BY <2>1, <2>3, <3>1, SelectUpToDate, SweepSourceUpToDate, SweepDocumentUpToDate
              DEF Deletions
    <2> QED BY <2>2, <2>3, JobsUpToDate, ReviewsUpToDate, EditsUpToDate DEF Next
  <1> QED BY <1>1, InitDeletion, LinksHold, GraphConsistent, PTL DEF Spec

\* The database refuses no deletion that nothing came in between of: what
\* delete_source and delete_document collect satisfies every foreign key.
THEOREM UndisturbedDeletionsCommit == Spec => []UndisturbedCommits
  <1>1. DeletionInv => UndisturbedCommits
    BY DEF DeletionInv, UpToDate, UndisturbedCommits
  <1> QED BY <1>1, DeletionsUpToDate, PTL

-----------------------------------------------------------------------------
(* No claim is left without evidence. *)

\* The claim has evidence that stays when the deletion commits.
Backed(c, t) == \E e \in evidence : e.claim = c /\ DocOf[e.raw] \notin t.docs /\ e.source # t.source

\* What a deletion leaves of the claims has evidence: if it deletes a source,
\* all of them, and otherwise the ones that have some now.
Supported(t) ==
    \A c \in DOMAIN claims \ t.claims :
        t.source # None \/ (\E e \in evidence : e.claim = c) => Backed(c, t)

SupportInv ==
    /\ ClaimsSupported
    /\ \A s \in Sessions : tx[s].op = "delete" /\ tx[s].current => Supported(tx[s])

LEMMA InitSupport == Init => SupportInv
  BY GraphsSettled DEF Init, Idle, SupportInv, ClaimsSupported, Unsupported

LEMMA SupportedFrame ==
    ASSUME NEW t, NEW u, Supported(t), u.claims = t.claims, u.docs = t.docs, u.source = t.source,
           evidence' = evidence, DOMAIN claims' = DOMAIN claims
    PROVE  Supported(u)'
  BY DEF Supported, Backed

\* A step that leaves the evidence and which claims there are.
LEMMA SameSupport ==
    ASSUME SupportInv, UNCHANGED <<evidence, skewed>>, DOMAIN claims' = DOMAIN claims,
           \A x \in Sessions : tx'[x].op = "delete" /\ tx'[x].current =>
                \E t : /\ Supported(t)
                       /\ tx'[x].claims = t.claims /\ tx'[x].docs = t.docs /\ tx'[x].source = t.source
    PROVE  SupportInv'
  <1>1. ClaimsSupported'
    BY DEF SupportInv, ClaimsSupported, Unsupported
  <1>2. ASSUME NEW x \in Sessions, NEW u, u = tx'[x], u.op = "delete", u.current PROVE Supported(u)'
    BY <1>2, SupportedFrame
  <1>3. \A x \in Sessions : (tx[x].op = "delete" /\ tx[x].current => Supported(tx[x]))'
    BY <1>2 DEF Supported, Backed
  <1> QED BY <1>1, <1>3 DEF SupportInv

LEMMA OpensSupported ==
    ASSUME SupportInv, UNCHANGED <<evidence, skewed>>, DOMAIN claims' = DOMAIN claims,
           NEW s \in Sessions, NEW r, Opens(s, r), r.op = "delete" => Supported(r)
    PROVE  SupportInv'
  <1>1. ASSUME NEW x \in Sessions, tx'[x].op = "delete", tx'[x].current
        PROVE  \E t : /\ Supported(t)
                      /\ tx'[x].claims = t.claims /\ tx'[x].docs = t.docs /\ tx'[x].source = t.source
    <2>1. CASE x = s /\ s \in DOMAIN tx
      <3>1. tx'[x] = r
        BY <2>1 DEF Opens
      <3> QED BY <1>1, <3>1
    <2>2. CASE x # s \/ s \notin DOMAIN tx
      <3>1. tx'[x] = tx[x]
        BY <2>2 DEF Opens
      <3> QED BY <1>1, <3>1 DEF SupportInv
    <2> QED BY <2>1, <2>2
  <1> QED BY <1>1, SameSupport

LEMMA OthersSupported ==
    ASSUME SupportInv, UNCHANGED <<evidence, skewed>>, DOMAIN claims' = DOMAIN claims,
           NEW s, Others(s, {}, TRUE)
    PROVE  SupportInv'
  <1>1. ASSUME NEW x \in Sessions, tx'[x].op = "delete", tx'[x].current
        PROVE  \E t : /\ Supported(t)
                      /\ tx'[x].claims = t.claims /\ tx'[x].docs = t.docs /\ tx'[x].source = t.source
    <2>1. Deleting(tx[x]) /\ tx'[x] = Overtaken(tx[x], {}, TRUE)
      BY <1>1 DEF Others, Idle
    <2>2. /\ tx'[x].op = tx[x].op /\ tx'[x].claims = tx[x].claims
          /\ tx'[x].docs = tx[x].docs /\ tx'[x].source = tx[x].source
      BY <2>1 DEF Overtaken
    <2>3. tx'[x].current = (tx[x].current /\ TRUE)
      BY <2>1 DEF Overtaken
    <2>4. tx[x].current
      BY <1>1, <2>3, Zenon
    <2> QED BY <1>1, <2>2, <2>4 DEF SupportInv
  <1> QED BY <1>1, SameSupport

LEMMA SweepSourceSupported ==
    ASSUME SupportInv, GraphRows, NEW s \in Sessions, SweepSource(s)
    PROVE  SupportInv'
  <1> DEFINE t == tx[s]
             left == {e \in evidence : e.raw \in RawsLeft(t.docs) /\ e.source # t.source}
             lost == Unsupported(left)
             r == [op |-> "delete", source |-> t.source, fetches |-> t.fetches,
                   docs |-> t.docs, moved |-> t.moved, claims |-> lost,
                   entities |-> Unreferenced(MentionsLeft(t.docs), DOMAIN claims \ lost),
                   current |-> TRUE, alone |-> t.alone]
  <1>1. Opens(s, r)
    BY DEF SweepSource
  <1>2. r.claims = lost /\ r.docs = t.docs /\ r.source = t.source
    OBVIOUS
  <1> HIDE DEF r
  <1>3. Supported(r)
    BY <1>2 DEF Supported, Backed, Unsupported, RawsLeft
  <1> QED BY <1>1, <1>3, OpensSupported DEF SweepSource, graph, history

LEMMA SweepDocumentSupported ==
    ASSUME SupportInv, GraphRows, NEW s \in Sessions, NEW d \in Docs, SweepDocument(s, d)
    PROVE  SupportInv'
  <1> DEFINE r == [op |-> "delete", source |-> None, fetches |-> {}, docs |-> {d},
                   moved |-> [x \in {} |-> None], claims |-> Impacted(d), entities |-> {},
                   current |-> TRUE, alone |-> TRUE]
  <1>1. Opens(s, r)
    BY DEF SweepDocument
  <1>2. r.claims = Impacted(d) /\ r.docs = {d} /\ r.source = None
    OBVIOUS
  <1> HIDE DEF r
  <1>3. \A e \in evidence : e.source # None
    BY NoneIsNoRow DEF GraphRows, Evidence
  <1>4. Supported(r)
    BY <1>2, <1>3 DEF Supported, Backed, Impacted, Unsupported
  <1> QED BY <1>1, <1>4, OpensSupported DEF SweepDocument, graph, history

LEMMA CommitDeleteSupported ==
    ASSUME SupportInv, GraphRows, NEW s \in Sessions, CommitDelete(s)
    PROVE  SupportInv'
  <1> DEFINE t == tx[s]
  <1>1. /\ t.op = "delete" /\ Deleted(t) /\ Others(s, t.docs, FALSE)
        /\ skewed' = IF t.current THEN skewed /\ t.source = None ELSE TRUE
    BY CommitDeleteRows DEF CommitDelete
  <1>2. t.current => Supported(t)
    BY <1>1 DEF SupportInv
  <1> HIDE DEF t
  <1>3. ASSUME ~skewed' PROVE Unsupported(evidence)' = {}
    <2> SUFFICES ASSUME NEW c \in DOMAIN claims' PROVE \E e \in evidence' : e.claim = c
      BY DEF Unsupported
    <2>1. t.current /\ (skewed => t.source # None)
      BY <1>1, <1>3
    <2>2. c \in DOMAIN claims \ t.claims
      BY <1>1 DEF Deleted
    <2>3. t.source # None \/ \E e \in evidence : e.claim = c
      BY <2>1, <2>2 DEF SupportInv, ClaimsSupported, Unsupported
    <2>4. PICK e \in evidence : e.claim = c /\ DocOf[e.raw] \notin t.docs /\ e.source # t.source
      BY <1>2, <2>1, <2>2, <2>3 DEF Supported, Backed
    <2>5. e.raw \in RawsLeft(t.docs)
      BY <2>4 DEF GraphRows, RawsLeft
    <2> QED BY <1>1, <2>4, <2>5 DEF Deleted
  <1>4. ASSUME NEW x \in Sessions, tx'[x].op = "delete" PROVE ~tx'[x].current
    <2>1. Deleting(tx[x]) /\ tx'[x] = Overtaken(tx[x], t.docs, FALSE)
      BY <1>1, <1>4 DEF Others, Idle
    <2>2. tx'[x].current = (tx[x].current /\ FALSE)
      BY <2>1 DEF Overtaken
    <2> QED BY <2>2, Zenon
  <1> QED BY <1>3, <1>4 DEF SupportInv, ClaimsSupported

LEMMA ReviewsSupported ==
    ASSUME SupportInv, NEW s \in Sessions, Reviews(s) \/ Rollback(s)
    PROVE  SupportInv'
  <1>1. CASE ListReview(s)
    <2>1. PICK r : Opens(s, r) /\ r.op = "list"
      BY <1>1 DEF ListReview
    <2> QED BY <1>1, <2>1, OpensSupported DEF ListReview, graph, history
  <1>2. CASE CommitDecision(s)
    BY <1>2, OpensSupported DEF CommitDecision, Idle
  <1>3. CASE CommitMerge(s)
    <2>1. Others(s, {}, TRUE) /\ UNCHANGED <<evidence, skewed>> /\ Repoint(tx[s])
      BY <1>3, Zenon DEF CommitMerge
    <2> QED BY <2>1, OthersSupported DEF Repoint
  <1>4. CASE Rollback(s)
    BY <1>4, OpensSupported DEF Rollback, Idle, graph, history
  <1>5. ASSUME NEW k \in Candidates, NEW decision, OpenReview(s, k, decision) PROVE SupportInv'
    <2>1. \E r : Opens(s, r) /\ ~Deleting(r)
      BY <1>5, ReviewOpens
    <2> QED BY <1>5, <2>1, OpensSupported DEF OpenReview, graph, history
  <1> QED BY <1>1, <1>2, <1>3, <1>4, <1>5 DEF Reviews

LEMMA JobsSupported ==
    ASSUME SupportInv, Jobs
    PROVE  SupportInv'
  <1>1. UNCHANGED <<evidence, claims, skewed>>
    BY DEF Jobs, StartRun, EndRun, AddFetch, Parse, graph, history
  <1>2. CASE Others(None, {}, TRUE)
    BY <1>1, <1>2, OthersSupported
  <1>3. CASE tx' = tx
    BY <1>1, <1>3, SameSupport DEF SupportInv
  <1> QED BY <1>2, <1>3 DEF Jobs, StartRun, EndRun, AddFetch, Parse

LEMMA EditsSupported ==
    ASSUME SupportInv, Edits
    PROVE  SupportInv'
  <1>1. ASSUME NEW s \in Sessions, NEW e \in Entities, NEW text \in Texts, OpenAlias(s, e, text)
        PROVE  SupportInv'
    <2>1. PICK r : Opens(s, r) /\ r.op = "alias"
      BY <1>1 DEF OpenAlias
    <2> QED BY <1>1, <2>1, OpensSupported DEF OpenAlias, graph, history
  <1>2. ASSUME NEW s \in Sessions, CommitAlias(s) PROVE SupportInv'
    BY <1>2, OpensSupported DEF CommitAlias, Idle
  <1>3. ASSUME NEW e \in Entities, VerifyEntity(e) PROVE SupportInv'
    BY <1>3, SameSupport DEF VerifyEntity, graph, history, SupportInv
  <1>4. ASSUME NEW x \in Conflicts, NEW resolution, ResolveConflict(x, resolution) PROVE SupportInv'
    BY <1>4, SameSupport DEF ResolveConflict, history, SupportInv
  <1> QED BY <1>1, <1>2, <1>3, <1>4 DEF Edits

\* Every claim keeps evidence unless a deletion committed on a look at the
\* evidence that another had outdated: delete_source and delete_document do
\* not overlook a claim whose last evidence they delete.
THEOREM ClaimsStaySupported == Spec => []ClaimsSupported
  <1>1. GraphInv /\ SupportInv /\ [Next]_vars => SupportInv'
    <2> SUFFICES ASSUME GraphInv, SupportInv, [Next]_vars PROVE SupportInv'
      OBVIOUS
    <2>1. CASE UNCHANGED vars
      BY <2>1, SameSupport DEF vars, graph, history, SupportInv
    <2>2. ASSUME NEW s \in Sessions, Deletions(s) PROVE SupportInv'
      <3>1. ASSUME NEW source \in Sources, SelectSource(s, source) PROVE SupportInv'
        <4>1. PICK r : Opens(s, r) /\ r.op = "select"
          BY <3>1 DEF SelectSource
        <4> QED BY <3>1, <4>1, OpensSupported DEF SelectSource, graph, history
      <3> QED BY <2>2, <3>1, SweepSourceSupported, SweepDocumentSupported, CommitDeleteSupported
              DEF Deletions, GraphInv
    <2> QED BY <2>1, <2>2, JobsSupported, ReviewsSupported, EditsSupported DEF Next
  <1>2. SupportInv => ClaimsSupported
    BY DEF SupportInv
  <1> QED BY <1>1, <1>2, InitSupport, GraphConsistent, PTL DEF Spec

-----------------------------------------------------------------------------
(* What merges leave behind. *)

\* What was merged away holds nothing.
HoldsNothing(e) == /\ \A m \in DOMAIN mentions : mentions[m] # e
                   /\ \A c \in DOMAIN claims : claims[c].subject # e /\ claims[c].object # e

LEMMA HoldersOf == MergedHoldNothing <=>
                   \/ tangled
                   \/ \A e \in DOMAIN entities : entities[e].status = "merged" => HoldsNothing(e)
  BY DEF MergedHoldNothing, MentionsOf, SubjectOf, ObjectOf, HoldsNothing

\* A merge on reads nothing has outdated, into an entity that is not merged.
LEMMA UntangledMerge ==
    ASSUME GraphInv, NEW s \in Sessions, CommitMerge(s), ~tangled'
    PROVE  LET t == tx[s] IN
           /\ ~tangled
           /\ t.cand \in DOMAIN candidates /\ t.from \in DOMAIN entities /\ t.to \in DOMAIN entities
           /\ t.from # t.to /\ entities[t.to].status # "merged"
           /\ candidates[t.cand].entity = t.to
           /\ candidates[t.cand].mention \in MentionsOf(t.from)
           /\ DOMAIN claims' = DOMAIN claims
           /\ \A c \in DOMAIN claims :
                /\ claims'[c].subject = IF claims[c].subject = t.from THEN t.to ELSE claims[c].subject
                /\ claims'[c].object = IF claims[c].object = t.from THEN t.to ELSE claims[c].object
           /\ DOMAIN mentions' = DOMAIN mentions
           /\ \A m \in DOMAIN mentions :
                mentions'[m] = IF mentions[m] = t.from THEN t.to ELSE mentions[m]
           /\ entities' = [entities EXCEPT ![t.from] = [status |-> "merged", into |-> t.to]]
  <1> DEFINE t == tx[s]
  <1>1. /\ t.op = "merge" /\ t.cand \in DOMAIN candidates
        /\ t.from \in DOMAIN entities /\ t.to \in DOMAIN entities
        /\ Repoint(t)
        /\ entities' = [entities EXCEPT ![t.from] = [status |-> "merged", into |-> t.to]]
    BY DEF CommitMerge
  <1>2. ~tangled /\ Reads(t.cand, t.from) = t.reads /\ entities[t.to].status # "merged"
    BY Zenon DEF CommitMerge
  <1>3. /\ t.from # t.to
        /\ t.reads.row.entity = t.to
        /\ t.reads.row.mention \in t.reads.mentions
    BY <1>1 DEF GraphInv, Considered
  <1> HIDE DEF t
  <1>4. /\ t.reads.row = candidates[t.cand] /\ t.reads.mentions = MentionsOf(t.from)
        /\ t.reads.subject = SubjectOf(t.from) /\ t.reads.object = ObjectOf(t.from)
    BY <1>2 DEF Reads
  <1>5. /\ DOMAIN claims' = DOMAIN claims
        /\ \A c \in DOMAIN claims :
            /\ claims'[c].subject = IF claims[c].subject = t.from THEN t.to ELSE claims[c].subject
            /\ claims'[c].object = IF claims[c].object = t.from THEN t.to ELSE claims[c].object
    BY <1>1, <1>4 DEF Repoint, SubjectOf, ObjectOf
  <1>6. /\ DOMAIN mentions' = DOMAIN mentions
        /\ \A m \in DOMAIN mentions :
            mentions'[m] = IF mentions[m] = t.from THEN t.to ELSE mentions[m]
    BY <1>1, <1>4 DEF Repoint, MentionsOf
  <1> QED BY <1>1, <1>2, <1>3, <1>4, <1>5, <1>6 DEF t

LEMMA CommitMergeHolds ==
    ASSUME GraphInv, MergedHoldNothing, NEW s \in Sessions, CommitMerge(s)
    PROVE  MergedHoldNothing'
  <1> SUFFICES ASSUME ~tangled', NEW e \in DOMAIN entities', entities'[e].status = "merged"
               PROVE  HoldsNothing(e)'
    BY DEF MergedHoldNothing, MentionsOf, SubjectOf, ObjectOf, HoldsNothing
  <1> DEFINE t == tx[s]
  <1>1. /\ ~tangled
        /\ t.from # t.to /\ entities[t.to].status # "merged"
        /\ DOMAIN claims' = DOMAIN claims
        /\ \A c \in DOMAIN claims :
            /\ claims'[c].subject = IF claims[c].subject = t.from THEN t.to ELSE claims[c].subject
            /\ claims'[c].object = IF claims[c].object = t.from THEN t.to ELSE claims[c].object
        /\ DOMAIN mentions' = DOMAIN mentions
        /\ \A m \in DOMAIN mentions :
            mentions'[m] = IF mentions[m] = t.from THEN t.to ELSE mentions[m]
        /\ entities' = [entities EXCEPT ![t.from] = [status |-> "merged", into |-> t.to]]
    BY UntangledMerge
  <1> HIDE DEF t
  <1>2. e = t.from \/ HoldsNothing(e)
    BY <1>1, HoldersOf
  <1>3. e # t.to
    BY <1>1
  <1> QED BY <1>1, <1>2, <1>3 DEF HoldsNothing

LEMMA CommitDeleteHolds ==
    ASSUME GraphInv, MergedHoldNothing, NEW s \in Sessions, CommitDelete(s)
    PROVE  MergedHoldNothing'
  <1>1. tangled' = tangled /\ Deleted(tx[s])
    BY CommitDeleteRows DEF CommitDelete, GraphInv
  <1>2. /\ \A m \in DOMAIN mentions' : m \in DOMAIN mentions /\ mentions'[m] = mentions[m]
        /\ \A c \in DOMAIN claims' : c \in DOMAIN claims /\ claims'[c] = claims[c]
        /\ \A e \in DOMAIN entities' : e \in DOMAIN entities /\ entities'[e].status = entities[e].status
    BY <1>1 DEF Deleted
  <1> SUFFICES ASSUME ~tangled, NEW e \in DOMAIN entities', entities'[e].status = "merged"
               PROVE  HoldsNothing(e)'
    BY <1>1 DEF MergedHoldNothing, MentionsOf, SubjectOf, ObjectOf, HoldsNothing
  <1>3. HoldsNothing(e)
    BY <1>2, HoldersOf
  <1> QED BY <1>2, <1>3 DEF HoldsNothing

\* The steps that leave the graph, but for the decision of a candidate.
LEMMA OtherStepsHold ==
    ASSUME UNCHANGED <<claims, mentions, entities>>, tangled => tangled'
    PROVE  MergedHoldNothing => MergedHoldNothing'
  BY DEF MergedHoldNothing, MentionsOf, SubjectOf, ObjectOf

\* Every step but two kinds of commit leaves claims, mentions and entities.
LEMMA StepsLeave ==
    ASSUME [Next]_vars
    PROVE  \/ \E s \in Sessions : CommitDelete(s) \/ CommitMerge(s)
           \/ UNCHANGED <<claims, mentions, entities>> /\ (tangled => tangled')
  <1>1. CASE UNCHANGED vars
    BY <1>1 DEF vars, graph, history
  <1>2. CASE Jobs
    BY <1>2 DEF Jobs, StartRun, EndRun, AddFetch, Parse, graph, history
  <1>3. ASSUME NEW s \in Sessions, Deletions(s), ~CommitDelete(s)
        PROVE  UNCHANGED <<claims, mentions, entities>> /\ (tangled => tangled')
    <2>1. UNCHANGED <<claims, mentions, entities>> /\ tangled' = tangled
      BY <1>3 DEF Deletions, SelectSource, SweepSource, SweepDocument, graph, history
    <2> QED BY <2>1
  <1>4. ASSUME NEW s \in Sessions, ListReview(s) \/ Rollback(s)
        PROVE  UNCHANGED <<claims, mentions, entities>> /\ (tangled => tangled')
    BY <1>4 DEF ListReview, Rollback, graph, history
  <1>5. ASSUME NEW s \in Sessions, NEW k \in Candidates, NEW decision, OpenReview(s, k, decision)
        PROVE  UNCHANGED <<claims, mentions, entities>> /\ (tangled => tangled')
    BY <1>5 DEF OpenReview, graph, history
  <1>6. ASSUME NEW s \in Sessions, CommitDecision(s)
        PROVE  UNCHANGED <<claims, mentions, entities>> /\ (tangled => tangled')
    <2>1. UNCHANGED <<claims, mentions, entities>>
      BY <1>6 DEF CommitDecision
    <2>2. tangled => tangled'
      BY <1>6, Zenon DEF CommitDecision
    <2> QED BY <2>1, <2>2
  <1>7. CASE Edits
    <2>1. UNCHANGED <<claims, mentions, entities>> /\ tangled' = tangled
      BY <1>7 DEF Edits, OpenAlias, CommitAlias, VerifyEntity, ResolveConflict, graph, history
    <2> QED BY <2>1
  <1> QED BY <1>1, <1>2, <1>3, <1>4, <1>5, <1>6, <1>7 DEF Next, Reviews

\* An entity that was merged away holds no mention and no claim: a merge takes
\* all of them along, if no other outdated what it has read.
THEOREM MergedAlwaysHoldNothing == Spec => []MergedHoldNothing
  <1>1. Init => MergedHoldNothing
    BY DEF Init, MergedHoldNothing
  <1>2. GraphInv /\ MergedHoldNothing /\ [Next]_vars => MergedHoldNothing'
    <2> SUFFICES ASSUME GraphInv, MergedHoldNothing, [Next]_vars PROVE MergedHoldNothing'
      OBVIOUS
    <2>1. CASE UNCHANGED <<claims, mentions, entities>> /\ (tangled => tangled')
      BY <2>1, OtherStepsHold
    <2> QED BY <2>1, StepsLeave, CommitDeleteHolds, CommitMergeHolds
  <1> QED BY <1>1, <1>2, GraphConsistent, PTL DEF Spec

-----------------------------------------------------------------------------
(* The aliases of an entity. *)

LEMMA CommitMergeSpells ==
    ASSUME GraphInv, OneAliasPerSpelling, NEW s \in Sessions, CommitMerge(s)
    PROVE  OneAliasPerSpelling'
  <1> DEFINE t == tx[s]
  <1> SUFFICES ASSUME ~doubled', NEW e \in DOMAIN entities', NEW x \in AliasesOf(e)',
                      NEW y \in AliasesOf(e)', Fold[x] = Fold[y]
               PROVE  x = y
    BY DEF OneAliasPerSpelling
  <1>1. t.op = "merge" /\ MigrateAliases(t) /\ DOMAIN entities' = DOMAIN entities
    BY DEF CommitMerge
  <1>2. ~doubled /\ AliasesOf(t.to) = t.known
    BY Zenon DEF CommitMerge
  <1>3. Spelt(t.moved \cup t.added, t.known)
    BY <1>1 DEF GraphInv, Considered
  <1>4. \A a, b \in AliasesOf(e) : Fold[a] = Fold[b] => a = b
    BY <1>1, <1>2 DEF OneAliasPerSpelling
  <1> HIDE DEF t
  <1>5. AliasesOf(e)' \subseteq AliasesOf(e) \cup (IF e = t.to THEN t.moved \cup t.added ELSE {})
    BY <1>1 DEF MigrateAliases, AliasesOf
  <1> QED BY <1>2, <1>3, <1>4, <1>5 DEF Spelt

LEMMA CommitAliasSpells ==
    ASSUME GraphInv, OneAliasPerSpelling, NEW s \in Sessions, CommitAlias(s)
    PROVE  OneAliasPerSpelling'
  <1> DEFINE t == tx[s]
  <1> SUFFICES ASSUME ~doubled', NEW e \in DOMAIN entities', NEW x \in AliasesOf(e)',
                      NEW y \in AliasesOf(e)', Fold[x] = Fold[y]
               PROVE  x = y
    BY DEF OneAliasPerSpelling
  <1>1. t.op = "alias" /\ aliases' = aliases \cup {<<t.entity, t.text>>} /\ entities' = entities
    BY DEF CommitAlias
  <1>2. ~doubled /\ AliasesOf(t.entity) = t.known
    BY Zenon DEF CommitAlias
  <1>3. Spelt({t.text}, t.known)
    BY <1>1 DEF GraphInv, Considered
  <1>4. \A a, b \in AliasesOf(e) : Fold[a] = Fold[b] => a = b
    BY <1>1, <1>2 DEF OneAliasPerSpelling
  <1> HIDE DEF t
  <1>5. AliasesOf(e)' \subseteq AliasesOf(e) \cup (IF e = t.entity THEN {t.text} ELSE {})
    BY <1>1 DEF AliasesOf
  <1> QED BY <1>2, <1>3, <1>4, <1>5 DEF Spelt

\* No entity gets an alias that is spelt like one it has: a merge and
\* add_entity_alias each look at the aliases there are before they add some,
\* and only two of them at once can overlook one.
THEOREM OneAliasAlways == Spec => []OneAliasPerSpelling
  <1>1. Init => OneAliasPerSpelling
    BY GraphsSettled, GraphsRefer DEF Init, OneAliasPerSpelling, AliasesOf
  <1>2. GraphInv /\ OneAliasPerSpelling /\ [Next]_vars => OneAliasPerSpelling'
    <2> SUFFICES ASSUME GraphInv, OneAliasPerSpelling, [Next]_vars PROVE OneAliasPerSpelling'
      OBVIOUS
    <2>1. CASE /\ aliases' \subseteq aliases
               /\ DOMAIN entities' \subseteq DOMAIN entities
               /\ doubled' = doubled
      BY <2>1 DEF OneAliasPerSpelling, AliasesOf
    <2>2. CASE UNCHANGED vars
      BY <2>1, <2>2 DEF vars, graph, history
    <2>3. CASE Jobs
      BY <2>1, <2>3 DEF Jobs, StartRun, EndRun, AddFetch, Parse, graph, history
    <2>4. ASSUME NEW s \in Sessions, Deletions(s) PROVE OneAliasPerSpelling'
      <3>1. CASE CommitDelete(s)
        <4>1. Deleted(tx[s]) /\ doubled' = doubled
          BY <3>1, CommitDeleteRows DEF CommitDelete, GraphInv
        <4> QED BY <2>1, <4>1 DEF Deleted
      <3>2. CASE ~CommitDelete(s)
        BY <2>1, <2>4, <3>2 DEF Deletions, SelectSource, SweepSource, SweepDocument, graph, history
      <3> QED BY <3>1, <3>2
    <2>5. ASSUME NEW s \in Sessions, ListReview(s) \/ Rollback(s) \/ CommitDecision(s)
          PROVE  OneAliasPerSpelling'
      BY <2>1, <2>5 DEF ListReview, Rollback, CommitDecision, graph, history
    <2>6. ASSUME NEW s \in Sessions, NEW k \in Candidates, NEW decision, OpenReview(s, k, decision)
          PROVE  OneAliasPerSpelling'
      BY <2>1, <2>6 DEF OpenReview, graph, history
    <2>7. CASE Edits
      <3>1. CASE \E s \in Sessions : CommitAlias(s)
        BY <3>1, CommitAliasSpells
      <3>2. CASE ~\E s \in Sessions : CommitAlias(s)
        BY <2>1, <2>7, <3>2 DEF Edits, OpenAlias, VerifyEntity, ResolveConflict, graph, history
      <3> QED BY <3>1, <3>2
    <2> QED BY <2>2, <2>3, <2>4, <2>5, <2>6, <2>7, CommitMergeSpells DEF Next, Reviews
  <1> QED BY <1>1, <1>2, GraphConsistent, PTL DEF Spec

-----------------------------------------------------------------------------
(* Where merged mentions are. *)

\* The candidate is decided for a merge, or a review will decide it for one
\* whose entities are the same already.
Decided(k) ==
    \/ candidates[k].decision = "merge"
    \/ \E s \in Sessions : tx[s].op = "decide" /\ tx[s].decision = "merge" /\ tx[s].cand = k

MergeInv ==
    tangled \/ severed \/ \A k \in DOMAIN candidates :
        Decided(k) /\ candidates[k].mention # None
            => Leads(candidates[k].entity, mentions[candidates[k].mention])

LEMMA InitMerge == Init => MergeInv
  BY GraphsSettled DEF Init, Idle, MergeInv, Decided

LEMMA LeadsToItself == \A e : Leads(e, e)
  BY DEF Leads

LEMMA LeadsFrame ==
    ASSUME NEW e, NEW to, Leads(e, to), entities' = entities
    PROVE  Leads(e, to)'
  BY DEF Leads

\* A merge leads on from the entity that goes to the one that stays.
LEMMA LeadsMerged ==
    ASSUME NEW e, NEW to, NEW x \in DOMAIN entities, NEW y \in DOMAIN entities, None \notin Entities,
           GraphRows, Leads(e, to), entities[x].into = None,
           entities' = [entities EXCEPT ![x] = [status |-> "merged", into |-> y]]
    PROVE  Leads(e, IF to = x THEN y ELSE to)'
  <1> SUFFICES ASSUME NEW S \in SUBSET (DOMAIN entities), e \in S,
                      \A z \in S : entities'[z].into \in S \cup {None}
               PROVE  (IF to = x THEN y ELSE to) \in S
    BY DEF Leads
  <1>1. \A z \in S : entities[z].into \in S \cup {None}
    OBVIOUS
  <1>2. to \in S
    BY <1>1 DEF Leads
  <1>3. entities'[x].into = y /\ y # None
    BY DEF GraphRows
  <1> QED BY <1>2, <1>3

\* A deletion that leaves no entity merged into one that goes.
LEMMA LeadsLeft ==
    ASSUME NEW e, NEW to, Leads(e, to), DOMAIN entities' \subseteq DOMAIN entities,
           \A z \in DOMAIN entities' : entities'[z].into = entities[z].into
    PROVE  Leads(e, to)'
  BY DEF Leads

\* A step that leaves mentions and entities and what the candidates refer to.
LEMMA SameMerges ==
    ASSUME GraphInv, MergeInv, UNCHANGED <<mentions, entities>>,
           ~tangled' => ~tangled, ~severed' => ~severed,
           \A k \in DOMAIN candidates' :
                /\ k \in DOMAIN candidates
                /\ candidates'[k].entity = candidates[k].entity
                /\ candidates'[k].mention = candidates[k].mention
                /\ Decided(k)' => \/ Decided(k)
                                  \/ Leads(candidates[k].entity, mentions[candidates[k].mention])
    PROVE  MergeInv'
  <1> SUFFICES ASSUME ~tangled', ~severed', NEW k \in DOMAIN candidates', Decided(k)',
                      candidates'[k].mention # None
               PROVE  Leads(candidates[k].entity, mentions[candidates[k].mention])'
    BY DEF MergeInv
  <1> DEFINE e == candidates[k].entity
             to == mentions[candidates[k].mention]
  <1>1. Leads(e, to)
    BY DEF MergeInv
  <1> QED BY <1>1 DEF Leads

LEMMA DecidedFrame ==
    ASSUME NEW k, candidates' = candidates,
           \A x \in Sessions : tx'[x].op = "decide" => tx'[x] = tx[x]
    PROVE  Decided(k)' => Decided(k)
  BY DEF Decided

LEMMA OpensNoDecision ==
    ASSUME GraphInv, NEW s \in Sessions, NEW r, Opens(s, r), r.op # "decide"
    PROVE  \A x \in Sessions : tx'[x].op = "decide" => tx'[x] = tx[x]
  BY DEF GraphInv, Opens

LEMMA OthersNoDecision ==
    ASSUME NEW s, NEW docs, NEW current, Others(s, docs, current)
    PROVE  \A x \in Sessions : tx'[x].op = "decide" => tx'[x] = tx[x]
  <1> SUFFICES ASSUME NEW x \in Sessions, tx'[x].op = "decide" PROVE tx'[x] = tx[x]
    OBVIOUS
  <1>1. CASE x # s /\ Deleting(tx[x])
    <2>1. tx'[x].op = tx[x].op
      BY <1>1 DEF Others, Overtaken
    <2> QED BY <1>1, <2>1
  <1> QED BY <1>1 DEF Others, Idle

LEMMA OpenReviewMerges ==
    ASSUME GraphInv, MergeInv, NEW s \in Sessions, NEW k \in Candidates,
           NEW decision \in {"merge", "split"}, OpenReview(s, k, decision)
    PROVE  MergeInv'
  <1> DEFINE to == candidates[k].entity
  <1>1. UNCHANGED <<mentions, entities, candidates, tangled, severed>>
    BY DEF OpenReview, graph, history
  <1>2. ASSUME decision = "merge" => mentions[candidates[k].mention] = to,
               Opens(s, [op |-> "decide", cand |-> k, decision |-> decision, row |-> candidates[k]])
        PROVE  MergeInv'
    <2>1. ASSUME NEW j, Decided(j)'
          PROVE  Decided(j) \/ Leads(candidates[j].entity, mentions[candidates[j].mention])
      <3>1. CASE candidates[j].decision = "merge"
        BY <3>1 DEF Decided
      <3>2. CASE candidates[j].decision # "merge"
        <4>1. PICK x \in Sessions : tx'[x].op = "decide" /\ tx'[x].decision = "merge" /\ tx'[x].cand = j
          BY <1>1, <2>1, <3>2 DEF Decided
        <4>2. CASE x = s
          <5>1. j = k /\ decision = "merge"
            BY <1>2, <4>1, <4>2 DEF Opens, GraphInv
          <5> QED BY <1>2, <5>1, LeadsToItself
        <4>3. CASE x # s
          <5>1. tx'[x] = tx[x]
            BY <1>2, <4>3 DEF Opens, GraphInv
          <5> QED BY <4>1, <5>1 DEF Decided
        <4> QED BY <4>2, <4>3
      <3> QED BY <3>1, <3>2
    <2> QED BY <1>1, <2>1, SameMerges
  <1>3. ASSUME NEW r, r.op # "decide", Opens(s, r) PROVE MergeInv'
    BY <1>1, <1>3, OpensNoDecision, DecidedFrame, SameMerges
  <1>4. CASE \E from, reads, known, moved, dropped, added :
                Opens(s, [op |-> "merge", cand |-> k, from |-> from, to |-> to,
                          reads |-> reads, known |-> known, moved |-> moved,
                          dropped |-> dropped, added |-> added])
    BY <1>3, <1>4
  <1> QED BY <1>2, <1>4, Zenon DEF OpenReview

LEMMA CommitDecisionMerges ==
    ASSUME GraphInv, MergeInv, NEW s \in Sessions, CommitDecision(s)
    PROVE  MergeInv'
  <1> DEFINE t == tx[s]
  <1>1. /\ t.op = "decide" /\ t.cand \in DOMAIN candidates
        /\ candidates' = [candidates EXCEPT ![t.cand].decision = t.decision]
        /\ UNCHANGED <<mentions, entities>> /\ severed' = severed
    BY DEF CommitDecision
  <1>2. ~tangled' => ~tangled
    BY Zenon DEF CommitDecision
  <1>3. Opens(s, Idle)
    BY DEF CommitDecision
  <1>4. \A x \in Sessions : tx'[x].op = "decide" => tx'[x] = tx[x]
    BY <1>3, OpensNoDecision DEF Idle
  <1> HIDE DEF t
  <1>5. ASSUME NEW k \in DOMAIN candidates'
        PROVE  /\ k \in DOMAIN candidates
               /\ candidates'[k].entity = candidates[k].entity
               /\ candidates'[k].mention = candidates[k].mention
               /\ candidates'[k].decision = IF k = t.cand THEN t.decision ELSE candidates[k].decision
    <2>1. PICK r \in CandidateRow : r = candidates[k]
      BY <1>1 DEF GraphInv, GraphRows
    <2> QED BY <1>1, <2>1 DEF CandidateRow
  <1>6. ASSUME NEW k \in DOMAIN candidates', Decided(k)' PROVE Decided(k)
    BY <1>1, <1>4, <1>5, <1>6 DEF Decided, t
  <1> QED BY <1>1, <1>2, <1>5, <1>6, SameMerges

LEMMA CommitMergeMerges ==
    ASSUME GraphInv, MergedHoldNothing, MergeInv, NEW s \in Sessions, CommitMerge(s)
    PROVE  MergeInv'
  <1> DEFINE t == tx[s]
  <1> SUFFICES ASSUME ~tangled', ~severed', NEW k \in DOMAIN candidates', Decided(k)',
                      candidates'[k].mention # None
               PROVE  Leads(candidates[k].entity, mentions[candidates[k].mention])'
    BY DEF MergeInv
  <1>1. /\ ~tangled
        /\ t.cand \in DOMAIN candidates /\ t.from \in DOMAIN entities /\ t.to \in DOMAIN entities
        /\ t.from # t.to
        /\ candidates[t.cand].entity = t.to
        /\ candidates[t.cand].mention \in MentionsOf(t.from)
        /\ DOMAIN mentions' = DOMAIN mentions
        /\ \A m \in DOMAIN mentions :
            mentions'[m] = IF mentions[m] = t.from THEN t.to ELSE mentions[m]
        /\ entities' = [entities EXCEPT ![t.from] = [status |-> "merged", into |-> t.to]]
    BY UntangledMerge
  <1>2. candidates' = [candidates EXCEPT ![t.cand].decision = "merge"] /\ severed' = severed
    BY DEF CommitMerge
  <1>3. \A x \in Sessions : tx'[x].op = "decide" => tx'[x] = tx[x]
    BY OthersNoDecision, Zenon DEF CommitMerge
  <1> HIDE DEF t
  <1>4. entities[t.from].into = None
    <2>1. ~HoldsNothing(t.from)
      BY <1>1 DEF HoldsNothing, MentionsOf
    <2>2. entities[t.from].status # "merged"
      BY <1>1, <2>1, HoldersOf
    <2> QED BY <1>1, <2>2 DEF GraphInv, GraphRows, EntityRow
  <1>5. /\ k \in DOMAIN candidates
        /\ candidates'[k].entity = candidates[k].entity
        /\ candidates'[k].mention = candidates[k].mention
        /\ k # t.cand => candidates'[k].decision = candidates[k].decision
    <2>1. PICK r \in CandidateRow : k \in DOMAIN candidates /\ r = candidates[k]
      BY <1>2 DEF GraphInv, GraphRows
    <2> QED BY <1>1, <1>2, <2>1 DEF CandidateRow
  <1> DEFINE m == candidates[k].mention
             e == candidates[k].entity
  <1>6. m \in DOMAIN mentions
    BY <1>5 DEF GraphInv, GraphRows
  <1>7. CASE k = t.cand
    <2>1. e = t.to /\ mentions'[m] = t.to
      BY <1>1, <1>7 DEF MentionsOf
    <2>2. candidates'[k].entity = t.to /\ mentions'[candidates'[k].mention] = t.to
      BY <1>5, <2>1
    <2> QED BY <2>2 DEF Leads
  <1>8. CASE k # t.cand
    <2>1. Decided(k)
      BY <1>3, <1>5, <1>8 DEF Decided
    <2>2. Leads(e, mentions[m])
      BY <1>1, <1>2, <1>5, <2>1 DEF MergeInv
    <2>3. ASSUME NEW a, NEW b, NEW x, NEW y, a = e, b = mentions[m], x = t.from, y = t.to
          PROVE  Leads(a, IF b = x THEN y ELSE b)'
      <3>1. Leads(a, b)
        BY <2>2, <2>3
      <3>2. /\ x \in DOMAIN entities /\ y \in DOMAIN entities /\ entities[x].into = None
            /\ entities' = [entities EXCEPT ![x] = [status |-> "merged", into |-> y]]
        BY <1>1, <1>4, <2>3
      <3> HIDE DEF e, m
      <3> QED BY <3>1, <3>2, LeadsMerged, NoneIsNoRow DEF GraphInv
    <2>4. /\ candidates'[k].entity = e
          /\ mentions'[candidates'[k].mention] = IF mentions[m] = t.from THEN t.to ELSE mentions[m]
      BY <1>1, <1>5, <1>6
    <2>5. ASSUME NEW a, NEW c, a = candidates'[k].entity, c = mentions'[candidates'[k].mention]
          PROVE  Leads(a, c)'
      BY <2>3, <2>4, <2>5
    <2> QED BY <2>5 DEF Leads
  <1> QED BY <1>7, <1>8

\* What a deletion collects by itself contains, with an entity, all that were
\* merged into it.
LEMMA CommitDeleteMerges ==
    ASSUME GraphInv, DeletionInv, MergedHoldNothing, MergeInv, NEW s \in Sessions, CommitDelete(s)
    PROVE  MergeInv'
  <1> DEFINE t == tx[s]
  <1> SUFFICES ASSUME ~tangled', ~severed', NEW k \in DOMAIN candidates', Decided(k)',
                      candidates'[k].mention # None
               PROVE  Leads(candidates[k].entity, mentions[candidates[k].mention])'
    BY DEF MergeInv
  <1>1. /\ t.op = "delete" /\ Deleted(t) /\ Others(s, t.docs, FALSE)
        /\ tangled' = tangled
    BY CommitDeleteRows DEF CommitDelete, GraphInv
  <1>2. ~severed /\ (t.alone \/ \A z \in DOMAIN entities \ t.entities : entities[z].into \notin t.entities)
    BY Zenon DEF CommitDelete
  <1>3. t.alone => t.entities = {} \/ \A z \in DOMAIN entities : Idler(z) => z \in t.entities
    BY <1>1 DEF DeletionInv, UpToDate
  <1>4. \A x \in Sessions : tx'[x].op = "decide" => tx'[x] = tx[x]
    BY <1>1, OthersNoDecision
  <1> HIDE DEF t
  <1>5. ASSUME NEW z \in DOMAIN entities \ t.entities, entities[z].into # None
        PROVE  entities[z].into \notin t.entities
    <2>1. HoldsNothing(z)
      BY <1>1, <1>5, HoldersOf DEF GraphInv, GraphRows, EntityRow
    <2>2. Idler(z)
      BY <2>1 DEF Idler, HoldsNothing, MentionsOf, SubjectOf, ObjectOf
    <2> QED BY <1>2, <1>3, <2>2
  <1>6. /\ DOMAIN entities' \subseteq DOMAIN entities
        /\ \A z \in DOMAIN entities' : entities'[z].into = entities[z].into
    BY <1>1, <1>5 DEF Deleted, GraphInv, GraphRows
  <1>7. /\ k \in DOMAIN candidates
        /\ candidates'[k].entity = candidates[k].entity
        /\ candidates'[k].decision = candidates[k].decision
        /\ candidates'[k].mention = candidates[k].mention
        /\ candidates[k].mention \in DOMAIN mentions'
        /\ mentions'[candidates[k].mention] = mentions[candidates[k].mention]
    BY <1>1 DEF Deleted
  <1>8. Decided(k)
    BY <1>4, <1>7 DEF Decided
  <1>9. Leads(candidates[k].entity, mentions[candidates[k].mention])
    BY <1>1, <1>2, <1>7, <1>8 DEF MergeInv
  <1>10. ASSUME NEW a, NEW b, a = candidates[k].entity, b = mentions[candidates[k].mention]
         PROVE  Leads(a, b)'
    BY <1>6, <1>9, <1>10, LeadsLeft
  <1> QED BY <1>7, <1>10 DEF Leads

\* The steps that neither decide a candidate nor merge nor delete.
LEMMA OtherStepsMerge ==
    ASSUME GraphInv, MergeInv, UNCHANGED <<mentions, entities, candidates, tangled, severed>>,
           \A x \in Sessions : tx'[x].op = "decide" => tx'[x] = tx[x]
    PROVE  MergeInv'
  BY DecidedFrame, SameMerges

LEMMA EditsMerge ==
    ASSUME GraphInv, MergeInv, Edits
    PROVE  MergeInv'
  <1>1. UNCHANGED <<mentions, entities, candidates, tangled, severed>>
    BY DEF Edits, OpenAlias, CommitAlias, VerifyEntity, ResolveConflict, graph, history
  <1>2. ASSUME NEW s \in Sessions, NEW e \in Entities, NEW text \in Texts, OpenAlias(s, e, text)
        PROVE  MergeInv'
    <2>1. PICK r : Opens(s, r) /\ r.op = "alias"
      BY <1>2 DEF OpenAlias
    <2> QED BY <1>1, <2>1, OpensNoDecision, OtherStepsMerge
  <1>3. ASSUME NEW s \in Sessions, CommitAlias(s) PROVE MergeInv'
    BY <1>1, <1>3, OpensNoDecision, OtherStepsMerge DEF CommitAlias, Idle
  <1>4. CASE tx' = tx
    BY <1>1, <1>4, OtherStepsMerge
  <1> QED BY <1>2, <1>3, <1>4 DEF Edits, VerifyEntity, ResolveConflict

\* A candidate whose recorded decision is a merge was merged: its mention is
\* with its entity, or where later merges lead from there, unless merges raced
\* or a deletion that others had outdated took an entity on the way. No
\* deletion that runs by itself loses what a review has decided.
THEOREM MergesTakeEffect == Spec => []MergeTookEffect
  <1>1. GraphInv /\ DeletionInv /\ MergedHoldNothing /\ MergeInv /\ [Next]_vars => MergeInv'
    <2> SUFFICES ASSUME GraphInv, DeletionInv, MergedHoldNothing, MergeInv, [Next]_vars
                 PROVE  MergeInv'
      OBVIOUS
    <2>1. CASE UNCHANGED vars
      <3>1. UNCHANGED <<mentions, entities, candidates, tangled, severed>> /\ tx' = tx
        BY <2>1 DEF vars, graph, history
      <3> QED BY <3>1, OtherStepsMerge
    <2>2. CASE Jobs
      <3>1. UNCHANGED <<mentions, entities, candidates, tangled, severed>>
        BY <2>2 DEF Jobs, StartRun, EndRun, AddFetch, Parse, graph, history
      <3>2. Others(None, {}, TRUE) \/ tx' = tx
        BY <2>2 DEF Jobs, StartRun, EndRun, AddFetch, Parse
      <3> QED BY <3>1, <3>2, OthersNoDecision, OtherStepsMerge
    <2>3. ASSUME NEW s \in Sessions, Deletions(s), ~CommitDelete(s) PROVE MergeInv'
      <3>1. UNCHANGED <<mentions, entities, candidates, tangled, severed>>
        BY <2>3 DEF Deletions, SelectSource, SweepSource, SweepDocument, graph, history
      <3>2. ASSUME NEW source \in Sources, SelectSource(s, source)
            PROVE  \E r : Opens(s, r) /\ r.op # "decide"
        BY <3>2 DEF SelectSource
      <3>3. CASE SweepSource(s)
        BY <3>1, <3>3, OpensNoDecision, OtherStepsMerge DEF SweepSource
      <3>4. ASSUME NEW d \in Docs, SweepDocument(s, d)
            PROVE  \E r : Opens(s, r) /\ r.op # "decide"
        BY <3>4 DEF SweepDocument
      <3> QED BY <2>3, <3>1, <3>2, <3>3, <3>4, OpensNoDecision, OtherStepsMerge DEF Deletions
    <2>4. ASSUME NEW s \in Sessions, ListReview(s) \/ Rollback(s) PROVE MergeInv'
      <3>1. UNCHANGED <<mentions, entities, candidates, tangled, severed>>
        BY <2>4 DEF ListReview, Rollback, graph, history
      <3>2. \E r : Opens(s, r) /\ r.op \in {"list", "idle"}
        BY <2>4 DEF ListReview, Rollback, Idle
      <3> QED BY <3>1, <3>2, OpensNoDecision, OtherStepsMerge
    <2>5. ASSUME NEW s \in Sessions, Reviews(s) PROVE MergeInv'
      BY <2>4, <2>5, OpenReviewMerges, CommitDecisionMerges, CommitMergeMerges DEF Reviews
    <2> QED BY <2>1, <2>2, <2>3, <2>4, <2>5, EditsMerge, CommitDeleteMerges DEF Next
  <1>2. MergeInv => MergeTookEffect
    BY DEF MergeInv, MergeTookEffect, Decided
  <1> QED BY <1>1, <1>2, InitMerge, GraphConsistent, DeletionsUpToDate, MergedAlwaysHoldNothing, PTL
          DEF Spec
=============================================================================
