------------------------- MODULE ParsePipelineProofs -------------------------
(***************************************************************************)
(* The documents and links of ParsePipeline, for any number of parse runs, *)
(* pages, contents, deletions, kills and retries.                          *)
(*                                                                         *)
(* StoreFacts is what holds of the rows, JobFacts(p) what the job of a run *)
(* knows about its scope: which fetches it may hold, which of them are     *)
(* done. Rows change in three ways (a fetch, a document with its links, a  *)
(* deletion), and each leaves done what was done (Grows); so the facts of  *)
(* a job are disturbed by its own steps only. LogInv is what the crawls    *)
(* keep of the log; the types and bounds follow from all of them.          *)
(***************************************************************************)
EXTENDS ParsePipeline, SequenceTheorems, FiniteSetTheorems, WellFoundedInduction, TLAPS

PCs == {"idle", "dead", "closed", "done"} \cup Steps

JobType == [pc : PCs, frozen : SUBSET Nat, todo : SUBSET Nat, doc : Documents \cup {None},
            got : SUBSET Documents, queue : SUBSET Documents,
            extractor : {None, "running", "complete", "failed"},
            snapshot : {None} \cup Nat, tries : Nat]
RowType == [status : {None, "active", "stopped", "superseded", "failed", "complete"},
            source : Sources \cup {None}, scope : {None} \cup Scopes,
            snapshot : {None} \cup Nat, first : {None} \cup Nat, erased : BOOLEAN]

Types == job \in [Runs -> JobType] /\ row \in [Runs -> RowType]

StoreFacts ==
    /\ \E S : log \in Seq(S)
    /\ \A f \in Fetches : Content(f) \in Contents
    /\ \A r \in reading : r.content \in Contents
    /\ docs \subseteq Documents
    /\ links \subseteq docs \X Fetches
    /\ deletions \in [Contents -> 0..MaxDeletes]
    /\ \A d, e \in docs : d[1] = e[1] => d = e
    /\ \A l \in links : l[1][1] = Content(l[2])

\* A fetch has its document, or an admin deleted the document of its content.
Done(f) == Linked(f) \/ deletions[Content(f)] > 0
\* A document is there, or was deleted.
Known(d) == d \in docs \/ deletions[d[1]] > 0

Looping == {"load", "create", "link", "tick"}
Past == {"pick", "ask", "asked", "finish", "complete"}

InScope(p, f) == /\ f \in Fetches
                 /\ SnapshotKept(p) => f <= row[p].first
                 /\ OfSource(f, row[p].source)

JobFacts(p) ==
    /\ row[p].status = None => job[p].pc = "idle"
    /\ job[p].pc \in {"idle", "launch"} => job[p].frozen = {}
    /\ \A f \in job[p].frozen : InScope(p, f)
    /\ job[p].todo \subseteq job[p].frozen
    /\ job[p].pc \in Looping => job[p].todo # {}
    /\ job[p].pc \in Past => job[p].todo = {}
    /\ \A f \in job[p].frozen \ job[p].todo : Done(f)
    /\ job[p].pc = "link" => /\ job[p].doc \in Documents
                             /\ job[p].doc[1] = Content(Current(p))
                             /\ Known(job[p].doc)
    /\ job[p].pc = "tick" => Done(Current(p))

ParseInv == Types /\ StoreFacts /\ \A p \in Runs : JobFacts(p)

\* What a run knows of its snapshots: none before its first try; the one of its
\* spec is the first, unless the request erased that.
SnapshotFacts(p) ==
    /\ job[p].pc = "idle" \/ (job[p].pc = "launch" /\ job[p].tries = 0) => row[p].first = None
    /\ row[p].first = None => row[p].snapshot = None
    /\ ~row[p].erased => row[p].snapshot = row[p].first
    /\ job[p].pc = "freeze" /\ SnapshotKept(p) => job[p].snapshot = row[p].first
Snapshots == \A p \in Runs : SnapshotFacts(p)

-----------------------------------------------------------------------------
(* The rows.                                                               *)

\* Every set of natural numbers that is not empty has its minimum.
LEMMA HasLeast ==
    ASSUME NEW T, T \subseteq Nat, T # {}
    PROVE  \E x \in T : \A y \in T : x <= y
  <1> DEFINE R == {ss \in Nat \X Nat : ss[1] < ss[2]}
  <1>1. IsWellFoundedOn(R, Nat)
    BY NatLessThanWellFounded, Zenon DEF OpToRel
  <1>2. \E x \in T : \A y \in T : ~(<<y, x>> \in R)
    <2> HIDE DEF R
    <2> QED  BY <1>1, WFMin
  <1>3. ASSUME NEW x \in Nat, NEW y \in Nat, y < x PROVE <<y, x>> \in R
    BY <1>3
  <1>4. PICK x \in T : \A y \in T : ~(<<y, x>> \in R)
    BY <1>2
  <1>5. \A y \in T : ~(y < x) /\ y \in Nat /\ x \in Nat
    BY <1>3, <1>4
  <1>6. \A y \in T : x <= y
    BY <1>5
  <1> QED  BY <1>6

LEMMA Least ==
    ASSUME NEW T, T \subseteq Nat, T # {}
    PROVE  Min(T) \in T
  BY HasLeast DEF Min

\* A set of natural numbers up to n has its maximum.
LEMMA Greatest ==
    ASSUME NEW n \in Nat, NEW T, T \subseteq 1..n, T # {}
    PROVE  Max(T) \in T
  <1> DEFINE U == {n - x : x \in T}
  <1>1. \A x \in T : x \in Nat /\ n - x \in Nat
    OBVIOUS
  <1>2. U \subseteq Nat
    <2>1. \A u \in U : \E x \in T : u = n - x
      OBVIOUS
    <2> HIDE DEF U
    <2> QED  BY <1>1, <2>1
  <1>3. U # {} /\ \A x \in T : n - x \in U
    OBVIOUS
  <1>4. PICK u \in U : \A v \in U : u <= v
    <2> HIDE DEF U
    <2> QED  BY <1>2, <1>3, HasLeast
  <1>5. PICK x \in T : u = n - x
    OBVIOUS
  <1>6. \A y \in T : n - x <= n - y
    BY <1>3, <1>4, <1>5
  <1>7. \A y \in T : x >= y
    BY <1>1, <1>6
  <1> QED  BY <1>7 DEF Max

\* What was stored stays, and what was done stays done.
Grows ==
    /\ Fetches \subseteq Fetches'
    /\ \A f \in Fetches : log'[f] = log[f]
    /\ \A f \in Fetches : Done(f) => Done(f)'
    /\ \A d \in Documents : Known(d) => Known(d)'

\* Nothing but the log changes.
LEMMA LogGrows ==
    ASSUME StoreFacts, NEW r \in reading, StorePage(r)
    PROVE  StoreFacts' /\ Grows
  <1>1. PICK S : log \in Seq(S)
    BY DEF StoreFacts
  <1> DEFINE T == S \cup {r}
  <1>2. log \in Seq(T) /\ r \in T
    BY <1>1
  <1>3. log' = Append(log, r) /\ UNCHANGED <<docs, links, deletions>> /\ reading' \subseteq reading
    BY DEF StorePage
  <1>4. /\ log' \in Seq(T) /\ Len(log') = Len(log) + 1 /\ Len(log) \in Nat
        /\ \A i \in 1..Len(log) : log'[i] = log[i]
        /\ log'[Len(log) + 1] = r
    <2> HIDE DEF T
    <2> QED  BY <1>2, <1>3, AppendProperties, LenProperties
  <1>5. Fetches = 1..Len(log) /\ Fetches' = 1..(Len(log) + 1)
    <2> HIDE DEF T
    <2> QED  BY <1>2, <1>4, LenProperties DEF Fetches
  <1>6. Fetches \subseteq Fetches' /\ \A f \in Fetches : log'[f] = log[f] /\ Content(f)' = Content(f)
    BY <1>4, <1>5 DEF Content
  <1>7. \A f \in Fetches' : f \in Fetches \/ f = Len(log) + 1
    BY <1>4, <1>5
  <1>8. \A f \in Fetches' : Content(f)' \in Contents
    <2>1. r.content \in Contents /\ \A f \in Fetches : Content(f) \in Contents
      BY DEF StoreFacts
    <2>2. \A f \in Fetches' : f = Len(log) + 1 => Content(f)' = r.content
      BY <1>4 DEF Content
    <2> QED  BY <1>6, <1>7, <2>1, <2>2
  <1>9. links \subseteq docs \X Fetches' /\ \A l \in links : l[1][1] = Content(l[2])'
    BY <1>6 DEF StoreFacts
  <1>10. StoreFacts'
    BY <1>3, <1>4, <1>8, <1>9 DEF StoreFacts
  <1>11. \A f \in Fetches : Done(f) => Done(f)'
    BY <1>3, <1>6 DEF Done, Linked
  <1>12. \A d \in Documents : Known(d) => Known(d)'
    BY <1>3 DEF Known
  <1> QED  BY <1>6, <1>10, <1>11, <1>12 DEF Grows

\* The document goes with its links, and whoever had it finds it was deleted.
LEMMA DeletionGrows ==
    ASSUME StoreFacts, NEW d \in docs, DeleteDocument(d)
    PROVE  StoreFacts' /\ Grows
  <1>1. /\ docs' = docs \ {d} /\ links' = {l \in links : l[1] # d}
        /\ deletions' = [deletions EXCEPT ![d[1]] = @ + 1]
        /\ deletions[d[1]] < MaxDeletes /\ UNCHANGED <<log, reading>>
    BY DEF DeleteDocument
  <1>2. d \in Documents /\ d[1] \in Contents
    BY DEF StoreFacts, Documents
  <1>3. MaxDeletes \in Nat
    BY BoundAssumption
  <1>4. /\ deletions' \in [Contents -> 0..MaxDeletes]
        /\ deletions'[d[1]] > 0
        /\ \A c \in Contents : deletions[c] > 0 => deletions'[c] > 0
    BY <1>1, <1>2, <1>3 DEF StoreFacts
  <1>5. StoreFacts'
    <2>1. UNCHANGED Fetches /\ \A f : Content(f)' = Content(f)
      BY <1>1 DEF Fetches, Content
    <2>2. links' \subseteq docs' \X Fetches'
      BY <1>1, <2>1 DEF StoreFacts
    <2> QED  BY <1>1, <1>4, <2>1, <2>2 DEF StoreFacts
  <1>6. ASSUME NEW f \in Fetches, Done(f) PROVE Done(f)'
    <2>1. Content(f) \in Contents /\ Content(f)' = Content(f)
      BY <1>1 DEF StoreFacts, Content
    <2>2. CASE deletions[Content(f)] > 0
      BY <1>4, <2>1, <2>2 DEF Done
    <2>3. CASE Linked(f)
      <3>1. PICK e \in docs : <<e, f>> \in links
        BY <2>3 DEF Linked
      <3>2. CASE e = d
        <4>1. d[1] = Content(f)
          BY <3>1, <3>2 DEF StoreFacts
        <4> QED  BY <1>4, <2>1, <4>1 DEF Done
      <3>3. CASE e # d
        <4>1. e \in docs' /\ <<e, f>> \in links'
          BY <1>1, <3>1, <3>3
        <4> QED  BY <4>1 DEF Done, Linked
      <3> QED  BY <3>2, <3>3
    <2> QED  BY <1>6, <2>2, <2>3 DEF Done
  <1>7. ASSUME NEW e \in Documents, Known(e) PROVE Known(e)'
    <2>1. e[1] \in Contents
      BY DEF Documents
    <2> QED  BY <1>1, <1>4, <1>7, <2>1 DEF Known
  <1> QED  BY <1>1, <1>5, <1>6, <1>7 DEF Grows, Fetches

\* Links of the content's document, with the document if there was none.
LEMMA LinkingGrows ==
    ASSUME StoreFacts, UNCHANGED <<log, reading, deletions>>,
           NEW new \in SUBSET Documents, docs' = docs \cup new,
           \A d, e \in docs' : d[1] = e[1] => d = e,
           links \subseteq links', links' \subseteq docs' \X Fetches,
           \A l \in links' : l[1][1] = Content(l[2])
    PROVE  StoreFacts' /\ Grows
  <1>1. UNCHANGED Fetches /\ \A f : Content(f)' = Content(f)
    BY DEF Fetches, Content
  <1>2. StoreFacts'
    BY <1>1 DEF StoreFacts
  <1>3. Grows
    BY <1>1 DEF Grows, Done, Linked, Known
  <1> QED  BY <1>2, <1>3

LEMMA StoreStays ==
    ASSUME StoreFacts, UNCHANGED <<log, docs, links, deletions>>,
           \A r \in reading' : r.content \in Contents
    PROVE  StoreFacts' /\ Grows
  <1>1. UNCHANGED Fetches /\ \A f : Content(f)' = Content(f)
    BY DEF Fetches, Content
  <1>2. StoreFacts'
    BY <1>1 DEF StoreFacts
  <1>3. Grows
    BY <1>1 DEF Grows, Done, Linked, Known
  <1> QED  BY <1>2, <1>3

\* A row keeps its source and first snapshot, and what erased its snapshot.
RowStays(p) ==
    /\ row'[p].source = row[p].source /\ row'[p].first = row[p].first
    /\ row[p].erased => row'[p].erased
    /\ row'[p].status = None => row[p].status = None

SpecStays(p) == row'[p].snapshot = row[p].snapshot /\ row'[p].erased = row[p].erased

LEMMA StaysInScope ==
    ASSUME Grows, NEW p \in Runs, RowStays(p), job'[p].tries = job[p].tries,
           NEW f, InScope(p, f)
    PROVE  InScope(p, f)'
  BY DEF Grows, RowStays, InScope, SnapshotKept, OfSource, PageOf

\* What a job knows outlasts the steps of all others.
LEMMA FactsLast ==
    ASSUME Types, StoreFacts, Grows, NEW p \in Runs, JobFacts(p), UNCHANGED job[p],
           RowStays(p)
    PROVE  JobFacts(p)'
  <1>1. /\ job[p].frozen \subseteq Nat /\ job[p].todo \subseteq Nat
        /\ job[p].todo \subseteq job[p].frozen
    BY DEF Types, JobType, JobFacts
  <1>2. \A f \in job[p].frozen : f \in Fetches
    BY DEF JobFacts, InScope
  <1>3. \A f \in job[p].frozen : InScope(p, f)'
    BY StaysInScope DEF JobFacts
  <1>4. \A f \in job[p].frozen \ job[p].todo : Done(f)'
    BY <1>2 DEF JobFacts, Grows
  <1>5. job[p].pc \in Looping => Current(p) \in job[p].todo
    BY <1>1, Least DEF JobFacts, Current
  <1>6. UNCHANGED Current(p)
    BY DEF Current
  <1>7. job[p].pc = "tick" => Done(Current(p))'
    <2> SUFFICES ASSUME job[p].pc = "tick" PROVE Done(Current(p))'
      OBVIOUS
    <2>1. Current(p) \in Fetches /\ Done(Current(p))
      BY <1>1, <1>2, <1>5 DEF JobFacts, Looping
    <2>2. ASSUME NEW f \in Fetches, f = Current(p), Done(f) PROVE Done(Current(p))'
      <3>1. Done(f)'
        BY <2>2 DEF Grows
      <3>2. Content(f)' = Content(Current(p))' /\ Linked(f)' = Linked(Current(p))'
        BY <1>6, <2>2 DEF Content, Linked
      <3> QED  BY <3>1, <3>2 DEF Done
    <2> QED  BY <2>1, <2>2
  <1>8. job[p].pc = "link" => /\ job[p].doc[1] = Content(Current(p))'
                              /\ Known(job[p].doc)'
    <2> SUFFICES ASSUME job[p].pc = "link"
                 PROVE  job[p].doc[1] = Content(Current(p))' /\ Known(job[p].doc)'
      OBVIOUS
    <2>1. /\ Current(p) \in Fetches /\ job[p].doc \in Documents
          /\ job[p].doc[1] = Content(Current(p)) /\ Known(job[p].doc)
      BY <1>1, <1>2, <1>5 DEF JobFacts, Looping
    <2>2. Content(Current(p))' = Content(Current(p))
      BY <1>6, <2>1 DEF Grows, Content
    <2>3. PICK d \in Documents : d = job[p].doc
      BY <2>1
    <2>4. Known(d)'
      BY <2>1, <2>3 DEF Grows
    <2> QED  BY <2>1, <2>2, <2>3, <2>4 DEF Known
  <1> QED  BY <1>3, <1>4, <1>7, <1>8 DEF JobFacts, RowStays

-----------------------------------------------------------------------------
(* The steps of a job.                                                     *)

LEMMA CurrentIsFetch ==
    ASSUME ParseInv, NEW p \in Runs, job[p].pc \in Looping
    PROVE  /\ Current(p) \in job[p].todo /\ Current(p) \in job[p].frozen
           /\ Current(p) \in Fetches /\ Content(Current(p)) \in Contents
  <1>1. /\ job[p].todo \subseteq Nat /\ job[p].todo # {}
        /\ job[p].todo \subseteq job[p].frozen
    BY DEF ParseInv, Types, JobType, JobFacts
  <1>2. Current(p) \in job[p].todo
    BY <1>1, Least DEF Current
  <1> QED  BY <1>1, <1>2 DEF ParseInv, JobFacts, InScope, StoreFacts

LEMMA LogIsCounted == ASSUME StoreFacts PROVE Len(log) \in Nat /\ Fetches = 1..Len(log)
  <1>1. PICK S : log \in Seq(S)
    BY DEF StoreFacts
  <1> QED  BY <1>1, LenProperties DEF Fetches

\* One run's job and row change, and its facts hold again.
LEMMA OneMoves ==
    ASSUME ParseInv, Types', StoreFacts', Grows, NEW p \in Runs, JobFacts(p)',
           \A q \in Runs \ {p} : UNCHANGED job[q],
           \A q \in Runs \ {p} : RowStays(q)
    PROVE  ParseInv'
  <1>1. ASSUME NEW q \in Runs, q # p PROVE JobFacts(q)'
    BY <1>1, FactsLast DEF ParseInv
  <1> QED  BY <1>1 DEF ParseInv

\* The scope is kept, and the job is not in the loop over it afterwards.
LEMMA ScopeKept ==
    ASSUME ParseInv, Grows, NEW p \in Runs, Types',
           job'[p].frozen = job[p].frozen, job'[p].todo = job[p].todo,
           job'[p].pc \notin Looping \cup {"idle", "launch"},
           job'[p].pc \in Past => job[p].todo = {},
           job'[p].tries = job[p].tries, RowStays(p), row'[p].status # None
    PROVE  JobFacts(p)'
  <1>1. \A f \in job[p].frozen : f \in Fetches /\ InScope(p, f)
    BY DEF ParseInv, JobFacts, InScope
  <1>2. \A f \in job'[p].frozen : InScope(p, f)'
    BY <1>1, StaysInScope
  <1>3. \A f \in job'[p].frozen \ job'[p].todo : Done(f)'
    BY <1>1 DEF ParseInv, JobFacts, Grows
  <1>4. job[p].todo \subseteq job[p].frozen
    BY DEF ParseInv, JobFacts
  <1> QED  BY <1>2, <1>3, <1>4 DEF JobFacts, Looping

Moves(p, from, to) ==
    /\ job[p].pc \in from
    /\ job'[p].pc \in to
    /\ job'[p].frozen = job[p].frozen /\ job'[p].todo = job[p].todo
    /\ job'[p].tries = job[p].tries /\ job'[p].snapshot = job[p].snapshot
    /\ \A q \in Runs \ {p} : UNCHANGED job[q]
    /\ \A q \in Runs : RowStays(q) /\ SpecStays(q)

\* The steps outside the loop, by where they lead.
LEMMA StepsOutside ==
    ASSUME ParseInv, NEW p \in Runs
    PROVE  /\ Pick(p) => Moves(p, {"pick"}, {"close", "finish", "ask"})
           /\ \A d \in Documents : Extract(p, d) => Moves(p, {"ask"}, {"asked", "fail"})
           /\ Extracted(p) => Moves(p, {"asked"}, {"close", "finish", "ask"})
           /\ ModelFails(p) => Moves(p, {"create", "ask"}, {"fail"})
           /\ Finish(p) => Moves(p, {"finish"}, {"complete", "close"})
           /\ Complete(p) => Moves(p, {"complete"}, {"done"})
           /\ Close(p) => Moves(p, {"close"}, {"closed"})
           /\ Fail(p) => Moves(p, {"fail"}, {"closed", "dead"})
           /\ Kill(p) => Moves(p, Steps, {"dead"})
  <1> USE DEF ParseInv, Types, Moves, Goto, RowStays, SpecStays
  <1>1. Pick(p) => Moves(p, {"pick"}, {"close", "finish", "ask"})
    BY DEF Pick, JobType
  <1>2. ASSUME NEW d \in Documents, Extract(p, d) PROVE Moves(p, {"ask"}, {"asked", "fail"})
    BY <1>2 DEF Extract, JobType
  <1>3. Extracted(p) => Moves(p, {"asked"}, {"close", "finish", "ask"})
    BY DEF Extracted, JobType
  <1>4. ModelFails(p) => Moves(p, {"create", "ask"}, {"fail"})
    BY DEF ModelFails, JobType
  <1>5. Finish(p) => Moves(p, {"finish"}, {"complete", "close"})
    BY DEF Finish, JobType
  <1>6. Complete(p) => Moves(p, {"complete"}, {"done"})
    BY NoneAssumption DEF Complete, JobType, RowType
  <1>7. Close(p) => Moves(p, {"close"}, {"closed"})
    BY NoneAssumption DEF Close, JobType, RowType
  <1>8. Fail(p) => Moves(p, {"fail"}, {"closed", "dead"})
    BY NoneAssumption DEF Fail, JobType, RowType
  <1>9. Kill(p) => Moves(p, Steps, {"dead"})
    BY DEF Kill, JobType
  <1> QED  BY <1>1, <1>2, <1>3, <1>4, <1>5, <1>6, <1>7, <1>8, <1>9

LEMMA OutsideKeeps ==
    ASSUME ParseInv, Types', StoreFacts', Grows, NEW p \in Runs,
           \/ Moves(p, {"pick"}, {"close", "finish", "ask"})
           \/ Moves(p, {"ask"}, {"asked", "fail"})
           \/ Moves(p, {"asked"}, {"close", "finish", "ask"})
           \/ Moves(p, {"create", "ask"}, {"fail"})
           \/ Moves(p, {"finish"}, {"complete", "close"})
           \/ Moves(p, {"complete"}, {"done"})
           \/ Moves(p, {"close"}, {"closed"})
           \/ Moves(p, {"fail"}, {"closed", "dead"})
           \/ Moves(p, Steps, {"dead"})
    PROVE  ParseInv'
  <1>1. job[p].pc # "idle"
    BY DEF Moves, Steps, Pages
  <1>2. row'[p].status # None
    BY <1>1 DEF Moves, RowStays, ParseInv, JobFacts
  <1>3. job'[p].pc \in Past => job[p].todo = {}
    BY DEF Moves, Past, ParseInv, JobFacts
  <1>4. job'[p].pc \notin Looping \cup {"idle", "launch"}
    BY DEF Moves, Looping
  <1>5. JobFacts(p)'
    BY <1>2, <1>3, <1>4, ScopeKept DEF Moves
  <1> QED  BY <1>5, OneMoves DEF Moves

\* A scope that is not yet frozen is empty.
LEMMA LaunchKeeps ==
    ASSUME ParseInv, NEW p \in Runs, Launch(p)
    PROVE  ParseInv'
  <1> DEFINE taken == IF row[p].snapshot = None THEN Len(log) ELSE row[p].snapshot
             first == IF row[p].first = None THEN taken ELSE row[p].first
  <1>1. /\ job[p].pc = "launch" /\ UNCHANGED store
        /\ \/ Goto(p, "dead") /\ UNCHANGED row
           \/ /\ job' = [job EXCEPT ![p].pc = "freeze", ![p].snapshot = taken]
              /\ row' = [row EXCEPT ![p].status = "active", ![p].snapshot = taken,
                                    ![p].first = first]
    <2> HIDE DEF first
    <2>1. row[p].first = None \/ row[p].first # None
      OBVIOUS
    <2> QED  BY DEF Launch, first, ParseInv, Types, RowType
  <1>2. job[p].frozen = {} /\ job[p].todo = {} /\ row[p].status # None
    BY <1>1 DEF ParseInv, JobFacts
  <1>3. StoreFacts' /\ Grows
    BY <1>1, StoreStays DEF ParseInv, StoreFacts, store
  <1>4. taken \in Nat /\ first \in Nat
    <2>1. Len(log) \in Nat /\ row[p] \in RowType
      BY LogIsCounted DEF ParseInv, Types
    <2> QED  BY <2>1 DEF RowType
  <1> HIDE DEF taken, first
  <1>5. /\ job'[p].pc \in {"dead", "freeze"} /\ job'[p].frozen = {} /\ job'[p].todo = {}
        /\ \A q \in Runs \ {p} : UNCHANGED <<job[q], row[q]>>
        /\ row'[p].status # None
        /\ Types'
    <2>1. CASE Goto(p, "dead") /\ UNCHANGED row
      BY <1>2, <2>1 DEF Goto, ParseInv, Types, JobType, PCs
    <2>2. CASE /\ job' = [job EXCEPT ![p].pc = "freeze", ![p].snapshot = taken]
               /\ row' = [row EXCEPT ![p].status = "active", ![p].snapshot = taken,
                                     ![p].first = first]
      <3>1. /\ job'[p].pc = "freeze" /\ job'[p].frozen = {} /\ job'[p].todo = {}
            /\ \A q \in Runs \ {p} : UNCHANGED job[q]
            /\ job' \in [Runs -> JobType]
        <4>1. [job[p] EXCEPT !.pc = "freeze", !.snapshot = taken] \in JobType
          BY <1>4 DEF ParseInv, Types, JobType, PCs, Steps, Pages
        <4>2. job' = [job EXCEPT ![p] = [job[p] EXCEPT !.pc = "freeze", !.snapshot = taken]]
          BY <2>2 DEF ParseInv, Types, JobType
        <4>3. job'[p].pc = "freeze" /\ job'[p].frozen = {} /\ job'[p].todo = {}
          BY <1>2, <4>2 DEF ParseInv, Types, JobType
        <4> QED  BY <4>1, <4>2, <4>3 DEF ParseInv, Types
      <3>2. /\ row' \in [Runs -> RowType] /\ row'[p].status = "active"
            /\ \A q \in Runs \ {p} : UNCHANGED row[q]
        <4>1. [row[p] EXCEPT !.status = "active", !.snapshot = taken, !.first = first] \in RowType
          BY <1>4 DEF ParseInv, Types, RowType
        <4>2. row' = [row EXCEPT ![p] = [row[p] EXCEPT !.status = "active", !.snapshot = taken,
                                                       !.first = first]]
          BY <2>2 DEF ParseInv, Types, RowType
        <4>3. row'[p].status = "active"
          BY <4>2 DEF ParseInv, Types, RowType
        <4> QED  BY <4>1, <4>2, <4>3 DEF ParseInv, Types
      <3> QED  BY <3>1, <3>2, NoneAssumption DEF Types
    <2> QED  BY <1>1, <2>1, <2>2
  <1>6. JobFacts(p)'
    BY <1>5 DEF JobFacts, Looping, Past
  <1>7. \A q \in Runs \ {p} : RowStays(q)
    BY <1>5 DEF RowStays
  <1> QED  BY <1>3, <1>5, <1>6, <1>7, OneMoves DEF RowStays

LEMMA FreezeKeeps ==
    ASSUME ParseInv, NEW p \in Runs, SnapshotFacts(p), Freeze(p)
    PROVE  ParseInv'
  <1> DEFINE scope == Scope(p)
             next == IF ~Active(p) THEN "close" ELSE IF scope = {} THEN "pick" ELSE "load"
  <1>1. /\ job[p].pc = "freeze" /\ UNCHANGED <<store, row>>
        /\ job' = [job EXCEPT ![p].pc = next, ![p].frozen = scope, ![p].todo = scope,
                              ![p].snapshot = None]
    BY DEF Freeze
  <1>2. StoreFacts' /\ Grows
    BY <1>1, StoreStays DEF ParseInv, StoreFacts, store
  <1>3. scope \subseteq Fetches /\ \A f \in scope : InScope(p, f)
    <2>1. SnapshotKept(p) => job[p].snapshot = row[p].first
      BY <1>1 DEF SnapshotFacts
    <2> QED  BY <2>1 DEF Scope, InScope
  <1>4. Fetches \subseteq Nat
    BY LogIsCounted DEF ParseInv
  <1>5. next \in {"close", "pick", "load"} /\ (next = "load" => scope # {})
                                         /\ (next = "pick" => scope = {})
    OBVIOUS
  <1> HIDE DEF scope, next
  <1> DEFINE frozen == [job[p] EXCEPT !.pc = next, !.frozen = scope, !.todo = scope,
                                      !.snapshot = None]
  <1>6. /\ job'[p].pc = next /\ job'[p].frozen = scope /\ job'[p].todo = scope
        /\ job'[p].tries = job[p].tries
        /\ \A q \in Runs \ {p} : UNCHANGED job[q]
        /\ Types'
    <2>1. job \in [Runs -> JobType] /\ row' \in [Runs -> RowType]
      BY <1>1 DEF ParseInv, Types
    <2>2. next \in PCs /\ scope \in SUBSET Nat
      BY <1>3, <1>4, <1>5 DEF PCs, Steps, Pages
    <2>3. /\ frozen \in JobType /\ frozen.pc = next /\ frozen.frozen = scope
          /\ frozen.todo = scope /\ frozen.tries = job[p].tries
      BY <2>1, <2>2 DEF JobType
    <2>4. job' = [job EXCEPT ![p] = frozen]
      BY <1>1, <2>1 DEF JobType
    <2> HIDE DEF frozen
    <2> QED  BY <2>1, <2>3, <2>4 DEF Types
  <1>7. row[p].status # None
    BY <1>1 DEF ParseInv, JobFacts
  <1>8. \A f \in scope : InScope(p, f)'
    BY <1>1, <1>2, <1>3, <1>6, StaysInScope DEF RowStays
  <1>9. JobFacts(p)'
    BY <1>1, <1>5, <1>6, <1>7, <1>8 DEF JobFacts, Looping, Past
  <1>10. \A q \in Runs \ {p} : RowStays(q)
    BY <1>1 DEF RowStays
  <1> QED  BY <1>2, <1>6, <1>9, <1>10, OneMoves DEF RowStays

\* The job has the document of its fetch in its hands, and links it next.
LEMMA HoldsDocument ==
    ASSUME ParseInv, Types', StoreFacts', Grows, NEW p \in Runs,
           job[p].pc \in {"load", "create"}, UNCHANGED <<log, row>>,
           NEW d \in Documents, d[1] = Content(Current(p)), Known(d)',
           job' = [job EXCEPT ![p].pc = "link", ![p].doc = d]
    PROVE  ParseInv'
  <1>1. /\ job'[p].pc = "link" /\ job'[p].doc = d
        /\ job'[p].frozen = job[p].frozen /\ job'[p].todo = job[p].todo
        /\ job'[p].tries = job[p].tries
        /\ \A q \in Runs \ {p} : UNCHANGED job[q]
    BY DEF ParseInv, Types, JobType
  <1>2. UNCHANGED <<Current(p), Content(Current(p))>>
    BY <1>1 DEF Current, Content
  <1>3. /\ \A f \in job[p].frozen : f \in Fetches /\ InScope(p, f)
        /\ job[p].todo # {} /\ job[p].todo \subseteq job[p].frozen
        /\ row[p].status # None
        /\ \A f \in job[p].frozen \ job[p].todo : Done(f)
    BY DEF ParseInv, JobFacts, InScope, Looping
  <1>4. \A f \in job[p].frozen : InScope(p, f)'
    BY <1>1, <1>3, StaysInScope DEF RowStays
  <1>5. \A f \in job[p].frozen \ job[p].todo : Done(f)'
    BY <1>3 DEF Grows
  <1>6. /\ job'[p].doc \in Documents /\ job'[p].doc[1] = Content(Current(p))'
        /\ Known(job[p].doc)'
    BY <1>1, <1>2 DEF Known
  <1>7. JobFacts(p)'
    BY <1>1, <1>3, <1>4, <1>5, <1>6 DEF JobFacts, Past
  <1> QED  BY <1>1, <1>7, OneMoves DEF RowStays

\* Nothing but the place of the job in its loop changes.
LEMMA LoadMisses ==
    ASSUME ParseInv, NEW p \in Runs, job[p].pc = "load", Goto(p, "create"),
           UNCHANGED <<store, row>>
    PROVE  ParseInv'
  <1>1. /\ job'[p].pc = "create"
        /\ job'[p].frozen = job[p].frozen /\ job'[p].todo = job[p].todo
        /\ job'[p].tries = job[p].tries
        /\ \A q \in Runs \ {p} : UNCHANGED job[q]
        /\ Types'
    BY DEF Goto, ParseInv, Types, JobType, PCs, Steps, Pages
  <1>2. StoreFacts' /\ Grows
    BY StoreStays DEF ParseInv, StoreFacts, store
  <1>3. /\ \A f \in job[p].frozen : f \in Fetches /\ InScope(p, f)
        /\ job[p].todo # {} /\ job[p].todo \subseteq job[p].frozen
        /\ row[p].status # None
        /\ \A f \in job[p].frozen \ job[p].todo : Done(f)
    BY DEF ParseInv, JobFacts, InScope, Looping
  <1>4. \A f \in job[p].frozen : InScope(p, f)'
    BY <1>1, <1>2, <1>3, StaysInScope DEF RowStays
  <1>5. JobFacts(p)'
    BY <1>1, <1>2, <1>3, <1>4 DEF JobFacts, Past, Grows
  <1> QED  BY <1>1, <1>2, <1>5, OneMoves DEF RowStays

LEMMA LoadKeeps ==
    ASSUME ParseInv, NEW p \in Runs, Load(p)
    PROVE  ParseInv'
  <1> DEFINE found == DocumentsOf(Content(Current(p)))
             d == CHOOSE x \in found : TRUE
  <1>1. /\ job[p].pc = "load" /\ UNCHANGED <<store, row>>
        /\ \/ found = {} /\ Goto(p, "create")
           \/ found # {} /\ job' = [job EXCEPT ![p].pc = "link", ![p].doc = d]
    BY DEF Load
  <1>2. CASE found = {} /\ Goto(p, "create")
    BY <1>1, <1>2, LoadMisses
  <1>3. CASE found # {} /\ job' = [job EXCEPT ![p].pc = "link", ![p].doc = d]
    <2>1. PICK x \in found : x = d
      BY <1>3
    <2>2. x \in docs /\ x \in Documents /\ x[1] = Content(Current(p))
      BY <2>1 DEF DocumentsOf, ParseInv, StoreFacts
    <2>3. job' = [job EXCEPT ![p].pc = "link", ![p].doc = x]
      BY <1>3, <2>1
    <2> HIDE DEF d, found
    <2>4. StoreFacts' /\ Grows
      BY <1>1, StoreStays DEF ParseInv, StoreFacts, store
    <2>5. Known(x)'
      BY <1>1, <2>2 DEF Known, store
    <2>6. Types'
      <3>1. [job[p] EXCEPT !.pc = "link", !.doc = x] \in JobType
        BY <2>2 DEF ParseInv, Types, JobType, PCs, Steps, Pages
      <3>2. job' = [job EXCEPT ![p] = [job[p] EXCEPT !.pc = "link", !.doc = x]]
        BY <2>3 DEF ParseInv, Types, JobType
      <3> QED  BY <1>1, <3>1, <3>2 DEF ParseInv, Types
    <2>7. UNCHANGED <<log, row>>
      BY <1>1 DEF store
    <2> QED  BY <1>1, <2>2, <2>3, <2>4, <2>5, <2>6, <2>7, HoldsDocument
  <1> QED  BY <1>1, <1>2, <1>3

\* The loser of a race adopts the winner's document.
LEMMA CreateKeeps ==
    ASSUME ParseInv, NEW p \in Runs, Create(p)
    PROVE  ParseInv'
  <1> DEFINE f == Current(p)
             c == Content(f)
             found == DocumentsOf(c)
             new == <<c, deletions[c]>>
             old == CHOOSE x \in found : TRUE
  <1>1. /\ job[p].pc = "create" /\ UNCHANGED <<log, reading, deletions, row>>
        /\ \/ /\ found = {}
              /\ docs' = docs \cup {new} /\ links' = links \cup {<<new, f>>}
              /\ job' = [job EXCEPT ![p].pc = "link", ![p].doc = new]
           \/ /\ found # {} /\ UNCHANGED <<docs, links>>
              /\ job' = [job EXCEPT ![p].pc = "link", ![p].doc = old]
    BY DEF Create
  <1>2. f \in Fetches /\ c \in Contents
    BY <1>1, CurrentIsFetch DEF Looping
  <1>3. ASSUME NEW d \in Documents, job' = [job EXCEPT ![p].pc = "link", ![p].doc = d]
        PROVE  Types'
    <2>1. [job[p] EXCEPT !.pc = "link", !.doc = d] \in JobType
      BY DEF ParseInv, Types, JobType, PCs, Steps, Pages
    <2>2. job' = [job EXCEPT ![p] = [job[p] EXCEPT !.pc = "link", !.doc = d]]
      BY <1>3 DEF ParseInv, Types, JobType
    <2> QED  BY <1>1, <2>1, <2>2 DEF ParseInv, Types
  <1>4. CASE found = {}
    <2>1. PICK d \in Documents : d = new /\ d[1] = c
      <3>1. deletions[c] \in 0..MaxDeletes
        BY <1>2 DEF ParseInv, StoreFacts
      <3>2. new \in Documents /\ new[1] = c
        BY <1>2, <3>1 DEF Documents
      <3> HIDE DEF new
      <3> QED  BY <3>2
    <2>2. /\ docs' = docs \cup {d} /\ links' = links \cup {<<d, f>>}
          /\ job' = [job EXCEPT ![p].pc = "link", ![p].doc = d]
      BY <1>1, <1>4, <2>1
    <2>3. \A e \in docs : e[1] # c
      BY <1>4 DEF DocumentsOf
    <2> HIDE DEF f, c, new, found
    <2>4. \A e, g \in docs' : e[1] = g[1] => e = g
      BY <2>1, <2>2, <2>3 DEF ParseInv, StoreFacts
    <2>5. links' \subseteq docs' \X Fetches
      BY <1>2, <2>2 DEF ParseInv, StoreFacts
    <2>6. \A l \in links' : l[1][1] = Content(l[2])
      <3>1. <<d, f>>[1][1] = Content(f) /\ <<d, f>>[2] = f
        BY <2>1 DEF c
      <3> QED  BY <2>2, <3>1 DEF ParseInv, StoreFacts
    <2>7. StoreFacts' /\ Grows
      <3>1. StoreFacts /\ links \subseteq links' /\ {d} \in SUBSET Documents
        BY <2>2 DEF ParseInv
      <3> QED  BY <1>1, <2>2, <2>4, <2>5, <2>6, <3>1, LinkingGrows
    <2>8. d[1] = Content(Current(p)) /\ Known(d)'
      BY <2>1, <2>2 DEF Known, c, f
    <2> QED  BY <1>1, <1>3, <2>2, <2>7, <2>8, HoldsDocument
  <1>5. CASE found # {}
    <2>1. PICK d \in found : d = old
      BY <1>5
    <2>2. d \in docs /\ d \in Documents /\ d[1] = c
      BY <2>1 DEF DocumentsOf, ParseInv, StoreFacts
    <2>3. job' = [job EXCEPT ![p].pc = "link", ![p].doc = d] /\ UNCHANGED <<docs, links>>
      BY <1>1, <1>5, <2>1
    <2>4. StoreFacts' /\ Grows
      BY <1>1, <2>3, StoreStays DEF ParseInv, StoreFacts
    <2>5. Known(d)'
      BY <2>2, <2>3 DEF Known
    <2> QED  BY <1>1, <1>3, <2>2, <2>3, <2>4, <2>5, HoldsDocument
  <1> QED  BY <1>4, <1>5

\* A link that fails belongs to a document that was deleted.
LEMMA LinkKeeps ==
    ASSUME ParseInv, NEW p \in Runs, Link(p)
    PROVE  ParseInv'
  <1> DEFINE f == Current(p)
             d == job[p].doc
  <1>1. /\ job[p].pc = "link" /\ UNCHANGED <<log, reading, docs, deletions, row>>
        /\ links' = links \cup ({<<d, f>>} \cap (docs \X Fetches))
        /\ job' = [job EXCEPT ![p].pc = "tick", ![p].doc = None, ![p].got = @ \cup {d}]
    BY DEF Link
  <1>2. f \in Fetches /\ f \in job[p].todo /\ f \in job[p].frozen
    BY <1>1, CurrentIsFetch DEF Looping
  <1>3. d \in Documents /\ d[1] = Content(f) /\ Known(d)
    BY <1>1 DEF ParseInv, JobFacts
  <1>4. /\ job'[p].pc = "tick" /\ job'[p].frozen = job[p].frozen
        /\ job'[p].todo = job[p].todo /\ job'[p].tries = job[p].tries
        /\ \A q \in Runs \ {p} : UNCHANGED job[q]
    BY <1>1 DEF ParseInv, Types, JobType
  <1>5. Types'
    <2>1. [job[p] EXCEPT !.pc = "tick", !.doc = None, !.got = job[p].got \cup {d}] \in JobType
      <3>1. job[p] \in JobType /\ d \in Documents /\ "tick" \in PCs
        BY <1>3 DEF ParseInv, Types, PCs, Steps, Pages
      <3> HIDE DEF d
      <3> QED  BY <3>1 DEF JobType
    <2>2. job' = [job EXCEPT ![p] = [job[p] EXCEPT !.pc = "tick", !.doc = None,
                                                   !.got = job[p].got \cup {d}]]
      BY <1>1 DEF ParseInv, Types, JobType
    <2> QED  BY <1>1, <2>1, <2>2 DEF ParseInv, Types
  <1>6. f' = f /\ Content(f)' = Content(f)
    BY <1>1, <1>4 DEF Current, Content
  <1>7. \A l \in links' : l \in links \/ (l = <<d, f>> /\ d \in docs)
    BY <1>1
  <1>8. StoreFacts' /\ Grows
    <2>1. links \subseteq links' /\ links' \subseteq docs' \X Fetches
      BY <1>1 DEF ParseInv, StoreFacts
    <2>2. \A l \in links' : l[1][1] = Content(l[2])
      <3>1. <<d, f>>[1][1] = Content(f) /\ <<d, f>>[2] = f
        BY <1>3
      <3> QED  BY <1>7, <3>1 DEF ParseInv, StoreFacts
    <2>3. docs' = docs \cup {} /\ {} \in SUBSET Documents
      BY <1>1
    <2>4. \A e, g \in docs' : e[1] = g[1] => e = g
      BY <1>1 DEF ParseInv, StoreFacts
    <2>5. StoreFacts
      BY DEF ParseInv
    <2> QED  BY <1>1, <2>1, <2>2, <2>3, <2>4, <2>5, LinkingGrows
  <1>9. Done(f)'
    <2>1. CASE d \in docs
      <3>1. <<d, f>> \in links'
        BY <1>1, <1>2, <2>1
      <3>2. d \in docs'
        BY <1>1, <2>1
      <3>3. \E e \in docs' : <<e, f>> \in links'
        BY <3>1, <3>2
      <3> QED  BY <1>6, <3>3 DEF Done, Linked
    <2>2. CASE deletions[d[1]] > 0
      BY <1>1, <1>3, <1>6, <2>2 DEF Done
    <2> QED  BY <1>3, <2>1, <2>2 DEF Known
  <1> HIDE DEF f, d
  <1>10. /\ \A g \in job[p].frozen : g \in Fetches /\ InScope(p, g)
         /\ job[p].todo \subseteq job[p].frozen /\ row[p].status # None
         /\ \A g \in job[p].frozen \ job[p].todo : Done(g)
    BY <1>1 DEF ParseInv, JobFacts, InScope
  <1>11. \A g \in job[p].frozen : InScope(p, g)'
    BY <1>1, <1>4, <1>8, <1>10, StaysInScope DEF RowStays
  <1>12. Done(Current(p))'
    BY <1>9 DEF f
  <1>13. JobFacts(p)'
    BY <1>1, <1>2, <1>4, <1>8, <1>10, <1>11, <1>12 DEF JobFacts, Past, Looping, Grows
  <1> QED  BY <1>1, <1>4, <1>5, <1>8, <1>13, OneMoves DEF RowStays

\* A fetch leaves the scope to do when it is done.
LEMMA TickKeeps ==
    ASSUME ParseInv, NEW p \in Runs, Tick(p)
    PROVE  ParseInv'
  <1> DEFINE rest == job[p].todo \ {Current(p)}
             next == IF ~Active(p) THEN "close" ELSE IF rest = {} THEN "pick" ELSE "load"
  <1>1. /\ job[p].pc = "tick" /\ UNCHANGED <<store, row>>
        /\ job' = [job EXCEPT ![p].pc = next, ![p].todo = rest]
    BY DEF Tick
  <1>2. /\ next \in {"close", "pick", "load"} /\ (next = "load" => rest # {})
        /\ (next = "pick" => rest = {}) /\ rest \subseteq job[p].todo
        /\ \A g \in job[p].todo \ rest : g = Current(p)
    OBVIOUS
  <1> HIDE DEF rest, next
  <1>3. /\ \A g \in job[p].frozen : g \in Fetches /\ InScope(p, g)
        /\ job[p].todo \subseteq job[p].frozen /\ row[p].status # None
        /\ \A g \in job[p].frozen \ job[p].todo : Done(g)
        /\ Done(Current(p))
    BY <1>1 DEF ParseInv, JobFacts, InScope
  <1>4. StoreFacts' /\ Grows
    BY <1>1, StoreStays DEF ParseInv, StoreFacts, store
  <1>5. /\ job'[p].pc = next /\ job'[p].frozen = job[p].frozen /\ job'[p].todo = rest
        /\ job'[p].tries = job[p].tries
        /\ \A q \in Runs \ {p} : UNCHANGED job[q]
    BY <1>1 DEF ParseInv, Types, JobType
  <1>6. Types'
    <2>1. next \in PCs /\ rest \in SUBSET Nat
      BY <1>2 DEF PCs, Steps, Pages, ParseInv, Types, JobType
    <2>2. [job[p] EXCEPT !.pc = next, !.todo = rest] \in JobType
      BY <2>1 DEF ParseInv, Types, JobType
    <2>3. job' = [job EXCEPT ![p] = [job[p] EXCEPT !.pc = next, !.todo = rest]]
      BY <1>1 DEF ParseInv, Types, JobType
    <2> QED  BY <1>1, <2>2, <2>3 DEF ParseInv, Types
  <1>7. \A g \in job[p].frozen : InScope(p, g)'
    BY <1>1, <1>3, <1>4, <1>5, StaysInScope DEF RowStays
  <1>8. \A g \in job[p].frozen \ rest : Done(g)
    BY <1>2, <1>3
  <1>9. \A g \in job[p].frozen \ rest : Done(g)'
    BY <1>3, <1>4, <1>8 DEF Grows
  <1>10. JobFacts(p)'
    BY <1>1, <1>2, <1>3, <1>5, <1>7, <1>9 DEF JobFacts, Looping, Past
  <1> QED  BY <1>1, <1>4, <1>5, <1>6, <1>10, OneMoves DEF RowStays

\* A retried execution starts with nothing.
LEMMA RetryKeeps ==
    ASSUME ParseInv, NEW p \in Runs, Retry(p)
    PROVE  ParseInv'
  <1>1. /\ job[p].pc = "dead" /\ UNCHANGED <<store, row>>
        /\ job' = [job EXCEPT ![p] = Fresh(job[p].tries + 1)]
    BY DEF Retry
  <1>2. Fresh(job[p].tries + 1) \in JobType
    <2>1. job[p].tries + 1 \in Nat
      BY DEF ParseInv, Types, JobType
    <2> QED  BY <2>1 DEF Fresh, JobType, PCs, Steps, Pages
  <1>3. Types' /\ job'[p] = Fresh(job[p].tries + 1) /\ \A q \in Runs \ {p} : UNCHANGED job[q]
    BY <1>1, <1>2 DEF ParseInv, Types
  <1>4. StoreFacts' /\ Grows
    BY <1>1, StoreStays DEF ParseInv, StoreFacts, store
  <1>5. row[p].status # None
    BY <1>1 DEF ParseInv, JobFacts
  <1>6. job'[p].pc = "launch" /\ job'[p].frozen = {} /\ job'[p].todo = {}
    BY <1>3 DEF Fresh
  <1>7. JobFacts(p)'
    BY <1>1, <1>5, <1>6 DEF JobFacts, Looping, Past
  <1> QED  BY <1>1, <1>3, <1>4, <1>7, OneMoves DEF RowStays

-----------------------------------------------------------------------------
(* Every step.                                                             *)

LEMMA OutsideTypes ==
    ASSUME ParseInv, NEW p \in Runs,
           \/ Pick(p) \/ (\E d \in Documents : Extract(p, d)) \/ Extracted(p)
           \/ ModelFails(p) \/ Finish(p) \/ Complete(p) \/ Close(p) \/ Fail(p) \/ Kill(p)
    PROVE  Types' /\ StoreFacts' /\ Grows
  <1>1. job \in [Runs -> JobType] /\ row \in [Runs -> RowType] /\ StoreFacts
    BY DEF ParseInv, Types
  <1>2. UNCHANGED <<log, reading, docs, links, deletions>>
    BY DEF Pick, Extract, Extracted, ModelFails, Finish, Complete, Close, Fail, Kill, store
  <1>3. StoreFacts' /\ Grows
    BY <1>1, <1>2, StoreStays DEF StoreFacts
  <1>4. row' \in [Runs -> RowType]
    <2>1. CASE UNCHANGED row
      BY <1>1, <2>1
    <2>2. CASE Complete(p)
      BY <1>1, <2>2 DEF Complete, RowType
    <2>3. CASE Close(p)
      BY <1>1, <2>3 DEF Close, RowType
    <2>4. CASE Fail(p)
      BY <1>1, <2>4 DEF Fail, RowType
    <2> QED  BY <2>1, <2>2, <2>3, <2>4
             DEF Pick, Extract, Extracted, ModelFails, Finish, Kill, store
  <1>5. ASSUME NEW pc \in PCs, job' = [job EXCEPT ![p].pc = pc]
        PROVE  job' \in [Runs -> JobType]
    BY <1>1, <1>5 DEF JobType
  <1>6. CASE Pick(p)
    <2>1. ToExtract(p) \in SUBSET Documents
      BY <1>1 DEF ToExtract, StoreFacts
    <2>2. ASSUME job' = [job EXCEPT ![p].pc = "ask", ![p].queue = ToExtract(p),
                                    ![p].extractor = "running"]
          PROVE  job' \in [Runs -> JobType]
      <3>1. [job[p] EXCEPT !.pc = "ask", !.queue = ToExtract(p), !.extractor = "running"]
              \in JobType
        BY <1>1, <2>1 DEF JobType, PCs, Steps
      <3>2. job' = [job EXCEPT ![p] = [job[p] EXCEPT !.pc = "ask", !.queue = ToExtract(p),
                                                     !.extractor = "running"]]
        BY <1>1, <2>2 DEF JobType
      <3> QED  BY <1>1, <3>1, <3>2
    <2>3. ASSUME Goto(p, "close") \/ Goto(p, "finish")
          PROVE  job' \in [Runs -> JobType]
      <3>1. {"close", "finish"} \subseteq PCs
        BY DEF PCs, Steps
      <3> QED  BY <1>5, <2>3, <3>1 DEF Goto
    <2> QED  BY <1>3, <1>4, <1>6, <2>2, <2>3 DEF Pick, Types
  <1>7. ASSUME NEW d \in Documents, Extract(p, d) PROVE Types'
    <2>1. CASE job' = [job EXCEPT ![p].pc = "asked", ![p].queue = @ \ {d}]
      <3>1. [job[p] EXCEPT !.pc = "asked", !.queue = job[p].queue \ {d}] \in JobType
        BY <1>1 DEF JobType, PCs, Steps
      <3>2. job' = [job EXCEPT ![p] = [job[p] EXCEPT !.pc = "asked",
                                                     !.queue = job[p].queue \ {d}]]
        BY <1>1, <2>1 DEF JobType
      <3> QED  BY <1>1, <1>4, <3>1, <3>2 DEF Types
    <2>2. CASE Goto(p, "fail")
      <3>1. "fail" \in PCs
        BY DEF PCs, Steps
      <3> QED  BY <1>4, <1>5, <2>2, <3>1 DEF Goto, Types
    <2> QED  BY <1>7, <2>1, <2>2 DEF Extract
  <1>8. CASE Extracted(p) \/ Fail(p)
    <2>1. PICK pc \in {"close", "finish", "ask", "closed", "dead"},
               x \in {None, "running", "complete", "failed"} :
            job' = [job EXCEPT ![p].pc = pc, ![p].extractor = x]
      <3>1. CASE Extracted(p)
        <4>1. job[p].extractor \in {None, "running", "complete", "failed"}
          BY <1>1 DEF JobType
        <4> QED  BY <1>1, <3>1, <4>1 DEF Extracted, JobType
      <3>2. CASE Fail(p)
        <4>1. job[p].extractor \in {None, "running", "complete", "failed"}
          BY <1>1 DEF JobType
        <4> QED  BY <1>1, <3>2, <4>1 DEF Fail, JobType
      <3> QED  BY <1>8, <3>1, <3>2
    <2>2. [job[p] EXCEPT !.pc = pc, !.extractor = x] \in JobType
      BY <1>1 DEF JobType, PCs, Steps
    <2>3. job' = [job EXCEPT ![p] = [job[p] EXCEPT !.pc = pc, !.extractor = x]]
      BY <1>1, <2>1 DEF JobType
    <2> QED  BY <1>1, <1>3, <1>4, <2>2, <2>3 DEF Types
  <1>9. CASE ModelFails(p) \/ Finish(p) \/ Complete(p) \/ Close(p) \/ Kill(p)
    <2>1. \E pc \in PCs : job' = [job EXCEPT ![p].pc = pc]
      <3>1. {"fail", "complete", "close", "done", "closed", "dead"} \subseteq PCs
        BY DEF PCs, Steps
      <3> QED  BY <1>9, <3>1 DEF ModelFails, Finish, Complete, Close, Kill, Goto
    <2> QED  BY <1>3, <1>4, <1>5, <2>1 DEF Types
  <1> QED  BY <1>3, <1>6, <1>7, <1>8, <1>9

LEMMA StepKeeps ==
    ASSUME ParseInv, Snapshots, NEW p \in Runs, Step(p) \/ Kill(p) \/ Retry(p)
    PROVE  ParseInv'
  <1>1. CASE Launch(p) \/ Freeze(p) \/ Load(p) \/ Create(p) \/ Link(p) \/ Tick(p) \/ Retry(p)
    BY <1>1, LaunchKeeps, FreezeKeeps, LoadKeeps, CreateKeeps, LinkKeeps, TickKeeps,
       RetryKeeps DEF Snapshots
  <1>2. CASE \/ Pick(p) \/ (\E d \in Documents : Extract(p, d)) \/ Extracted(p)
             \/ ModelFails(p) \/ Finish(p) \/ Complete(p) \/ Close(p) \/ Fail(p) \/ Kill(p)
    <2>1. Types' /\ StoreFacts' /\ Grows
      BY <1>2, OutsideTypes
    <2> QED  BY <1>2, <2>1, StepsOutside, OutsideKeeps
  <1> QED  BY <1>1, <1>2 DEF Step

\* The API and maintenance, and the crawls.
LEMMA RequestKeeps ==
    ASSUME ParseInv, NEW p \in Runs, NEW s \in Sources, NEW scope \in Scopes,
           Request(p, s, scope)
    PROVE  ParseInv'
  <1> DEFINE asked == [status |-> "active", source |-> s, scope |-> scope, snapshot |-> None,
                       first |-> None, erased |-> FALSE]
  <1>1. /\ row[p].status = None /\ UNCHANGED store
        /\ job' = [job EXCEPT ![p].pc = "launch"]
        /\ row' = [q \in Runs |->
             CASE q = p -> asked
               [] row[q].source = s /\ row[q].status = "stopped"
                    -> [row[q] EXCEPT !.status = "superseded"]
               [] OTHER -> row[q]]
    BY DEF Request
  <1>2. job[p].pc = "idle" /\ job[p].frozen = {} /\ job[p].todo = {}
    BY <1>1 DEF ParseInv, JobFacts
  <1>3. StoreFacts' /\ Grows
    BY <1>1, StoreStays DEF ParseInv, StoreFacts, store
  <1>4. \A q \in Runs : row[q] \in RowType
    BY DEF ParseInv, Types
  <1>5. asked \in RowType /\ asked.status # None
    BY NoneAssumption DEF RowType
  <1>6. \A q \in Runs : [row[q] EXCEPT !.status = "superseded"] \in RowType
    BY <1>4 DEF RowType
  <1> HIDE DEF asked
  <1>7. row' \in [Runs -> RowType] /\ row'[p] = asked
    <2>1. row'[p] = asked
      <3>1. row[p].status # "stopped"
        BY <1>1, NoneAssumption
      <3> QED  BY <1>1, <3>1
    <2>2. ASSUME NEW q \in Runs PROVE row'[q] \in RowType
      <3>1. row'[q] = asked \/ row'[q] = [row[q] EXCEPT !.status = "superseded"] \/ row'[q] = row[q]
        BY <1>1
      <3> QED  BY <1>4, <1>5, <1>6, <3>1
    <2>3. row' = [q \in Runs |-> row'[q]]
      BY <1>1
    <2> QED  BY <2>1, <2>2, <2>3
  <1>8. \A q \in Runs \ {p} : RowStays(q)
    BY <1>1, <1>4, NoneAssumption DEF RowType, RowStays
  <1>9. /\ job'[p].pc = "launch" /\ job'[p].frozen = {} /\ job'[p].todo = {}
        /\ \A q \in Runs \ {p} : UNCHANGED job[q]
        /\ job' \in [Runs -> JobType]
    <2>1. "launch" \in PCs
      BY DEF PCs, Steps, Pages
    <2>2. [job[p] EXCEPT !.pc = "launch"] \in JobType
      BY <2>1 DEF ParseInv, Types, JobType
    <2>3. job' = [job EXCEPT ![p] = [job[p] EXCEPT !.pc = "launch"]]
      BY <1>1 DEF ParseInv, Types, JobType
    <2>4. job'[p].pc = "launch" /\ job'[p].frozen = {} /\ job'[p].todo = {}
      BY <1>1, <1>2 DEF ParseInv, Types, JobType
    <2> QED  BY <2>2, <2>3, <2>4 DEF ParseInv, Types
  <1>10. Types'
    BY <1>7, <1>9 DEF Types
  <1>11. JobFacts(p)'
    BY <1>5, <1>7, <1>9 DEF JobFacts, Looping, Past
  <1> QED  BY <1>3, <1>8, <1>9, <1>10, <1>11, OneMoves DEF RowStays

LEMMA RowOnlyKeeps ==
    ASSUME ParseInv, StoreFacts', Grows, UNCHANGED job, row' \in [Runs -> RowType],
           \A q \in Runs : RowStays(q)
    PROVE  ParseInv'
  <1>1. ASSUME NEW q \in Runs PROVE JobFacts(q)'
    BY FactsLast DEF ParseInv
  <1> QED  BY <1>1 DEF ParseInv, Types

LEMMA ParseStep == ASSUME ParseInv, Snapshots, [Next]_vars PROVE ParseInv'
  <1>1. CASE UNCHANGED vars
    <2>1. StoreFacts' /\ Grows
      BY <1>1, StoreStays DEF ParseInv, StoreFacts, vars, store
    <2> QED  BY <1>1, <2>1, RowOnlyKeeps DEF vars, ParseInv, Types, RowStays
  <1>2. ASSUME NEW u \in Urls, NEW c \in Contents, ReadPage(u, c) PROVE ParseInv'
    <2>1. \A r \in reading' : r \in reading \/ r.content = c
      BY <1>2 DEF ReadPage, HashDiff
    <2>2. StoreFacts' /\ Grows
      BY <1>2, <2>1, StoreStays DEF ParseInv, StoreFacts, ReadPage
    <2> QED  BY <1>2, <2>2, RowOnlyKeeps DEF ReadPage, ParseInv, Types, RowStays
  <1>3. ASSUME NEW r \in reading, StorePage(r) PROVE ParseInv'
    BY <1>3, LogGrows, RowOnlyKeeps DEF StorePage, ParseInv, Types, RowStays
  <1>4. ASSUME NEW d \in docs, DeleteDocument(d) PROVE ParseInv'
    BY <1>4, DeletionGrows, RowOnlyKeeps DEF DeleteDocument, ParseInv, Types,
                                                     RowStays
  <1>5. ASSUME NEW p \in Runs, Pause(p) \/ Sweep(p) PROVE ParseInv'
    <2>1. /\ UNCHANGED <<store, job>> /\ row[p].status = "active"
          /\ \E x \in {"stopped", "failed"} : row' = [row EXCEPT ![p].status = x]
      BY <1>5 DEF Pause, Sweep, Active
    <2>2. StoreFacts' /\ Grows
      BY <2>1, StoreStays DEF ParseInv, StoreFacts, store
    <2>3. /\ row' \in [Runs -> RowType]
          /\ \A q \in Runs : RowStays(q)
      BY <2>1, NoneAssumption DEF ParseInv, Types, RowType, RowStays
    <2> QED  BY <2>1, <2>2, <2>3, RowOnlyKeeps
  <1>6. ASSUME NEW p \in Runs, RecordExecution(p) PROVE ParseInv'
    <2>1. /\ UNCHANGED <<store, job>>
          /\ row' = [row EXCEPT ![p].snapshot = None, ![p].erased = TRUE]
      BY <1>6 DEF RecordExecution
    <2>2. StoreFacts' /\ Grows
      BY <2>1, StoreStays DEF ParseInv, StoreFacts, store
    <2>3. row' \in [Runs -> RowType] /\ \A q \in Runs : RowStays(q)
      BY <2>1 DEF ParseInv, Types, RowType, RowStays
    <2> QED  BY <2>1, <2>2, <2>3, RowOnlyKeeps
  <1> QED  BY <1>1, <1>2, <1>3, <1>4, <1>5, <1>6, StepKeeps, RequestKeeps DEF Next

\* The steps of the loop leave the rows alone.
LEMMA LoopMoves ==
    ASSUME ParseInv, NEW p \in Runs,
           Freeze(p) \/ Load(p) \/ Create(p) \/ Link(p) \/ Tick(p)
    PROVE  /\ UNCHANGED row /\ job'[p].tries = job[p].tries
           /\ job'[p].snapshot \in {None, job[p].snapshot}
           /\ job'[p].pc \notin {"idle", "launch", "freeze"}
           /\ \A q \in Runs \ {p} : UNCHANGED job[q]
  <1>1. job \in [Runs -> JobType]
    BY DEF ParseInv, Types
  <1>2. CASE Freeze(p)
    <2> DEFINE scope == Scope(p)
               next == IF ~Active(p) THEN "close" ELSE IF scope = {} THEN "pick" ELSE "load"
    <2>1. /\ UNCHANGED row
          /\ job' = [job EXCEPT ![p].pc = next, ![p].frozen = scope, ![p].todo = scope,
                                ![p].snapshot = None]
      BY <1>2, Zenon DEF Freeze
    <2>2. next \in {"close", "pick", "load"}
      OBVIOUS
    <2> HIDE DEF scope, next
    <2> QED  BY <1>1, <2>1, <2>2 DEF JobType
  <1>3. CASE Load(p)
    BY <1>1, <1>3 DEF Load, Goto, JobType
  <1>4. CASE Create(p)
    BY <1>1, <1>4 DEF Create, JobType
  <1>5. CASE Link(p)
    BY <1>1, <1>5 DEF Link, JobType
  <1>6. CASE Tick(p)
    BY <1>1, <1>6 DEF Tick, JobType
  <1> QED  BY <1>2, <1>3, <1>4, <1>5, <1>6

Taken(p) == IF row[p].snapshot = None THEN Len(log) ELSE row[p].snapshot

\* An execution takes the snapshot it finds, or else one of its own.
LEMMA LaunchTakes ==
    ASSUME ParseInv, NEW p \in Runs, Launch(p)
    PROVE  /\ job[p].pc = "launch" /\ job'[p].tries = job[p].tries
           /\ \A q \in Runs \ {p} : UNCHANGED <<job[q], row[q]>>
           /\ \/ /\ job'[p].pc = "dead" /\ job'[p].snapshot = job[p].snapshot
                 /\ UNCHANGED row
              \/ /\ job'[p].pc = "freeze" /\ job'[p].snapshot = Taken(p)
                 /\ row'[p].snapshot = Taken(p) /\ row'[p].erased = row[p].erased
                 /\ row'[p].first = IF row[p].first = None THEN Taken(p) ELSE row[p].first
  <1> DEFINE first == IF row[p].first = None THEN Taken(p) ELSE row[p].first
  <1>1. job \in [Runs -> JobType] /\ row \in [Runs -> RowType]
    BY DEF ParseInv, Types
  <1>2. /\ job[p].pc = "launch"
        /\ \/ Goto(p, "dead") /\ UNCHANGED row
           \/ /\ job' = [job EXCEPT ![p].pc = "freeze", ![p].snapshot = Taken(p)]
              /\ row' = [row EXCEPT ![p].status = "active", ![p].snapshot = Taken(p),
                                    ![p].first = first]
    BY <1>1 DEF Launch, Taken, RowType
  <1> HIDE DEF first
  <1>3. CASE Goto(p, "dead") /\ UNCHANGED row
    BY <1>1, <1>2, <1>3 DEF Goto, JobType
  <1>4. CASE /\ job' = [job EXCEPT ![p].pc = "freeze", ![p].snapshot = Taken(p)]
             /\ row' = [row EXCEPT ![p].status = "active", ![p].snapshot = Taken(p),
                                   ![p].first = first]
    <2>1. /\ job'[p].pc = "freeze" /\ job'[p].snapshot = Taken(p)
          /\ job'[p].tries = job[p].tries /\ \A q \in Runs \ {p} : UNCHANGED job[q]
      BY <1>1, <1>4 DEF JobType
    <2>2. /\ row'[p].snapshot = Taken(p) /\ row'[p].first = first
          /\ row'[p].erased = row[p].erased /\ \A q \in Runs \ {p} : UNCHANGED row[q]
      BY <1>1, <1>4 DEF RowType
    <2> QED  BY <1>2, <2>1, <2>2 DEF first
  <1> QED  BY <1>2, <1>3, <1>4

\* Steps that leave a run's snapshots and do not bring its job to the freeze.
LEMMA SnapshotsStay ==
    ASSUME NEW p \in Runs, SnapshotFacts(p), job'[p].tries = job[p].tries,
           row'[p].first = row[p].first, SpecStays(p),
           \/ job'[p].pc = job[p].pc /\ job'[p].snapshot = job[p].snapshot
           \/ job'[p].pc \notin {"idle", "launch", "freeze"}
    PROVE  SnapshotFacts(p)'
  BY DEF SnapshotFacts, SnapshotKept, SpecStays

LEMMA SnapshotStep == ASSUME ParseInv, Snapshots, [Next]_vars PROVE Snapshots'
  <1> SUFFICES ASSUME NEW p \in Runs PROVE SnapshotFacts(p)'
    BY DEF Snapshots
  <1>1. /\ SnapshotFacts(p) /\ job \in [Runs -> JobType] /\ row \in [Runs -> RowType]
        /\ row[p].status = None => job[p].pc = "idle"
    BY DEF Snapshots, ParseInv, Types, JobFacts
  <1>2. ASSUME row'[p] = row[p], job'[p] = job[p] PROVE SnapshotFacts(p)'
    BY <1>1, <1>2, SnapshotsStay DEF SpecStays
  <1>3. ASSUME NEW q \in Runs, Launch(q) PROVE SnapshotFacts(p)'
    <2>1. CASE q # p
      BY <1>2, <1>3, <2>1, LaunchTakes
    <2>2. CASE q = p /\ job'[p].pc = "dead"
      BY <1>1, <1>3, <2>2, LaunchTakes, SnapshotsStay DEF SpecStays
    <2>3. CASE q = p /\ job'[p].pc # "dead"
      BY <1>1, <1>3, <2>3, LaunchTakes DEF SnapshotFacts, SnapshotKept, Taken
    <2> QED  BY <2>1, <2>2, <2>3
  <1>4. ASSUME NEW q \in Runs, Freeze(q) \/ Load(q) \/ Create(q) \/ Link(q) \/ Tick(q)
        PROVE  SnapshotFacts(p)'
    <2>1. CASE q # p
      BY <1>2, <1>4, <2>1, LoopMoves
    <2>2. CASE q = p
      BY <1>1, <1>4, <2>2, LoopMoves, SnapshotsStay DEF SpecStays
    <2> QED  BY <2>1, <2>2
  <1>5. ASSUME NEW q \in Runs,
               \/ Pick(q) \/ (\E d \in Documents : Extract(q, d)) \/ Extracted(q)
               \/ ModelFails(q) \/ Finish(q) \/ Complete(q) \/ Close(q) \/ Fail(q) \/ Kill(q)
        PROVE  SnapshotFacts(p)'
    <2>1. /\ job'[q].pc \notin {"idle", "launch", "freeze"} /\ job'[q].tries = job[q].tries
          /\ \A x \in Runs \ {q} : UNCHANGED job[x]
          /\ row'[p].first = row[p].first /\ SpecStays(p)
      BY <1>5, StepsOutside DEF Moves, RowStays
    <2> QED  BY <1>1, <2>1, SnapshotsStay
  <1>6. ASSUME NEW q \in Runs, Retry(q) PROVE SnapshotFacts(p)'
    <2>1. job' = [job EXCEPT ![q] = Fresh(job[q].tries + 1)] /\ UNCHANGED row
      BY <1>6 DEF Retry
    <2>2. CASE q # p
      BY <1>1, <1>2, <2>1, <2>2
    <2>3. CASE q = p
      <3>1. job'[p].pc = "launch" /\ job'[p].tries = job[p].tries + 1 /\ job[p].tries \in Nat
        BY <1>1, <2>1, <2>3 DEF Fresh, JobType
      <3>2. job'[p].tries # 0
        BY <3>1
      <3> QED  BY <1>1, <2>1, <3>1, <3>2 DEF SnapshotFacts
    <2> QED  BY <2>2, <2>3
  <1>7. ASSUME NEW q \in Runs, NEW s \in Sources, NEW scope \in Scopes, Request(q, s, scope)
        PROVE  SnapshotFacts(p)'
    <2> DEFINE asked == [status |-> "active", source |-> s, scope |-> scope, snapshot |-> None,
                         first |-> None, erased |-> FALSE]
    <2>1. /\ row[q].status = None /\ job' = [job EXCEPT ![q].pc = "launch"]
          /\ row' = [x \in Runs |->
               CASE x = q -> asked
                 [] row[x].source = s /\ row[x].status = "stopped"
                      -> [row[x] EXCEPT !.status = "superseded"]
                 [] OTHER -> row[x]]
      BY <1>7 DEF Request
    <2> HIDE DEF asked
    <2>2. CASE q # p
      <3>1. job'[p] = job[p]
        BY <1>1, <2>1, <2>2
      <3>2. row'[p] = row[p] \/ row'[p] = [row[p] EXCEPT !.status = "superseded"]
        BY <2>1, <2>2
      <3>3. row'[p].first = row[p].first /\ SpecStays(p)
        BY <1>1, <3>2 DEF RowType, SpecStays
      <3> QED  BY <1>1, <3>1, <3>3, SnapshotsStay
    <2>3. CASE q = p
      <3>1. row[p].status # "stopped"
        BY <2>1, <2>3, NoneAssumption
      <3>2. row'[p] = asked
        BY <2>1, <2>3, <3>1
      <3>3. job'[p].pc = "launch"
        BY <1>1, <2>1, <2>3 DEF JobType
      <3> QED  BY <3>2, <3>3 DEF asked, SnapshotFacts
    <2> QED  BY <2>2, <2>3
  <1>8. ASSUME NEW q \in Runs, RecordExecution(q) PROVE SnapshotFacts(p)'
    <2>1. UNCHANGED job /\ row' = [row EXCEPT ![q].snapshot = None, ![q].erased = TRUE]
      BY <1>8 DEF RecordExecution
    <2>2. CASE q # p
      BY <1>1, <1>2, <2>1, <2>2
    <2>3. CASE q = p
      <3>1. row'[p].snapshot = None /\ row'[p].erased /\ row'[p].first = row[p].first
        BY <1>1, <2>1, <2>3 DEF RowType
      <3> QED  BY <1>1, <2>1, <3>1 DEF SnapshotFacts, SnapshotKept
    <2> QED  BY <2>2, <2>3
  <1>9. ASSUME NEW q \in Runs, Pause(q) \/ Sweep(q) PROVE SnapshotFacts(p)'
    <2>1. UNCHANGED job /\ row'[p].first = row[p].first /\ SpecStays(p)
      BY <1>1, <1>9 DEF Pause, Sweep, RowType, SpecStays
    <2> QED  BY <1>1, <2>1, SnapshotsStay
  <1>10. ASSUME \/ \E u \in Urls, c \in Contents : ReadPage(u, c)
                \/ \E r \in reading : StorePage(r)
                \/ \E d \in docs : DeleteDocument(d)
                \/ UNCHANGED vars
         PROVE  SnapshotFacts(p)'
    <2>1. UNCHANGED <<row, job>>
      BY <1>10 DEF ReadPage, StorePage, DeleteDocument, vars
    <2> QED  BY <1>2, <2>1
  <1>11. ASSUME NEW q \in Runs, Step(q) PROVE SnapshotFacts(p)'
    BY <1>3, <1>4, <1>5, <1>11 DEF Step
  <1> QED  BY <1>5, <1>6, <1>7, <1>8, <1>9, <1>10, <1>11 DEF Next

LEMMA ParseAtFirst == Init => ParseInv
  <1> SUFFICES ASSUME Init PROVE ParseInv
    OBVIOUS
  <1>1. Types
    BY DEF Init, Types, JobType, RowType, Fresh, PCs, Steps, Pages
  <1>2. StoreFacts
    <2>1. log \in Seq({}) /\ Fetches = {}
      BY EmptySeq DEF Init, Fetches
    <2> QED  BY <2>1, BoundAssumption DEF Init, StoreFacts
  <1>3. ASSUME NEW p \in Runs PROVE JobFacts(p)
    <2>1. job[p].pc = "idle" /\ job[p].frozen = {} /\ job[p].todo = {}
      BY DEF Init, Fresh
    <2> QED  BY <2>1 DEF JobFacts, Looping, Past
  <1> QED  BY <1>1, <1>2, <1>3 DEF ParseInv

LEMMA SnapshotsAtFirst == Init => Snapshots
  BY DEF Init, Fresh, Snapshots, SnapshotFacts

LEMMA ParseAlways == Spec => [](ParseInv /\ Snapshots)
  BY ParseAtFirst, SnapshotsAtFirst, ParseStep, SnapshotStep, PTL DEF Spec

-----------------------------------------------------------------------------
(* The theorems.                                                           *)

\* However many runs meet the same content at the same time, a fetch has at
\* most one document (normalizer.py, the unique content_hash).
THEOREM OneDocumentAlways == Spec => []OneDocumentPerFetch
  <1>1. ParseInv => OneDocumentPerFetch
    <2> SUFFICES ASSUME ParseInv, NEW l \in links, NEW m \in links, l[2] = m[2]
                 PROVE  l = m
      BY DEF OneDocumentPerFetch, ParseInv, StoreFacts
    <2>1. l[1] \in docs /\ m[1] \in docs /\ l = <<l[1], l[2]>> /\ m = <<m[1], m[2]>>
      BY DEF ParseInv, StoreFacts
    <2>2. l[1][1] = m[1][1]
      BY DEF ParseInv, StoreFacts
    <2>3. l[1] = m[1]
      BY <2>1, <2>2 DEF ParseInv, StoreFacts
    <2> QED  BY <2>1, <2>3
  <1> QED  BY <1>1, ParseAlways, PTL

\* A run that gets past normalization left no fetch of its scope without a
\* document, unless an admin deleted that document (parse/orchestrator.py).
THEOREM ScopeIsNormalized == Spec => []ScopeNormalized
  <1>1. ParseInv => ScopeNormalized
    BY DEF ParseInv, JobFacts, ScopeNormalized, Past, Done
  <1> QED  BY <1>1, ParseAlways, PTL

\* What a crawl adds after the first snapshot of a run waits for the next parse
\* (docs/parse-trigger-policy.md), through every retry of the run but those
\* after its request wrote the spec back without the snapshot (db/store.py,
\* patch_source_run_spec).
THEOREM SnapshotsHold == Spec => LinksWithinSnapshot
  <1>1. ParseInv /\ [Next]_vars => [\A l \in links' \ links : MayLink(l)]_vars
    <2> SUFFICES ASSUME ParseInv, Next, NEW l \in links' \ links PROVE MayLink(l)
      OBVIOUS
    <2>1. PICK p \in Runs : Create(p) \/ Link(p)
      <3>1. ~UNCHANGED links /\ ~\E d \in docs : DeleteDocument(d)
        BY DEF DeleteDocument
      <3>2. ASSUME NEW p \in Runs, Freeze(p) PROVE FALSE
        <4>1. UNCHANGED store
          BY <3>2, Zenon DEF Freeze
        <4> QED  BY <3>1, <4>1 DEF store
      <3>3. ASSUME NEW p \in Runs, Launch(p) PROVE FALSE
        BY <3>1, <3>3 DEF Launch, store
      <3> QED  BY <3>1, <3>2, <3>3
               DEF Next, Step, ReadPage, StorePage, Request, Pause, Sweep, RecordExecution, Load, Tick,
                   Pick, Extract, Extracted, ModelFails, Finish, Complete, Close, Fail, Kill, Retry,
                   store
    <2>2. job[p].pc \in Looping
      BY <2>1 DEF Create, Link, Looping
    <2>3. Current(p) \in job[p].frozen
      BY <2>2, CurrentIsFetch
    <2>4. l[2] = Current(p)
      BY <2>1 DEF Create, Link
    <2> QED  BY <2>3, <2>4 DEF MayLink, ParseInv, JobFacts, InScope
  <1> QED  BY <1>1, ParseAlways, PTL DEF Spec, LinksWithinSnapshot

-----------------------------------------------------------------------------
(* The log: a row that stores no body names an earlier fetch of its page   *)
(* with the same content, and so do the rows still to be written.          *)

Earlier(r, f) ==
    \/ r.since = 0
    \/ /\ r.since \in Fetches /\ r.since < f
       /\ PageOf(r.since) = r.url /\ Content(r.since) = r.content

LogInv ==
    /\ log \in Seq(Fetch) /\ reading \subseteq Fetch /\ IsFiniteSet(reading)
    /\ Len(log) + Cardinality(reading) <= MaxLog
    /\ \A f \in Fetches : Earlier(log[f], f)
    /\ \A r \in reading : Earlier(r, Len(log) + 1)

LEMMA LogCounts ==
    ASSUME LogInv
    PROVE  /\ Len(log) \in Nat /\ Cardinality(reading) \in Nat /\ Fetches = 1..Len(log)
           /\ MaxLog \in Nat /\ \A f \in Fetches : log[f] \in Fetch
  <1>1. Len(log) \in Nat /\ Fetches = 1..Len(log) /\ \A f \in Fetches : log[f] \in Fetch
    BY LenProperties, ElementOfSeq DEF LogInv, Fetches
  <1>2. Cardinality(reading) \in Nat
    BY FS_CardinalityType DEF LogInv
  <1> QED  BY <1>1, <1>2, BoundAssumption

\* The page is compared with its latest fetch.
LEMMA ReadKeepsLog ==
    ASSUME LogInv, NEW u \in Urls, NEW c \in Contents, ReadPage(u, c)
    PROVE  LogInv'
  <1> DEFINE r == HashDiff(u, c)
             fs == {f \in Fetches : PageOf(f) = u}
  <1>1. /\ Len(log) + Cardinality(reading) < MaxLog
        /\ reading' = reading \cup {r} /\ UNCHANGED log
    BY DEF ReadPage
  <1>2. /\ Len(log) \in Nat /\ Cardinality(reading) \in Nat /\ MaxLog \in Nat
        /\ Fetches = 1..Len(log) /\ UNCHANGED Fetches
    BY <1>1, LogCounts DEF Fetches
  <1>3. Latest(u) = 0 \/ (Latest(u) \in Fetches /\ PageOf(Latest(u)) = u)
    <2>1. CASE fs = {}
      BY <2>1 DEF Latest
    <2>2. CASE fs # {}
      <3>1. Max(fs) \in fs
        BY <1>2, <2>2, Greatest
      <3>2. Latest(u) = Max(fs)
        BY <2>2 DEF Latest
      <3> QED  BY <3>1, <3>2
    <2> QED  BY <2>1, <2>2
  <1>4. /\ r.url = u /\ r.content = c
        /\ r.since = 0 \/ (/\ r.since = Latest(u) /\ Latest(u) # 0
                           /\ Content(r.since) = c)
    BY DEF HashDiff, Content
  <1>5. r.since \in Nat /\ Earlier(r, Len(log) + 1)
    BY <1>2, <1>3, <1>4 DEF Earlier
  <1>6. r \in Fetch
    <2>1. r = [url |-> u, content |-> c, since |-> r.since]
      BY DEF HashDiff
    <2> HIDE DEF r
    <2> QED  BY <1>5, <2>1 DEF Fetch
  <1> HIDE DEF r
  <1>7. IsFiniteSet(reading') /\ Len(log) + Cardinality(reading') <= MaxLog
    <2>1. CASE r \in reading
      <3>1. reading' = reading
        BY <1>1, <2>1
      <3> QED  BY <3>1 DEF LogInv
    <2>2. CASE r \notin reading
      <3>1. IsFiniteSet(reading') /\ Cardinality(reading') = Cardinality(reading) + 1
        BY <1>1, <2>2, FS_AddElement DEF LogInv
      <3> QED  BY <1>1, <1>2, <3>1
    <2> QED  BY <2>1, <2>2
  <1>8. /\ \A f \in Fetches' : Earlier(log[f], f)'
        /\ \A x \in reading' : Earlier(x, Len(log) + 1)'
    BY <1>1, <1>5 DEF LogInv, Earlier, Fetches, PageOf, Content
  <1> QED  BY <1>1, <1>6, <1>7, <1>8 DEF LogInv

\* A row is appended, and no row that is there changes.
LEMMA StoreKeepsLog ==
    ASSUME LogInv, NEW r \in reading, StorePage(r)
    PROVE  LogInv'
  <1>1. reading' = reading \ {r} /\ log' = Append(log, r) /\ r \in Fetch
    BY DEF StorePage, LogInv
  <1>2. /\ Len(log) \in Nat /\ Cardinality(reading) \in Nat /\ MaxLog \in Nat
        /\ Fetches = 1..Len(log)
    BY LogCounts
  <1>3. /\ log' \in Seq(Fetch) /\ Len(log') = Len(log) + 1
        /\ \A i \in 1..Len(log) : log'[i] = log[i]
        /\ log'[Len(log) + 1] = r
    BY <1>1, AppendProperties, LenProperties DEF LogInv
  <1>4. Fetches' = 1..(Len(log) + 1)
    BY <1>3, LenProperties DEF Fetches
  <1>5. IsFiniteSet(reading') /\ Cardinality(reading') = Cardinality(reading) - 1
    BY <1>1, FS_RemoveElement DEF LogInv
  <1>6. ASSUME NEW x, NEW f, NEW g \in Nat, Earlier(x, f), f \in Nat, f <= g
        PROVE  Earlier(x, g)'
    <2>1. x.since \in Fetches => /\ x.since \in Fetches' /\ x.since \in Nat
                                 /\ log'[x.since] = log[x.since]
      BY <1>2, <1>3, <1>4
    <2> QED  BY <1>6, <2>1 DEF Earlier, PageOf, Content
  <1>7. ASSUME NEW f \in Fetches' PROVE Earlier(log[f], f)'
    <2>1. f \in Nat /\ (f \in Fetches \/ f = Len(log) + 1)
      BY <1>2, <1>4
    <2>2. PICK x : x = log'[f]
      OBVIOUS
    <2>3. Earlier(x, f)
      <3>1. CASE f \in Fetches
        BY <1>2, <1>3, <2>2, <3>1 DEF LogInv
      <3>2. CASE f = Len(log) + 1
        BY <1>3, <2>2, <3>2 DEF LogInv
      <3> QED  BY <2>1, <3>1, <3>2
    <2>4. Earlier(x, f)'
      BY <1>6, <2>1, <2>3
    <2> QED  BY <2>2, <2>4 DEF Earlier
  <1>8. ASSUME NEW x \in reading' PROVE Earlier(x, Len(log) + 1)'
    <2>1. Earlier(x, Len(log) + 1)
      BY <1>1 DEF LogInv
    <2>2. PICK g \in Nat : g = Len(log') + 1
      BY <1>2, <1>3
    <2>3. Len(log) + 1 \in Nat /\ Len(log) + 1 <= g
      BY <1>2, <1>3, <2>2
    <2>4. Earlier(x, g)'
      BY <1>6, <2>1, <2>3
    <2> QED  BY <2>2, <2>4 DEF Earlier
  <1>9. Len(log') + Cardinality(reading') <= MaxLog
    BY <1>2, <1>3, <1>5 DEF LogInv
  <1> QED  BY <1>1, <1>3, <1>5, <1>7, <1>8, <1>9 DEF LogInv

\* Only the crawls write the log.
LEMMA LogStep == ASSUME LogInv, [Next]_vars PROVE LogInv'
  <1>1. CASE UNCHANGED <<log, reading>>
    <2>1. Fetches' = Fetches /\ \A f \in Fetches : log'[f] = log[f]
      BY <1>1 DEF Fetches
    <2> QED  BY <1>1, <2>1 DEF LogInv, Earlier, PageOf, Content
  <1>2. CASE \E u \in Urls, c \in Contents : ReadPage(u, c)
    BY <1>2, ReadKeepsLog
  <1>3. CASE \E r \in reading : StorePage(r)
    BY <1>3, StoreKeepsLog
  <1>4. ASSUME NEW p \in Runs, Step(p) PROVE UNCHANGED <<log, reading>>
    <2>1. CASE Launch(p) \/ Load(p) \/ Tick(p) \/ Pick(p) \/ Extracted(p)
      BY <2>1 DEF Launch, Load, Tick, Pick, Extracted, store
    <2>2. CASE Create(p) \/ Link(p) \/ \E d \in Documents : Extract(p, d)
      BY <2>2 DEF Create, Link, Extract
    <2>3. CASE ModelFails(p) \/ Finish(p) \/ Complete(p) \/ Close(p) \/ Fail(p)
      BY <2>3 DEF ModelFails, Finish, Complete, Close, Fail, store
    <2>4. CASE Freeze(p)
      <3>1. UNCHANGED store
        BY <2>4, Zenon DEF Freeze
      <3> QED  BY <3>1 DEF store
    <2> QED  BY <1>4, <2>1, <2>2, <2>3, <2>4 DEF Step
  <1>5. ASSUME \/ \E d \in docs : DeleteDocument(d)
               \/ \E p \in Runs : \/ \E s \in Sources, scope \in Scopes : Request(p, s, scope)
                                  \/ Pause(p) \/ Sweep(p) \/ Kill(p) \/ Retry(p)
                                  \/ RecordExecution(p)
               \/ UNCHANGED vars
        PROVE  UNCHANGED <<log, reading>>
    BY <1>5 DEF DeleteDocument, Request, Pause, Sweep, RecordExecution, Kill, Retry, vars, store
  <1> QED  BY <1>1, <1>2, <1>3, <1>4, <1>5 DEF Next

LEMMA LogAtFirst == Init => LogInv
  <1> SUFFICES ASSUME Init PROVE LogInv
    OBVIOUS
  <1>1. log = <<>> /\ reading = {} /\ log \in Seq(Fetch) /\ Fetches = {} /\ Len(log) = 0
    BY EmptySeq DEF Init, Fetches
  <1> QED  BY <1>1, FS_EmptySet, BoundAssumption DEF LogInv

-----------------------------------------------------------------------------
(* Following body_unchanged_since ends at a body: every step goes to an    *)
(* earlier row.                                                            *)

Follows(h, n) == h = [f \in 1..n |-> IF HasBody(f) THEN f ELSE h[log[f].since]]

LEMMA SinceIsEarlier ==
    ASSUME LogInv, NEW f \in Fetches, ~HasBody(f)
    PROVE  /\ log[f].since \in 1..(f - 1) /\ log[f].since \in Fetches
           /\ PageOf(log[f].since) = PageOf(f) /\ Content(log[f].since) = Content(f)
  <1>1. /\ Fetches = 1..Len(log) /\ Len(log) \in Nat /\ Earlier(log[f], f)
    BY LogCounts DEF LogInv
  <1> QED  BY <1>1 DEF HasBody, Earlier, PageOf, Content

\* The rows up to n resolve, for every n of the log.
LEMMA RowsFollow ==
    ASSUME LogInv, NEW n \in 0..Len(log)
    PROVE  \E h : Follows(h, n)
  <1> DEFINE bad == {m \in 0..Len(log) : ~\E h : Follows(h, m)}
  <1>1. Len(log) \in Nat /\ Fetches = 1..Len(log)
    BY LogCounts
  <1>2. SUFFICES ASSUME bad # {} PROVE FALSE
    OBVIOUS
  <1>3. PICK m \in bad : \A k \in bad : m <= k
    <2>1. bad \subseteq Nat
      BY <1>1
    <2> HIDE DEF bad
    <2> QED  BY <1>2, <2>1, HasLeast
  <1>4. m # 0
    <2>1. Follows([f \in 1..0 |-> f], 0)
      BY DEF Follows
    <2> QED  BY <2>1
  <1>5. PICK h : Follows(h, m - 1)
    <2>1. m - 1 \in 0..Len(log) /\ ~(m <= m - 1)
      BY <1>1, <1>4
    <2> QED  BY <1>3, <2>1
  <1> DEFINE body(f) == IF HasBody(f) THEN f ELSE h[log[f].since]
             g == [f \in 1..m |-> IF f < m THEN h[f] ELSE body(f)]
  <1>6. m \in 1..Len(log)
    BY <1>1, <1>4
  <1>7. \A f \in 1..(m - 1) : g[f] = h[f]
    BY <1>6
  <1>8. \A f \in 1..m : g[f] = body(f)
    BY <1>5, <1>6 DEF Follows
  <1>9. ASSUME NEW f \in 1..m PROVE body(f) = IF HasBody(f) THEN f ELSE g[log[f].since]
    <2>1. CASE HasBody(f)
      BY <2>1
    <2>2. CASE ~HasBody(f)
      <3>1. log[f].since \in 1..(f - 1)
        BY <1>1, <1>6, <2>2, SinceIsEarlier
      <3>2. log[f].since \in 1..(m - 1)
        BY <1>6, <3>1
      <3> HIDE DEF g
      <3> QED  BY <1>7, <2>2, <3>2
    <2> QED  BY <2>1, <2>2
  <1>10. g = [f \in 1..m |-> g[f]]
    OBVIOUS
  <1> HIDE DEF g, body
  <1>11. Follows(g, m)
    BY <1>8, <1>9, <1>10 DEF Follows
  <1> QED  BY <1>3, <1>11

LEMMA BodyFollows ==
    ASSUME LogInv, NEW f \in Fetches
    PROVE  BodyOf[f] = IF HasBody(f) THEN f ELSE BodyOf[log[f].since]
  <1>1. \E h : h = [e \in Fetches |-> IF HasBody(e) THEN e ELSE h[log[e].since]]
    <2>1. Fetches = 1..Len(log) /\ Len(log) \in Nat
      BY LogCounts
    <2>2. Len(log) \in 0..Len(log)
      BY <2>1
    <2>3. PICK h : Follows(h, Len(log))
      BY <2>2, RowsFollow
    <2>4. h = [e \in Fetches |-> IF HasBody(e) THEN e ELSE h[log[e].since]]
      BY <2>1, <2>3 DEF Follows
    <2> QED  BY <2>4
  <1> DEFINE P(h) == h = [e \in Fetches |-> IF HasBody(e) THEN e ELSE h[log[e].since]]
  <1>2. BodyOf = CHOOSE h : P(h)
    BY DEF BodyOf
  <1>3. P(BodyOf)
    <2>1. \E h : P(h)
      BY <1>1
    <2> HIDE DEF P
    <2> QED  BY <1>2, <2>1
  <1> HIDE DEF BodyOf
  <1> QED  BY <1>3

\* Where it ends is a body of the same page, with the same content.
Resolves(f) ==
    /\ BodyOf[f] \in Fetches /\ HasBody(BodyOf[f])
    /\ PageOf(BodyOf[f]) = PageOf(f) /\ Content(BodyOf[f]) = Content(f)

LEMMA AllResolve == ASSUME LogInv PROVE \A f \in Fetches : Resolves(f)
  <1> DEFINE bad == {f \in Fetches : ~Resolves(f)}
  <1>1. Len(log) \in Nat /\ Fetches = 1..Len(log)
    BY LogCounts
  <1>2. SUFFICES ASSUME bad # {} PROVE FALSE
    OBVIOUS
  <1>3. PICK f \in bad : \A e \in bad : f <= e
    <2>1. bad \subseteq Nat
      BY <1>1
    <2> HIDE DEF bad
    <2> QED  BY <1>2, <2>1, HasLeast
  <1>4. BodyOf[f] = IF HasBody(f) THEN f ELSE BodyOf[log[f].since]
    BY BodyFollows
  <1>5. ~HasBody(f)
    BY <1>4 DEF Resolves
  <1>6. /\ log[f].since \in 1..(f - 1) /\ log[f].since \in Fetches
        /\ PageOf(log[f].since) = PageOf(f) /\ Content(log[f].since) = Content(f)
    BY <1>5, SinceIsEarlier
  <1>7. Resolves(log[f].since)
    BY <1>1, <1>3, <1>6
  <1>8. Resolves(f)
    BY <1>4, <1>5, <1>6, <1>7 DEF Resolves
  <1> QED  BY <1>3, <1>8

\* Hash-diff loses nothing: the body of a fetch that stores none is found at
\* an earlier fetch of its page, with its content, however two overlapping
\* crawls interleave their lookups and inserts (db/store.py, add_fetch).
THEOREM BodiesResolve == Spec => []UnchangedBodiesResolve
  <1>1. LogInv => UnchangedBodiesResolve
    BY AllResolve DEF UnchangedBodiesResolve, Resolves
  <1> QED  BY <1>1, LogAtFirst, LogStep, PTL DEF Spec

-----------------------------------------------------------------------------
(* Types, and the bounds the guards keep.                                  *)

InLog(f) == f = None \/ f <= MaxLog
Within(p) ==
    /\ job[p].tries <= MaxTries
    /\ InLog(row[p].snapshot) /\ InLog(row[p].first) /\ InLog(job[p].snapshot)

TypeInv ==
    /\ ParseInv /\ LogInv
    /\ batches \in [Documents -> Nat] /\ kills \in 0..MaxKills
    /\ abandoned \subseteq Documents
    /\ \A p \in Runs : Within(p)

\* The executions and snapshots that a step leaves stay within their bounds.
LEMMA WithinStays ==
    ASSUME TypeInv, NEW p \in Runs, \A q \in Runs \ {p} : UNCHANGED job[q],
           job'[p].tries = job[p].tries, job'[p].snapshot \in {None, job[p].snapshot},
           \A q \in Runs : /\ row'[q].snapshot \in {None, row[q].snapshot}
                           /\ row'[q].first \in {None, row[q].first}
    PROVE  \A q \in Runs : Within(q)'
  <1> SUFFICES ASSUME NEW q \in Runs PROVE Within(q)'
    OBVIOUS
  <1>1. /\ Within(q) /\ job'[q].tries = job[q].tries
        /\ job'[q].snapshot \in {None, job[q].snapshot}
    BY DEF TypeInv
  <1> QED  BY <1>1 DEF Within, InLog

LEMMA AbandonsDocuments ==
    ASSUME TypeInv, NEW p \in Runs, Abandon(p)
    PROVE  abandoned' \subseteq Documents
  <1>1. job[p].got \subseteq Documents
    BY DEF TypeInv, ParseInv, Types, JobType
  <1> QED  BY <1>1 DEF TypeInv, Abandon, Hands

\* The steps that neither take a snapshot nor start an execution.
LEMMA StepKeepsBounds ==
    ASSUME TypeInv, NEW p \in Runs,
           \/ Freeze(p) \/ Load(p) \/ Create(p) \/ Link(p) \/ Tick(p)
           \/ Pick(p) \/ (\E d \in Documents : Extract(p, d)) \/ Extracted(p)
           \/ ModelFails(p) \/ Finish(p) \/ Complete(p) \/ Close(p) \/ Fail(p) \/ Kill(p)
    PROVE  \A q \in Runs : Within(q)'
  <1>1. CASE Freeze(p) \/ Load(p) \/ Create(p) \/ Link(p) \/ Tick(p)
    BY <1>1, LoopMoves, WithinStays DEF TypeInv
  <1>2. CASE ~(Freeze(p) \/ Load(p) \/ Create(p) \/ Link(p) \/ Tick(p))
    <2>1. /\ job'[p].tries = job[p].tries /\ job'[p].snapshot = job[p].snapshot
          /\ \A q \in Runs \ {p} : UNCHANGED job[q]
          /\ \A q \in Runs : row'[q].snapshot = row[q].snapshot /\ row'[q].first = row[q].first
      BY <1>2, StepsOutside DEF TypeInv, Moves, RowStays, SpecStays
    <2> QED  BY <2>1, WithinStays
  <1> QED  BY <1>1, <1>2

\* A snapshot is the length of the log when it is taken, and is kept.
LEMMA LaunchKeepsBounds ==
    ASSUME TypeInv, NEW p \in Runs, Launch(p)
    PROVE  \A q \in Runs : Within(q)'
  <1>1. /\ Len(log) \in Nat /\ Len(log) + Cardinality(reading) <= MaxLog
        /\ Cardinality(reading) \in Nat /\ MaxLog \in Nat
    BY LogCounts DEF TypeInv, LogInv
  <1>2. Len(log) <= MaxLog
    BY <1>1
  <1>3. \A q \in Runs : Within(q)
    BY DEF TypeInv
  <1>4. InLog(Taken(p))
    BY <1>2, <1>3 DEF Taken, InLog, Within
  <1>5. Within(p)'
    BY <1>3, <1>4, LaunchTakes DEF TypeInv, Within, InLog
  <1>6. ASSUME NEW q \in Runs \ {p} PROVE Within(q)'
    BY <1>3, LaunchTakes DEF TypeInv, Within, InLog
  <1> QED  BY <1>5, <1>6

LEMMA RetryKeepsBounds ==
    ASSUME TypeInv, NEW p \in Runs, Retry(p)
    PROVE  \A q \in Runs : Within(q)'
  <1>1. /\ job' = [job EXCEPT ![p] = Fresh(job[p].tries + 1)] /\ UNCHANGED row
        /\ job[p].tries < MaxTries
    BY DEF Retry
  <1>2. job \in [Runs -> JobType] /\ job[p].tries \in Nat /\ MaxTries \in Nat
    BY BoundAssumption DEF TypeInv, ParseInv, Types, JobType
  <1>3. /\ job'[p].tries = job[p].tries + 1 /\ job'[p].snapshot = None
        /\ \A q \in Runs \ {p} : UNCHANGED job[q]
    BY <1>1, <1>2 DEF Fresh
  <1>4. job'[p].tries <= MaxTries
    BY <1>1, <1>2, <1>3
  <1> QED  BY <1>1, <1>3, <1>4 DEF TypeInv, Within, InLog

LEMMA RequestKeepsBounds ==
    ASSUME TypeInv, NEW p \in Runs, NEW s \in Sources, NEW scope \in Scopes,
           Request(p, s, scope)
    PROVE  \A q \in Runs : Within(q)'
  <1> DEFINE asked == [status |-> "active", source |-> s, scope |-> scope, snapshot |-> None,
                       first |-> None, erased |-> FALSE]
  <1>1. /\ row[p].status = None /\ job' = [job EXCEPT ![p].pc = "launch"]
        /\ row' = [q \in Runs |->
             CASE q = p -> asked
               [] row[q].source = s /\ row[q].status = "stopped"
                    -> [row[q] EXCEPT !.status = "superseded"]
               [] OTHER -> row[q]]
    BY DEF Request
  <1> HIDE DEF asked
  <1>2. job \in [Runs -> JobType] /\ row \in [Runs -> RowType]
    BY DEF TypeInv, ParseInv, Types
  <1>3. /\ job'[p].tries = job[p].tries /\ job'[p].snapshot = job[p].snapshot
        /\ \A q \in Runs \ {p} : UNCHANGED job[q]
    BY <1>1, <1>2 DEF JobType
  <1>4. ASSUME NEW q \in Runs
        PROVE  /\ row'[q].snapshot \in {None, row[q].snapshot}
               /\ row'[q].first \in {None, row[q].first}
    <2>1. row'[q] = asked \/ row'[q] = [row[q] EXCEPT !.status = "superseded"] \/ row'[q] = row[q]
      BY <1>1
    <2> QED  BY <1>2, <2>1 DEF asked, RowType
  <1> QED  BY <1>3, <1>4, WithinStays

LEMMA TypeStep == ASSUME TypeInv, Snapshots, [Next]_vars PROVE TypeInv'
  <1>1. ParseInv' /\ LogInv'
    BY ParseStep, LogStep DEF TypeInv
  <1>2. job \in [Runs -> JobType] /\ row \in [Runs -> RowType]
    BY DEF TypeInv, ParseInv, Types
  <1>3. ASSUME NEW p \in Runs, Step(p) \/ Kill(p) \/ Retry(p)
        PROVE  \A q \in Runs : Within(q)'
    BY <1>3, StepKeepsBounds, LaunchKeepsBounds, RetryKeepsBounds DEF Step
  <1>4. ASSUME NEW p \in Runs, NEW s \in Sources, NEW scope \in Scopes, Request(p, s, scope)
        PROVE  \A q \in Runs : Within(q)'
    BY <1>4, RequestKeepsBounds
  <1>5. ASSUME NEW p \in Runs, Pause(p) \/ Sweep(p) \/ RecordExecution(p)
        PROVE  \A q \in Runs : Within(q)'
    <2>1. /\ UNCHANGED job
          /\ \A q \in Runs : /\ row'[q].snapshot \in {None, row[q].snapshot}
                             /\ row'[q].first \in {None, row[q].first}
      BY <1>2, <1>5 DEF Pause, Sweep, RecordExecution, RowType
    <2> QED  BY <2>1, WithinStays
  <1>6. ASSUME \/ \E u \in Urls, c \in Contents : ReadPage(u, c)
               \/ \E r \in reading : StorePage(r)
               \/ \E d \in docs : DeleteDocument(d)
               \/ UNCHANGED vars
        PROVE  \A q \in Runs : Within(q)'
    <2>1. UNCHANGED <<row, job>>
      BY <1>6 DEF ReadPage, StorePage, DeleteDocument, vars
    <2> QED  BY <2>1 DEF TypeInv, Within
  <1>7. \A q \in Runs : Within(q)'
    BY <1>3, <1>4, <1>5, <1>6 DEF Next
  <1>8. batches' \in [Documents -> Nat]
    <2>1. ASSUME NEW p \in Runs, NEW d \in Documents, Extract(p, d)
          PROVE  batches' \in [Documents -> Nat]
      BY <2>1 DEF TypeInv, Extract
    <2>2. ASSUME NEW p \in Runs, Step(p)
          PROVE  UNCHANGED batches \/ \E d \in Documents : Extract(p, d)
      <3>1. CASE Launch(p) \/ Load(p) \/ Tick(p) \/ Pick(p) \/ Extracted(p)
        BY <3>1 DEF Launch, Load, Tick, Pick, Extracted, store
      <3>2. CASE Create(p) \/ Link(p)
        BY <3>2 DEF Create, Link
      <3>3. CASE ModelFails(p) \/ Finish(p) \/ Complete(p) \/ Close(p) \/ Fail(p)
        BY <3>3 DEF ModelFails, Finish, Complete, Close, Fail, store
      <3>4. CASE Freeze(p)
        <4>1. UNCHANGED store
          BY <3>4, Zenon DEF Freeze
        <4> QED  BY <4>1 DEF store
      <3> QED  BY <2>2, <3>1, <3>2, <3>3, <3>4 DEF Step
    <2>3. UNCHANGED batches \/ \E p \in Runs : Step(p)
      BY DEF Next, ReadPage, StorePage, DeleteDocument, Request, Pause, Sweep, RecordExecution,
             Kill, Retry, vars, store
    <2> QED  BY <2>1, <2>2, <2>3 DEF TypeInv
  <1>9. kills' \in 0..MaxKills /\ abandoned' \subseteq Documents
    <2>1. ASSUME NEW p \in Runs, Kill(p)
          PROVE  kills' \in 0..MaxKills /\ abandoned' \subseteq Documents
      <3>1. kills' = kills + 1 /\ kills < MaxKills /\ kills \in 0..MaxKills /\ MaxKills \in Nat
        BY <2>1, BoundAssumption DEF Kill, TypeInv
      <3> QED  BY <2>1, <3>1, AbandonsDocuments DEF Kill
    <2>2. ASSUME NEW p \in Runs, Close(p) \/ Fail(p)
          PROVE  UNCHANGED kills /\ abandoned' \subseteq Documents
      BY <2>2, AbandonsDocuments DEF Close, Fail
    <2>3. ASSUME NEW p \in Runs, Step(p)
          PROVE  UNCHANGED <<kills, abandoned>> \/ Close(p) \/ Fail(p)
      <3>1. CASE Launch(p) \/ Load(p) \/ Tick(p) \/ Pick(p) \/ Extracted(p)
        BY <3>1 DEF Launch, Load, Tick, Pick, Extracted
      <3>2. CASE Create(p) \/ Link(p) \/ \E d \in Documents : Extract(p, d)
        BY <3>2 DEF Create, Link, Extract
      <3>3. CASE ModelFails(p) \/ Finish(p) \/ Complete(p)
        BY <3>3 DEF ModelFails, Finish, Complete
      <3>4. CASE Freeze(p)
        <4>1. UNCHANGED kills /\ UNCHANGED abandoned
          BY <3>4, Zenon DEF Freeze
        <4> QED  BY <4>1
      <3> QED  BY <2>3, <3>1, <3>2, <3>3, <3>4 DEF Step
    <2>4. UNCHANGED <<kills, abandoned>> \/ \E p \in Runs : Step(p) \/ Kill(p)
      BY DEF Next, ReadPage, StorePage, DeleteDocument, Request, Pause, Sweep, RecordExecution,
             Retry, vars
    <2> QED  BY <2>1, <2>2, <2>3, <2>4 DEF TypeInv
  <1> QED  BY <1>1, <1>7, <1>8, <1>9 DEF TypeInv

LEMMA TypeAtFirst == Init => TypeInv
  <1> SUFFICES ASSUME Init PROVE TypeInv
    OBVIOUS
  <1>1. \A p \in Runs : /\ job[p].tries = 0 /\ job[p].snapshot = None
                        /\ row[p].snapshot = None /\ row[p].first = None
    BY DEF Init, Fresh
  <1>2. MaxTries \in Nat /\ MaxKills \in Nat
    BY BoundAssumption
  <1>3. ParseInv /\ LogInv
    BY ParseAtFirst, LogAtFirst
  <1>4. /\ batches \in [Documents -> Nat] /\ kills \in 0..MaxKills
        /\ abandoned \subseteq Documents
    BY <1>2 DEF Init
  <1>5. \A p \in Runs : Within(p)
    BY <1>1, <1>2 DEF Within, InLog
  <1> QED  BY <1>3, <1>4, <1>5 DEF TypeInv

LEMMA TypeInvTypes == ASSUME TypeInv PROVE TypeOK
  <1>1. /\ StoreFacts /\ LogInv /\ job \in [Runs -> JobType] /\ row \in [Runs -> RowType]
    BY DEF TypeInv, ParseInv, Types
  <1>2. /\ Len(log) \in Nat /\ Cardinality(reading) \in Nat /\ MaxLog \in Nat
        /\ Fetches = 1..Len(log) /\ Len(log) <= MaxLog
    <2>1. /\ Len(log) \in Nat /\ Cardinality(reading) \in Nat /\ MaxLog \in Nat
          /\ Fetches = 1..Len(log) /\ Len(log) + Cardinality(reading) <= MaxLog
      BY <1>1, LogCounts DEF LogInv
    <2> QED  BY <2>1
  <1>3. MaxTries \in Nat
    BY BoundAssumption
  <1>4. ASSUME NEW p \in Runs PROVE job[p] \in Job
    <2>1. job[p] \in JobType /\ job[p].tries <= MaxTries /\ InLog(job[p].snapshot)
      BY <1>1 DEF TypeInv, Within
    <2>2. job[p].frozen \subseteq Fetches /\ job[p].todo \subseteq Fetches
      BY DEF TypeInv, ParseInv, JobFacts, InScope
    <2>3. PICK j \in JobType : j = job[p]
      BY <2>1
    <2>4. /\ j.frozen \in SUBSET (1..MaxLog) /\ j.todo \in SUBSET (1..MaxLog)
          /\ j.tries \in 0..MaxTries /\ j.snapshot \in {None} \cup (0..MaxLog)
      BY <1>2, <1>3, <2>1, <2>2, <2>3 DEF JobType, InLog
    <2> QED  BY <2>3, <2>4 DEF JobType, Job, PCs
  <1>5. ASSUME NEW p \in Runs PROVE row[p] \in Row
    <2>1. PICK r \in RowType : r = row[p]
      BY <1>1
    <2>2. /\ r.snapshot \in {None} \cup (0..MaxLog)
          /\ r.first \in {None} \cup (0..MaxLog)
      <3>1. InLog(r.snapshot) /\ InLog(r.first)
        BY <2>1 DEF TypeInv, Within
      <3> QED  BY <1>2, <3>1 DEF RowType, InLog
    <2> QED  BY <2>1, <2>2 DEF RowType, Row
  <1>6. job \in [Runs -> Job] /\ row \in [Runs -> Row]
    <2>1. job = [p \in Runs |-> job[p]] /\ row = [p \in Runs |-> row[p]]
      BY <1>1
    <2> QED  BY <1>4, <1>5, <2>1, Zenon
  <1> QED  BY <1>1, <1>2, <1>6 DEF TypeInv, TypeOK, StoreFacts, LogInv

\* The columns, the steps and the work lists of the jobs stay what they are
\* declared to be, and within the bounds of the guards.
THEOREM TypeCorrect == Spec => []TypeOK
  BY TypeAtFirst, TypeStep, TypeInvTypes, ParseAlways, PTL DEF Spec
=============================================================================
