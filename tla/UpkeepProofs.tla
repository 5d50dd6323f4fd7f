---------------------------- MODULE UpkeepProofs ----------------------------
(***************************************************************************)
(* The two halves of a source that is a file, as MCUpkeep takes them.      *)
(*                                                                         *)
(* The counters never promise more than the fetches (FetchStore). A counter *)
(* is written long after it was counted, by whichever run or maintenance   *)
(* job commits last. What makes the property hold is that the counts only  *)
(* grow while the source lives: CountInv bounds every number that somebody *)
(* has read and may still write by the count of now. A full recrawl is     *)
(* marked by runs that earned it: EarnedInv follows each job through its   *)
(* rows. The file the source names is there (Uploads): FileInv says which  *)
(* uploads can still remove a file, and that it is not this one.           *)
(***************************************************************************)
EXTENDS FetchStore, Uploads, FiniteSetTheorems, TLAPS

FetchRows == [run : Jobs, url : Urls, result : Results]
JobRows == [pc : AtWork \cup {"none", "launched", "dead", "done"},
            next : Nat, fetched : Nat, missed : BOOLEAN,
            count : Numbers, dirty : SUBSET Columns]

\* No more than the fetches there are.
Bounded(count) == count.pages <= Pages /\ count.known <= Known

CountInv ==
    /\ TypeOK
    /\ live => /\ Bounded(stored)
               /\ Bounded(upkeep.count)
               /\ \A j \in Jobs : Bounded(job[j].count)

-----------------------------------------------------------------------------
\* Every set of fetches has finitely many URLs, at least as many known as stored.
LEMMA CountsAreNumbers ==
    ASSUME fetches \subseteq FetchRows
    PROVE  Pages \in Nat /\ Known \in Nat /\ Pages <= Known
  <1> DEFINE all == {f.url : f \in fetches}
             good == {f.url : f \in {g \in fetches : g.result = "stored"}}
  <1>1. all \subseteq Urls /\ good \subseteq all
    BY DEF FetchRows
  <1>2. IsFiniteSet(all) /\ IsFiniteSet(good) /\ Cardinality(good) <= Cardinality(all)
    BY <1>1, UrlsFinite, FS_Subset
  <1>3. Cardinality(all) \in Nat /\ Cardinality(good) \in Nat
    BY <1>2, FS_CardinalityType
  <1> QED  BY <1>2, <1>3 DEF Pages, Known

\* More fetches, no smaller counts.
LEMMA CountsGrow ==
    ASSUME fetches \subseteq fetches', fetches' \subseteq FetchRows
    PROVE  Pages <= Pages' /\ Known <= Known'
  <1> DEFINE all == {f.url : f \in fetches}
             good == {f.url : f \in {g \in fetches : g.result = "stored"}}
             allN == {f.url : f \in fetches'}
             goodN == {f.url : f \in {g \in fetches' : g.result = "stored"}}
  <1>1. allN \subseteq Urls /\ goodN \subseteq Urls /\ all \subseteq allN /\ good \subseteq goodN
    BY DEF FetchRows
  <1>2. Cardinality(all) <= Cardinality(allN) /\ Cardinality(good) <= Cardinality(goodN)
    BY <1>1, UrlsFinite, FS_Subset
  <1> QED  BY <1>2 DEF Pages, Known

\* Taking the maximum, keeping some columns and writing some of them stay
\* within the bound.
LEMMA CountersBounded ==
    ASSUME NEW count \in Numbers, Bounded(count), fetches \subseteq FetchRows
    PROVE  Counters(count) \in Numbers /\ Bounded(Counters(count))
  BY CountsAreNumbers DEF Counters, Bounded, Numbers

LEMMA OnlyBounded ==
    ASSUME NEW count \in Numbers, NEW columns, Bounded(count), fetches \subseteq FetchRows
    PROVE  Only(columns, count) \in Numbers /\ Bounded(Only(columns, count))
  BY CountsAreNumbers DEF Only, Bounded, Numbers

LEMMA WrittenBounded ==
    ASSUME NEW w, w.count \in Numbers, stored \in Numbers, Bounded(w.count), Bounded(stored)
    PROVE  Written(w) \in Numbers /\ Bounded(Written(w))
  BY DEF Written, Bounded, Numbers

LEMMA ZeroBounded ==
    ASSUME fetches \subseteq FetchRows
    PROVE  Zero \in Numbers /\ Bounded(Zero)
  BY CountsAreNumbers DEF Zero, Bounded, Numbers


LEMMA SameCounts ==
    ASSUME UNCHANGED fetches
    PROVE  Pages' = Pages /\ Known' = Known
  BY DEF Pages, Known

-----------------------------------------------------------------------------
LEMMA InitCounts == Init => CountInv
  <1> SUFFICES ASSUME Init PROVE CountInv
    OBVIOUS
  <1>1. fetches \subseteq FetchRows /\ Zero \in Numbers /\ Bounded(Zero)
    BY ZeroBounded DEF Init
  <1>2. TypeOK
    BY <1>1, BudgetTypes DEF Init, TypeOK, Fresh, Resting, Columns, AtWork, Numbers, Zero
  <1> QED  BY <1>1, <1>2 DEF Init, CountInv, Fresh, Resting

\* A step of a job that only changes what the job holds, or its row's status.
LEMMA JobStep ==
    ASSUME CountInv, NEW j \in Jobs, NEW v \in JobRows,
           job' = [job EXCEPT ![j] = v],
           live => Bounded(v.count),
           v.dirty # {} => v.pc = "commit",
           run' \in [Jobs -> {"none", "queued", "running", "ended", "gone"}],
           retries' \in Nat,
           UNCHANGED <<kind, live, stored, recrawled, fetches, upkeep>>
    PROVE  CountInv'
  <1>1. TypeOK'
    BY DEF CountInv, TypeOK, JobRows
  <1>2. Pages' = Pages /\ Known' = Known
    BY SameCounts
  <1>3. \A i \in Jobs : job'[i] = IF i = j THEN v ELSE job[i]
    BY DEF CountInv, TypeOK
  <1> QED  BY <1>1, <1>2, <1>3 DEF CountInv, Bounded

\* Requests, starts, deaths and ends of runs.
LEMMA LifeStep ==
    ASSUME CountInv, NEW j \in Jobs,
           \/ Create(j) \/ Start(j) \/ Raise(j) \/ VisitRefused(j) \/ LastRow(j)
           \/ Close(j) \/ Die(j) \/ Retry(j)
    PROVE  CountInv'
  <1> USE DEF CountInv
  <1>1. /\ fetches \subseteq FetchRows /\ job[j] \in JobRows
        /\ job[j].dirty # {} => job[j].pc = "commit"
        /\ Zero \in Numbers /\ (live => Bounded(Zero))
    BY ZeroBounded DEF TypeOK, JobRows, FetchRows
  <1> DEFINE moved(pc) == [job[j] EXCEPT !.pc = pc]
             past == [job[j] EXCEPT !.pc = "pages", !.next = 0, !.fetched = 0]
             Pcs == AtWork \cup {"none", "launched", "dead", "done"}
  <1>2. /\ \A pc \in Pcs : moved(pc) \in JobRows /\ moved(pc).count = job[j].count
                           /\ moved(pc).dirty = job[j].dirty
        /\ \A pc \in Pcs : Fresh(pc) \in JobRows /\ Fresh(pc).count = Zero /\ Fresh(pc).dirty = {}
        /\ past \in JobRows /\ past.count = job[j].count /\ past.dirty = job[j].dirty
    <2>1. \A pc \in Pcs : moved(pc) \in JobRows /\ moved(pc).count = job[j].count
                          /\ moved(pc).dirty = job[j].dirty
      BY <1>1 DEF JobRows
    <2>2. \A pc \in Pcs : Fresh(pc) \in JobRows /\ Fresh(pc).count = Zero /\ Fresh(pc).dirty = {}
      BY <1>1 DEF JobRows, Fresh
    <2>3. past \in JobRows /\ past.count = job[j].count /\ past.dirty = job[j].dirty
      <3>1. "pages" \in AtWork
        BY DEF AtWork
      <3> QED  BY <1>1, <3>1 DEF JobRows
    <2> QED  BY <2>1, <2>2, <2>3
  <1>3. run' \in [Jobs -> {"none", "queued", "running", "ended", "gone"}] /\ retries' \in Nat
    BY DEF Create, Start, Raise, VisitRefused, LastRow, Close, Die, Retry, TypeOK
  <1>4. UNCHANGED <<kind, live, stored, recrawled, fetches, upkeep>>
    BY DEF Create, Start, Raise, VisitRefused, LastRow, Close, Die, Retry
  <1>5. \/ \E pc \in Pcs : job' = [job EXCEPT ![j] = moved(pc)] /\ job[j].pc # "commit"
        \/ \E pc \in Pcs : job' = [job EXCEPT ![j] = Fresh(pc)]
        \/ job' = [job EXCEPT ![j] = past] /\ job[j].pc # "commit"
    <2>1. CASE Create(j)
      BY <2>1 DEF Create, Goes, AtWork
    <2>2. CASE Start(j)
      BY <2>2 DEF Start, Goes, Ends, AtWork
    <2>3. CASE Raise(j)
      BY <2>3 DEF Raise, Ends, AtWork
    <2>4. CASE VisitRefused(j)
      BY <2>4 DEF VisitRefused, Goes, AtWork
    <2>5. CASE LastRow(j)
      BY <2>5 DEF LastRow, AtWork
    <2>6. CASE Close(j)
      BY <2>6 DEF Close, Goes, Ends, AtWork
    <2>7. CASE Die(j)
      BY <2>7 DEF Die, AtWork
    <2>8. CASE Retry(j)
      BY <2>8 DEF Retry, Goes, AtWork
    <2> QED  BY <2>1, <2>2, <2>3, <2>4, <2>5, <2>6, <2>7, <2>8
  <1> QED  BY <1>1, <1>2, <1>3, <1>4, <1>5, JobStep

\* The two counts of a refresh, and the row it loads.
LEMMA RefreshStep ==
    ASSUME CountInv, NEW j \in Jobs, CountPages(j) \/ CountKnown(j) \/ LoadRow(j)
    PROVE  CountInv'
  <1> USE DEF CountInv
  <1>1. /\ fetches \subseteq FetchRows /\ job[j] \in JobRows
        /\ job[j].dirty # {} => job[j].pc = "commit"
        /\ Zero \in Numbers /\ (live => Bounded(Zero)) /\ (live => Bounded(job[j].count))
        /\ Pages \in Nat /\ Known \in Nat
    BY ZeroBounded, CountsAreNumbers DEF TypeOK, JobRows, FetchRows
  <1>2. /\ run' \in [Jobs -> {"none", "queued", "running", "ended", "gone"}] /\ retries' \in Nat
        /\ UNCHANGED <<kind, live, stored, recrawled, fetches, upkeep>>
    BY DEF CountPages, CountKnown, LoadRow, TypeOK
  <1>3. {"known", "load", "commit", "close", "rows"} \subseteq AtWork
    BY DEF AtWork
  <1>4. CASE CountPages(j)
    <2> DEFINE v == [job[j] EXCEPT !.pc = "known", !.count = [pages |-> Pages, known |-> 0]]
    <2>1. job' = [job EXCEPT ![j] = v]
      BY <1>4 DEF CountPages, TypeOK
    <2>2. job[j].dirty = {}
      BY <1>1, <1>4 DEF CountPages
    <2>3. [pages |-> Pages, known |-> 0] \in Numbers /\ Bounded([pages |-> Pages, known |-> 0])
      BY <1>1 DEF Numbers, Bounded
    <2>4. v \in JobRows /\ v.dirty = {} /\ v.count = [pages |-> Pages, known |-> 0]
      BY <1>1, <1>3, <2>2, <2>3 DEF JobRows
    <2> HIDE DEF v
    <2> QED  BY <1>2, <2>1, <2>3, <2>4, JobStep
  <1>5. CASE CountKnown(j)
    <2> DEFINE v == [job[j] EXCEPT !.pc = "load",
                                   !.count = [pages |-> job[j].count.pages, known |-> Known]]
    <2>1. job' = [job EXCEPT ![j] = v]
      BY <1>5 DEF CountKnown, TypeOK
    <2>2. job[j].dirty = {}
      BY <1>1, <1>5 DEF CountKnown
    <2> DEFINE read == [pages |-> job[j].count.pages, known |-> Known]
    <2>3. read \in Numbers /\ (live => Bounded(read))
      BY <1>1 DEF JobRows, Numbers, Bounded
    <2>4. v \in JobRows /\ v.dirty = {} /\ v.count = read
      BY <1>1, <1>3, <2>2, <2>3 DEF JobRows
    <2> HIDE DEF v, read
    <2> QED  BY <1>2, <2>1, <2>3, <2>4, JobStep
  <1>6. CASE LoadRow(j)
    <2> DEFINE new == Counters(job[j].count)
               changed == Changed(stored, new)
               kept == [job[j] EXCEPT !.pc = "commit", !.dirty = changed,
                                      !.count = Only(changed, new)]
               none == [job[j] EXCEPT !.pc = Refreshed(j), !.count = Zero, !.dirty = {}]
    <2>1. job[j].count \in Numbers /\ changed \in SUBSET Columns
      BY <1>1 DEF JobRows, Changed
    <2>2. live => /\ new \in Numbers /\ Bounded(new)
                  /\ Only(changed, new) \in Numbers /\ Bounded(Only(changed, new))
      <3> SUFFICES ASSUME live
                   PROVE  /\ new \in Numbers /\ Bounded(new)
                          /\ Only(changed, new) \in Numbers /\ Bounded(Only(changed, new))
        OBVIOUS
      <3>1. new \in Numbers /\ Bounded(new)
        BY <1>1, <2>1, CountersBounded
      <3> HIDE DEF new, changed
      <3> QED  BY <1>1, <3>1, OnlyBounded
    <2>3. \/ live /\ job' = [job EXCEPT ![j] = kept]
          \/ job' = [job EXCEPT ![j] = none]
      BY <1>6 DEF LoadRow, Forgets
    <2>4. live => kept \in JobRows /\ kept.pc = "commit" /\ kept.count = Only(changed, new)
      <3> HIDE DEF new, changed
      <3> QED  BY <1>1, <1>3, <2>1, <2>2 DEF JobRows
    <2>5. Refreshed(j) \in AtWork
      BY <1>3 DEF Refreshed
    <2>6. none \in JobRows /\ none.dirty = {} /\ none.count = Zero
      BY <1>1, <2>5 DEF JobRows
    <2> HIDE DEF kept, none, new, changed
    <2>7. CASE live /\ job' = [job EXCEPT ![j] = kept]
      BY <1>2, <2>2, <2>4, <2>7, JobStep
    <2>8. CASE job' = [job EXCEPT ![j] = none]
      BY <1>1, <1>2, <2>6, <2>8, JobStep
    <2> QED  BY <2>3, <2>7, <2>8
  <1> QED  BY <1>4, <1>5, <1>6

\* The commit of a refresh writes what was counted, long ago perhaps.
LEMMA CommitStep ==
    ASSUME CountInv, NEW j \in Jobs, CommitCounters(j)
    PROVE  CountInv'
  <1> USE DEF CountInv
  <1>1. /\ fetches \subseteq FetchRows /\ job[j] \in JobRows /\ stored \in Numbers
        /\ Zero \in Numbers /\ (live => Bounded(Zero)) /\ job[j].count \in Numbers
    BY ZeroBounded DEF TypeOK, JobRows, FetchRows
  <1>2. UNCHANGED <<kind, live, recrawled, fetches, run, retries, upkeep>>
    BY DEF CommitCounters
  <1>3. Pages' = Pages /\ Known' = Known
    BY <1>2, SameCounts
  <1>4. stored' \in Numbers /\ (live => Bounded(stored'))
    <2>1. live => Written(job[j]) \in Numbers /\ Bounded(Written(job[j]))
      BY <1>1, WrittenBounded
    <2> QED  BY <1>1, <2>1 DEF CommitCounters
  <1>5. PICK pc \in AtWork : Forgets(j, pc)
    BY DEF CommitCounters, Refreshed, AtWork
  <1> DEFINE v == [job[j] EXCEPT !.pc = pc, !.count = Zero, !.dirty = {}]
  <1>6. job' = [job EXCEPT ![j] = v]
    BY <1>5 DEF Forgets
  <1>7. v \in JobRows /\ v.dirty = {} /\ v.count = Zero
    BY <1>1, <1>5 DEF JobRows
  <1> HIDE DEF v
  <1>8. job' \in [Jobs -> JobRows] /\ \A i \in Jobs : job'[i] = IF i = j THEN v ELSE job[i]
    BY <1>6, <1>7 DEF TypeOK, JobRows
  <1>9. TypeOK'
    BY <1>2, <1>4, <1>7, <1>8 DEF TypeOK, JobRows
  <1> QED  BY <1>1, <1>2, <1>3, <1>4, <1>7, <1>8, <1>9 DEF Bounded

\* A row visited: one more fetch, the counts can only grow.
LEMMA VisitStep ==
    ASSUME CountInv, NEW j \in Jobs, Visit(j)
    PROVE  CountInv'
  <1> USE DEF CountInv
  <1>1. job[j] \in JobRows /\ fetches \subseteq FetchRows /\ job[j].pc = "rows"
        /\ job[j].next \in Rows(j) /\ job[j].dirty = {}
    BY DEF TypeOK, JobRows, FetchRows, Visit
  <1>2. CurrentRow(j) \in Row /\ job[j].next \in Nat
    BY <1>1, FileTypes DEF CurrentRow, Rows
  <1>3. PICK result \in PdlAnswers : Hears(j, CurrentRow(j), result) /\ Visited(j, result)
    BY DEF Visit
  <1>4. fetches \subseteq fetches' /\ fetches' \subseteq FetchRows
    BY <1>1, <1>2, <1>3 DEF Hears, FetchRows, Results, Row
  <1>5. Pages \in Nat /\ Known \in Nat /\ Pages' \in Nat /\ Known' \in Nat
    <2>1. Pages \in Nat /\ Known \in Nat
      BY <1>1, CountsAreNumbers
    <2>2. (fetches \subseteq FetchRows)'
      BY <1>4 DEF FetchRows
    <2>3. (Pages \in Nat /\ Known \in Nat)'
      BY <2>2, CountsAreNumbers, PTL
    <2> QED  BY <2>1, <2>3
  <1>6. Pages <= Pages' /\ Known <= Known'
    BY <1>4, CountsGrow
  <1>7. UNCHANGED <<kind, live, stored, recrawled, run, retries, upkeep>>
    BY DEF Visit
  <1>8. /\ job' \in [Jobs -> JobRows]
        /\ \A i \in Jobs : job'[i].count = job[i].count /\ job'[i].dirty = job[i].dirty
                           /\ (i # j => job'[i].pc = job[i].pc)
    <2> DEFINE found == IF kind = "file" /\ result = "stored" THEN 1 ELSE 0
               fetched == (job[j].fetched + found) % RefreshEvery
               v == [job[j] EXCEPT !.next = NextRow(j, result), !.fetched = fetched,
                                   !.missed = job[j].missed \/ (kind = "file" /\ found = 0),
                                   !.pc = AfterRow(fetched)]
    <2>1. fetched \in Nat
      BY <1>1, Bounds DEF JobRows
    <2>2. NextRow(j, result) \in Nat
      BY <1>2, Bounds DEF NextRow
    <2>3. AfterRow(fetched) \in AtWork
      BY DEF AfterRow, AtWork
    <2>4. job' = [job EXCEPT ![j] = v]
      BY <1>3 DEF Visited
    <2>5. v \in JobRows /\ v.count = job[j].count /\ v.dirty = job[j].dirty
      <3>1. (job[j].missed \/ (kind = "file" /\ found = 0)) \in BOOLEAN
        BY <1>1 DEF JobRows
      <3> HIDE DEF found, fetched
      <3> QED  BY <1>1, <2>1, <2>2, <2>3, <3>1 DEF JobRows
    <2> HIDE DEF v
    <2> QED  BY <2>4, <2>5 DEF TypeOK, JobRows
  <1>9. TypeOK'
    BY <1>1, <1>4, <1>7, <1>8 DEF TypeOK, JobRows, FetchRows
  <1> QED
    BY <1>5, <1>6, <1>7, <1>8, <1>9 DEF Bounded, TypeOK, Numbers

\* The mark of a full recrawl, and a stop: no counter is touched.
LEMMA MarkStep ==
    ASSUME CountInv, NEW j \in Jobs, Stamp(j) \/ Stop(j)
    PROVE  CountInv'
  <1> USE DEF CountInv
  <1>1. fetches \subseteq FetchRows /\ Zero \in Numbers /\ (live => Bounded(Zero))
    BY ZeroBounded DEF TypeOK, FetchRows
  <1>2. UNCHANGED <<kind, live, stored, fetches, retries, upkeep>>
    BY DEF Stamp, Stop
  <1>3. Pages' = Pages /\ Known' = Known
    BY <1>2, SameCounts
  <1>4. /\ job' \in [Jobs -> JobRows] /\ recrawled' \subseteq Jobs
        /\ run' \in [Jobs -> {"none", "queued", "running", "ended", "gone"}]
        /\ \A i \in Jobs : job'[i] = job[i] \/ job'[i] = Fresh("done")
    <2>1. job \in [Jobs -> JobRows] /\ Fresh("done") \in JobRows
      BY <1>1 DEF TypeOK, JobRows, Fresh, Columns
    <2>2. CASE Stamp(j)
      BY <2>1, <2>2 DEF Stamp, Ends, TypeOK
    <2>3. CASE Stop(j)
      BY <2>1, <2>3 DEF Stop, TypeOK
    <2> QED  BY <2>2, <2>3
  <1>5. \A i \in Jobs : /\ job'[i].dirty # {} => job'[i].pc = "commit"
                        /\ live => Bounded(job'[i].count)
    BY <1>1, <1>4 DEF Fresh, TypeOK
  <1>6. TypeOK'
    BY <1>2, <1>4, <1>5 DEF TypeOK, JobRows
  <1> QED  BY <1>2, <1>3, <1>5, <1>6 DEF Bounded

\* Maintenance: a job of the same kind, whose first numbers are the stored ones.
LEMMA ReconcileStep ==
    ASSUME CountInv, Reconcile
    PROVE  CountInv'
  <1> USE DEF CountInv
  <1>1. /\ fetches \subseteq FetchRows /\ stored \in Numbers
        /\ Zero \in Numbers /\ (live => Bounded(Zero))
        /\ upkeep.count \in Numbers /\ upkeep.dirty \in SUBSET Columns
        /\ Pages \in Nat /\ Known \in Nat /\ Pages <= Known
    BY ZeroBounded, CountsAreNumbers DEF TypeOK, FetchRows
  <1>2. UNCHANGED <<kind, live, recrawled, fetches, job, retries>>
    BY DEF Reconcile, ReconcileOpen, ReconcilePages, ReconcileKnown, ReconcileCommit
  <1>3. Pages' = Pages /\ Known' = Known
    BY <1>2, SameCounts
  <1> DEFINE Upkeeps == [pc : {"idle", "pages", "known", "commit"}, count : Numbers,
                         dirty : SUBSET Columns]
  <1>4. /\ stored' \in Numbers /\ (live => Bounded(stored'))
        /\ run' \in [Jobs -> {"none", "queued", "running", "ended", "gone"}]
        /\ upkeep' \in Upkeeps /\ (live => Bounded(upkeep'.count))
    <2>1. CASE ReconcileOpen
      BY <1>1, <2>1 DEF ReconcileOpen, TypeOK, Columns
    <2>2. CASE ReconcilePages
      BY <1>1, <2>2 DEF ReconcilePages, TypeOK, Numbers, Bounded, Changed
    <2>3. CASE ReconcileKnown
      <3> DEFINE read == [pages |-> upkeep.count.pages, known |-> Known]
                 new == Counters(read)
                 changed == IF ~Corrects(upkeep) THEN {}
                            ELSE upkeep.dirty \cup (Changed(upkeep.count, new) \cap {"known"})
      <3>1. read \in Numbers /\ (live => Bounded(read))
        BY <1>1 DEF Numbers, Bounded
      <3>2. Counters(read) \in Numbers
        BY <1>1 DEF Counters, Numbers
      <3>3. live => Bounded(new)
        BY <1>1, <3>1, CountersBounded
      <3>4. changed \in SUBSET Columns
        BY <1>1 DEF Changed, Columns
      <3> HIDE DEF read, changed
      <3>5. Only(changed, new) \in Numbers
        BY <3>2 DEF Only, Numbers
      <3>6. live => Bounded(Only(changed, new))
        BY <1>1, <3>2, <3>3, OnlyBounded
      <3>7. upkeep' = Resting
            \/ upkeep' = [pc |-> "commit", count |-> Only(changed, new), dirty |-> changed]
        BY <2>3 DEF ReconcileKnown, changed, read
      <3>8. UNCHANGED <<stored, run>>
        BY <2>3 DEF ReconcileKnown
      <3> HIDE DEF new
      <3>9. Resting \in Upkeeps /\ Resting.count = Zero
        BY <1>1 DEF Resting, Columns
      <3> DEFINE next == [pc |-> "commit", count |-> Only(changed, new), dirty |-> changed]
      <3>10. next \in Upkeeps /\ next.count = Only(changed, new)
        BY <3>4, <3>5
      <3>11. upkeep' \in Upkeeps /\ (live => Bounded(upkeep'.count))
        <4> HIDE DEF next, Upkeeps
        <4>1. upkeep' = Resting \/ upkeep' = next
          BY <3>7 DEF next
        <4> QED  BY <1>1, <3>6, <3>9, <3>10, <4>1
      <3>12. stored' \in Numbers /\ (live => Bounded(stored'))
             /\ run' \in [Jobs -> {"none", "queued", "running", "ended", "gone"}]
        BY <3>8 DEF TypeOK, Bounded, Pages, Known
      <3> QED  BY <3>11, <3>12
    <2>4. CASE ReconcileCommit
      <3>1. live => Written(upkeep) \in Numbers /\ Bounded(Written(upkeep))
        BY <1>1, WrittenBounded
      <3> QED  BY <1>1, <2>4, <3>1 DEF ReconcileCommit, Resting, TypeOK, Columns
    <2> QED  BY <2>1, <2>2, <2>3, <2>4 DEF Reconcile
  <1>5. TypeOK'
    BY <1>2, <1>4 DEF TypeOK
  <1> QED  BY <1>2, <1>3, <1>4, <1>5 DEF Bounded

\* A deleted source has no counters any more.
LEMMA DeleteStep ==
    ASSUME CountInv, Delete
    PROVE  CountInv'
  <1>1. TypeOK' /\ ~live'
    BY ZeroBounded DEF CountInv, Delete, TypeOK, Numbers, Zero
  <1> QED  BY <1>1 DEF CountInv

LEMMA NextCounts == CountInv /\ [Next]_vars => CountInv'
  <1> SUFFICES ASSUME CountInv, [Next]_vars PROVE CountInv'
    OBVIOUS
  <1>1. CASE UNCHANGED vars
    BY <1>1 DEF vars, CountInv, TypeOK, Bounded, Pages, Known
  <1>2. ASSUME NEW j \in Jobs, Create(j) \/ Works(j) \/ Die(j) \/ Retry(j) \/ Stop(j)
        PROVE  CountInv'
    BY <1>2, LifeStep, RefreshStep, CommitStep, VisitStep, MarkStep DEF Works, Refreshes
  <1>3. CASE Reconcile
    BY <1>3, ReconcileStep
  <1>4. CASE Delete
    BY <1>4, DeleteStep
  <1> QED  BY <1>1, <1>2, <1>3, <1>4 DEF Next

-----------------------------------------------------------------------------
\* Whatever runs, deaths, retries, refreshes and maintenance of a source are
\* interleaved, its counters never promise more pages or URLs than its fetches
\* hold (store.py refresh_source_crawl_counters, reconcile.py), for every file,
\* every number of runs and every interval of refreshes.
THEOREM CountersNeverOverstated == Spec => []NeverOverstated
  <1>1. Spec => []CountInv
    BY InitCounts, NextCounts, PTL DEF Spec
  <1>2. CountInv => NeverOverstated
    BY DEF CountInv, NeverOverstated, Bounded
  <1> QED  BY <1>1, <1>2, PTL

\* Rows of runs, jobs, counters and fetches keep their types (store.py, seed.py,
\* enrichment.py, reconcile.py).
THEOREM TypesHold == Spec => []TypeOK
  <1>1. Spec => []CountInv
    BY InitCounts, NextCounts, PTL DEF Spec
  <1>2. CountInv => TypeOK
    BY DEF CountInv
  <1> QED  BY <1>1, <1>2, PTL

-----------------------------------------------------------------------------
(* The mark of a full recrawl. While a job has missed no row, every row     *)
(* before the next one has its fetch by this run, in the last attempt or in *)
(* one that died; past the last row (next is 0) all of them have.           *)

Covered(fs, j, i) ==
    \E f \in fs : /\ f.run = j /\ f.url = RowsOf[j][i].url
                  /\ kind = "file" => f.result = "stored"
Spent(fs, j) == \E f \in fs : f.run = j /\ f.result = "spent"
Earned(fs, j) == (\A i \in Rows(j) : Covered(fs, j, i)) \/ Spent(fs, j)
Looked(fs, j, n) == (\A i \in Rows(j) : i < n => Covered(fs, j, i)) \/ Spent(fs, j)

Progress(fs, j, v) ==
    /\ v.pc \in {"none", "launched", "dead", "rows"} => v.next # 0
    /\ v.pc \in {"close", "stamp"} => v.next = 0
    /\ v.pc = "stamp" => ~v.missed
    /\ live /\ ~v.missed => IF v.next = 0 THEN Earned(fs, j) ELSE Looked(fs, j, v.next)

EarnedInv ==
    /\ \A j \in Jobs : Progress(fetches, j, job[j])
    /\ \A j \in recrawled : live /\ Earned(fetches, j)

LEMMA RowsCount ==
    ASSUME NEW j \in Jobs
    PROVE  /\ Rows(j) \subseteq Nat \ {0}
           /\ \A n \in Nat \ {0} : n \notin Rows(j) => \A i \in Rows(j) : i < n
  <1>1. PICK l \in Nat : DOMAIN RowsOf[j] = 1..l
    BY FileTypes
  <1> QED  BY <1>1, Bounds DEF Rows

\* What was looked at stays so with more fetches.
LEMMA EarnedGrows ==
    ASSUME NEW fs, NEW gs, fs \subseteq gs, NEW j, NEW v, Progress(fs, j, v)
    PROVE  Progress(gs, j, v) /\ (Earned(fs, j) => Earned(gs, j))
  BY DEF Progress, Earned, Looked, Covered, Spent

\* A job at its first row has looked at nothing.
LEMMA FreshProgress ==
    ASSUME NEW j \in Jobs, NEW fs, NEW pc \in {"none", "launched", "dead", "done"}
    PROVE  Progress(fs, j, Fresh(pc))
  <1>1. \A i \in Rows(j) : ~(i < 1)
    BY RowsCount
  <1> QED  BY <1>1 DEF Progress, Fresh, Looked

\* One job moves.
LEMMA EarnedJob ==
    ASSUME CountInv, EarnedInv, NEW j \in Jobs, NEW v,
           job' = [job EXCEPT ![j] = v], Progress(fetches', j, v),
           fetches \subseteq fetches', UNCHANGED kind, UNCHANGED live,
           \/ UNCHANGED recrawled
           \/ live /\ Earned(fetches, j) /\ recrawled' = recrawled \cup {j}
    PROVE  EarnedInv'
  <1>1. \A i \in Jobs : job'[i] = IF i = j THEN v ELSE job[i]
    BY DEF CountInv, TypeOK
  <1>2. ASSUME NEW i, NEW w, NEW fs
        PROVE  /\ Progress(fs, i, w)' <=> Progress(fs, i, w)
               /\ Earned(fs, i)' <=> Earned(fs, i)
    <2>1. Earned(fs, i)' <=> Earned(fs, i)
      BY DEF Earned, Covered, Spent, Rows
    <2>2. \A n : Looked(fs, i, n)' <=> Looked(fs, i, n)
      BY DEF Looked, Covered, Spent, Rows
    <2> QED  BY <2>1, <2>2, Zenon DEF Progress
  <1>3. ASSUME NEW i \in Jobs PROVE Progress(fetches', i, job'[i])
    BY <1>1, EarnedGrows DEF EarnedInv
  <1>4. ASSUME NEW i \in recrawled' PROVE live /\ Earned(fetches', i)
    <2>1. live /\ Earned(fetches, i)
      BY DEF EarnedInv
    <2> QED  BY <2>1 DEF Earned, Covered, Spent
  <1>5. \A i \in Jobs : Progress(fetches, i, job[i])'
    BY <1>2, <1>3 DEF Progress
  <1>6. \A i \in recrawled' : live' /\ Earned(fetches, i)'
    BY <1>2, <1>4 DEF Earned
  <1> QED  BY <1>5, <1>6 DEF EarnedInv

\* A job that goes elsewhere with the same numbers.
LEMMA EarnedGoes ==
    ASSUME NEW fs, NEW j, NEW u, NEW v, Progress(fs, j, u),
           v.next = u.next, v.missed = u.missed,
           v.pc \in {"none", "launched", "dead", "rows"} => u.next # 0,
           v.pc \in {"close", "stamp"} => u.next = 0,
           v.pc = "stamp" => ~u.missed
    PROVE  Progress(fs, j, v)
  BY DEF Progress

\* The row of a run changes and its job waits, works on, ends or dies.
LEMMA EarnedLife ==
    ASSUME CountInv, EarnedInv, NEW j \in Jobs,
           \/ Create(j) \/ Start(j) \/ Raise(j) \/ VisitRefused(j) \/ Close(j)
           \/ Stamp(j) \/ Die(j) \/ Retry(j)
    PROVE  EarnedInv'
  <1> DEFINE Pcs == {"launched", "rows", "raised", "stamp"}
             moved(pc) == [job[j] EXCEPT !.pc = pc]
  <1>1. /\ UNCHANGED <<kind, fetches>> /\ UNCHANGED live
        /\ UNCHANGED recrawled \/ Stamp(j)
    BY DEF Create, Start, Raise, VisitRefused, Close, Stamp, Die, Retry
  <1>2. \/ \E pc \in {"done", "dead"} : job' = [job EXCEPT ![j] = Fresh(pc)]
        \/ \E pc \in Pcs : /\ job' = [job EXCEPT ![j] = moved(pc)]
                           /\ pc \in {"launched", "rows"} => job[j].pc \in {"none", "launched", "dead"}
                           /\ pc = "stamp" => job[j].pc = "close" /\ ~job[j].missed
    <2>1. CASE Create(j)
      BY <2>1 DEF Create, Goes
    <2>2. CASE Start(j)
      BY <2>2 DEF Start, Goes, Ends
    <2>3. CASE Raise(j)
      BY <2>3 DEF Raise, Ends
    <2>4. CASE VisitRefused(j)
      BY <2>4 DEF VisitRefused, Goes
    <2>5. CASE Close(j)
      <3>1. job[j].pc = "close" /\ IF ~job[j].missed THEN Goes(j, "stamp") ELSE Ends(j)
        BY <2>5, Zenon DEF Close, Complete
      <3> QED  BY <3>1 DEF Goes, Ends
    <2>6. CASE Stamp(j)
      BY <2>6 DEF Stamp, Ends
    <2>7. CASE Die(j)
      BY <2>7 DEF Die
    <2>8. CASE Retry(j)
      BY <2>8 DEF Retry, Goes
    <2> QED  BY <2>1, <2>2, <2>3, <2>4, <2>5, <2>6, <2>7, <2>8
  <1>3. Progress(fetches, j, job[j]) /\ job[j] \in JobRows
    BY DEF EarnedInv, CountInv, TypeOK, JobRows
  <1>4. PICK v : job' = [job EXCEPT ![j] = v] /\ Progress(fetches, j, v)
    <2>1. CASE \E pc \in {"done", "dead"} : job' = [job EXCEPT ![j] = Fresh(pc)]
      BY <2>1, FreshProgress
    <2>2. CASE \E pc \in Pcs : /\ job' = [job EXCEPT ![j] = moved(pc)]
                               /\ pc \in {"launched", "rows"} => job[j].pc \in {"none", "launched", "dead"}
                               /\ pc = "stamp" => job[j].pc = "close" /\ ~job[j].missed
      <3>1. PICK pc \in Pcs : /\ job' = [job EXCEPT ![j] = moved(pc)]
                              /\ pc \in {"launched", "rows"} => job[j].pc \in {"none", "launched", "dead"}
                              /\ pc = "stamp" => job[j].pc = "close" /\ ~job[j].missed
        BY <2>2
      <3>2. moved(pc).pc = pc /\ moved(pc).next = job[j].next /\ moved(pc).missed = job[j].missed
        BY <1>3 DEF JobRows
      <3>3. pc \in {"launched", "rows"} => job[j].next # 0
        BY <1>3, <3>1 DEF Progress
      <3>4. pc = "stamp" => job[j].next = 0
        BY <1>3, <3>1 DEF Progress
      <3> HIDE DEF moved
      <3>5. Progress(fetches, j, moved(pc))
        BY <1>3, <3>1, <3>2, <3>3, <3>4, EarnedGoes
      <3> QED  BY <3>1, <3>5
    <2> QED  BY <1>2, <2>1, <2>2
  <1>5. \/ UNCHANGED recrawled
        \/ live /\ Earned(fetches, j) /\ recrawled' = recrawled \cup {j}
    <2>1. CASE Stamp(j)
      <3>1. job[j].pc = "stamp" /\ recrawled' = IF live THEN recrawled \cup {j} ELSE recrawled
        BY <2>1 DEF Stamp
      <3>2. live => Earned(fetches, j)
        BY <1>3, <3>1 DEF Progress
      <3> QED  BY <3>1, <3>2
    <2> QED  BY <1>1, <2>1
  <1> QED  BY <1>1, <1>4, <1>5, EarnedJob

\* The refreshes decide nothing about the rows; past the last one the run ends.
LEMMA EarnedRefreshes ==
    ASSUME CountInv, EarnedInv, NEW j \in Jobs, Refreshes(j)
    PROVE  EarnedInv'
  <1>1. UNCHANGED <<kind, fetches, recrawled>> /\ UNCHANGED live
    BY DEF Refreshes, CountPages, CountKnown, LoadRow, CommitCounters
  <1>2. Progress(fetches, j, job[j]) /\ job[j] \in JobRows
    BY DEF EarnedInv, CountInv, TypeOK, JobRows
  <1> DEFINE reads(pc, count) == [job[j] EXCEPT !.pc = pc, !.count = count]
             writes(pc, count, dirty) == [job[j] EXCEPT !.pc = pc, !.count = count, !.dirty = dirty]
             Pcs == {"known", "load", "commit", "raised", Refreshed(j)}
  <1>3. PICK v : /\ job' = [job EXCEPT ![j] = v]
                 /\ v.next = job[j].next /\ v.missed = job[j].missed
                 /\ v.pc \in Pcs
    <2>1. /\ \A pc, count : LET v == reads(pc, count) IN
                 v.pc = pc /\ v.next = job[j].next /\ v.missed = job[j].missed
          /\ \A pc, count, dirty : LET v == writes(pc, count, dirty) IN
                 v.pc = pc /\ v.next = job[j].next /\ v.missed = job[j].missed
      BY <1>2 DEF JobRows
    <2>2. \/ \E pc \in Pcs : \E count : job' = [job EXCEPT ![j] = reads(pc, count)]
          \/ \E pc \in Pcs : \E count, dirty : job' = [job EXCEPT ![j] = writes(pc, count, dirty)]
      <3>1. CASE CountPages(j)
        <4>1. job' = [job EXCEPT ![j] = reads("known", [pages |-> Pages, known |-> 0])]
          BY <3>1 DEF CountPages
        <4> QED  BY <4>1
      <3>2. CASE CountKnown(j)
        <4>1. job' = [job EXCEPT ![j] = reads("load", [pages |-> job[j].count.pages,
                                                       known |-> Known])]
          BY <3>2 DEF CountKnown
        <4> QED  BY <4>1
      <3>3. CASE LoadRow(j)
        <4> DEFINE new == Counters(job[j].count)
        <4>1. \/ job' = [job EXCEPT ![j] = writes("commit", Only(Changed(stored, new), new),
                                                  Changed(stored, new))]
              \/ job' = [job EXCEPT ![j] = writes(Refreshed(j), Zero, {})]
          BY <3>3 DEF LoadRow, Forgets
        <4> QED  BY <4>1
      <3>4. CASE CommitCounters(j)
        <4>1. \E pc \in {"raised", Refreshed(j)} : job' = [job EXCEPT ![j] = writes(pc, Zero, {})]
          BY <3>4 DEF CommitCounters, Forgets
        <4> QED  BY <4>1
      <3> QED  BY <3>1, <3>2, <3>3, <3>4 DEF Refreshes
    <2> HIDE DEF reads, writes, Pcs
    <2> QED  BY <2>1, <2>2
  <1>4. /\ v.pc \in {"none", "launched", "dead", "rows"} => job[j].next # 0
        /\ v.pc \in {"close", "stamp"} => job[j].next = 0
        /\ v.pc # "stamp"
    BY <1>3 DEF Refreshed
  <1>5. Progress(fetches, j, v)
    BY <1>2, <1>3, <1>4, EarnedGoes
  <1> QED  BY <1>1, <1>3, <1>5, EarnedJob

\* Past the last row all rows of the run were looked at.
LEMMA EarnedLast ==
    ASSUME CountInv, EarnedInv, NEW j \in Jobs, LastRow(j)
    PROVE  EarnedInv'
  <1>1. /\ UNCHANGED <<kind, fetches, recrawled>> /\ UNCHANGED live
        /\ job[j].pc = "rows" /\ job[j].next \notin Rows(j)
        /\ job' = [job EXCEPT ![j] = [@ EXCEPT !.pc = "pages", !.next = 0, !.fetched = 0]]
    BY DEF LastRow
  <1>2. Progress(fetches, j, job[j]) /\ job[j] \in JobRows
    BY DEF EarnedInv, CountInv, TypeOK, JobRows
  <1>3. PICK v : /\ job' = [job EXCEPT ![j] = v]
                 /\ v.pc = "pages" /\ v.next = 0 /\ v.missed = job[j].missed
    <2> DEFINE past == [job[j] EXCEPT !.pc = "pages", !.next = 0, !.fetched = 0]
    <2>1. past.pc = "pages" /\ past.next = 0 /\ past.missed = job[j].missed
      BY <1>2 DEF JobRows
    <2>2. job' = [job EXCEPT ![j] = past]
      BY <1>1
    <2> HIDE DEF past
    <2> QED  BY <2>1, <2>2
  <1>4. job[j].next \in Nat \ {0}
    BY <1>1, <1>2 DEF Progress, JobRows
  <1>5. live /\ ~job[j].missed => Earned(fetches, j)
    <2>1. \A i \in Rows(j) : i < job[j].next
      BY <1>1, <1>4, RowsCount
    <2> QED  BY <1>2, <1>4, <2>1 DEF Progress, Looked, Earned
  <1>6. Progress(fetches, j, v)
    BY <1>3, <1>5 DEF Progress
  <1> QED  BY <1>1, <1>3, <1>6, EarnedJob

\* The row is looked at: its fetch is there, the credits are spent, or the job
\* has missed it.
LEMMA EarnedVisits ==
    ASSUME CountInv, EarnedInv, NEW j \in Jobs, Visit(j)
    PROVE  EarnedInv'
  <1>1. /\ UNCHANGED <<kind, recrawled>> /\ UNCHANGED live
        /\ job[j].next \in Rows(j)
    BY DEF Visit
  <1>2. Progress(fetches, j, job[j]) /\ job[j] \in JobRows
    BY DEF EarnedInv, CountInv, TypeOK, JobRows
  <1> DEFINE n == job[j].next
  <1>3. PICK result \in PdlAnswers : Hears(j, CurrentRow(j), result) /\ Visited(j, result)
    BY DEF Visit
  <1>4. fetches \subseteq fetches'
    BY <1>3 DEF Hears
  <1> DEFINE found == IF kind = "file" /\ result = "stored" THEN 1 ELSE 0
             gone == (job[j].fetched + found) % RefreshEvery
             after == [job[j] EXCEPT !.next = NextRow(j, result), !.fetched = gone,
                                     !.missed = job[j].missed \/ (kind = "file" /\ found = 0),
                                     !.pc = AfterRow(gone)]
  <1>5. job' = [job EXCEPT ![j] = after]
    BY <1>3 DEF Visited
  <1>6. /\ after.next = NextRow(j, result) /\ after.pc \in {"pages", "rows"}
        /\ ~after.missed => ~job[j].missed /\ ~(kind = "file" /\ found = 0)
    <2>1. after.next = NextRow(j, result) /\ after.pc = AfterRow(gone)
          /\ after.missed = (job[j].missed \/ (kind = "file" /\ found = 0))
      <3> HIDE DEF found, gone
      <3> QED  BY <1>2 DEF JobRows
    <2>2. AfterRow(gone) \in {"pages", "rows"}
      BY DEF AfterRow
    <2> HIDE DEF found, gone, after
    <2> QED  BY <2>1, <2>2
  <1>7. n \in Nat \ {0} /\ NextRow(j, result) \in Nat \ {0}
    BY <1>1, RowsCount, Bounds DEF NextRow
  <1>8. ASSUME live, ~after.missed PROVE Looked(fetches', j, after.next)
    <2>1. Looked(fetches, j, n) /\ ~(kind = "file" /\ result # "stored")
      BY <1>2, <1>6, <1>7, <1>8 DEF Progress
    <2>2. CurrentRow(j) = RowsOf[j][n]
      BY DEF CurrentRow
    <2>3. kind = "file" => CurrentRow(j).named
      BY <1>3, <2>1 DEF Hears
    <2>4. [run |-> j, url |-> RowsOf[j][n].url, result |-> result] \in fetches'
      <3>1. CASE kind = "file"
        BY <1>3, <2>2, <2>3, <3>1 DEF Hears
      <3>2. CASE kind # "file"
        BY <1>3, <2>2, <3>2 DEF Hears
      <3> QED  BY <3>1, <3>2
    <2>5. CASE result = "spent"
      BY <2>4, <2>5 DEF Looked, Spent
    <2>6. CASE result # "spent"
      <3>1. after.next = n + 1
        BY <1>6, <2>6 DEF NextRow
      <3>2. Covered(fetches', j, n)
        BY <2>1, <2>4 DEF Covered
      <3>3. Looked(fetches', j, n)
        BY <1>4, <2>1 DEF Looked, Covered, Spent
      <3>4. \A i \in Rows(j) : i < n + 1 => i < n \/ i = n
        BY <1>7, RowsCount
      <3> HIDE DEF after
      <3> QED  BY <3>1, <3>2, <3>3, <3>4 DEF Looked
    <2> QED  BY <2>5, <2>6
  <1> HIDE DEF after, found, gone
  <1>9. Progress(fetches', j, after)
    BY <1>6, <1>7, <1>8 DEF Progress
  <1>10. PICK v : v = after
    OBVIOUS
  <1> QED  BY <1>1, <1>4, <1>5, <1>9, <1>10, EarnedJob

\* Stops and maintenance leave the jobs alone; a removal leaves no mark.
LEMMA EarnedElse ==
    ASSUME CountInv, EarnedInv,
           Delete \/ Reconcile \/ (\E j \in Jobs : Stop(j)) \/ UNCHANGED vars
    PROVE  EarnedInv'
  <1>1. UNCHANGED job /\ UNCHANGED kind
    BY DEF Delete, Reconcile, ReconcileOpen, ReconcilePages, ReconcileKnown, ReconcileCommit,
           Stop, vars
  <1>2. CASE Delete
    <2>1. ~live' /\ recrawled' = {}
      BY <1>2 DEF Delete
    <2> QED  BY <1>1, <2>1 DEF EarnedInv, Progress
  <1>3. CASE Reconcile \/ (\E j \in Jobs : Stop(j)) \/ UNCHANGED vars
    <2>1. UNCHANGED <<fetches, recrawled>> /\ UNCHANGED live
      BY <1>3 DEF Reconcile, ReconcileOpen, ReconcilePages, ReconcileKnown, ReconcileCommit,
                  Stop, vars
    <2> QED  BY <1>1, <2>1 DEF EarnedInv, Progress, Earned, Looked, Covered, Spent, Rows
  <1> QED  BY <1>2, <1>3

LEMMA EarnedAtFirst == Init => EarnedInv
  <1> SUFFICES ASSUME Init PROVE EarnedInv
    OBVIOUS
  <1>1. recrawled = {} /\ \A j \in Jobs : job[j] = Fresh("none")
    BY DEF Init
  <1> QED  BY <1>1, FreshProgress DEF EarnedInv

LEMMA EarnedStep == ASSUME CountInv, EarnedInv, [Next]_vars PROVE EarnedInv'
  <1>1. ASSUME NEW j \in Jobs, Create(j) \/ Works(j) \/ Die(j) \/ Retry(j)
        PROVE  EarnedInv'
    BY <1>1, EarnedLife, EarnedVisits, EarnedLast, EarnedRefreshes DEF Works
  <1> QED  BY <1>1, EarnedElse DEF Next

\* A run marks the source fully recrawled only when each row it had to look at
\* has its fetch by this run, or the credits ran out, after any number of deaths
\* and retries and beside any other writer (seed.py, enrichment.py,
\* mark_source_full_recrawl_complete), for every file.
THEOREM RecrawlsEarned == Spec => []RecrawlEarned
  <1>1. Init => CountInv /\ EarnedInv
    BY InitCounts, EarnedAtFirst
  <1>2. CountInv /\ EarnedInv /\ [Next]_vars => (CountInv /\ EarnedInv)'
    BY NextCounts, EarnedStep
  <1>3. EarnedInv => RecrawlEarned
    BY DEF EarnedInv, Earned, Covered, Spent, RecrawlEarned
  <1> QED  BY <1>1, <1>2, <1>3, PTL DEF Spec

-----------------------------------------------------------------------------
(* The file of the source. A file a source named once was put there by an   *)
(* upload that is past its commit; nobody removes the file of one that is   *)
(* not, and who removes one has seen the source with another.               *)

UploadRow == [pc : {"idle", "write", "commit", "unlink", "done"}, old : Files \cup {None}]

Placed(f) == f \in Files /\ upload[f].pc \in {"unlink", "done"}

FileInv ==
    /\ upload \in [Files -> UploadRow]
    /\ holder \in [state : {"none", "live", "deleted"}, kind : {"file", "enrichment"},
                   file : Files \cup {None}]
    /\ removal \in [pc : {"idle", "open", "unlink", "done"}, file : Files \cup {None}]
    /\ holder.state # "none" => Placed(holder.file)
    /\ holder.state = "none" => holder.file = None
    /\ \A f \in Files :
          /\ upload[f].pc # "idle" /\ upload[f].old # None => Placed(upload[f].old)
          /\ upload[f].pc = "unlink" => upload[f].old # None /\ upload[f].old # holder.file
          /\ upload[f].pc = "commit" => f \in disk
    /\ removal.file # None => Placed(removal.file)
    /\ removal.pc # "idle" => holder.state # "none"
    /\ removal.pc = "unlink" => holder.state = "deleted"
    /\ FileKept

LEMMA FileAtFirst == FilesInit => FileInv
  BY DEF FilesInit, FileInv, UploadRow, FileKept, Held

LEMMA PlacedStay ==
    ASSUME FileInv, NEW f \in Files, NEW v \in UploadRow, upload' = [upload EXCEPT ![f] = v],
           Placed(f) => v.pc \in {"unlink", "done"}
    PROVE  /\ \A g \in Files : upload'[g] = IF g = f THEN v ELSE upload[g]
           /\ upload' \in [Files -> UploadRow]
           /\ \A g : Placed(g) => g \in Files /\ upload'[g].pc \in {"unlink", "done"}
  <1>1. /\ \A g \in Files : upload'[g] = IF g = f THEN v ELSE upload[g]
        /\ upload' \in [Files -> UploadRow]
    BY DEF FileInv
  <1> QED  BY <1>1 DEF Placed

\* An upload goes on beside the source it has read.
LEMMA UploadMoves ==
    ASSUME FileInv, NEW f \in Files, NEW v \in UploadRow, upload' = [upload EXCEPT ![f] = v],
           Placed(f) => v.pc \in {"unlink", "done"},
           v.old # None => Placed(v.old),
           v.pc # "unlink",
           v.pc = "commit" => f \in disk',
           \A g \in Files \ {f} : upload[g].pc = "commit" => g \in disk',
           holder.state = "live" => holder.file \in disk',
           UNCHANGED <<holder, removal>>
    PROVE  FileInv'
  <1>1. /\ \A g \in Files : upload'[g] = IF g = f THEN v ELSE upload[g]
        /\ upload' \in [Files -> UploadRow]
        /\ \A g : Placed(g) => g \in Files /\ upload'[g].pc \in {"unlink", "done"}
    BY PlacedStay
  <1>2. ASSUME NEW g \in Files
        PROVE  /\ upload'[g].pc # "idle" /\ upload'[g].old # None =>
                    upload'[g].old \in Files /\ upload'[upload'[g].old].pc \in {"unlink", "done"}
               /\ upload'[g].pc = "unlink" => upload'[g].old # None /\ upload'[g].old # holder.file
               /\ upload'[g].pc = "commit" => g \in disk'
    <2>1. CASE g = f
      BY <1>1, <2>1
    <2>2. CASE g # f
      BY <1>1, <2>2 DEF FileInv
    <2> QED  BY <2>1, <2>2
  <1> QED  BY <1>1, <1>2 DEF FileInv, Placed, FileKept, Held

\* An upload makes its file the source's; the source was none, or named the file
\* the upload is to remove or another.
LEMMA UploadCommits ==
    ASSUME FileInv, NEW f \in Files, NEW v \in UploadRow, upload' = [upload EXCEPT ![f] = v],
           upload[f].pc = "commit", v.pc \in {"unlink", "done"},
           v.old # None => v.old = upload[f].old,
           v.pc = "unlink" => v.old # None,
           NEW k \in {"file", "enrichment"},
           holder' = [state |-> "live", kind |-> k, file |-> f],
           holder.state # "deleted", UNCHANGED <<disk, removal>>
    PROVE  FileInv'
  <1>1. /\ \A g \in Files : upload'[g] = IF g = f THEN v ELSE upload[g]
        /\ upload' \in [Files -> UploadRow]
        /\ \A g : Placed(g) => g \in Files /\ upload'[g].pc \in {"unlink", "done"}
    BY PlacedStay
  <1>2. ASSUME NEW g \in Files
        PROVE  /\ upload'[g].pc # "idle" /\ upload'[g].old # None =>
                    upload'[g].old \in Files /\ upload'[upload'[g].old].pc \in {"unlink", "done"}
               /\ upload'[g].pc = "unlink" => upload'[g].old # None /\ upload'[g].old # f
               /\ upload'[g].pc = "commit" => g \in disk'
    <2>1. CASE g = f
      <3>1. v.old # None => Placed(v.old) /\ v.old # f
        BY DEF FileInv, Placed
      <3> QED  BY <1>1, <2>1, <3>1
    <2>2. CASE g # f
      <3>1. upload[g].pc = "unlink" => Placed(upload[g].old) /\ upload[g].old # f
        BY DEF FileInv, Placed
      <3> QED  BY <1>1, <2>2, <3>1 DEF FileInv
    <2> QED  BY <2>1, <2>2
  <1>3. removal.pc # "unlink" /\ f \in disk
    BY DEF FileInv
  <1>4. holder'.state = "live" /\ holder'.kind = k /\ holder'.file = f
    OBVIOUS
  <1> QED  BY <1>1, <1>2, <1>3, <1>4 DEF FileInv, Placed, FileKept, Held

LEMMA UploadStep ==
    ASSUME FileInv, NEW f \in Files,
           \/ Open(f) \/ Write(f) \/ CreateSource(f)
           \/ Replace(f) \/ Unlink(f) \/ Abandon(f)
    PROVE  FileInv'
  <1>1. /\ upload[f] \in UploadRow /\ upload[f] = [pc |-> upload[f].pc, old |-> upload[f].old]
        /\ holder.file \in Files \cup {None} /\ holder.kind \in {"file", "enrichment"}
        /\ holder = [state |-> holder.state, kind |-> holder.kind, file |-> holder.file]
        /\ UNCHANGED removal
    BY DEF FileInv, UploadRow, Open, Write, CreateSource, Replace, Unlink, Abandon
  <1>2. PICK done \in UploadRow : done = [pc |-> "done", old |-> None]
    BY DEF UploadRow
  <1>3. holder.state = "live" => holder.file \in disk
    BY DEF FileInv, FileKept, Held
  <1>4. CASE Open(f)
    <2>1. PICK v \in UploadRow : v = [pc |-> "write", old |-> holder.file]
      BY <1>1 DEF UploadRow
    <2>2. upload' = [upload EXCEPT ![f] = v] /\ UNCHANGED <<holder, disk>> /\ ~Placed(f)
      BY <1>4, <2>1 DEF Open, Placed
    <2>3. v.old # None => Placed(v.old)
      BY <2>1 DEF FileInv
    <2>4. \A g \in Files \ {f} : upload[g].pc = "commit" => g \in disk'
      BY <2>2 DEF FileInv
    <2> QED  BY <1>1, <1>3, <2>1, <2>2, <2>3, <2>4, UploadMoves
  <1>5. CASE Write(f)
    <2>1. PICK v \in UploadRow : v = [pc |-> "commit", old |-> upload[f].old]
      BY <1>1 DEF UploadRow
    <2>2. upload' = [upload EXCEPT ![f] = v] /\ disk' = disk \cup {f} /\ UNCHANGED holder
          /\ upload[f].pc = "write"
      <3>1. v = [upload[f] EXCEPT !.pc = "commit"]
        BY <1>1, <2>1 DEF UploadRow
      <3> QED  BY <1>5, <3>1 DEF Write
    <2>3. (v.old # None => Placed(v.old)) /\ ~Placed(f)
      BY <2>1, <2>2 DEF FileInv, Placed
    <2>4. \A g \in Files \ {f} : upload[g].pc = "commit" => g \in disk'
      BY <2>2 DEF FileInv
    <2> QED  BY <1>1, <1>3, <2>1, <2>2, <2>3, <2>4, UploadMoves
  <1>6. CASE CreateSource(f)
    <2>1. upload' = [upload EXCEPT ![f] = done] /\ upload[f].pc = "commit" /\ UNCHANGED disk
      BY <1>2, <1>6 DEF CreateSource, Done
    <2>2. CASE holder.state = "none"
      <3>1. PICK k \in {"file", "enrichment"} :
                holder' = [state |-> "live", kind |-> k, file |-> f]
        BY <1>6, <2>2 DEF CreateSource
      <3> QED  BY <1>1, <1>2, <2>1, <2>2, <3>1, UploadCommits
    <2>3. CASE holder.state # "none"
      <3>1. UNCHANGED holder /\ \A g \in Files \ {f} : upload[g].pc = "commit" => g \in disk'
        BY <1>6, <2>1, <2>3 DEF CreateSource, FileInv
      <3> QED  BY <1>1, <1>2, <1>3, <2>1, <3>1, UploadMoves
    <2> QED  BY <2>2, <2>3
  <1>7. CASE Replace(f)
    <2>1. upload[f].pc = "commit" /\ upload[f].old # None /\ UNCHANGED disk
      BY <1>7 DEF Replace
    <2>2. CASE Held
      <3>1. PICK v \in UploadRow : v = [pc |-> "unlink", old |-> upload[f].old]
        BY <1>1 DEF UploadRow
      <3>2. /\ upload' = [upload EXCEPT ![f] = v]
            /\ holder' = [state |-> "live", kind |-> holder.kind, file |-> f]
        BY <1>1, <1>7, <2>2, <3>1 DEF Replace, Held
      <3> QED  BY <1>1, <2>1, <2>2, <3>1, <3>2, UploadCommits DEF Held
    <2>3. CASE ~Held
      <3>1. /\ upload' = [upload EXCEPT ![f] = done] /\ UNCHANGED holder
            /\ \A g \in Files \ {f} : upload[g].pc = "commit" => g \in disk'
        BY <1>2, <1>7, <2>1, <2>3 DEF Replace, Done, FileInv
      <3> QED  BY <1>1, <1>2, <1>3, <2>1, <3>1, UploadMoves
    <2> QED  BY <2>2, <2>3
  <1>8. CASE Unlink(f)
    <2>1. /\ upload' = [upload EXCEPT ![f] = done] /\ disk' = disk \ {upload[f].old}
          /\ upload[f].pc = "unlink" /\ UNCHANGED holder
      BY <1>2, <1>8 DEF Unlink, Done, Replaced
    <2>2. Placed(upload[f].old) /\ upload[f].old # holder.file
      BY <2>1 DEF FileInv
    <2>3. \A g \in Files \ {f} : upload[g].pc = "commit" => g \in disk'
      BY <2>1, <2>2 DEF FileInv, Placed
    <2>4. holder.state = "live" => holder.file \in disk'
      BY <1>3, <2>1, <2>2
    <2> QED  BY <1>1, <1>2, <2>1, <2>3, <2>4, UploadMoves
  <1>9. CASE Abandon(f)
    <2>1. /\ upload' = [upload EXCEPT ![f] = done] /\ UNCHANGED <<holder, disk>>
          /\ \A g \in Files \ {f} : upload[g].pc = "commit" => g \in disk'
      BY <1>2, <1>9 DEF Abandon, Done, FileInv
    <2> QED  BY <1>1, <1>2, <1>3, <2>1, UploadMoves
  <1> QED  BY <1>4, <1>5, <1>6, <1>7, <1>8, <1>9

\* The removal takes the file the source had, once the source is deleted.
LEMMA RemovalStep ==
    ASSUME FileInv, OpenRemoval \/ CommitRemoval \/ UnlinkRemoved
    PROVE  FileInv'
  <1>1. UNCHANGED upload
    BY DEF OpenRemoval, CommitRemoval, UnlinkRemoved
  <1>2. \A g : Placed(g)' <=> Placed(g)
    BY <1>1 DEF Placed
  <1>3. CASE OpenRemoval
    <2>1. /\ UNCHANGED <<holder, disk>> /\ removal'.pc = "open"
          /\ removal'.file # None => removal'.file = holder.file
          /\ holder.state = "live"
          /\ removal' \in [pc : {"idle", "open", "unlink", "done"}, file : Files \cup {None}]
      BY <1>3 DEF OpenRemoval, Held, FileInv
    <2> QED  BY <1>1, <2>1 DEF FileInv, Placed, FileKept, Held
  <1>4. CASE CommitRemoval
    <2>1. CASE holder' = holder
      <3>1. /\ UNCHANGED disk
            /\ removal'.pc # "unlink" \/ holder'.state = "deleted"
            /\ removal'.file # None => removal'.file = removal.file
        BY <1>4, <2>1 DEF CommitRemoval, FileInv
      <3> QED  BY <1>1, <1>4, <2>1, <3>1 DEF FileInv, Placed, FileKept, Held, CommitRemoval
    <2>2. CASE holder' # holder
      <3>1. /\ holder' = [holder EXCEPT !.state = "deleted"] /\ UNCHANGED disk
            /\ removal' = [removal EXCEPT !.pc = "unlink"]
        BY <1>4, <2>2 DEF CommitRemoval
      <3>2. /\ holder'.state = "deleted" /\ holder'.file = holder.file
            /\ removal'.pc = "unlink" /\ removal'.file = removal.file
            /\ holder' \in [state : {"none", "live", "deleted"}, kind : {"file", "enrichment"},
                            file : Files \cup {None}]
            /\ removal' \in [pc : {"idle", "open", "unlink", "done"}, file : Files \cup {None}]
        BY <3>1 DEF FileInv
      <3>3. Placed(holder.file)
        BY <1>4, <3>1 DEF CommitRemoval, FileInv
      <3> QED  BY <1>1, <1>2, <3>1, <3>2, <3>3 DEF FileInv, Placed, FileKept, Held
    <2> QED  BY <2>1, <2>2
  <1>5. CASE UnlinkRemoved
    <2>1. /\ removal.pc = "unlink" /\ disk' = disk \ {removal.file} /\ UNCHANGED holder
          /\ removal' = [pc |-> "done", file |-> None]
      BY <1>5 DEF UnlinkRemoved
    <2>2. ASSUME NEW g \in Files, upload[g].pc = "commit" PROVE g \in disk'
      BY <2>1, <2>2, NoneIsNoFile DEF FileInv, Placed
    <2> QED  BY <1>1, <2>1, <2>2 DEF FileInv, Placed, FileKept, Held
  <1> QED  BY <1>3, <1>4, <1>5

LEMMA FileStep == ASSUME FileInv, [FilesNext]_fileVars PROVE FileInv'
  <1>1. CASE UNCHANGED fileVars \/ \E r \in Requests : \/ Ask(r) \/ Queue(r)
                                                      \/ Read(r) \/ Finish(r)
    <2>1. UNCHANGED <<holder, disk, upload, removal>>
      BY <1>1 DEF fileVars, Ask, Queue, Read, Finish
    <2> QED  BY <2>1 DEF FileInv, Placed, FileKept, Held
  <1> QED  BY <1>1, UploadStep, RemovalStep DEF FilesNext

\* The file a live source names is there, for any number of uploads, requests
\* and overlaps, wherever an upload dies half way
\* (main.py admin_replace_source_upload, web_api.py _delete_uploaded_file).
THEOREM FilesAreKept == FilesSpec => []FileKept
  <1>1. FileInv => FileKept
    BY DEF FileInv
  <1> QED  BY <1>1, FileAtFirst, FileStep, PTL DEF FilesSpec
=============================================================================
