------------------------- MODULE SitemapCrawlProofs -------------------------
(***************************************************************************)
(* The worker pool of run_sitemap, for any number of workers and any site. *)
(*                                                                         *)
(* Pool is what every exit of the worker loop keeps: the two counters, the *)
(* event loop with one holder, and where a URL can be. The page cap, the   *)
(* end of a stopped crawl and the detection of termination rest on it, each *)
(* with an invariant of its own.                                           *)
(***************************************************************************)
EXTENDS SitemapCrawl, FiniteSetTheorems, NaturalsInduction, WellFoundedInduction, TLAPS

WorkerType == [pc : {"get", "pace", "fetch", "error", "page", "report", "dead"},
               url : Urls \cup {None}, depth : Nat]

PoolTypes ==
    /\ site \in Sites
    /\ loop \in Workers \cup {None}
    /\ worker \in [Workers -> WorkerType]
    /\ queue \subseteq Item /\ IsFiniteSet(queue)
    /\ seen \subseteq Urls
    /\ unfinished \in Nat /\ reserved \in Nat

\* The worker that has the event loop is past its answer, and no other is.
Holding == {"error", "page", "report"}
LoopHeld == \A w \in Workers : loop = w <=> worker[w].pc \in Holding

\* What is queued, asked for or held by a worker was seen; what a worker holds
\* was asked for, unless the worker still waits for its turn.
Met ==
    /\ asked \subseteq seen
    /\ \A i \in queue : i.url \in seen
    /\ \A w \in Busy : /\ worker[w].url \in seen
                       /\ w \notin Pacing => worker[w].url \in asked

Pool == PoolTypes /\ LoopHeld /\ Met /\ AskedOnce /\ Accounted

-----------------------------------------------------------------------------
(* Counting.                                                               *)

LEMMA BusyFinite == IsFiniteSet(Busy) /\ Cardinality(Busy) \in Nat
                    /\ IsFiniteSet(Dead) /\ Cardinality(Dead) \in Nat
                    /\ IsFiniteSet(Pacing) /\ Cardinality(Pacing) \in Nat
  <1>1. Pacing \subseteq Workers /\ Busy \subseteq Workers /\ Dead \subseteq Workers /\ IsFiniteSet(Workers)
    BY FiniteAssumption DEF Busy, Dead, Pacing
  <1>2. IsFiniteSet(Busy) /\ IsFiniteSet(Dead) /\ IsFiniteSet(Pacing)
    BY <1>1, FS_Subset
  <1> QED  BY <1>2, FS_CardinalityType

LEMMA SitesAreFinite ==
    ASSUME site \in Sites
    PROVE  /\ site.seeds \subseteq Urls /\ IsFiniteSet(site.seeds)
           /\ site.fallback \in Urls \cup {None}
           /\ site.target \in [Urls -> Urls]
           /\ \A u \in Urls : site.links[u] \subseteq Urls /\ IsFiniteSet(site.links[u])
  BY SiteAssumption, FiniteAssumption DEF SiteType

\* _enqueue puts each new URL once, and counts what it puts.
LEMMA EnqueueAdds ==
    ASSUME PoolTypes, Met, AskedOnce,
           NEW urls \in SUBSET Urls, IsFiniteSet(urls), NEW depth \in Nat,
           Enqueue(urls, depth), UNCHANGED asked, UNCHANGED Pacing,
           \A w \in Pacing : worker'[w].url = worker[w].url
    PROVE  /\ queue' \subseteq Item /\ IsFiniteSet(queue')
           /\ seen' \subseteq Urls /\ asked' \subseteq seen'
           /\ \A i \in queue' : i.url \in seen'
           /\ AskedOnce'
           /\ unfinished' \in Nat
           /\ unfinished' + Cardinality(queue) = unfinished + Cardinality(queue')
  <1> DEFINE fresh == {u \in urls \ seen : u \in site.scope \ site.assets}
             items == {[url |-> u, depth |-> depth] : u \in fresh}
             f == [u \in fresh |-> [url |-> u, depth |-> depth]]
  <1>1. /\ queue' = queue \cup items
        /\ unfinished' = unfinished + Cardinality(items)
        /\ seen' = seen \cup urls
    BY DEF Enqueue
  <1>2. IsFiniteSet(fresh) /\ fresh \subseteq Urls
    <2>1. fresh \subseteq urls
      OBVIOUS
    <2> QED  BY <2>1, FS_Subset
  <1>3. IsFiniteSet(items) /\ Cardinality(items) \in Nat
    <2>1. f \in Surjection(fresh, items)
      BY DEF Surjection
    <2>2. IsFiniteSet(items)
      BY <2>1, <1>2, FS_Surjection
    <2> QED  BY <2>2, FS_CardinalityType
  <1>4. items \subseteq Item /\ \A i \in items : i.url \in urls \ seen
    BY <1>2 DEF Item
  <1>5. queue \cap items = {}
    BY <1>4 DEF Met
  <1>6. /\ IsFiniteSet(queue') /\ Cardinality(queue') = Cardinality(queue) + Cardinality(items)
        /\ Cardinality(queue) \in Nat
    <2> HIDE DEF items
    <2>1. IsFiniteSet(queue)
      BY DEF PoolTypes
    <2>2. /\ IsFiniteSet(queue \cup items)
          /\ Cardinality(queue \cup items)
               = Cardinality(queue) + Cardinality(items) - Cardinality(queue \cap items)
      BY <2>1, <1>3, FS_Union
    <2>3. Cardinality(queue \cap items) = 0 /\ Cardinality(queue) \in Nat
      BY <2>1, <1>5, FS_EmptySet, FS_CardinalityType
    <2> QED  BY <1>1, <1>3, <2>2, <2>3
  <1>7. AskedOnce'
    <2>1. \A i \in items : i.depth = depth /\ i = [url |-> i.url, depth |-> depth]
      OBVIOUS
    <2>2. ASSUME NEW i \in queue', NEW j \in queue', i.url = j.url PROVE i = j
      <3>1. CASE i \in queue /\ j \in queue
        BY <2>2, <3>1 DEF AskedOnce
      <3>2. CASE i \in items /\ j \in items
        BY <2>1, <2>2, <3>2
      <3>3. CASE (i \in queue /\ j \in items) \/ (i \in items /\ j \in queue)
        BY <1>4, <2>2, <3>3 DEF Met
      <3> QED  BY <1>1, <3>1, <3>2, <3>3
    <2>3. \A i \in queue' : i.url \notin asked /\ \A w \in Pacing : worker[w].url # i.url
      BY <1>1, <1>4 DEF AskedOnce, Met, Busy, Pacing
    <2> QED  BY <2>2, <2>3 DEF AskedOnce
  <1> QED  BY <1>1, <1>3, <1>4, <1>6, <1>7 DEF PoolTypes, Met

-----------------------------------------------------------------------------
(* What the steps do to the pool.                                          *)

LEMMA PoolAtFirst == Init => Pool
  <1> SUFFICES ASSUME Init PROVE Pool
    OBVIOUS
  <1>1. Busy = {} /\ Pacing = {} /\ queue = {}
    BY DEF Init, Busy, Pacing, Waiting
  <1>2. Accounted /\ IsFiniteSet(queue)
    BY <1>1, FS_EmptySet DEF Init, Accounted
  <1>3. PoolTypes
    BY <1>2 DEF Init, PoolTypes, WorkerType, Waiting
  <1>4. LoopHeld
    BY NoneNotUsed DEF Init, LoopHeld, Holding, Waiting
  <1>5. Met /\ AskedOnce
    BY <1>1 DEF Init, Met, AskedOnce
  <1> QED  BY <1>2, <1>3, <1>4, <1>5 DEF Pool

LEMMA PoolStays ==
    ASSUME Pool, UNCHANGED <<site, loop, worker, queue, unfinished, seen, reserved, asked>>
    PROVE  Pool'
  BY DEF Pool, PoolTypes, LoopHeld, Met, AskedOnce, Accounted, Busy, Pacing

\* An item leaves the queue for good.
LEMMA PoolDrops ==
    ASSUME Pool, NEW w \in Workers, NEW item \in queue, Get(w, item), Discard, UNCHANGED asked
    PROVE  Pool'
  <1> USE DEF Pool
  <1>1. /\ queue' = queue \ {item} /\ unfinished' = unfinished - 1
        /\ UNCHANGED <<site, loop, worker, seen, reserved, asked>>
    BY DEF Get, Discard
  <1>2. /\ IsFiniteSet(queue') /\ Cardinality(queue') = Cardinality(queue) - 1
        /\ Cardinality(queue) \in Nat /\ Cardinality(queue') \in Nat
    BY <1>1, FS_RemoveElement, FS_CardinalityType DEF PoolTypes
  <1>3. Busy' = Busy /\ Pacing' = Pacing
    BY <1>1 DEF Busy, Pacing
  <1>4. Accounted' /\ unfinished' \in Nat
    BY <1>1, <1>2, <1>3, BusyFinite DEF Accounted, PoolTypes
  <1>5. PoolTypes'
    BY <1>1, <1>2, <1>4 DEF PoolTypes
  <1>6. LoopHeld' /\ Met' /\ AskedOnce'
    BY <1>1, <1>3 DEF LoopHeld, Met, AskedOnce
  <1> QED  BY <1>4, <1>5, <1>6

\* A worker takes an item and a slot.
LEMMA PoolFetches ==
    ASSUME Pool, NEW w \in Workers, NEW item \in queue, Fetch(w, item)
    PROVE  Pool'
  <1> USE DEF Pool
  <1>1. /\ queue' = queue \ {item} /\ reserved' = reserved + 1
        /\ worker' = [worker EXCEPT ![w] = [pc |-> "pace", url |-> item.url,
                                            depth |-> item.depth]]
        /\ worker[w].pc = "get" /\ loop = None
        /\ UNCHANGED <<site, loop, unfinished, seen, asked>>
    BY DEF Get, Fetch
  <1>2. /\ IsFiniteSet(queue') /\ Cardinality(queue') = Cardinality(queue) - 1
        /\ Cardinality(queue) \in Nat
    BY <1>1, FS_RemoveElement, FS_CardinalityType DEF PoolTypes
  <1>3. item.url \in Urls /\ item.depth \in Nat /\ item.url \in seen
    BY DEF PoolTypes, Item, Met
  <1>4. worker' \in [Workers -> WorkerType]
    BY <1>1, <1>3 DEF PoolTypes, WorkerType
  <1>5. /\ worker'[w].pc = "pace" /\ worker'[w].url = item.url
        /\ \A v \in Workers \ {w} : worker'[v] = worker[v]
    BY <1>1 DEF PoolTypes
  <1>6. /\ Busy' = Busy \cup {w} /\ w \notin Busy
        /\ Pacing' = Pacing \cup {w} /\ w \notin Pacing
    BY <1>1, <1>5 DEF Busy, Pacing
  <1>7. Cardinality(Busy') = Cardinality(Busy) + 1
    BY <1>6, BusyFinite, FS_AddElement
  <1>8. Accounted'
    BY <1>1, <1>2, <1>7, BusyFinite DEF Accounted
  <1>9. PoolTypes'
    BY <1>1, <1>2, <1>4 DEF PoolTypes
  <1>10. LoopHeld'
    BY <1>1, <1>5 DEF LoopHeld, Holding
  <1>11. Met' /\ AskedOnce'
    <2>1. \A i \in queue' : /\ i.url \in seen' /\ i.url \notin asked' /\ i.url # item.url
                            /\ \A j \in queue' : i.url = j.url => i = j
      BY <1>1 DEF Met, AskedOnce
    <2>2. \A v \in Busy' : worker'[v].url \in seen' /\ (v \notin Pacing' => worker'[v].url \in asked')
      BY <1>1, <1>3, <1>5, <1>6 DEF Met, Busy
    <2>3. \A v \in Pacing' : v # w => v \in Pacing /\ worker'[v].url = worker[v].url
      BY <1>5, <1>6 DEF Pacing
    <2>4. \A i \in queue' : \A v \in Pacing' : worker'[v].url # i.url
      BY <1>1, <1>5, <2>1, <2>3 DEF AskedOnce
    <2>5. \A v \in Pacing' : /\ worker'[v].url \notin asked'
                             /\ \A x \in Pacing' : worker'[x].url = worker'[v].url => x = v
      BY <1>1, <1>5, <2>3 DEF AskedOnce
    <2>6. Met'
      BY <1>1, <2>1, <2>2 DEF Met
    <2>7. AskedOnce'
      BY <2>1, <2>4, <2>5 DEF AskedOnce
    <2> QED  BY <2>6, <2>7
  <1> QED  BY <1>8, <1>9, <1>10, <1>11

\* The request is sent: the page counts as asked for, and nobody else has it.
LEMMA PoolSends ==
    ASSUME Pool, NEW w \in Workers, Send(w)
    PROVE  Pool'
  <1> USE DEF Pool
  <1>1. /\ loop = None /\ worker[w].pc = "pace"
        /\ worker' = [worker EXCEPT ![w].pc = "fetch"]
        /\ asked' = asked \cup {worker[w].url}
        /\ UNCHANGED <<site, loop, queue, unfinished, seen, reserved>>
    BY DEF Send
  <1>2. /\ worker'[w].pc = "fetch" /\ worker'[w].url = worker[w].url
        /\ \A v \in Workers \ {w} : worker'[v] = worker[v]
        /\ worker' \in [Workers -> WorkerType]
    BY <1>1 DEF PoolTypes, WorkerType
  <1>3. Busy' = Busy /\ Pacing' = Pacing \ {w} /\ w \in Pacing /\ w \in Busy
    BY <1>1, <1>2 DEF Busy, Pacing
  <1>4. LoopHeld'
    BY <1>1, <1>2, NoneNotUsed DEF LoopHeld, Holding
  <1>5. PoolTypes'
    BY <1>1, <1>2 DEF PoolTypes
  <1>6. \A v \in Workers : worker'[v].url = worker[v].url
    BY <1>2
  <1>7. Met'
    <2>1. \A v \in Busy : v \in Workers
      BY DEF Busy
    <2> QED  BY <1>1, <1>3, <1>6, <2>1 DEF Met
  <1>8. AskedOnce'
    <2>1. \A v \in Pacing : v \in Workers
      BY DEF Pacing
    <2> QED  BY <1>1, <1>3, <1>6, <2>1 DEF AskedOnce
  <1>9. Accounted'
    BY <1>1, <1>3 DEF Accounted
  <1> QED  BY <1>4, <1>5, <1>7, <1>8, <1>9

\* A worker with its answer takes the event loop.
LEMMA PoolGoesOn ==
    ASSUME Pool, NEW w \in Workers, Answered(w), NEW pc \in {"error", "page"},
           worker' = [worker EXCEPT ![w].pc = pc], loop' = w,
           UNCHANGED <<reserved, unfinished>>
    PROVE  Pool'
  <1> USE DEF Pool
  <1>1. loop = None /\ worker[w].pc = "fetch" /\ UNCHANGED <<site, queue, seen, asked>>
    BY DEF Answered, history
  <1>2. /\ worker'[w].pc = pc /\ worker'[w].url = worker[w].url
        /\ \A v \in Workers \ {w} : worker'[v] = worker[v]
        /\ worker' \in [Workers -> WorkerType]
    BY DEF PoolTypes, WorkerType
  <1>3. Busy' = Busy /\ Pacing' = Pacing
    BY <1>1, <1>2 DEF Busy, Pacing
  <1>4. LoopHeld'
    BY <1>1, <1>2, NoneNotUsed DEF LoopHeld, Holding
  <1>5. PoolTypes'
    BY <1>1, <1>2 DEF PoolTypes
  <1>6. Met' /\ AskedOnce'
    <2>1. \A v \in Workers : worker'[v].url = worker[v].url
      BY <1>2
    <2> QED  BY <1>1, <1>3, <2>1 DEF Met, AskedOnce, Busy, Pacing
  <1>7. Accounted'
    BY <1>1, <1>3 DEF Accounted
  <1> QED  BY <1>4, <1>5, <1>6, <1>7

\* A worker gives its slot and its item back, and goes on or dies.
LEMMA PoolReleases ==
    ASSUME Pool, NEW w \in Busy, loop \in {w, None},
           NEW next \in {Waiting, [Waiting EXCEPT !.pc = "dead"]}, Release(w, next),
           unfinished' = unfinished - 1, UNCHANGED <<site, queue, seen, asked>>
    PROVE  Pool' /\ reserved' = reserved - 1
  <1> USE DEF Pool
  <1>1. /\ w \in Workers /\ worker' = [worker EXCEPT ![w] = next] /\ loop' = None
        /\ reserved' = IF reserved > 0 THEN reserved - 1 ELSE 0
    BY DEF Release, Busy
  <1>2. next \in WorkerType /\ next.pc \in {"get", "dead"}
    BY DEF Waiting, WorkerType
  <1>3. /\ worker'[w] = next /\ worker' \in [Workers -> WorkerType]
        /\ \A v \in Workers \ {w} : worker'[v] = worker[v]
    BY <1>1, <1>2 DEF PoolTypes
  <1>4. Busy' = Busy \ {w} /\ Pacing' = Pacing \ {w}
    BY <1>1, <1>2, <1>3 DEF Busy, Pacing
  <1>5. Cardinality(Busy') = Cardinality(Busy) - 1 /\ Cardinality(Busy') \in Nat
    BY <1>4, BusyFinite, FS_RemoveElement, FS_CardinalityType
  <1>6. Cardinality(queue) \in Nat
    BY FS_CardinalityType DEF PoolTypes
  <1>7. Accounted' /\ reserved' = reserved - 1 /\ reserved' \in Nat /\ unfinished' \in Nat
    BY <1>1, <1>5, <1>6, BusyFinite DEF Accounted
  <1>8. LoopHeld'
    BY <1>1, <1>2, <1>3, NoneNotUsed DEF LoopHeld, Holding
  <1>9. PoolTypes'
    BY <1>1, <1>3, <1>7 DEF PoolTypes
  <1>10. Met' /\ AskedOnce'
    <2>1. \A v \in Busy' \cup Pacing' : worker'[v] = worker[v]
      BY <1>3, <1>4 DEF Busy, Pacing
    <2> QED  BY <1>4, <2>1 DEF Met, AskedOnce
  <1> QED  BY <1>7, <1>8, <1>9, <1>10

\* The first URLs are queued, from the sitemap or from the fallback.
LEMMA PoolStarts == ASSUME Pool, Start PROVE Pool'
  <1> USE DEF Pool
  <1>1. PICK urls \in SUBSET Urls : IsFiniteSet(urls) /\ Enqueue(urls, 1)
    <2>1. CASE Enqueue(site.seeds, 1)
      BY <2>1, SitesAreFinite DEF PoolTypes
    <2>2. CASE site.fallback # None /\ Enqueue({site.fallback}, 1)
      BY <2>2, SitesAreFinite, FS_Singleton DEF PoolTypes
    <2> QED  BY <2>1, <2>2 DEF Start
  <1>2. UNCHANGED <<site, loop, worker, reserved, asked>>
    BY DEF Start, history
  <1>3. /\ Busy' = Busy /\ Pacing' = Pacing
        /\ \A w \in Pacing : worker'[w].url = worker[w].url
    BY <1>2 DEF Busy, Pacing
  <1> HIDE DEF Pool
  <1>4. /\ queue' \subseteq Item /\ IsFiniteSet(queue')
        /\ seen' \subseteq Urls /\ asked' \subseteq seen'
        /\ \A i \in queue' : i.url \in seen'
        /\ AskedOnce'
        /\ unfinished' \in Nat
        /\ unfinished' + Cardinality(queue) = unfinished + Cardinality(queue')
    BY <1>1, <1>2, <1>3, EnqueueAdds DEF Pool
  <1>5. Cardinality(queue) \in Nat /\ Cardinality(queue') \in Nat
    BY <1>4, FS_CardinalityType DEF Pool, PoolTypes
  <1>6. Accounted'
    BY <1>2, <1>3, <1>4, <1>5, BusyFinite DEF Pool, PoolTypes, Accounted
  <1>7. Met'
    <2>1. seen \subseteq seen' /\ \A w \in Busy : worker'[w] = worker[w]
      BY <1>1, <1>2 DEF Enqueue
    <2> QED  BY <1>2, <1>3, <1>4, <2>1 DEF Pool, Met
  <1> QED  BY <1>2, <1>4, <1>6, <1>7 DEF Pool, PoolTypes, LoopHeld

\* A page is stored and its links are queued; the worker keeps its slot.
LEMMA PoolStores == ASSUME Pool, NEW w \in Workers, StorePage(w) PROVE Pool'
  <1>1. /\ loop = w /\ worker[w].pc = "page"
        /\ worker' = [worker EXCEPT ![w].pc = "report"]
        /\ UNCHANGED <<site, loop, reserved, asked>>
    BY DEF StorePage, Storing
  <1>2. /\ worker'[w].pc = "report" /\ worker'[w].url = worker[w].url
        /\ \A v \in Workers \ {w} : worker'[v] = worker[v]
        /\ worker' \in [Workers -> WorkerType]
    BY <1>1 DEF Pool, PoolTypes, WorkerType
  <1>3. /\ Busy' = Busy /\ Pacing' = Pacing /\ w \in Busy
        /\ \A v \in Workers : worker'[v].url = worker[v].url
        /\ \A v \in Pacing : v \in Workers
    BY <1>1, <1>2 DEF Busy, Pacing
  <1>4. worker[w].url \in Urls /\ worker[w].depth \in Nat
    BY <1>3 DEF Pool, PoolTypes, WorkerType, Met
  <1>5. LinksOf(w) \in SUBSET Urls /\ IsFiniteSet(LinksOf(w))
    BY <1>4, SitesAreFinite DEF Pool, PoolTypes, LinksOf
  <1>6. /\ queue' \subseteq Item /\ IsFiniteSet(queue')
        /\ seen' \subseteq Urls /\ asked' \subseteq seen'
        /\ \A i \in queue' : i.url \in seen'
        /\ AskedOnce'
        /\ unfinished' \in Nat
        /\ unfinished' + Cardinality(queue) = unfinished + Cardinality(queue')
    <2>1. CASE Enqueue(LinksOf(w), worker[w].depth + 1)
      BY <1>1, <1>3, <1>4, <1>5, <2>1, EnqueueAdds DEF Pool
    <2>2. CASE UNCHANGED <<queue, unfinished, seen>>
      BY <1>1, <1>3, <2>2 DEF Pool, PoolTypes, Met, AskedOnce
    <2> QED  BY <2>1, <2>2 DEF StorePage
  <1>7. Cardinality(queue) \in Nat /\ Cardinality(queue') \in Nat
    BY <1>6, FS_CardinalityType DEF Pool, PoolTypes
  <1>8. Accounted'
    BY <1>1, <1>3, <1>6, <1>7, BusyFinite DEF Pool, PoolTypes, Accounted
  <1>9. LoopHeld'
    BY <1>1, <1>2 DEF Pool, LoopHeld, Holding
  <1>10. Met'
    <2>1. \A v \in Busy : v \in Workers
      BY DEF Busy
    <2>2. seen \subseteq seen'
      BY DEF StorePage, Enqueue
    <2> QED  BY <1>1, <1>3, <1>6, <2>1, <2>2 DEF Pool, Met
  <1>11. PoolTypes'
    BY <1>1, <1>2, <1>6 DEF Pool, PoolTypes
  <1> QED  BY <1>6, <1>8, <1>9, <1>10, <1>11 DEF Pool

\* Where the slot and the item of a worker are given back.
LEMMA WhoReleases ==
    ASSUME Pool, NEW w \in Workers, Handle(w) \/ Fault(w),
           ~StorePage(w), ~Send(w),
           ~(\E pc \in {"error", "page"} : /\ worker' = [worker EXCEPT ![w].pc = pc]
                                           /\ loop' = w /\ Answered(w)
                                           /\ UNCHANGED <<reserved, unfinished>>)
    PROVE  /\ w \in Busy /\ loop \in {w, None}
           /\ \E next \in {Waiting, [Waiting EXCEPT !.pc = "dead"]} : Release(w, next)
           /\ unfinished' = unfinished - 1 /\ UNCHANGED <<site, queue, seen, asked>>
  <1>1. CASE AnswerError(w)
    BY <1>1 DEF AnswerError, Answered, GoOn, Busy, history
  <1>2. CASE AnswerOutside(w)
    BY <1>2 DEF AnswerOutside, Answered, Busy, history
  <1>3. CASE AnswerPage(w)
    BY <1>3 DEF AnswerPage, Answered, GoOn, Busy, history
  <1>4. CASE StoreError(w)
    BY <1>4 DEF StoreError, Busy
  <1>5. CASE StoreRefused(w)
    BY <1>5 DEF StoreRefused, Storing, Busy
  <1>6. CASE StoreMalformed(w)
    BY <1>6 DEF StoreMalformed, Storing, Busy
  <1>7. CASE Report(w)
    BY <1>7 DEF Report, Busy, history
  <1>8. CASE Fault(w)
    BY <1>8 DEF Fault, history
  <1> QED  BY <1>1, <1>2, <1>3, <1>4, <1>5, <1>6, <1>7, <1>8 DEF Handle

LEMMA PoolStep == ASSUME Pool, [Next]_vars PROVE Pool'
  <1>1. CASE Start
    BY <1>1, PoolStarts
  <1>2. CASE Join \/ Seal \/ StopRun \/ DeleteRun \/ UNCHANGED vars
    BY <1>2, PoolStays DEF Join, Seal, StopRun, DeleteRun, vars, history
  <1>3. ASSUME NEW w \in Workers, Take(w) PROVE Pool'
    <2>1. PICK item \in queue : \/ DropStopped(w, item) \/ DropFull(w, item)
                                \/ DropNoticed(w, item) \/ Fetch(w, item)
      BY <1>3 DEF Take
    <2>2. CASE DropStopped(w, item) \/ DropFull(w, item) \/ DropNoticed(w, item)
      BY <2>2, PoolDrops DEF DropStopped, DropFull, DropNoticed, history
    <2> QED  BY <2>1, <2>2, PoolFetches
  <1>4. ASSUME NEW w \in Workers, Handle(w) \/ Fault(w) PROVE Pool'
    <2>1. CASE StorePage(w)
      BY <2>1, PoolStores
    <2>2. CASE \E pc \in {"error", "page"} : /\ worker' = [worker EXCEPT ![w].pc = pc]
                                             /\ loop' = w /\ Answered(w)
                                             /\ UNCHANGED <<reserved, unfinished>>
      BY <2>2, PoolGoesOn
    <2>3. CASE ~StorePage(w) /\ ~Send(w)
               /\ ~(\E pc \in {"error", "page"} : /\ worker' = [worker EXCEPT ![w].pc = pc]
                                                  /\ loop' = w /\ Answered(w)
                                                  /\ UNCHANGED <<reserved, unfinished>>)
      BY <1>4, <2>3, WhoReleases, PoolReleases
    <2> QED  BY <2>1, <2>2, <2>3, PoolSends
  <1> QED  BY <1>1, <1>2, <1>3, <1>4 DEF Next, MainNext

\* join() and the slots are right after every exit of the worker loop.
THEOREM PoolAccounted == Spec => []Accounted
  <1>1. Pool => Accounted
    BY DEF Pool
  <1> QED  BY <1>1, PoolAtFirst, PoolStep, PTL DEF Spec

\* No page is requested twice.
THEOREM NoPageTwice == Spec => []AskedOnce
  <1>1. Pool => AskedOnce
    BY DEF Pool
  <1> QED  BY <1>1, PoolAtFirst, PoolStep, PTL DEF Spec

-----------------------------------------------------------------------------
(* The page cap. A slot that is about to be released after its page was     *)
(* counted counts twice.                                                    *)

Reporting == IF \E w \in Workers : worker[w].pc = "report" THEN 1 ELSE 0

Numbers == fetched \in Nat /\ IsFiniteSet(stored)

Within ==
    /\ Numbers
    /\ fetched + reserved <= Cap + Reporting
    /\ Cardinality(stored) <= fetched + Cardinality(Dead)

CapInv == Pool /\ Within

LEMMA CapAtFirst == Init => Within
  <1> SUFFICES ASSUME Init PROVE Within
    OBVIOUS
  <1>1. fetched = 0 /\ reserved = 0 /\ stored = {} /\ Reporting = 0
    BY DEF Init, Reporting, Waiting
  <1>2. IsFiniteSet(stored) /\ Cardinality(stored) = 0
    BY <1>1, FS_EmptySet
  <1> QED  BY <1>1, <1>2, BusyFinite, CrawlBounds DEF Within, Numbers

\* A step that stores nothing and gives no slot away.
LEMMA CapStays ==
    ASSUME Pool, Within, UNCHANGED <<worker, reserved, fetched, stored>>
    PROVE  Within'
  BY DEF Within, Numbers, Reporting, Dead

\* The dead stay dead.
LEMMA DeadGrow ==
    ASSUME Pool, Pool', NEW w \in Workers, worker[w].pc # "dead",
           \A v \in Workers \ {w} : worker'[v] = worker[v]
    PROVE  /\ Cardinality(Dead') = Cardinality(Dead) + (IF worker'[w].pc = "dead" THEN 1 ELSE 0)
           /\ Cardinality(Dead) \in Nat
  <1>1. w \notin Dead
    BY DEF Dead
  <1>2. CASE worker'[w].pc = "dead"
    <2>1. Dead' = Dead \cup {w}
      BY <1>2 DEF Dead
    <2> QED  BY <1>1, <1>2, <2>1, BusyFinite, FS_AddElement
  <1>3. CASE worker'[w].pc # "dead"
    <2>1. Dead' = Dead
      BY <1>3 DEF Dead
    <2> QED  BY <1>3, <2>1, BusyFinite
  <1> QED  BY <1>2, <1>3

LEMMA CapFetches ==
    ASSUME Pool, Pool', Within, NEW w \in Workers, NEW item \in queue, Fetch(w, item)
    PROVE  Within'
  <1>1. /\ worker[w].pc = "get" /\ reserved' = reserved + 1 /\ fetched + reserved < Cap
        /\ worker' = [worker EXCEPT ![w] = [pc |-> "pace", url |-> item.url,
                                            depth |-> item.depth]]
        /\ UNCHANGED <<fetched, stored>>
    BY CrawlBounds DEF Fetch, Get, Full, counts, Pool, PoolTypes, Within, Numbers
  <1>2. /\ worker'[w].pc = "pace" /\ \A v \in Workers \ {w} : worker'[v] = worker[v]
    BY <1>1 DEF Pool, PoolTypes
  <1>3. Reporting' \in Nat
    BY DEF Reporting
  <1>4. Cardinality(Dead') = Cardinality(Dead)
    BY <1>1, <1>2, DeadGrow
  <1>5. fetched \in Nat /\ reserved \in Nat /\ Cap \in Nat
    BY CrawlBounds DEF Within, Numbers, Pool, PoolTypes
  <1>6. fetched' + reserved' <= Cap + Reporting'
    <2>1. fetched' = fetched /\ reserved' = reserved + 1 /\ fetched + reserved < Cap
      BY <1>1
    <2>2. \A f, r, c, x \in Nat : f + r < c => f + (r + 1) <= c + x
      OBVIOUS
    <2> QED  BY <1>3, <1>5, <2>1, <2>2
  <1> QED  BY <1>1, <1>4, <1>5, <1>6 DEF Within, Numbers

LEMMA CapSends ==
    ASSUME Pool, Pool', Within, NEW w \in Workers, Send(w)
    PROVE  Within'
  <1>1. /\ worker[w].pc = "pace" /\ worker' = [worker EXCEPT ![w].pc = "fetch"]
        /\ UNCHANGED <<fetched, stored, reserved>>
    BY DEF Send, counts
  <1>2. worker'[w].pc = "fetch" /\ \A v \in Workers \ {w} : worker'[v] = worker[v]
    BY <1>1 DEF Pool, PoolTypes, WorkerType
  <1>3. Reporting' = Reporting
    BY <1>1, <1>2 DEF Reporting
  <1>4. Cardinality(Dead') = Cardinality(Dead)
    BY <1>1, <1>2, DeadGrow
  <1> QED  BY <1>1, <1>3, <1>4 DEF Within, Numbers

LEMMA CapGoesOn ==
    ASSUME Pool, Pool', Within, NEW w \in Workers, Answered(w), NEW pc \in {"error", "page"},
           worker' = [worker EXCEPT ![w].pc = pc], UNCHANGED reserved
    PROVE  Within'
  <1>1. worker[w].pc = "fetch" /\ UNCHANGED <<fetched, stored>>
    BY DEF Answered, history
  <1>2. worker'[w].pc = pc /\ \A v \in Workers \ {w} : worker'[v] = worker[v]
    BY DEF Pool, PoolTypes, WorkerType
  <1>3. Reporting' = Reporting
    BY <1>1, <1>2 DEF Reporting
  <1>4. Cardinality(Dead') = Cardinality(Dead)
    BY <1>1, <1>2, DeadGrow
  <1> QED  BY <1>1, <1>3, <1>4 DEF Within, Numbers

\* The page counts, while its worker still has the slot.
LEMMA CapStores ==
    ASSUME Pool, Pool', Within, NEW w \in Workers, StorePage(w)
    PROVE  Within'
  <1>1. /\ loop = w /\ worker[w].pc = "page" /\ worker' = [worker EXCEPT ![w].pc = "report"]
        /\ fetched' = fetched + 1 /\ reserved' = reserved
        /\ stored' = stored \cup {worker[w].url}
    BY DEF StorePage, Storing
  <1>2. worker'[w].pc = "report" /\ \A v \in Workers \ {w} : worker'[v] = worker[v]
    BY <1>1 DEF Pool, PoolTypes, WorkerType
  <1>3. Reporting' = 1
    BY <1>2 DEF Reporting
  <1>4. Reporting = 0
    <2>1. ASSUME NEW v \in Workers, worker[v].pc = "report" PROVE FALSE
      BY <1>1, <2>1 DEF Pool, LoopHeld, Holding
    <2> QED  BY <2>1 DEF Reporting
  <1>5. Cardinality(Dead') = Cardinality(Dead) /\ Cardinality(Dead) \in Nat
    BY <1>1, <1>2, DeadGrow
  <1>6. /\ IsFiniteSet(stored') /\ Cardinality(stored') <= Cardinality(stored) + 1
        /\ Cardinality(stored) \in Nat /\ Cardinality(stored') \in Nat
    <2>1. IsFiniteSet(stored) /\ Cardinality(stored) \in Nat
      BY FS_CardinalityType DEF Within, Numbers
    <2>2. /\ IsFiniteSet(stored')
          /\ Cardinality(stored') = IF worker[w].url \in stored THEN Cardinality(stored)
                                    ELSE Cardinality(stored) + 1
      BY <1>1, <2>1, FS_AddElement
    <2> QED  BY <2>1, <2>2
  <1>7. fetched \in Nat /\ reserved \in Nat /\ Cap \in Nat
    BY CrawlBounds DEF Within, Numbers, Pool, PoolTypes
  <1>8. fetched + reserved <= Cap /\ Cardinality(stored) <= fetched + Cardinality(Dead)
    BY <1>4, <1>7 DEF Within
  <1>9. fetched' + reserved' <= Cap + Reporting'
    BY <1>1, <1>3, <1>7, <1>8
  <1>10. Cardinality(stored') <= fetched' + Cardinality(Dead')
    <2>1. \A s, t, f, d \in Nat : s <= f + d /\ t <= s + 1 => t <= (f + 1) + d
      OBVIOUS
    <2>2. Cardinality(stored') <= (fetched + 1) + Cardinality(Dead)
      BY <1>5, <1>6, <1>7, <1>8, <2>1
    <2> QED  BY <1>1, <1>5, <2>2
  <1> QED  BY <1>1, <1>6, <1>7, <1>9, <1>10 DEF Within, Numbers

\* The slot is released; what was stored without being counted has a dead
\* worker to account for it.
LEMMA CapReleases ==
    ASSUME Pool, Pool', Within, NEW w \in Busy,
           NEW next \in {Waiting, [Waiting EXCEPT !.pc = "dead"]}, Release(w, next),
           loop \in {w, None}, reserved' = reserved - 1, fetched' = fetched,
           \/ stored' = stored
           \/ next.pc = "dead" /\ \E u : stored' = stored \cup {u}
    PROVE  Within'
  <1>1. w \in Workers /\ worker' = [worker EXCEPT ![w] = next] /\ worker[w].pc # "dead"
    BY DEF Release, Busy
  <1>2. worker'[w] = next /\ \A v \in Workers \ {w} : worker'[v] = worker[v]
    BY <1>1 DEF Pool, PoolTypes
  <1>3. /\ Cardinality(Dead') = Cardinality(Dead) + (IF next.pc = "dead" THEN 1 ELSE 0)
        /\ Cardinality(Dead) \in Nat
    BY <1>1, <1>2, DeadGrow
  <1>4. Reporting' \in {0, 1} /\ Reporting \in {0, 1} /\ Reporting - 1 <= Reporting'
    BY DEF Reporting
  <1>5. /\ IsFiniteSet(stored') /\ Cardinality(stored) \in Nat /\ Cardinality(stored') \in Nat
        /\ Cardinality(stored') <= Cardinality(stored) + (IF next.pc = "dead" THEN 1 ELSE 0)
    <2>1. IsFiniteSet(stored) /\ Cardinality(stored) \in Nat
      BY FS_CardinalityType DEF Within, Numbers
    <2>2. CASE stored' = stored
      BY <2>1, <2>2
    <2>3. CASE next.pc = "dead" /\ \E u : stored' = stored \cup {u}
      <3>1. PICK u : stored' = stored \cup {u}
        BY <2>3
      <3>2. /\ IsFiniteSet(stored')
            /\ Cardinality(stored') = IF u \in stored THEN Cardinality(stored)
                                      ELSE Cardinality(stored) + 1
        BY <2>1, <3>1, FS_AddElement
      <3> QED  BY <2>1, <2>3, <3>2
    <2> QED  BY <2>2, <2>3
  <1>6. fetched \in Nat /\ reserved \in Nat /\ Cap \in Nat
    BY CrawlBounds DEF Within, Numbers, Pool, PoolTypes
  <1>7. Cardinality(stored') <= fetched' + Cardinality(Dead')
    <2>1. Cardinality(stored) <= fetched + Cardinality(Dead)
      BY DEF Within
    <2>2. \A s, t, f, d, e \in Nat : s <= f + d /\ t <= s + e => t <= f + (d + e)
      OBVIOUS
    <2>3. (IF next.pc = "dead" THEN 1 ELSE 0) \in Nat
      OBVIOUS
    <2>4. Cardinality(stored') <= fetched
                                  + (Cardinality(Dead) + (IF next.pc = "dead" THEN 1 ELSE 0))
      BY <1>3, <1>5, <1>6, <2>1, <2>2, <2>3
    <2> QED  BY <1>3, <2>4
  <1>8. fetched' + reserved' <= Cap + Reporting'
    <2>1. fetched + reserved <= Cap + Reporting
      BY DEF Within
    <2> QED  BY <1>4, <1>6, <2>1
  <1> QED  BY <1>5, <1>6, <1>7, <1>8 DEF Within, Numbers

LEMMA CapStep == ASSUME Pool, Pool', Within, [Next]_vars PROVE Within'
  <1>1. CASE Start \/ Join \/ Seal \/ StopRun \/ DeleteRun \/ UNCHANGED vars
    BY <1>1, CapStays DEF Start, Join, Seal, StopRun, DeleteRun, vars, history, counts
  <1>2. ASSUME NEW w \in Workers, Take(w) PROVE Within'
    <2>1. PICK item \in queue : \/ DropStopped(w, item) \/ DropFull(w, item)
                                \/ DropNoticed(w, item) \/ Fetch(w, item)
      BY <1>2 DEF Take
    <2>2. CASE DropStopped(w, item) \/ DropFull(w, item) \/ DropNoticed(w, item)
      BY <2>2, CapStays DEF DropStopped, DropFull, DropNoticed, Get, Discard, history, counts
    <2> QED  BY <2>1, <2>2, CapFetches
  <1>3. ASSUME NEW w \in Workers, Handle(w) \/ Fault(w) PROVE Within'
    <2>1. CASE StorePage(w)
      BY <2>1, CapStores
    <2>2. CASE \E pc \in {"error", "page"} : /\ worker' = [worker EXCEPT ![w].pc = pc]
                                             /\ loop' = w /\ Answered(w)
                                             /\ UNCHANGED <<reserved, unfinished>>
      BY <2>2, CapGoesOn
    <2>3. CASE ~StorePage(w) /\ ~Send(w)
               /\ ~(\E pc \in {"error", "page"} : /\ worker' = [worker EXCEPT ![w].pc = pc]
                                                  /\ loop' = w /\ Answered(w)
                                                  /\ UNCHANGED <<reserved, unfinished>>)
      <3>1. /\ w \in Busy /\ loop \in {w, None}
            /\ unfinished' = unfinished - 1 /\ UNCHANGED <<site, queue, seen, asked>>
        BY <1>3, <2>3, WhoReleases
      <3>2. PICK next \in {Waiting, [Waiting EXCEPT !.pc = "dead"]} : Release(w, next)
        BY <1>3, <2>3, WhoReleases
      <3>3. reserved' = reserved - 1
        BY <3>1, <3>2, PoolReleases
      <3>4. fetched' = fetched
        BY <1>3, <2>3 DEF Handle, Fault, AnswerError, AnswerOutside, AnswerPage, Answered,
            StoreError, StoreRefused, StoreMalformed, Report, counts
      <3>5. \/ stored' = stored
            \/ StoreMalformed(w) /\ stored' = stored \cup {worker[w].url}
        BY <1>3, <2>3 DEF Handle, Fault, AnswerError, AnswerOutside, AnswerPage, Answered,
            StoreError, StoreRefused, StoreMalformed, Storing, Report, history
      <3>6. CASE stored' = stored
        BY <3>1, <3>2, <3>3, <3>4, <3>6, CapReleases
      <3>7. CASE StoreMalformed(w) /\ stored' = stored \cup {worker[w].url}
        <4>1. Release(w, [Waiting EXCEPT !.pc = "dead"]) /\ [Waiting EXCEPT !.pc = "dead"].pc = "dead"
          BY <3>7 DEF StoreMalformed, Waiting
        <4> QED  BY <3>1, <3>3, <3>4, <3>7, <4>1, CapReleases
      <3> QED  BY <3>5, <3>6, <3>7
    <2> QED  BY <2>1, <2>2, <2>3, CapSends
  <1> QED  BY <1>1, <1>2, <1>3 DEF Next, MainNext

\* The cap holds for what is stored, whatever the workers do at once.
THEOREM PagesWithinCap == Spec => []StoredWithinCap
  <1>1. Init => CapInv
    BY PoolAtFirst, CapAtFirst DEF CapInv
  <1>2. CapInv /\ [Next]_vars => CapInv'
    BY PoolStep, CapStep DEF CapInv
  <1>3. CapInv => StoredWithinCap
    <2> SUFFICES ASSUME CapInv PROVE StoredWithinCap
      OBVIOUS
    <2>1. CASE Reporting = 0
      BY <2>1, BusyFinite, CrawlBounds, FS_CardinalityType
         DEF CapInv, Pool, PoolTypes, Within, Numbers, StoredWithinCap
    <2>2. CASE Reporting = 1
      <3>1. Busy # {}
        BY <2>2 DEF Reporting, Busy
      <3>2. reserved >= 1
        BY <3>1, BusyFinite, FS_EmptySet DEF CapInv, Pool, Accounted
      <3> QED  BY <2>2, <3>2, BusyFinite, CrawlBounds, FS_CardinalityType
               DEF CapInv, Pool, PoolTypes, Within, Numbers, StoredWithinCap
    <2> QED  BY <2>1, <2>2 DEF Reporting
  <1> QED  BY <1>1, <1>2, <1>3, PTL DEF Spec

-----------------------------------------------------------------------------
(* After a stop. Late takes are counted by the calls since the last look at *)
(* the row; a late request was taken late, or by a worker that waited for   *)
(* its turn at the stop; a late fetch was between the look before it and    *)
(* the write.                                                               *)

Writing == \E w \in Workers : worker[w].pc \in {"error", "page"}

LateInv ==
    /\ row \in {"running", "stopped", "gone", "complete", "partial", "failed"}
    /\ checks \in 0..(Interval - 1)
    /\ stopped \in BOOLEAN
    /\ lateTaken \in Nat /\ lateAsked \in Nat /\ lateStored \in Nat
    /\ lateTaken < Interval /\ lateStored <= 1
    /\ lateAsked + Cardinality(Pacing) <= lateTaken + Cardinality(Workers)
    /\ RunIsActive => lateTaken = 0 /\ lateAsked = 0 /\ lateStored = 0
    /\ ~stopped => lateTaken <= checks
    /\ lateStored = 1 => ~Writing

\* No more workers wait for their turn than there are.
LEMMA PacingBound ==
    /\ Cardinality(Pacing) \in Nat /\ Cardinality(Pacing') \in Nat
    /\ Cardinality(Workers) \in Nat
    /\ Cardinality(Pacing) <= Cardinality(Workers)
    /\ Cardinality(Pacing') <= Cardinality(Workers)
    /\ Pacing' \subseteq Pacing => Cardinality(Pacing') <= Cardinality(Pacing)
  <1>1. Pacing \subseteq Workers /\ Pacing' \subseteq Workers /\ IsFiniteSet(Workers)
    BY FiniteAssumption DEF Pacing
  <1>2. IsFiniteSet(Pacing) /\ IsFiniteSet(Pacing')
    BY <1>1, FS_Subset
  <1> QED  BY <1>1, <1>2, FS_Subset, FS_CardinalityType

LEMMA LateAtFirst == Init => LateInv
  <1>1. 0 \in 0..(Interval - 1) /\ 0 < Interval
    BY CrawlBounds
  <1> SUFFICES ASSUME Init PROVE LateInv
    OBVIOUS
  <1>2. /\ row = "running" /\ checks = 0 /\ stopped = FALSE
        /\ lateTaken = 0 /\ lateAsked = 0 /\ lateStored = 0
    BY DEF Init
  <1>3. stopped \in BOOLEAN /\ ~stopped /\ RunIsActive
    BY <1>2 DEF RunIsActive
  <1>4. lateStored # 1
    BY <1>2
  <1>5. lateAsked + Cardinality(Pacing) <= lateTaken + Cardinality(Workers)
    BY <1>2, PacingBound
  <1> QED  BY <1>1, <1>2, <1>3, <1>4, <1>5 DEF LateInv

LEMMA NextCheckCounts ==
    ASSUME checks \in 0..(Interval - 1)
    PROVE  /\ NextCheck \in 0..(Interval - 1)
           /\ NextCheck # 0 => NextCheck = checks + 1
  <1>1. CASE checks + 1 = Interval
    BY <1>1, CrawlBounds DEF NextCheck
  <1>2. CASE checks + 1 < Interval
    BY <1>2, CrawlBounds DEF NextCheck
  <1> QED  BY <1>1, <1>2, CrawlBounds

\* The row changes, nobody takes, asks or stores.
LEMMA LateStays ==
    ASSUME LateInv, UNCHANGED <<checks, stopped, lateTaken, lateAsked, lateStored>>,
           row' \in {"running", "stopped", "gone", "complete", "partial", "failed"},
           RunIsActive' => RunIsActive, Writing' => Writing, Pacing' \subseteq Pacing
    PROVE  LateInv'
  <1>1. lateAsked + Cardinality(Pacing') <= lateTaken + Cardinality(Workers)
    BY PacingBound DEF LateInv
  <1> QED  BY <1>1 DEF LateInv

LEMMA LateTakes ==
    ASSUME Pool, LateInv, NEW w \in Workers, Take(w)
    PROVE  LateInv'
  <1>1. PICK item \in queue : \/ DropStopped(w, item) \/ DropFull(w, item)
                              \/ DropNoticed(w, item) \/ Fetch(w, item)
    BY DEF Take
  <1>2. CASE DropStopped(w, item) \/ DropFull(w, item) \/ DropNoticed(w, item)
    <2>1. /\ UNCHANGED <<row, worker, lateTaken, lateAsked, lateStored>>
          /\ \/ UNCHANGED <<checks, stopped>>
             \/ checks' = NextCheck /\ stopped' = TRUE
      BY <1>2 DEF DropStopped, DropFull, DropNoticed, Get, Discard, history
    <2>2. Pacing' = Pacing /\ (Writing' <=> Writing) /\ (RunIsActive' <=> RunIsActive)
      BY <2>1 DEF Pacing, Writing, RunIsActive
    <2>3. CASE UNCHANGED <<checks, stopped>>
      BY <2>1, <2>2, <2>3 DEF LateInv
    <2>4. CASE checks' = NextCheck /\ stopped' = TRUE
      <3>1. checks' \in 0..(Interval - 1)
        BY <2>4, NextCheckCounts DEF LateInv
      <3> QED  BY <2>1, <2>2, <2>4, <3>1 DEF LateInv
    <2> QED  BY <2>1, <2>3, <2>4
  <1>3. CASE Fetch(w, item)
    <2>1. /\ checks' = NextCheck /\ (NextCheck = 0 => RunIsActive) /\ ~stopped
          /\ lateTaken' = IF RunIsActive THEN lateTaken ELSE lateTaken + 1
          /\ UNCHANGED <<row, stopped, lateAsked, lateStored>>
      BY <1>3 DEF Fetch, Get
    <2>2. Writing' => Writing
      BY <1>3 DEF Fetch, Get, Writing, Pool, PoolTypes
    <2>3. NextCheck \in 0..(Interval - 1) /\ (NextCheck # 0 => NextCheck = checks + 1)
      BY NextCheckCounts DEF LateInv
    <2>4. Cardinality(Pacing') = Cardinality(Pacing) + 1
      <3>1. Pacing' = Pacing \cup {w} /\ w \notin Pacing
        BY <1>3 DEF Fetch, Get, Pacing, Pool, PoolTypes
      <3> QED  BY <3>1, BusyFinite, FS_AddElement
    <2>5. CASE RunIsActive
      <3>1. lateAsked' + Cardinality(Pacing') <= lateTaken' + Cardinality(Workers)
        BY <2>1, <2>5, PacingBound DEF LateInv
      <3> QED  BY <2>1, <2>2, <2>3, <2>5, <3>1 DEF LateInv, RunIsActive
    <2>6. CASE ~RunIsActive
      <3>1. lateAsked' + Cardinality(Pacing') <= lateTaken' + Cardinality(Workers)
        BY <2>1, <2>4, <2>6, PacingBound DEF LateInv
      <3> QED  BY <2>1, <2>2, <2>3, <2>6, <3>1, CrawlBounds DEF LateInv, RunIsActive
    <2> QED  BY <2>5, <2>6
  <1> QED  BY <1>1, <1>2, <1>3

\* A worker whose turn has come no longer waits for it.
LEMMA LateSends ==
    ASSUME Pool, LateInv, NEW w \in Workers, Send(w)
    PROVE  LateInv'
  <1>1. /\ worker[w].pc = "pace" /\ worker' = [worker EXCEPT ![w].pc = "fetch"]
        /\ lateAsked' = IF RunIsActive THEN lateAsked ELSE lateAsked + 1
        /\ UNCHANGED <<row, checks, stopped, lateTaken, lateStored>>
    BY DEF Send
  <1>2. worker'[w].pc = "fetch" /\ \A v \in Workers \ {w} : worker'[v] = worker[v]
    BY <1>1 DEF Pool, PoolTypes, WorkerType
  <1>3. Writing' => Writing
    BY <1>2 DEF Writing
  <1>4. Cardinality(Pacing') = Cardinality(Pacing) - 1
    <2>1. Pacing' = Pacing \ {w} /\ w \in Pacing
      BY <1>1, <1>2 DEF Pacing
    <2> QED  BY <2>1, BusyFinite, FS_RemoveElement
  <1>5. lateAsked' \in Nat /\ lateAsked' + Cardinality(Pacing') <= lateTaken' + Cardinality(Workers)
    BY <1>1, <1>4, PacingBound DEF LateInv
  <1> QED  BY <1>1, <1>3, <1>5 DEF LateInv, RunIsActive

\* A worker with an answer goes on only if the run is active still.
LEMMA LateAnswers ==
    ASSUME Pool, LateInv, NEW w \in Workers,
           AnswerError(w) \/ AnswerOutside(w) \/ AnswerPage(w)
    PROVE  LateInv'
  <1>1. /\ loop = None /\ worker[w].pc = "fetch"
        /\ UNCHANGED <<row, checks, lateTaken, lateAsked, lateStored>>
    BY DEF AnswerError, AnswerOutside, AnswerPage, Answered, history
  <1>2. ~Writing
    BY <1>1, NoneNotUsed DEF Pool, LoopHeld, Holding, Writing
  <1>3. lateAsked' + Cardinality(Pacing') <= lateTaken' + Cardinality(Workers)
    <2>1. Pacing' = Pacing
      BY <1>1 DEF AnswerError, AnswerOutside, AnswerPage, GoOn, Release, Waiting, Pacing,
                  Pool, PoolTypes, WorkerType
    <2> QED  BY <1>1, <2>1 DEF LateInv
  <1>4. CASE UNCHANGED stopped /\ ~Writing'
    BY <1>1, <1>3, <1>4 DEF LateInv, RunIsActive
  <1>5. CASE GoOn(w, "error") \/ GoOn(w, "page")
    <2>1. CASE Noticed
      <3>1. ~Writing'
        BY <1>2, <1>5, <2>1 DEF GoOn, Release, Waiting, Writing, Pool, PoolTypes
      <3> QED  BY <1>1, <1>3, <1>5, <2>1, <3>1 DEF GoOn, LateInv, RunIsActive
    <2>2. CASE ~Noticed
      BY <1>1, <1>3, <1>5, <2>2 DEF GoOn, Noticed, LateInv, RunIsActive
    <2> QED  BY <2>1, <2>2
  <1>6. CASE AnswerOutside(w)
    <2>1. ~Writing' /\ UNCHANGED stopped
      BY <1>2, <1>6 DEF AnswerOutside, Release, Waiting, Writing, Pool, PoolTypes
    <2> QED  BY <1>4, <2>1
  <1> QED  BY <1>5, <1>6 DEF AnswerError, AnswerPage

\* After its write the worker does not write again before it looked.
LEMMA LateWrites ==
    ASSUME Pool, LateInv, NEW w \in Workers,
           StoreError(w) \/ StoreRefused(w) \/ StorePage(w) \/ StoreMalformed(w)
    PROVE  LateInv'
  <1>1. /\ loop = w /\ worker[w].pc \in {"error", "page"}
        /\ UNCHANGED <<row, checks, stopped, lateTaken, lateAsked>>
        /\ lateStored' = lateStored \/ CountLate
    BY DEF StoreError, StoreRefused, StorePage, StoreMalformed, Storing
  <1>2. lateStored = 0
    BY <1>1 DEF LateInv, Writing
  <1>3. /\ worker'[w].pc \notin {"error", "page", "pace"}
        /\ \A v \in Workers \ {w} : worker'[v] = worker[v]
    BY DEF StoreError, StoreRefused, StorePage, StoreMalformed, Release, Waiting,
           Pool, PoolTypes, WorkerType
  <1>4. ~Writing'
    BY <1>1, <1>3 DEF Writing, Pool, LoopHeld, Holding
  <1>5. Pacing' = Pacing
    BY <1>1, <1>3 DEF Pacing
  <1> QED  BY <1>1, <1>2, <1>4, <1>5 DEF CountLate, LateInv, RunIsActive

LEMMA LateStep == ASSUME Pool, LateInv, [Next]_vars PROVE LateInv'
  <1>1. CASE Start \/ Join \/ Seal \/ StopRun \/ DeleteRun \/ UNCHANGED vars
    <2>1. /\ UNCHANGED <<worker, checks, stopped, lateTaken, lateAsked, lateStored>>
          /\ row' \in {"running", "stopped", "gone", "complete", "partial", "failed"}
          /\ RunIsActive' => RunIsActive
      BY <1>1 DEF Start, Join, Seal, StopRun, DeleteRun, vars, history, LateInv, RunIsActive
    <2> QED  BY <2>1, LateStays DEF Writing, Pacing
  <1>2. ASSUME NEW w \in Workers, Report(w) \/ Fault(w) PROVE LateInv'
    <2>1. /\ UNCHANGED <<row, checks, lateTaken, lateAsked, lateStored>>
          /\ UNCHANGED stopped \/ stopped' = Noticed
      BY <1>2 DEF Report, Fault, history
    <2>2. (Writing' => Writing) /\ Pacing' \subseteq Pacing /\ (RunIsActive' => RunIsActive)
      BY <1>2 DEF Report, Fault, Release, Waiting, Writing, Pacing, Pool, PoolTypes, RunIsActive
    <2>3. lateAsked' + Cardinality(Pacing') <= lateTaken' + Cardinality(Workers)
      BY <2>1, <2>2, PacingBound DEF LateInv
    <2>4. stopped' \in BOOLEAN /\ (~stopped' => ~stopped)
      BY <2>1 DEF Noticed, RunIsActive, LateInv
    <2> QED  BY <2>1, <2>2, <2>3, <2>4 DEF LateInv
  <1>3. ASSUME NEW w \in Workers, Handle(w) \/ Fault(w) PROVE LateInv'
    BY <1>2, <1>3, LateSends, LateAnswers, LateWrites DEF Handle
  <1> QED  BY <1>1, <1>3, LateTakes DEF Next, MainNext

\* Of a stopped run, fewer than Interval pages more are taken, the requests of
\* the waiting workers are sent besides, and one fetch is stored.
THEOREM StopsSoon == Spec => []LittleAfterStop
  <1>1. Init => Pool /\ LateInv
    BY PoolAtFirst, LateAtFirst
  <1>2. Pool /\ LateInv /\ [Next]_vars => (Pool /\ LateInv)'
    BY PoolStep, LateStep
  <1>3. LateInv => LittleAfterStop
    <2> SUFFICES ASSUME LateInv PROVE lateAsked <= lateTaken + Cardinality(Workers)
      BY DEF LateInv, LittleAfterStop
    <2>1. \A x, p, t, n \in Nat : x + p <= t + n => x <= t + n
      OBVIOUS
    <2> QED  BY <2>1, PacingBound DEF LateInv
  <1> QED  BY <1>1, <1>2, <1>3, PTL DEF Spec

-----------------------------------------------------------------------------
(* Termination. What was met is asked for, held by a waiting worker or in   *)
(* the queue, and the links of what was stored were met; join() returns     *)
(* with an empty queue and no worker busy.                                  *)

Held == asked \cup {worker[w].url : w \in Pacing}

Spread ==
    /\ main \in {"seal", "done"} => unfinished = 0
    /\ ~stopped /\ ~skipped /\ Dead = {} =>
         \A u \in seen \cap (site.scope \ site.assets) :
             u \in Held \/ \E i \in queue : i.url = u
    /\ site.depth = None /\ Dead = {} =>
         \A u \in stored : site.links[site.target[u]] \subseteq seen

LEMMA SpreadAtFirst == Init => Spread
  BY DEF Init, Spread

\* With no item unfinished nothing is queued and nobody is busy.
LEMMA Idle ==
    ASSUME Pool, unfinished = 0
    PROVE  queue = {} /\ Busy = {}
  <1>1. IsFiniteSet(queue) /\ Cardinality(queue) \in Nat
    BY FS_CardinalityType DEF Pool, PoolTypes
  <1>2. Cardinality(queue) = 0 /\ Cardinality(Busy) = 0
    BY <1>1, BusyFinite DEF Pool, Accounted
  <1> QED  BY <1>1, <1>2, BusyFinite, FS_EmptySet

LEMMA EnqueueCovers ==
    ASSUME Pool, NEW urls, NEW depth, Enqueue(urls, depth), UNCHANGED site, UNCHANGED Held,
           \A u \in seen \cap (site.scope \ site.assets) :
               u \in Held \/ \E i \in queue : i.url = u
    PROVE  \A u \in seen' \cap (site'.scope \ site'.assets) :
               u \in Held' \/ \E i \in queue' : i.url = u
  <1> SUFFICES ASSUME NEW u \in seen' \cap (site.scope \ site.assets)
               PROVE  u \in Held \/ \E i \in queue' : i.url = u
    OBVIOUS
  <1>1. CASE u \in seen
    BY <1>1 DEF Enqueue
  <1>2. CASE u \notin seen
    <2>1. [url |-> u, depth |-> depth] \in queue'
      BY <1>2 DEF Enqueue
    <2> QED  BY <2>1
  <1> QED  BY <1>1, <1>2

LEMMA SpreadMain ==
    ASSUME Pool, Spread, Start \/ Join \/ Seal \/ StopRun \/ DeleteRun \/ UNCHANGED vars
    PROVE  Spread'
  <1>1. CASE Start
    <2>1. PICK urls : Enqueue(urls, 1)
      BY <1>1 DEF Start
    <2>2. seen \subseteq seen' /\ main' = "join" /\ UNCHANGED <<site, stopped, worker, history>>
      BY <1>1, <2>1 DEF Start, Enqueue
    <2>3. Dead' = Dead /\ Held' = Held
      BY <2>2 DEF Dead, Held, Pacing, history
    <2> QED  BY <2>1, <2>2, <2>3, EnqueueCovers DEF Spread, history
  <1>2. CASE Join
    BY <1>2 DEF Join, Spread, Dead, Held, Pacing, history
  <1>3. CASE Seal \/ StopRun \/ DeleteRun \/ UNCHANGED vars
    BY <1>3 DEF Seal, StopRun, DeleteRun, vars, Spread, Dead, Held, Pacing, history
  <1> QED  BY <1>1, <1>2, <1>3

LEMMA SpreadTakes ==
    ASSUME Pool, Spread, NEW w \in Workers, Take(w)
    PROVE  Spread'
  <1>1. PICK item \in queue : \/ DropStopped(w, item) \/ DropFull(w, item)
                              \/ DropNoticed(w, item) \/ Fetch(w, item)
    BY DEF Take
  <1>2. main' = "join" /\ UNCHANGED <<site, seen>> /\ queue' = queue \ {item}
    BY <1>1 DEF DropStopped, DropFull, DropNoticed, Fetch, Get
  <1>3. CASE DropStopped(w, item) \/ DropFull(w, item) \/ DropNoticed(w, item)
    <2>1. (stopped' \/ skipped') /\ UNCHANGED <<worker, stored>>
      BY <1>3 DEF DropStopped, DropFull, DropNoticed, Discard, history
    <2> QED  BY <1>2, <2>1 DEF Spread, Dead
  <1>4. CASE Fetch(w, item)
    <2>1. /\ UNCHANGED <<asked, stopped, stored, skipped>>
          /\ worker[w].pc = "get"
          /\ worker' = [worker EXCEPT ![w] = [pc |-> "pace", url |-> item.url,
                                              depth |-> item.depth]]
      BY <1>4 DEF Fetch, Get
    <2>2. Dead' = Dead
      BY <2>1 DEF Dead, Pool, PoolTypes
    <2>3. Held' = Held \cup {item.url}
      <3>1. Pacing' = Pacing \cup {w} /\ \A v \in Pacing : v # w /\ worker'[v] = worker[v]
        BY <2>1 DEF Pacing, Pool, PoolTypes
      <3>2. worker'[w].url = item.url
        BY <2>1 DEF Pool, PoolTypes
      <3> QED  BY <2>1, <3>1, <3>2 DEF Held
    <2> QED  BY <1>2, <2>1, <2>2, <2>3 DEF Spread
  <1> QED  BY <1>1, <1>3, <1>4

\* Whoever is busy is no more with the crawl concluded.
LEMMA SpreadHandles ==
    ASSUME Pool, Spread, NEW w \in Workers, Handle(w) \/ Fault(w)
    PROVE  Spread'
  <1>1. w \in Busy /\ main' = main /\ main \notin {"seal", "done"}
    <2>1. w \in Busy /\ main' = main
      BY DEF Handle, Fault, Send, AnswerError, AnswerOutside, AnswerPage, Answered, StoreError,
             StoreRefused, StorePage, StoreMalformed, Storing, Report, Busy
    <2> QED  BY <2>1, Idle DEF Spread
  <1>2. CASE StorePage(w)
    <2>1. /\ UNCHANGED <<site, asked, stopped, skipped>> /\ worker[w].pc = "page"
          /\ stored' = stored \cup {worker[w].url}
          /\ worker' = [worker EXCEPT ![w].pc = "report"]
      BY <1>2 DEF StorePage, Storing
    <2>2. Dead' = Dead /\ Held' = Held
      <3>1. Pacing' = Pacing /\ \A v \in Pacing : worker'[v].url = worker[v].url
        BY <2>1 DEF Pacing, Pool, PoolTypes, WorkerType
      <3> QED  BY <2>1, <3>1 DEF Dead, Held, Pool, PoolTypes, WorkerType
    <2>3. CASE Follows(worker[w].depth)
      <3>1. Enqueue(LinksOf(w), worker[w].depth + 1)
        BY <1>2, <2>3 DEF StorePage
      <3>2. seen' = seen \cup LinksOf(w)
        BY <3>1 DEF Enqueue
      <3> QED  BY <1>1, <2>1, <2>2, <3>1, <3>2, EnqueueCovers DEF Spread, LinksOf
    <2>4. CASE ~Follows(worker[w].depth)
      <3>1. site.depth # None /\ UNCHANGED <<queue, seen>>
        BY <1>2, <2>4 DEF StorePage, Follows
      <3> QED  BY <1>1, <2>1, <2>2, <3>1 DEF Spread
    <2> QED  BY <2>3, <2>4
  <1>3. CASE Send(w)
    <2>1. /\ UNCHANGED <<site, queue, seen, unfinished, stopped, stored, skipped>>
          /\ worker[w].pc = "pace" /\ worker' = [worker EXCEPT ![w].pc = "fetch"]
          /\ asked' = asked \cup {worker[w].url}
      BY <1>3 DEF Send
    <2>2. Dead' = Dead
      BY <2>1 DEF Dead, Pool, PoolTypes, WorkerType
    <2>3. Held' = Held
      <3>1. /\ Pacing' = Pacing \ {w} /\ w \in Pacing
            /\ \A v \in Pacing : worker'[v].url = worker[v].url
        BY <2>1 DEF Pacing, Pool, PoolTypes, WorkerType
      <3> QED  BY <2>1, <3>1 DEF Held
    <2> QED  BY <1>1, <2>1, <2>2, <2>3 DEF Spread
  <1>4. CASE ~StorePage(w) /\ ~Send(w)
    <2>1. /\ UNCHANGED <<site, queue, seen, asked, skipped>>
          /\ (stopped => stopped')
          /\ stored' = stored \/ StoreMalformed(w)
      <3>1. ASSUME AnswerError(w) \/ AnswerPage(w)
            PROVE  /\ UNCHANGED <<site, queue, seen, history>>
                   /\ (stopped => stopped')
        <4>1. UNCHANGED <<site, queue, seen, history>>
          BY <3>1 DEF AnswerError, AnswerPage, Answered
        <4>2. stopped' = TRUE \/ UNCHANGED stopped
          BY <3>1 DEF AnswerError, AnswerPage, GoOn
        <4> QED  BY <4>1, <4>2
      <3>2. CASE AnswerOutside(w)
        BY <3>2 DEF AnswerOutside, Answered, history
      <3>3. CASE StoreError(w)
        BY <3>3 DEF StoreError
      <3>4. CASE StoreRefused(w)
        BY <3>4 DEF StoreRefused, Storing
      <3>5. CASE StoreMalformed(w)
        BY <3>5 DEF StoreMalformed, Storing
      <3>6. CASE Report(w)
        <4>1. UNCHANGED <<site, queue, seen, history>> /\ stopped' = Noticed
          BY <3>6 DEF Report
        <4>2. stopped => stopped'
          BY <4>1 DEF Noticed
        <4> QED  BY <4>1, <4>2 DEF history
      <3>7. CASE Fault(w)
        BY <3>7 DEF Fault, history
      <3> QED  BY <1>4, <3>1, <3>2, <3>3, <3>4, <3>5, <3>6, <3>7 DEF Handle, history
    <2>2. Dead' = {} => Dead = {} /\ ~StoreMalformed(w)
      <3>1. worker[w].pc # "dead"
        BY <1>1 DEF Busy
      <3>2. \A v \in Workers \ {w} : worker'[v] = worker[v]
        BY <1>4 DEF Handle, Fault, AnswerError, AnswerOutside, AnswerPage, GoOn, Release,
             StoreError, StoreRefused, StoreMalformed, Report, Pool, PoolTypes
      <3>3. StoreMalformed(w) => worker'[w].pc = "dead"
        BY DEF StoreMalformed, Release, Waiting, Pool, PoolTypes
      <3> QED  BY <3>1, <3>2, <3>3 DEF Dead
    <2>3. Dead' = {} => Held' = Held
      <3>1. ASSUME Dead' = {} PROVE Held' = Held
        <4>1. ~Fault(w)
          BY <1>1, <3>1 DEF Fault, Release, Waiting, Dead, Busy, Pool, PoolTypes
        <4>2. worker[w].pc # "pace" /\ worker'[w].pc # "pace"
          BY <1>1, <1>4, <4>1 DEF Handle, AnswerError, AnswerOutside, AnswerPage, Answered, GoOn,
               Release, Waiting, StoreError, StoreRefused, StoreMalformed, Storing, Report,
               Pool, PoolTypes, WorkerType
        <4>3. \A v \in Workers \ {w} : worker'[v] = worker[v]
          BY <1>4 DEF Handle, Fault, AnswerError, AnswerOutside, AnswerPage, GoOn, Release,
               StoreError, StoreRefused, StoreMalformed, Report, Pool, PoolTypes
        <4>4. Pacing' = Pacing /\ \A v \in Pacing : worker'[v] = worker[v]
          BY <4>2, <4>3 DEF Pacing
        <4> QED  BY <2>1, <4>4 DEF Held
      <3> QED  BY <3>1
    <2> QED  BY <1>1, <2>1, <2>2, <2>3 DEF Spread
  <1> QED  BY <1>2, <1>3, <1>4

LEMMA SpreadStep == ASSUME Pool, Spread, [Next]_vars PROVE Spread'
  BY SpreadMain, SpreadTakes, SpreadHandles DEF Next, MainNext

\* A crawl that concludes has asked for the links of every page it stored.
THEOREM ConcludesClosed == Spec => []ConcludedIsClosed
  <1>1. Init => Pool /\ Spread
    BY PoolAtFirst, SpreadAtFirst
  <1>2. Pool /\ Spread /\ [Next]_vars => (Pool /\ Spread)'
    BY PoolStep, SpreadStep
  <1>3. Pool /\ Spread => ConcludedIsClosed
    <2> SUFFICES ASSUME Pool, Spread, Concluded, ~skipped, site.depth = None, Dead = {},
                        NEW u \in stored
                 PROVE  site.links[site.target[u]] \cap (site.scope \ site.assets) \subseteq asked
      BY DEF ConcludedIsClosed
    <2>1. queue = {} /\ Busy = {}
      BY Idle DEF Spread, Concluded
    <2>2. Held = asked
      BY <2>1 DEF Held, Pacing, Busy
    <2> QED  BY <2>1, <2>2 DEF Spread, Concluded
  <1> QED  BY <1>1, <1>2, <1>3, PTL DEF Spec

-----------------------------------------------------------------------------
(* Types. The pool, the cap and the stop say most of them.                  *)

Facts ==
    /\ main \in {"start", "join", "seal", "done"}
    /\ errors \in Nat
    /\ faults \in 0..MaxFaults
    /\ skipped \in BOOLEAN
    /\ stored \subseteq asked

LEMMA FactsAtFirst == Init => Facts
  <1>1. 0 \in 0..MaxFaults
    BY CrawlBounds
  <1>2. Init => skipped \in BOOLEAN
    BY Zenon DEF Init
  <1>3. Init => main = "start" /\ errors = 0 /\ faults = 0 /\ stored = {}
    BY DEF Init
  <1> QED  BY <1>1, <1>2, <1>3 DEF Facts

LEMMA FactsStay ==
    ASSUME Facts, UNCHANGED <<errors, faults, stored>>, UNCHANGED skipped,
           asked \subseteq asked', main' \in {"start", "join", "seal", "done"}
    PROVE  Facts'
  BY DEF Facts

LEMMA FactsMain ==
    ASSUME Facts, Start \/ Join \/ Seal \/ StopRun \/ DeleteRun \/ UNCHANGED vars
    PROVE  Facts'
  <1>1. /\ UNCHANGED <<faults, stored, asked>> /\ UNCHANGED skipped
        /\ main' \in {"start", "join", "seal", "done"}
    BY DEF Start, Join, Seal, StopRun, DeleteRun, vars, history, Facts
  <1>2. errors' = errors \/ errors' = errors + 1
    BY DEF Start, Join, Seal, StopRun, DeleteRun, vars, counts
  <1> QED  BY <1>1, <1>2 DEF Facts

LEMMA FactsTakes ==
    ASSUME Facts, NEW w \in Workers, Take(w)
    PROVE  Facts'
  <1>1. PICK item \in queue : \/ DropStopped(w, item) \/ DropFull(w, item)
                              \/ DropNoticed(w, item) \/ Fetch(w, item)
    BY DEF Take
  <1>2. /\ UNCHANGED <<main, errors, faults, stored>> /\ asked \subseteq asked'
        /\ UNCHANGED skipped \/ skipped' = TRUE
    BY <1>1 DEF DropStopped, DropFull, DropNoticed, Fetch, Get, counts, history
  <1>3. skipped' \in BOOLEAN
    BY <1>2, Zenon DEF Facts
  <1> QED  BY <1>2, <1>3 DEF Facts

\* What a worker stores it had asked for.
LEMMA FactsHandles ==
    ASSUME Pool, Facts, NEW w \in Workers, Handle(w) \/ Fault(w)
    PROVE  Facts'
  <1>1. UNCHANGED main /\ asked \subseteq asked' /\ UNCHANGED skipped
    BY DEF Handle, Fault, Send, AnswerError, AnswerOutside, AnswerPage, Answered, StoreError,
           StoreRefused, StorePage, StoreMalformed, Storing, Report, history
  <1>2. errors' = errors \/ errors' = errors + 1
    BY DEF Handle, Fault, Send, AnswerError, AnswerOutside, AnswerPage, Answered, StoreError,
           StoreRefused, StorePage, StoreMalformed, Storing, Report, counts
  <1>3. faults' = faults \/ (faults < MaxFaults /\ faults' = faults + 1)
    BY DEF Handle, Fault, Send, AnswerError, AnswerOutside, AnswerPage, Answered, StoreError,
           StoreRefused, StorePage, StoreMalformed, Storing, Report
  <1>4. stored' \subseteq asked'
    <2>1. CASE StorePage(w) \/ StoreMalformed(w)
      <3>1. worker[w].pc = "page" /\ stored' = stored \cup {worker[w].url}
        BY <2>1 DEF StorePage, StoreMalformed, Storing
      <3>2. w \in Busy /\ w \notin Pacing
        BY <3>1 DEF Busy, Pacing
      <3> QED  BY <1>1, <3>1, <3>2 DEF Pool, Met, Facts
    <2>2. CASE ~(StorePage(w) \/ StoreMalformed(w))
      <3>1. stored' = stored
        BY <2>2 DEF Handle, Fault, Send, AnswerError, AnswerOutside, AnswerPage, Answered, StoreError,
               StoreRefused, Report, history
      <3> QED  BY <1>1, <3>1 DEF Facts
    <2> QED  BY <2>1, <2>2
  <1>5. faults' \in 0..MaxFaults
    BY <1>3, CrawlBounds DEF Facts
  <1>6. skipped' \in BOOLEAN
    BY <1>1, Zenon DEF Facts
  <1> QED  BY <1>1, <1>2, <1>4, <1>5, <1>6 DEF Facts

LEMMA FactsStep == ASSUME Pool, Facts, [Next]_vars PROVE Facts'
  BY FactsMain, FactsTakes, FactsHandles DEF Next, MainNext

\* The state of a crawl has its types, whatever the workers and the faults.
THEOREM TypeCorrect == Spec => []TypeOK
  <1> DEFINE Inv == Pool /\ Within /\ LateInv /\ Facts
  <1>1. Init => Inv
    BY PoolAtFirst, CapAtFirst, LateAtFirst, FactsAtFirst
  <1>2. Inv /\ [Next]_vars => Inv'
    BY PoolStep, CapStep, LateStep, FactsStep
  <1>3. Inv => TypeOK
    <2> SUFFICES ASSUME Pool, Within, LateInv, Facts PROVE TypeOK
      OBVIOUS
    <2>1. stopped \in BOOLEAN /\ skipped \in BOOLEAN
      BY Zenon DEF LateInv, Facts
    <2>2. fetched \in Nat /\ asked \subseteq seen
      BY DEF Pool, Met, Within, Numbers
    <2> QED  BY <2>1, <2>2 DEF Pool, PoolTypes, WorkerType, LateInv, Facts, TypeOK
  <1> QED  BY <1>1, <1>2, <1>3, PTL DEF Spec

-----------------------------------------------------------------------------
(* The depth limit. WithinLinks is recursive: that a function with its      *)
(* equation exists is shown by one, the pages at the end of a path.         *)

First == site.seeds \cup ({site.fallback} \ {None})
Onward(urls) == urls \cup UNION {site.links[site.target[u]] : u \in urls}

IsPath(p, n) ==
    /\ p \in [0..n -> Urls]
    /\ p[0] \in First
    /\ \A k \in 1..n : p[k] \in Onward({p[k - 1]})
Reach(n) == {u \in Urls : \E p : IsPath(p, n) /\ p[n] = u}

LEMMA OneOnward ==
    ASSUME NEW urls, NEW u
    PROVE  u \in Onward(urls) <=> \E v \in urls : u \in Onward({v})
  BY DEF Onward

LEMMA FirstReached == ASSUME site \in Sites PROVE Reach(0) = First
  <1>1. First \subseteq Urls
    BY SitesAreFinite DEF First
  <1>2. ASSUME NEW u \in First PROVE u \in Reach(0)
    <2> DEFINE p == [k \in 0..0 |-> u]
    <2>1. IsPath(p, 0) /\ p[0] = u
      BY <1>1, <1>2 DEF IsPath
    <2> QED  BY <1>1, <2>1 DEF Reach
  <1>3. ASSUME NEW u \in Reach(0) PROVE u \in First
    BY DEF Reach, IsPath
  <1> QED  BY <1>2, <1>3

\* A path is one page longer, or one shorter.
LEMMA PathsGoOn ==
    ASSUME site \in Sites, NEW n \in Nat
    PROVE  Reach(n + 1) = Onward(Reach(n))
  <1>1. ASSUME NEW u \in Reach(n + 1) PROVE u \in Onward(Reach(n))
    <2>1. PICK p : IsPath(p, n + 1) /\ p[n + 1] = u
      BY <1>1 DEF Reach
    <2> DEFINE q == [k \in 0..n |-> p[k]]
    <2>2. IsPath(q, n) /\ q[n] = p[n]
      BY <2>1 DEF IsPath
    <2>3. p[n] \in Reach(n)
      <3>1. p[n] \in Urls
        BY <2>1 DEF IsPath
      <3> QED  BY <2>2, <3>1 DEF Reach
    <2>4. u \in Onward({p[n]})
      BY <2>1 DEF IsPath
    <2> QED  BY <2>3, <2>4, OneOnward
  <1>2. ASSUME NEW u \in Onward(Reach(n)) PROVE u \in Reach(n + 1)
    <2>1. PICK v \in Reach(n) : u \in Onward({v})
      BY <1>2, OneOnward
    <2>2. PICK p : IsPath(p, n) /\ p[n] = v
      BY <2>1 DEF Reach
    <2>3. v \in Urls /\ u \in Urls
      <3>1. v \in Urls
        BY <2>1 DEF Reach
      <3> QED  BY <2>1, <3>1, SitesAreFinite DEF Onward
    <2> DEFINE q == [k \in 0..(n + 1) |-> IF k = n + 1 THEN u ELSE p[k]]
    <2>4. q \in [0..(n + 1) -> Urls] /\ q[0] \in First /\ q[n + 1] = u
      BY <2>2, <2>3 DEF IsPath
    <2>5. ASSUME NEW k \in 1..(n + 1) PROVE q[k] \in Onward({q[k - 1]})
      <3>1. CASE k = n + 1
        <4>1. q[k] = u /\ q[k - 1] = v
          BY <2>2, <3>1
        <4> QED  BY <2>1, <4>1
      <3>2. CASE k # n + 1
        <4>1. k \in 1..n /\ q[k] = p[k] /\ q[k - 1] = p[k - 1]
          BY <3>2
        <4> QED  BY <2>2, <4>1 DEF IsPath
      <3> QED  BY <3>1, <3>2
    <2> HIDE DEF q
    <2>6. IsPath(q, n + 1)
      BY <2>4, <2>5 DEF IsPath
    <2> QED  BY <2>3, <2>4, <2>6 DEF Reach
  <1> QED  BY <1>1, <1>2

LEMMA LinksFollow ==
    ASSUME site \in Sites
    PROVE  /\ WithinLinks[0] = First
           /\ \A n \in Nat : WithinLinks[n + 1] = Onward(WithinLinks[n])
  <1> DEFINE Def(f) == [n \in Nat |-> IF n = 0 THEN First ELSE Onward(f[n - 1])]
             g == [n \in Nat |-> Reach(n)]
  <1>1. ASSUME NEW n \in Nat PROVE g[n] = IF n = 0 THEN First ELSE Onward(g[n - 1])
    <2>1. CASE n = 0
      BY <2>1, FirstReached
    <2>2. CASE n # 0
      <3>1. n - 1 \in Nat /\ n = (n - 1) + 1
        BY <2>2
      <3>2. Reach(n) = Onward(Reach(n - 1))
        BY <3>1, PathsGoOn
      <3> QED  BY <2>2, <3>1, <3>2
    <2> QED  BY <2>1, <2>2
  <1>2. g = Def(g)
    BY <1>1
  <1>3. WithinLinks = CHOOSE f : f = Def(f)
    BY Zenon DEF WithinLinks, First, Onward
  <1>4. WithinLinks = Def(WithinLinks)
    <2> HIDE DEF Def, g
    <2> QED  BY <1>2, <1>3
  <1>5. \A n \in Nat : WithinLinks[n] = IF n = 0 THEN First ELSE Onward(WithinLinks[n - 1])
    BY <1>4
  <1>6. ASSUME NEW n \in Nat PROVE WithinLinks[n + 1] = Onward(WithinLinks[n])
    <2>1. n + 1 \in Nat /\ n + 1 # 0 /\ (n + 1) - 1 = n
      OBVIOUS
    <2> QED  BY <1>5, <2>1
  <1> QED  BY <1>5, <1>6

\* A set of natural numbers has a least one.
LEMMA HasLeast ==
    ASSUME NEW T, T \subseteq Nat, T # {}
    PROVE  \E x \in T : \A y \in T : x <= y
  <1> DEFINE R == {ss \in Nat \X Nat : ss[1] < ss[2]}
  <1>1. IsWellFoundedOn(R, Nat)
    BY NatLessThanWellFounded, Zenon DEF OpToRel
  <1>2. PICK x \in T : \A y \in T : ~(<<y, x>> \in R)
    <2> HIDE DEF R
    <2> QED  BY <1>1, WFMin
  <1>3. \A y \in T : x \in Nat /\ y \in Nat /\ ~(y < x)
    BY <1>2
  <1>4. \A y \in T : x <= y
    BY <1>3
  <1> QED  BY <1>4

\* Further links lead to further pages, and to the same.
LEMMA LinksGrow ==
    ASSUME site \in Sites, NEW m \in Nat, NEW n \in Nat, m <= n
    PROVE  WithinLinks[m] \subseteq WithinLinks[n]
  <1> DEFINE bad == {k \in Nat : ~(WithinLinks[m] \subseteq WithinLinks[m + k])}
  <1>1. bad = {}
    <2>1. SUFFICES ASSUME bad # {} PROVE FALSE
      OBVIOUS
    <2>2. PICK k \in bad : \A l \in bad : k <= l
      <3>1. bad \subseteq Nat
        OBVIOUS
      <3> HIDE DEF bad
      <3> QED  BY <2>1, <3>1, HasLeast
    <2>3. k \in Nat /\ k # 0 /\ m + 0 = m
      OBVIOUS
    <2>4. k - 1 \in Nat /\ ~(k <= k - 1) /\ m + k = (m + (k - 1)) + 1
      BY <2>3
    <2>5. WithinLinks[m] \subseteq WithinLinks[m + (k - 1)]
      BY <2>2, <2>4
    <2>6. WithinLinks[m + k] = Onward(WithinLinks[m + (k - 1)])
      <3>1. m + (k - 1) \in Nat
        BY <2>4
      <3> QED  BY <2>4, <3>1, LinksFollow
    <2> QED  BY <2>2, <2>5, <2>6 DEF Onward
  <1>2. n - m \in Nat /\ m + (n - m) = n
    OBVIOUS
  <1> QED  BY <1>1, <1>2

\* A page at a depth is that many pages from the start, and in the limit.
AtDepth(u, depth) ==
    /\ depth \in Nat \ {0}
    /\ u \in WithinLinks[depth - 1]
    /\ site.depth # None => depth <= site.depth

DepthInv ==
    /\ \A i \in queue : AtDepth(i.url, i.depth)
    /\ \A w \in Busy : AtDepth(worker[w].url, worker[w].depth)
    /\ InDepth

LEMMA DepthLimits == ASSUME site \in Sites PROVE site.depth \in (Nat \ {0}) \cup {None}
  BY SiteAssumption DEF SiteType

\* The measure is the site's.
LEMMA DepthFixed ==
    ASSUME UNCHANGED site
    PROVE  /\ WithinLinks' = WithinLinks
           /\ \A u, depth : AtDepth(u, depth)' <=> AtDepth(u, depth)
  BY DEF WithinLinks, AtDepth

LEMMA DepthAtFirst == Init => DepthInv
  <1> SUFFICES ASSUME Init PROVE DepthInv
    OBVIOUS
  <1>1. queue = {} /\ Busy = {} /\ asked = {}
    BY DEF Init, Busy, Waiting
  <1> QED  BY <1>1 DEF DepthInv, InDepth

\* A step that queues and asks for nothing new.
LEMMA DepthStays ==
    ASSUME DepthInv, UNCHANGED <<site, asked>>, queue' \subseteq queue,
           \A w \in Busy' : w \in Busy /\ worker'[w].url = worker[w].url
                                       /\ worker'[w].depth = worker[w].depth
    PROVE  DepthInv'
  <1>1. InDepth'
    BY DepthFixed DEF DepthInv, InDepth
  <1>2. ASSUME NEW i \in queue' PROVE AtDepth(i.url, i.depth)'
    BY DepthFixed DEF DepthInv
  <1>3. ASSUME NEW w \in Busy' PROVE AtDepth(worker[w].url, worker[w].depth)'
    <2>1. AtDepth(worker[w].url, worker[w].depth)
      BY DEF DepthInv
    <2> DEFINE u == worker'[w].url
               d == worker'[w].depth
    <2> QED  BY <2>1, DepthFixed DEF AtDepth
  <1> QED  BY <1>1, <1>2, <1>3 DEF DepthInv

\* What is queued is at its depth.
LEMMA DepthQueues ==
    ASSUME DepthInv, NEW urls, NEW depth, Enqueue(urls, depth), UNCHANGED site,
           \A u \in urls : AtDepth(u, depth)
    PROVE  \A i \in queue' : AtDepth(i.url, i.depth)'
  <1>1. ASSUME NEW i \in queue' PROVE AtDepth(i.url, i.depth)
    BY <1>1 DEF DepthInv, Enqueue
  <1> QED  BY <1>1, DepthFixed

LEMMA DepthStarts == ASSUME Pool, DepthInv, Start PROVE DepthInv'
  <1>1. site \in Sites /\ UNCHANGED <<site, worker, asked>>
    BY DEF Pool, PoolTypes, Start, history
  <1>2. PICK urls : Enqueue(urls, 1) /\ urls \subseteq First
    BY DEF Start, First
  <1>3. \A u \in urls : AtDepth(u, 1)
    <2>1. urls \subseteq WithinLinks[1 - 1]
      BY <1>1, <1>2, LinksFollow
    <2>2. site.depth # None => 1 <= site.depth
      BY <1>1, DepthLimits
    <2> QED  BY <2>1, <2>2 DEF AtDepth
  <1>4. \A i \in queue' : AtDepth(i.url, i.depth)'
    BY <1>1, <1>2, <1>3, DepthQueues
  <1>5. InDepth' /\ Busy' = Busy
    BY <1>1, DepthFixed DEF DepthInv, InDepth, Busy
  <1>6. ASSUME NEW w \in Busy' PROVE AtDepth(worker[w].url, worker[w].depth)'
    <2>1. AtDepth(worker[w].url, worker[w].depth)
      BY <1>5, <1>6 DEF DepthInv
    <2> QED  BY <1>1, <2>1, DepthFixed DEF AtDepth
  <1> QED  BY <1>4, <1>5, <1>6 DEF DepthInv

LEMMA DepthTakes ==
    ASSUME Pool, DepthInv, NEW w \in Workers, Take(w)
    PROVE  DepthInv'
  <1>1. PICK item \in queue : \/ DropStopped(w, item) \/ DropFull(w, item)
                              \/ DropNoticed(w, item) \/ Fetch(w, item)
    BY DEF Take
  <1>2. site \in Sites /\ UNCHANGED site /\ queue' \subseteq queue
    BY <1>1 DEF Pool, PoolTypes, DropStopped, DropFull, DropNoticed, Fetch, Get
  <1>3. CASE DropStopped(w, item) \/ DropFull(w, item) \/ DropNoticed(w, item)
    <2>1. UNCHANGED <<worker, asked>>
      BY <1>3 DEF DropStopped, DropFull, DropNoticed, Discard, history
    <2> QED  BY <1>2, <2>1, DepthStays DEF Busy
  <1>4. CASE Fetch(w, item)
    <2>1. /\ worker' = [worker EXCEPT ![w] = [pc |-> "pace", url |-> item.url,
                                              depth |-> item.depth]]
          /\ UNCHANGED asked
      BY <1>4 DEF Fetch
    <2>2. AtDepth(item.url, item.depth)
      BY DEF DepthInv
    <2>3. \A i \in queue' : AtDepth(i.url, i.depth)'
      BY <1>2, DepthFixed DEF DepthInv
    <2>4. ASSUME NEW v \in Busy' PROVE AtDepth(worker[v].url, worker[v].depth)'
      <3>1. v \in Workers
        BY DEF Busy
      <3>2. AtDepth(worker'[v].url, worker'[v].depth)
        <4>1. CASE v = w
          BY <2>1, <2>2, <4>1 DEF Pool, PoolTypes
        <4>2. CASE v # w
          <5>1. worker'[v] = worker[v] /\ v \in Busy
            BY <2>1, <3>1, <4>2 DEF Pool, PoolTypes, Busy
          <5> QED  BY <5>1 DEF DepthInv
        <4> QED  BY <4>1, <4>2
      <3> QED  BY <1>2, <3>2, DepthFixed DEF AtDepth
    <2>5. InDepth'
      BY <1>2, <2>1, DepthFixed DEF DepthInv, InDepth
    <2> QED  BY <2>3, <2>4, <2>5 DEF DepthInv
  <1> QED  BY <1>1, <1>3, <1>4

\* What a worker asks for is where it says.
LEMMA DepthSends ==
    ASSUME Pool, DepthInv, NEW w \in Workers, Send(w)
    PROVE  DepthInv'
  <1>1. /\ site \in Sites /\ worker[w].pc = "pace" /\ UNCHANGED <<site, queue>>
        /\ worker' = [worker EXCEPT ![w].pc = "fetch"]
        /\ asked' = asked \cup {worker[w].url}
    BY DEF Pool, PoolTypes, Send
  <1>2. /\ Busy' \subseteq Busy /\ w \in Busy
        /\ \A v \in Workers : /\ worker'[v].url = worker[v].url
                              /\ worker'[v].depth = worker[v].depth
    BY <1>1 DEF Busy, Pool, PoolTypes, WorkerType
  <1>3. \A i \in queue' : AtDepth(i.url, i.depth)'
    BY <1>1, DepthFixed DEF DepthInv
  <1>4. ASSUME NEW v \in Busy' PROVE AtDepth(worker[v].url, worker[v].depth)'
    <2>1. AtDepth(worker[v].url, worker[v].depth) /\ v \in Workers
      BY <1>2 DEF DepthInv, Busy
    <2>2. AtDepth(worker'[v].url, worker'[v].depth)
      BY <1>2, <2>1
    <2> QED  BY <1>1, <2>2, DepthFixed DEF AtDepth
  <1>5. InDepth'
    <2> DEFINE u == worker[w].url
               d == worker[w].depth
    <2>1. SUFFICES ASSUME site.depth # None PROVE asked' \subseteq WithinLinks[site.depth - 1]
      BY <1>1, DepthFixed DEF InDepth
    <2>2. asked \subseteq WithinLinks[site.depth - 1] /\ AtDepth(u, d)
      BY <1>2, <2>1 DEF DepthInv, InDepth
    <2>3. d - 1 \in Nat /\ site.depth - 1 \in Nat /\ d - 1 <= site.depth - 1
      BY <1>1, <2>1, <2>2, DepthLimits DEF AtDepth
    <2>4. u \in WithinLinks[site.depth - 1]
      BY <1>1, <2>2, <2>3, LinksGrow DEF AtDepth
    <2> QED  BY <1>1, <2>2, <2>4
  <1> QED  BY <1>3, <1>4, <1>5 DEF DepthInv

\* The links of a page are one further away, and followed within the limit.
LEMMA DepthHandles ==
    ASSUME Pool, DepthInv, NEW w \in Workers, Handle(w) \/ Fault(w)
    PROVE  DepthInv'
  <1>1. CASE StorePage(w)
    <2>1. /\ site \in Sites /\ worker[w].pc = "page" /\ UNCHANGED <<site, asked>>
          /\ worker' = [worker EXCEPT ![w].pc = "report"]
      BY <1>1 DEF Pool, PoolTypes, StorePage, Storing
    <2>2. /\ Busy' \subseteq Busy /\ w \in Busy
          /\ \A v \in Workers : /\ worker'[v].url = worker[v].url
                                /\ worker'[v].depth = worker[v].depth
      BY <2>1 DEF Busy, Pool, PoolTypes, WorkerType
    <2>3. CASE UNCHANGED queue
      BY <2>1, <2>2, <2>3, DepthStays DEF Busy
    <2>4. CASE Follows(worker[w].depth) /\ Enqueue(LinksOf(w), worker[w].depth + 1)
      <3> DEFINE u == worker[w].url
                 d == worker[w].depth
      <3>1. AtDepth(u, d) /\ u \in Urls
        BY <2>2 DEF DepthInv, Pool, PoolTypes, Met
      <3>2. LinksOf(w) \subseteq WithinLinks[d]
        <4>1. d - 1 \in Nat /\ d = (d - 1) + 1 /\ u \in WithinLinks[d - 1]
          BY <3>1 DEF AtDepth
        <4>2. WithinLinks[d] = Onward(WithinLinks[d - 1])
          BY <2>1, <4>1, LinksFollow
        <4> QED  BY <4>1, <4>2 DEF Onward, LinksOf
      <3>3. \A x \in LinksOf(w) : AtDepth(x, d + 1)
        <4>1. d + 1 \in Nat \ {0} /\ (d + 1) - 1 = d
          BY <3>1 DEF AtDepth
        <4>2. site.depth # None => d + 1 <= site.depth
          BY <2>1, <2>4, <3>1, DepthLimits DEF Follows, AtDepth
        <4> QED  BY <3>2, <4>1, <4>2 DEF AtDepth
      <3>4. \A i \in queue' : AtDepth(i.url, i.depth)'
        BY <2>1, <2>4, <3>3, DepthQueues
      <3>5. ASSUME NEW v \in Busy' PROVE AtDepth(worker[v].url, worker[v].depth)'
        <4>1. AtDepth(worker[v].url, worker[v].depth) /\ v \in Workers
          BY <2>2 DEF DepthInv, Busy
        <4>2. AtDepth(worker'[v].url, worker'[v].depth)
          BY <2>2, <4>1
        <4> QED  BY <2>1, <4>2, DepthFixed DEF AtDepth
      <3>6. InDepth'
        BY <2>1, DepthFixed DEF DepthInv, InDepth
      <3> QED  BY <3>4, <3>5, <3>6 DEF DepthInv
    <2> QED  BY <1>1, <2>3, <2>4 DEF StorePage
  <1>2. CASE \E pc \in {"error", "page"} : /\ worker' = [worker EXCEPT ![w].pc = pc]
                                           /\ loop' = w /\ Answered(w)
                                           /\ UNCHANGED <<reserved, unfinished>>
    <2>1. worker[w].pc = "fetch" /\ UNCHANGED <<site, queue, asked>>
      BY <1>2 DEF Answered, history
    <2>2. /\ Busy' \subseteq Busy
          /\ \A v \in Workers : /\ worker'[v].url = worker[v].url
                                /\ worker'[v].depth = worker[v].depth
      BY <1>2, <2>1 DEF Busy, Pool, PoolTypes, WorkerType
    <2> QED  BY <2>1, <2>2, DepthStays DEF Busy
  <1>3. CASE ~StorePage(w) /\ ~Send(w)
             /\ ~(\E pc \in {"error", "page"} : /\ worker' = [worker EXCEPT ![w].pc = pc]
                                                /\ loop' = w /\ Answered(w)
                                                /\ UNCHANGED <<reserved, unfinished>>)
    <2>1. UNCHANGED <<site, queue, asked>>
      BY <1>3, WhoReleases
    <2>2. PICK next \in {Waiting, [Waiting EXCEPT !.pc = "dead"]} : Release(w, next)
      BY <1>3, WhoReleases
    <2>3. \A v \in Busy' : v \in Busy /\ worker'[v] = worker[v]
      BY <2>2 DEF Release, Waiting, Busy, Pool, PoolTypes
    <2> QED  BY <2>1, <2>3, DepthStays
  <1> QED  BY <1>1, <1>2, <1>3, DepthSends

LEMMA DepthStep == ASSUME Pool, DepthInv, [Next]_vars PROVE DepthInv'
  <1>1. CASE Join \/ Seal \/ StopRun \/ DeleteRun \/ UNCHANGED vars
    <2>1. UNCHANGED <<site, queue, worker, asked>>
      BY <1>1 DEF Join, Seal, StopRun, DeleteRun, vars, history
    <2> QED  BY <2>1, DepthStays DEF Busy
  <1> QED  BY <1>1, DepthStarts, DepthTakes, DepthHandles DEF Next, MainNext

\* A crawl limited to a depth asks for no page further away.
THEOREM StaysInDepth == Spec => []InDepth
  <1>1. Init => Pool /\ DepthInv
    BY PoolAtFirst, DepthAtFirst
  <1>2. Pool /\ DepthInv /\ [Next]_vars => (Pool /\ DepthInv)'
    BY PoolStep, DepthStep
  <1>3. DepthInv => InDepth
    BY DEF DepthInv
  <1> QED  BY <1>1, <1>2, <1>3, PTL DEF Spec
=============================================================================
