---------------------------- MODULE SitemapCrawl ----------------------------
(***************************************************************************)
(* One execution of run_sitemap: a queue of discovered pages, a pool of    *)
(* worker tasks that retrieve them under a page cap, the main task that    *)
(* waits in queue.join() and concludes, and the row of the run, which      *)
(* other processes stop or delete meanwhile.                               *)
(*                                                                         *)
(* The workers are coroutines of one event loop. A worker gives the loop   *)
(* up only while it waits for the turn of a host, for a page (robots.txt,  *)
(* the request) or for the queue; no lock of the code is ever contended.   *)
(* From the answer to the next wait it therefore holds the loop: only      *)
(* other processes, which write the row, come between its steps. A step    *)
(* has at most one access to the database. The queue is a set: its order   *)
(* is abstracted.                                                          *)
(***************************************************************************)
EXTENDS Naturals, FiniteSets

CONSTANTS Urls,      \* canonical URLs
          Workers,   \* settings.crawl_concurrency worker tasks
          None,      \* no URL, no worker, no depth limit
          Sites,     \* the web sites (with the source's settings) considered
          Cap,       \* settings.max_pages
          Interval,  \* settings.crawl_liveness_check_interval
          MaxFaults  \* bound: database errors that reach a worker

ASSUME CrawlBounds == Cap \in Nat \ {0} /\ Interval \in Nat \ {0} /\ MaxFaults \in Nat

\* A site: the URLs the crawl starts from and the one to fall back on when the
\* sitemap cannot be read; where each URL leads; the links of each page; the
\* pages one of whose links does not parse; what is in scope, and what of that
\* is an asset; the source's crawl_depth, which ck_sources_crawl_depth keeps above 0.
SiteType == [seeds : SUBSET Urls, fallback : Urls \cup {None},
             target : [Urls -> Urls], links : [Urls -> SUBSET Urls],
             malformed : SUBSET Urls, scope : SUBSET Urls, assets : SUBSET Urls,
             depth : (Nat \ {0}) \cup {None}]

ASSUME SiteAssumption == Sites \subseteq SiteType

\* A pool has finitely many workers, a sitemap and a page finitely many links.
ASSUME FiniteAssumption ==
    /\ IsFiniteSet(Workers)
    /\ \A s \in Sites : IsFiniteSet(s.seeds) /\ \A u \in Urls : IsFiniteSet(s.links[u])

ASSUME NoneNotUsed == None \notin Urls \cup Workers \cup Nat

VARIABLES site,        \* the site crawled
          row,         \* status of the run's row
          main,        \* the main task
          loop,        \* the worker that holds the event loop
          worker,      \* the worker tasks
          queue,       \* queue: pages to retrieve, with their depth
          unfinished,  \* queue: items put and not yet task_done
          seen,        \* seen: URLs met so far
          reserved,    \* slots of the cap held by workers
          fetched,     \* stats["fetched"]
          errors,      \* stats["errors"]
          checks,      \* liveness_checks, modulo Interval
          stopped,     \* stop_requested
          faults,      \* database errors so far
          asked,       \* history: URLs requested
          stored,      \* history: requested URLs whose page was stored
          skipped,     \* history: some URL was dropped because of the cap
          lateTaken,   \* history: pages taken after the run was stopped
          lateAsked,   \* history: requests sent after the run was stopped
          lateStored   \* history: fetches stored after the run was stopped

counts == <<fetched, errors>>
history == <<asked, stored, skipped, lateTaken, lateAsked, lateStored>>
vars == <<site, row, main, loop, worker, queue, unfinished, seen, reserved, counts,
          checks, stopped, faults, history>>

Item == [url : Urls, depth : Nat]
Waiting == [pc |-> "get", url |-> None, depth |-> 0]

Busy == {w \in Workers : worker[w].pc \in {"pace", "fetch", "error", "page", "report"}}
Pacing == {w \in Workers : worker[w].pc = "pace"}
Dead == {w \in Workers : worker[w].pc = "dead"}

\* ACTIVE_RUN_STATUSES; the row is running when the crawl starts.
RunIsActive == row = "running"

TypeOK ==
    /\ site \in Sites
    /\ row \in {"running", "stopped", "gone", "complete", "partial", "failed"}
    /\ main \in {"start", "join", "seal", "done"}
    /\ loop \in Workers \cup {None}
    /\ worker \in [Workers -> [pc : {"get", "pace", "fetch", "error", "page", "report",
                                     "dead"},
                               url : Urls \cup {None}, depth : Nat]]
    /\ queue \subseteq Item
    /\ seen \subseteq Urls
    /\ {unfinished, reserved, fetched, errors} \subseteq Nat
    /\ checks \in 0..(Interval - 1)
    /\ stopped \in BOOLEAN
    /\ faults \in 0..MaxFaults
    /\ asked \subseteq Urls
    /\ stored \subseteq asked
    /\ skipped \in BOOLEAN
    /\ {lateTaken, lateAsked, lateStored} \subseteq Nat

Init ==
    /\ site \in Sites
    /\ row = "running"
    /\ main = "start"
    /\ loop = None
    /\ worker = [w \in Workers |-> Waiting]
    /\ queue = {}
    /\ seen = {}
    /\ unfinished = 0
    /\ reserved = 0
    /\ fetched = 0
    /\ errors = 0
    /\ checks = 0
    /\ stopped = FALSE
    /\ faults = 0
    /\ asked = {}
    /\ stored = {}
    /\ skipped = FALSE
    /\ lateTaken = 0
    /\ lateAsked = 0
    /\ lateStored = 0

-----------------------------------------------------------------------------
(* The queue and the slots.                                                *)

\* Variant of Enqueue: a URL counts as seen once it was requested.
EnqueueUnasked(urls, depth) ==
    LET fresh == {u \in urls \ asked : u \in site.scope \ site.assets}
        items == {[url |-> u, depth |-> depth] : u \in fresh}
    IN /\ queue' = queue \cup items
       /\ unfinished' = unfinished + Cardinality(items)
       /\ seen' = seen \cup urls

\* _enqueue: every new URL is seen; the ones in scope that are no assets are
\* put into the queue.
Enqueue(urls, depth) ==
    LET fresh == {u \in urls \ seen : u \in site.scope \ site.assets}
        items == {[url |-> u, depth |-> depth] : u \in fresh}
    IN /\ queue' = queue \cup items
       /\ unfinished' = unfinished + Cardinality(items)
       /\ seen' = seen \cup urls

\* Variant of Full: what the other workers are about to fetch does not count.
FullOfFetched == fetched >= Cap

\* reserve_fetch_slot refuses.
Full == fetched + reserved >= Cap

\* Variant of Follows: the depth limit counts links, not pages.
FollowsOneMore(depth) == site.depth # None => depth <= site.depth

\* The links of a page at this depth are followed.
Follows(depth) == site.depth # None => depth < site.depth

\* Variant of NextCheck: the shared counter is off by one.
NextCheckLate == (checks + 1) % (Interval + 1)

\* check_liveness counts its calls and looks at the row every Interval calls.
NextCheck == (checks + 1) % Interval

\* check_liveness(force=True) returns False.
Noticed == stopped \/ ~RunIsActive

\* The finally clause of a worker that held a slot: the slot is released, the
\* item is done, and the loop is free.
Release(w, next) ==
    /\ worker' = [worker EXCEPT ![w] = next]
    /\ reserved' = IF reserved > 0 THEN reserved - 1 ELSE 0
    /\ loop' = None

-----------------------------------------------------------------------------
(* The main task.                                                          *)

\* The first writes, the sitemap, the seeds. A sitemap that cannot be read is
\* an error, and the crawl starts from its own URL.
Start ==
    /\ main = "start"
    /\ \/ Enqueue(site.seeds, 1) /\ UNCHANGED errors
       \/ /\ site.fallback # None
          /\ Enqueue({site.fallback}, 1)
          /\ errors' = errors + 1
    /\ main' = "join"
    /\ UNCHANGED <<site, row, loop, worker, reserved, fetched, checks, stopped, faults,
                   history>>

\* Variant of Join: the main task waits for an empty queue only.
JoinEmpty ==
    /\ main = "join"
    /\ loop = None
    /\ queue = {}
    /\ main' = IF Noticed THEN "done" ELSE "seal"
    /\ UNCHANGED <<site, row, loop, worker, queue, unfinished, seen, reserved, counts,
                   checks, stopped, faults, history>>

\* queue.join() returns, the idle workers are cancelled, and the main task
\* looks at the row for the last time.
Join ==
    /\ main = "join"
    /\ loop = None
    /\ unfinished = 0
    /\ main' = IF Noticed THEN "done" ELSE "seal"
    /\ UNCHANGED <<site, row, loop, worker, queue, unfinished, seen, reserved, counts,
                   checks, stopped, faults, history>>

\* Variant of Seal: a status the check constraint does not know.
SealDone ==
    /\ main = "seal"
    /\ row' = IF row = "gone" THEN row ELSE "done"
    /\ main' = "done"
    /\ UNCHANGED <<site, loop, worker, queue, unfinished, seen, reserved, counts,
                   checks, stopped, faults, history>>

\* The final status is written whatever the row has become.
Seal ==
    /\ main = "seal"
    /\ row' = IF row = "gone" THEN row
              ELSE IF errors = 0 THEN "complete"
              ELSE IF fetched = 0 THEN "failed"
              ELSE "partial"
    /\ main' = "done"
    /\ UNCHANGED <<site, loop, worker, queue, unfinished, seen, reserved, counts,
                   checks, stopped, faults, history>>

-----------------------------------------------------------------------------
(* A worker takes an item. It decides before it waits for anything.        *)

Get(w, item) ==
    /\ main = "join"
    /\ loop = None
    /\ worker[w].pc = "get"
    /\ item \in queue
    /\ queue' = queue \ {item}
    /\ UNCHANGED <<site, row, main, loop, seen, counts, faults>>

Discard == UNCHANGED <<worker, reserved>> /\ unfinished' = unfinished - 1

\* Variant of DropStopped: a worker that sees the stop keeps its item open.
DropStoppedOpen(w, item) ==
    /\ Get(w, item)
    /\ stopped
    /\ UNCHANGED <<worker, reserved, unfinished, checks, stopped, history>>

\* stop_requested is set: the item is dropped.
DropStopped(w, item) ==
    /\ Get(w, item)
    /\ stopped
    /\ Discard
    /\ UNCHANGED <<checks, stopped, history>>

\* The cap is reached, slots held by others included: the item is dropped, and
\* stays dropped when one of those slots is released unused.
DropFull(w, item) ==
    /\ Get(w, item)
    /\ ~stopped
    /\ Full
    /\ Discard
    /\ skipped' = TRUE
    /\ UNCHANGED <<checks, stopped, asked, stored, lateTaken, lateAsked, lateStored>>

\* This call of check_liveness looks at the row, which is not active.
DropNoticed(w, item) ==
    /\ Get(w, item)
    /\ ~stopped
    /\ ~Full
    /\ checks' = NextCheck
    /\ NextCheck = 0 /\ ~RunIsActive
    /\ Discard
    /\ stopped' = TRUE
    /\ UNCHANGED history

\* The worker goes to wait for its turn at the host of the page.
Fetch(w, item) ==
    /\ Get(w, item)
    /\ ~stopped
    /\ ~Full
    /\ checks' = NextCheck
    /\ NextCheck = 0 => RunIsActive
    /\ worker' = [worker EXCEPT ![w] = [pc |-> "pace", url |-> item.url,
                                        depth |-> item.depth]]
    /\ reserved' = reserved + 1
    /\ lateTaken' = IF RunIsActive THEN lateTaken ELSE lateTaken + 1
    /\ UNCHANGED <<unfinished, stopped, asked, stored, skipped, lateAsked, lateStored>>

\* The host's turn has come: the request is sent, without another look at the
\* stop or at the row.
Send(w) ==
    /\ loop = None
    /\ worker[w].pc = "pace"
    /\ worker' = [worker EXCEPT ![w].pc = "fetch"]
    /\ asked' = asked \cup {worker[w].url}
    /\ lateAsked' = IF RunIsActive THEN lateAsked ELSE lateAsked + 1
    /\ UNCHANGED <<site, row, main, loop, queue, unfinished, seen, reserved, counts,
                   checks, stopped, faults, stored, skipped, lateTaken, lateStored>>

-----------------------------------------------------------------------------
(* A worker gets its answer and holds the loop from then on.               *)

Answered(w) ==
    /\ loop = None
    /\ worker[w].pc = "fetch"
    /\ UNCHANGED <<site, row, main, queue, seen, fetched, checks, faults, history>>

\* The worker goes on with the row last seen active, or gives up its item.
GoOn(w, pc) ==
    IF Noticed
    THEN /\ stopped' = TRUE
         /\ Release(w, Waiting)
         /\ unfinished' = unfinished - 1
    ELSE /\ worker' = [worker EXCEPT ![w].pc = pc]
         /\ loop' = w
         /\ UNCHANGED <<stopped, reserved, unfinished>>

\* robots.txt forbids it, or the request fails.
AnswerError(w) ==
    /\ Answered(w)
    /\ errors' = errors + 1
    /\ GoOn(w, "error")

\* The redirects led out of scope: skipped without a look at the row.
AnswerOutside(w) ==
    /\ Answered(w)
    /\ site.target[worker[w].url] \notin site.scope
    /\ Release(w, Waiting)
    /\ unfinished' = unfinished - 1
    /\ UNCHANGED <<errors, stopped>>

AnswerPage(w) ==
    /\ Answered(w)
    /\ site.target[worker[w].url] \in site.scope
    /\ GoOn(w, "page")
    /\ UNCHANGED errors

CountLate == lateStored' = IF row = "stopped" THEN lateStored + 1 ELSE lateStored

\* _safe_add_fetch: the failed attempt becomes a fetch without a body, unless
\* the run is gone.
StoreError(w) ==
    /\ loop = w
    /\ worker[w].pc = "error"
    /\ CountLate
    /\ Release(w, Waiting)
    /\ unfinished' = unfinished - 1
    /\ UNCHANGED <<site, row, main, queue, seen, counts, checks, stopped, faults,
                   asked, stored, skipped, lateTaken, lateAsked>>

Storing(w) ==
    /\ loop = w
    /\ worker[w].pc = "page"
    /\ UNCHANGED <<site, row, main, errors, checks, stopped, faults, asked, skipped,
                   lateTaken, lateAsked>>

\* The run is gone: the foreign key refuses the fetch, which is skipped.
StoreRefused(w) ==
    /\ Storing(w)
    /\ row = "gone"
    /\ Release(w, Waiting)
    /\ unfinished' = unfinished - 1
    /\ UNCHANGED <<queue, seen, fetched, stored, lateStored>>

LinksOf(w) == site.links[site.target[worker[w].url]]
Unparsable(w) == Follows(worker[w].depth)
                   /\ site.target[worker[w].url] \in site.malformed

\* The page is stored, its links are queued, and it counts as fetched.
StorePage(w) ==
    /\ Storing(w)
    /\ row # "gone"
    /\ ~Unparsable(w)
    /\ stored' = stored \cup {worker[w].url}
    /\ CountLate
    /\ IF Follows(worker[w].depth)
       THEN Enqueue(LinksOf(w), worker[w].depth + 1)
       ELSE UNCHANGED <<queue, unfinished, seen>>
    /\ fetched' = fetched + 1
    /\ worker' = [worker EXCEPT ![w].pc = "report"]
    /\ UNCHANGED <<loop, reserved>>

\* The page is stored; a link of it that does not parse raises (urljoin,
\* urlparse) outside every try but the finally: the task of the worker ends.
StoreMalformed(w) ==
    /\ Storing(w)
    /\ row # "gone"
    /\ Unparsable(w)
    /\ stored' = stored \cup {worker[w].url}
    /\ CountLate
    /\ Release(w, [Waiting EXCEPT !.pc = "dead"])
    /\ unfinished' = unfinished - 1
    /\ UNCHANGED <<queue, seen, fetched>>

\* The progress is written if the run is still active.
Report(w) ==
    /\ loop = w
    /\ worker[w].pc = "report"
    /\ stopped' = Noticed
    /\ Release(w, Waiting)
    /\ unfinished' = unfinished - 1
    /\ UNCHANGED <<site, row, main, queue, seen, counts, checks, faults, history>>

\* Variant of Fault: the slot is released on the paths that continue only.
FaultHoldingSlot(w) ==
    /\ loop \in {w, None}
    /\ w \in Busy
    /\ faults < MaxFaults
    /\ faults' = faults + 1
    /\ worker' = [worker EXCEPT ![w] = [Waiting EXCEPT !.pc = "dead"]]
    /\ loop' = None
    /\ unfinished' = unfinished - 1
    /\ UNCHANGED <<site, row, main, queue, seen, reserved, counts, checks, stopped, history>>

\* A database error (other than the foreign key's) ends the worker's task the
\* same way, at any of its looks at the row and writes.
Fault(w) ==
    /\ loop \in {w, None}
    /\ w \in Busy
    /\ faults < MaxFaults
    /\ faults' = faults + 1
    /\ Release(w, [Waiting EXCEPT !.pc = "dead"])
    /\ unfinished' = unfinished - 1
    /\ UNCHANGED <<site, row, main, queue, seen, counts, checks, stopped, history>>

-----------------------------------------------------------------------------
(* Other processes: an admin stops the run and deletes the source.         *)

StopRun ==
    /\ row = "running"
    /\ row' = "stopped"
    /\ UNCHANGED <<site, main, loop, worker, queue, unfinished, seen, reserved, counts,
                   checks, stopped, faults, history>>

DeleteRun ==
    /\ row # "running"
    /\ row' = "gone"
    /\ UNCHANGED <<site, main, loop, worker, queue, unfinished, seen, reserved, counts,
                   checks, stopped, faults, history>>

-----------------------------------------------------------------------------
Take(w) ==
    \E item \in queue : \/ DropStopped(w, item)
                        \/ DropFull(w, item)
                        \/ DropNoticed(w, item)
                        \/ Fetch(w, item)

Handle(w) ==
    \/ Send(w)
    \/ AnswerError(w)
    \/ AnswerOutside(w)
    \/ AnswerPage(w)
    \/ StoreError(w)
    \/ StoreRefused(w)
    \/ StorePage(w)
    \/ StoreMalformed(w)
    \/ Report(w)

MainNext == Start \/ Join \/ Seal

Next ==
    \/ MainNext
    \/ \E w \in Workers : Take(w) \/ Handle(w) \/ Fault(w)
    \/ StopRun
    \/ DeleteRun

Spec == Init /\ [][Next]_vars

\* The event loop runs every task that is ready, a host's delay passes, and
\* every request ends: it times out after TIMEOUT_SECONDS.
FairSpec ==
    /\ Spec
    /\ WF_vars(MainNext)
    /\ \A w \in Workers : WF_vars(Take(w)) /\ WF_vars(Handle(w))

-----------------------------------------------------------------------------
(* Properties.                                                             *)

\* The two counters that a dozen exits of the worker loop must keep right:
\* the reserved slots are those of busy workers, and what join() waits for is
\* the queue and what they hold. A leak would starve the crawl or hang it.
Accounted ==
    /\ reserved = Cardinality(Busy)
    /\ unfinished = Cardinality(queue) + Cardinality(Busy)

\* The cap holds for what is stored, whatever the workers do at the same time;
\* only a worker that died after its write leaves a page uncounted.
StoredWithinCap == Cardinality(stored) <= Cap + Cardinality(Dead)

\* No page is requested twice, although workers discover it concurrently: what
\* is queued was neither asked for nor taken, and what a worker is about to ask
\* for nobody asked for, nor is about to.
AskedOnce ==
    /\ \A i \in queue : /\ i.url \notin asked
                        /\ \A w \in Pacing : worker[w].url # i.url
                        /\ \A j \in queue : i.url = j.url => i = j
    /\ \A w \in Pacing : /\ worker[w].url \notin asked
                         /\ \A v \in Pacing : worker[v].url = worker[w].url => v = w

\* The pages at most n links away from the seeds (or the fallback), by
\* definition; redirects lead on to the links of their target.
WithinLinks[n \in Nat] ==
    IF n = 0 THEN site.seeds \cup ({site.fallback} \ {None})
    ELSE WithinLinks[n - 1]
           \cup UNION {site.links[site.target[u]] : u \in WithinLinks[n - 1]}

\* A crawl limited to a depth asks for no page that is further away, whichever
\* worker discovered it first.
InDepth == site.depth # None => asked \subseteq WithinLinks[site.depth - 1]

Concluded == main = "done" /\ ~stopped /\ row \in {"complete", "partial"}

\* join() detects termination: a crawl that concludes has asked for the links
\* of every page it stored, although pages were still being discovered when
\* the queue was empty. Three things excuse it: the cap, a depth limit and a
\* worker that died.
ConcludedIsClosed ==
    (Concluded /\ ~skipped /\ site.depth = None /\ Dead = {}) =>
        \A u \in stored :
            site.links[site.target[u]] \cap (site.scope \ site.assets) \subseteq asked

\* Once the run is stopped, fewer than Interval further pages are taken, since
\* the calls of check_liveness that do not look at the row are counted over all
\* workers; each worker that was waiting for its turn at a host still sends its
\* request. At most one fetch is still stored: that of the worker that had
\* already looked at the row.
LittleAfterStop ==
    /\ lateTaken < Interval
    /\ lateAsked <= lateTaken + Cardinality(Workers)
    /\ lateStored <= 1

\* The crawl ends, stopped or not, unless every worker died with items left:
\* then join() waits for ever.
CrawlEnds == (main = "join") ~> (main = "done" \/ Dead = Workers)
=============================================================================
