---------------------------- MODULE RunLifecycle ----------------------------
(***************************************************************************)
(* The life of a source_runs row: the admin handlers that create, launch,  *)
(* stop and delete (several API instances, so their transactions           *)
(* interleave), the Cloud Run job that executes a run and is retried by    *)
(* the platform, and the maintenance job that fails stalled runs.          *)
(*                                                                         *)
(* A step is one database transaction or one call to Cloud Run; what lies  *)
(* between two of them in the code (an await, a thread, another session)   *)
(* lies between two steps here. A transaction that rewrites the status of  *)
(* a row is two steps, the SELECT and the commit of its UPDATE: at READ    *)
(* COMMITTED others commit in between, and the UPDATE names only the       *)
(* columns that the session found changed against what it had loaded.      *)
(***************************************************************************)
EXTENDS Naturals

CONSTANTS Sources,   \* sources that exist initially
          Runs,      \* run ids available to create_source_run
          Handlers,  \* concurrent admin requests
          None,      \* no run, no source
          SourceKinds,    \* the kinds of crawl the sources may have
          SourceStatuses, \* the statuses an admin gives a source
          Crawled,   \* sources with a crawl that is older than Runs
          RunKinds,  \* bound: the kinds of run the admins ask for
          Items,     \* bound: pages, rows or fetches of one execution
          MaxTries   \* bound: retries of a failed task by the job platform

ASSUME BoundsAssumption == Items \in Nat /\ MaxTries \in Nat
ASSUME KindAssumption == SourceKinds \subseteq {"sitemap", "seed", "enrichment"}
ASSUME RequestAssumption ==
    RunKinds \subseteq {"sitemap", "seed", "enrichment", "parse"} /\ Crawled \subseteq Sources
ASSUME StatusAssumption == SourceStatuses \subseteq {"active", "archived"}
ASSUME NoneAssumption == None \notin Runs /\ None \notin Sources

VARIABLES source,    \* sources: kind and status of the row
          run,       \* source_runs: the columns the life cycle depends on
          job,       \* the Cloud Run execution of each run
          handler,   \* admin requests in progress
          sweep      \* the runs maintenance has loaded as stalled, by source

vars == <<source, run, job, handler, sweep>>

Kinds == {"sitemap", "seed", "enrichment", "parse"}
ActiveStatuses == {"queued", "running"}
TerminalStatuses == {"complete", "failed", "partial", "stopped", "superseded"}
Statuses == ActiveStatuses \cup TerminalStatuses

\* "none": not created yet; "gone": deleted with its source.
RowStates == Statuses \cup {"none", "gone"}

JobStates == {"none", "boot", "start", "enter", "work", "wrap", "recheck", "seal",
              "raised", "failed", "failing", "done", "errored", "killed"}
Ended == {"none", "done", "errored", "killed"}
JobWrites == {"start", "wrap", "seal", "failed", "failing"}

HandlerStates == {"idle", "created", "resume", "launch", "record", "unlaunched",
                  "cancel", "mark", "delete"}

\* A session that is to write a status: the row is not loaded yet, or it is and
\* these columns of it will change.
Columns == {"status", "finished"}
Unread == [to |-> "none", columns |-> {}]
Writes == {Unread} \cup [to : Statuses, columns : SUBSET Columns]

Idle == [pc |-> "idle", run |-> None, source |-> None, execution |-> FALSE,
         write |-> Unread, archived |-> FALSE, olds |-> {}]

Exists(r) == run[r].status \in Statuses
Active(r) == run[r].status \in ActiveStatuses
Present(s) == source[s].status # "gone"

\* Variant of SlotFree: the index covers running runs only.
SlotFreeOfRunning(r, s, k) ==
    \A q \in Runs \ {r} :
        run[q].status = "running" => run[q].source # s \/ run[q].kind # k

\* The slot of the unique index is free for run r (or held by r itself).
SlotFree(r, s, k) ==
    \A q \in Runs \ {r} :
        Active(q) => run[q].source # s \/ run[q].kind # k

\* Sitemap and parse jobs look at their row before they write; seed and
\* enrichment jobs never do.
ChecksLiveness(r) == run[r].kind \in {"sitemap", "parse"}

TypeOK ==
    /\ source \in [Sources -> [kind : SourceKinds,
                               status : {"active", "archived", "gone"}]]
    /\ run \in [Runs -> [source : Sources \cup {None}, kind : Kinds,
                         status : RowStates, finished : BOOLEAN,
                         stale : BOOLEAN, execution : BOOLEAN,
                         started : BOOLEAN]]
    /\ job \in [Runs -> [pc : JobStates, tries : 0..MaxTries,
                         left : 0..Items,
                         write : Writes]]
    /\ handler \in [Handlers -> [pc : HandlerStates,
                                 run : Runs \cup {None},
                                 source : Sources \cup {None},
                                 execution : BOOLEAN,
                                 write : Writes, archived : BOOLEAN,
                                 olds : SUBSET Runs]]
    /\ sweep \in [Sources -> SUBSET Runs]

Init ==
    /\ source \in [Sources -> [kind : SourceKinds, status : {"active"}]]
    /\ run = [r \in Runs |-> [source |-> None, kind |-> "parse",
                              status |-> "none", finished |-> FALSE,
                              stale |-> FALSE, execution |-> FALSE,
                              started |-> FALSE]]
    /\ job = [r \in Runs |-> [pc |-> "none", tries |-> MaxTries, left |-> 0,
                          write |-> Unread]]
    /\ handler = [h \in Handlers |-> Idle]
    /\ sweep = [s \in Sources |-> {}]

-----------------------------------------------------------------------------
(* Writing the status of a row.                                             *)

\* A row that was deleted: what was in it is of no more interest.
Gone(row) == [row EXCEPT !.status = "gone", !.finished = FALSE, !.stale = FALSE,
                         !.execution = FALSE, !.started = FALSE]

\* Variant of Changes: a stop leaves finished_at alone.
ChangesStatusOnly(r, st) ==
    {c \in Columns : /\ Exists(r)
                     /\ \/ c = "status" /\ run[r].status # st
                        \/ c = "finished" /\ \/ st \in {"complete", "partial", "failed"}
                                             \/ st = "running" /\ run[r].finished}

\* The columns that change when a session that has just loaded r sets status st:
\* a final status comes with a new finished_at, running clears it, stopped keeps
\* what is there. Of a missing row nothing changes.
Changes(r, st) ==
    {c \in Columns : /\ Exists(r)
                     /\ \/ c = "status" /\ run[r].status # st
                        \/ c = "finished" /\ \/ st \in {"complete", "partial", "failed"}
                                             \/ st = "running" /\ run[r].finished
                                             \/ st = "stopped" /\ ~run[r].finished}

Load(r, st) == [to |-> st, columns |-> Changes(r, st)]

\* Variant of Refused: an upsert, which brings a deleted row back.
RefusedByIndex(r, w) ==
    /\ "status" \in w.columns
    /\ w.to \in ActiveStatuses
    /\ ~SlotFree(r, run[r].source, run[r].kind)

\* The commit raises: the row was deleted since (StaleDataError), or the index
\* refuses another active run in the slot (IntegrityError).
Refused(r, w) ==
    \/ w.columns # {} /\ ~Exists(r)
    \/ /\ "status" \in w.columns
       /\ w.to \in ActiveStatuses
       /\ ~SlotFree(r, run[r].source, run[r].kind)

\* The row of r after the commit. Staleness matters only while the row is
\* running: a row that becomes running with old stats is one that Elapse
\* follows at once. started remembers that a job has made the row running.
Written(r, w) ==
    IF w.columns = {} THEN run[r]
    ELSE [run[r] EXCEPT !.status = IF "status" \in w.columns THEN w.to ELSE @,
                        !.finished = IF "finished" \in w.columns
                                     THEN w.to \notin ActiveStatuses ELSE @,
                        !.stale = FALSE,
                        !.started = @ \/ w.to = "running"]

Update(r, w) == run' = [run EXCEPT ![r] = Written(r, w)]

\* update_source_run(stats=...) sets stats_updated_at.
Touch(r) ==
    [run EXCEPT ![r] = IF Exists(r) THEN [@ EXCEPT !.stale = FALSE] ELSE @]

\* The job of r goes on to another step. Items is what is left to do while the
\* body works.
Goto(r, pc) ==
    job' = [job EXCEPT ![r].pc = pc, ![r].write = Unread,
                       ![r].left = IF pc = "work" THEN Items ELSE 0]

-----------------------------------------------------------------------------
(* The admin handlers.                                                     *)

\* Variant of CreateRun: a new run displaces the active one.
CreateRunTakingOver(h, r, s, k) ==
    /\ handler[h] = Idle
    /\ run[r].status = "none"
    /\ Present(s)
    /\ k \in RunKinds
    /\ run' = [q \in Runs |->
                 IF q = r
                 THEN [source |-> s, kind |-> k, status |-> "queued",
                       finished |-> FALSE, stale |-> FALSE, execution |-> FALSE,
                       started |-> FALSE]
                 ELSE IF Active(q) /\ run[q].source = s /\ run[q].kind = k
                 THEN [run[q] EXCEPT !.status = "superseded", !.finished = TRUE,
                                     !.stale = FALSE]
                 ELSE run[q]]
    /\ handler' = [handler EXCEPT ![h] = [Idle EXCEPT !.pc = "created", !.run = r]]
    /\ UNCHANGED <<source, job, sweep>>

\* create_source_run(status="queued"); the index refuses a second active run
\* (409 already_running), the foreign key a source that is gone.
CreateRun(h, r, s, k) ==
    /\ handler[h] = Idle
    /\ run[r].status = "none"
    /\ Present(s)
    /\ k \in RunKinds
    /\ SlotFree(r, s, k)
    /\ run' = [run EXCEPT ![r] = [source |-> s, kind |-> k, status |-> "queued",
                                  finished |-> FALSE, stale |-> FALSE,
                                  execution |-> FALSE, started |-> FALSE]]
    /\ handler' = [handler EXCEPT ![h] = [Idle EXCEPT !.pc = "created", !.run = r]]
    /\ UNCHANGED <<source, job, sweep>>

\* POST /admin/sources/{id}/crawl, up to the commit of the new run.
CrawlRequest(h, r, s) == CreateRun(h, r, s, source[s].kind)

\* POST /admin/sources/{id}/parse needs an earlier run to parse.
ParseRequest(h, r, s) ==
    /\ \/ s \in Crawled
       \/ \E q \in Runs : Exists(q) /\ run[q].source = s /\ run[q].kind # "parse"
    /\ CreateRun(h, r, s, "parse")

\* _supersede_stopped_runs_for_resume loads every stopped run of the slot, in a
\* transaction of its own after the one that created the run ...
FindStopped(h) ==
    LET new == handler[h].run
        olds == {q \in Runs : /\ run[q].status = "stopped"
                              /\ run[q].source = run[new].source
                              /\ run[q].kind = run[new].kind}
    IN /\ handler[h].pc = "created"
       /\ handler' = [handler EXCEPT ![h].pc = IF olds = {} THEN "launch" ELSE "resume",
                                     ![h].olds = olds]
       /\ UNCHANGED <<source, run, job, sweep>>

\* ... and writes their status alone, whatever they have become.
SupersedeStopped(h) ==
    LET olds == handler[h].olds
        superseded == [to |-> "superseded", columns |-> {"status"}]
    IN /\ handler[h].pc = "resume"
       /\ IF \E q \in olds : Refused(q, superseded)
          THEN handler' = [handler EXCEPT ![h] = Idle] /\ UNCHANGED run
          ELSE /\ run' = [q \in Runs |-> IF q \in olds THEN Written(q, superseded)
                                         ELSE run[q]]
               /\ handler' = [handler EXCEPT ![h].pc = "launch", ![h].olds = {}]
       /\ UNCHANGED <<source, job, sweep>>

\* Variant of Launch: nobody looks whether the call raised.
LaunchUnchecked(h) ==
    /\ handler[h].pc = "launch"
    /\ \E accepted \in BOOLEAN :
         IF accepted THEN Goto(handler[h].run, "boot") ELSE UNCHANGED job
    /\ handler' = [handler EXCEPT ![h].pc = "record"]
    /\ UNCHANGED <<source, run, sweep>>

\* execute_cloud_run_job. A call that raises may still have been accepted.
Launch(h) ==
    /\ handler[h].pc = "launch"
    /\ \E accepted, raised \in BOOLEAN :
         /\ accepted \/ raised
         /\ IF accepted THEN Goto(handler[h].run, "boot") ELSE UNCHANGED job
         /\ handler' = [handler EXCEPT ![h].pc =
                                 IF raised THEN "unlaunched" ELSE "record"]
    /\ UNCHANGED <<source, run, sweep>>

\* The execution's name goes into spec once the job is already started. The
\* patch reads, merges and writes spec: it can raise, or lose to the job's own.
\* The name matters while the execution may be retried: it is all a stop ends.
RecordExecution(h) ==
    /\ handler[h].pc = "record"
    /\ LET r == handler[h].run
       IN run' \in {run, [run EXCEPT ![r].execution = Exists(r) /\ job[r].tries > 0]}
    /\ handler' = [handler EXCEPT ![h] = Idle]
    /\ UNCHANGED <<source, job, sweep>>

\* The session that is about to rewrite the row of a request loads it.
LoadForWrite(h) ==
    /\ handler[h].pc \in {"unlaunched", "mark"}
    /\ handler[h].write = Unread
    /\ handler' = [handler EXCEPT
                     ![h].write = Load(handler[h].run, IF handler[h].pc = "mark"
                                                       THEN "stopped" ELSE "failed"),
                     ![h].archived = /\ handler[h].pc = "mark"
                                     /\ Exists(handler[h].run)
                                     /\ source[handler[h].source].status = "archived"]
    /\ UNCHANGED <<source, run, job, sweep>>

\* The launch raised: the row is marked failed, whatever it is by now.
LaunchFailed(h) ==
    LET r == handler[h].run
        w == handler[h].write
    IN /\ handler[h].pc = "unlaunched"
       /\ w # Unread
       /\ IF Refused(r, w) THEN UNCHANGED run ELSE Update(r, w)
       /\ handler' = [handler EXCEPT ![h] = Idle]
       /\ UNCHANGED <<source, job, sweep>>

\* _stop_run reads the row. What it decides later rests on this reading.
StopRequest(h, r) ==
    /\ handler[h] = Idle
    /\ Active(r)
    /\ handler' = [handler EXCEPT ![h] = [Idle EXCEPT !.pc = "cancel", !.run = r,
                                          !.source = run[r].source,
                                          !.execution = run[r].execution]]
    /\ UNCHANGED <<source, run, job, sweep>>

\* cancel_cloud_run_execution, in a thread: there is no job for enrichment
\* runs, and nothing to cancel before the execution is recorded. The call can
\* fail; either way the handler goes on. A cancelled execution is not retried.
CancelExecution(h) ==
    LET r == handler[h].run
    IN /\ handler[h].pc = "cancel"
       /\ \/ UNCHANGED job
          \/ /\ handler[h].execution
             /\ run[r].kind # "enrichment"
             /\ job[r].pc # "done"
             /\ job' = [job EXCEPT ![r].tries = 0]
       /\ handler' = [handler EXCEPT ![h].pc = "mark"]
       /\ UNCHANGED <<source, run, sweep>>

\* The second transaction of _stop_run: finished_at is kept when it was loaded,
\* and the source is written when it was not active.
MarkStopped(h) ==
    LET r == handler[h].run
        s == handler[h].source
        w == handler[h].write
    IN /\ handler[h].pc = "mark"
       /\ w # Unread
       /\ IF Refused(r, w) THEN UNCHANGED <<run, source>>
          ELSE /\ Update(r, w)
               /\ source' = IF handler[h].archived /\ Present(s)
                            THEN [source EXCEPT ![s].status = "active"]
                            ELSE source
       /\ handler' = [handler EXCEPT ![h] = Idle]
       /\ UNCHANGED <<job, sweep>>

\* PATCH /admin/sources/{id} with a status.
SetSourceStatus(s, st) ==
    /\ Present(s)
    /\ source' = [source EXCEPT ![s].status = st]
    /\ UNCHANGED <<run, job, handler, sweep>>

\* delete_source: refuses while a run is active...
DeleteRequest(h, s) ==
    /\ handler[h] = Idle
    /\ Present(s)
    /\ \A r \in Runs : run[r].source = s => ~Active(r)
    /\ handler' = [handler EXCEPT ![h] = [Idle EXCEPT !.pc = "delete", !.source = s]]
    /\ UNCHANGED <<source, run, job, sweep>>

\* ... and then removes whatever runs the source has when it gets there.
DeleteSource(h) ==
    LET s == handler[h].source
    IN /\ handler[h].pc = "delete"
       /\ Present(s)
       /\ run' = [r \in Runs |-> IF run[r].source = s
                                 THEN Gone(run[r])
                                 ELSE run[r]]
       /\ source' = [source EXCEPT ![s].status = "gone"]
       /\ handler' = [handler EXCEPT ![h] = Idle]
       /\ UNCHANGED <<job, sweep>>

\* The API instance goes away in the middle of a request, or the request's
\* transaction fails.
HandlerDies(h) ==
    /\ handler[h] # Idle
    /\ handler' = [handler EXCEPT ![h] = Idle]
    /\ UNCHANGED <<source, run, job, sweep>>

-----------------------------------------------------------------------------
(* The job that executes run r.                                            *)

\* run_from_env and run_source_run look whether the run exists.
Boot(r) ==
    /\ job[r].pc = "boot"
    /\ Goto(r, IF Exists(r) THEN "start" ELSE "errored")
    /\ UNCHANGED <<source, run, handler, sweep>>

\* The final status each kind of run can end with.
FinalStatuses(k) ==
    IF k \in {"parse", "enrichment"} THEN {"complete"}
    ELSE {"complete", "partial", "failed"}

\* What the job is to write.
Target(r) ==
    CASE job[r].pc = "start" -> {"running"}
      [] job[r].pc = "wrap" -> FinalStatuses(run[r].kind)
      [] job[r].pc = "seal" -> {"complete"}
      [] OTHER -> {"failed"}

\* update_source_run loads the row it is about to rewrite.
LoadRow(r) ==
    /\ job[r].pc \in JobWrites
    /\ job[r].write = Unread
    /\ \E st \in Target(r) : job' = [job EXCEPT ![r].write = Load(r, st)]
    /\ UNCHANGED <<source, run, handler, sweep>>

\* It commits, and the job goes on to `next`, or to `error` when that raises.
CommitRow(r, next, error) ==
    LET w == job[r].write
    IN /\ w # Unread
       /\ IF Refused(r, w)
          THEN Goto(r, error) /\ UNCHANGED run
          ELSE Goto(r, next) /\ Update(r, w)
       /\ UNCHANGED <<source, handler, sweep>>

\* The row becomes running whatever it was; a commit that raises is outside
\* every try and ends the task with an error.
Start(r) ==
    /\ job[r].pc = "start"
    /\ CommitRow(r, "enter", "errored")

\* run_full_parse returns at once unless the run is active; the crawl runners
\* write their first stats.
EnterBody(r) ==
    /\ job[r].pc = "enter"
    /\ IF run[r].kind = "parse"
       THEN /\ Goto(r, IF Active(r) THEN "work" ELSE "recheck")
            /\ UNCHANGED run
       ELSE /\ Goto(r, "work")
            /\ run' = Touch(r)
    /\ UNCHANGED <<source, handler, sweep>>

\* One page, row or fetch, and the progress written for it.
Progress(r) ==
    /\ job[r].pc = "work"
    /\ job[r].left > 0
    /\ IF ChecksLiveness(r) /\ ~Active(r)
       THEN /\ Goto(r, IF run[r].kind = "parse" THEN "recheck" ELSE "done")
            /\ UNCHANGED run
       ELSE /\ job' = [job EXCEPT ![r].left = @ - 1]
            /\ run' = Touch(r)
    /\ UNCHANGED <<source, handler, sweep>>

\* The last look at the row before the final status, in the runners that look.
FinishWork(r) ==
    /\ job[r].pc = "work"
    /\ job[r].left = 0
    /\ Goto(r, IF ~ChecksLiveness(r) \/ Active(r) THEN "wrap"
               ELSE IF run[r].kind = "parse" THEN "recheck" ELSE "done")
    /\ UNCHANGED <<source, run, handler, sweep>>

\* The runner writes its final status; what raises here is the body's exception.
Conclude(r) ==
    /\ job[r].pc = "wrap"
    /\ IF run[r].kind = "parse" THEN CommitRow(r, "recheck", "raised")
       ELSE CommitRow(r, "done", "failed")

\* After run_full_parse returned: only a stopped (or missing) run is left as
\* it is, ...
Recheck(r) ==
    /\ job[r].pc = "recheck"
    /\ Goto(r, IF run[r].status \in {"stopped", "gone"} THEN "done" ELSE "seal")
    /\ UNCHANGED <<source, run, handler, sweep>>

\* ... every other one becomes complete.
Seal(r) ==
    /\ job[r].pc = "seal"
    /\ CommitRow(r, "done", "errored")

\* Variant of Raise: the exception is logged and the task ends.
RaiseSwallowed(r) ==
    /\ job[r].pc \in {"enter", "work"}
    /\ Goto(r, "done")
    /\ run' = Touch(r)
    /\ UNCHANGED <<source, handler, sweep>>

\* The body raises. run_source_run goes on to record the failure;
\* run_full_parse leaves an error in stats and re-raises.
Raise(r) ==
    /\ job[r].pc \in {"enter", "work"}
    /\ IF run[r].kind = "parse"
       THEN Goto(r, "raised") /\ run' = Touch(r)
       ELSE Goto(r, "failed") /\ UNCHANGED run
    /\ UNCHANGED <<source, handler, sweep>>

\* run_source_run's except clause: recorded, the failure ends the task well.
FailCrawl(r) ==
    /\ job[r].pc = "failed"
    /\ CommitRow(r, "done", "errored")

\* run_from_env's handler for a parse that raised: the look at the row ...
CheckStopped(r) ==
    /\ job[r].pc = "raised"
    /\ Goto(r, IF run[r].status = "stopped" THEN "done" ELSE "failing")
    /\ UNCHANGED <<source, run, handler, sweep>>

\* ... and the write, after which the task exits with an error.
FailParse(r) ==
    /\ job[r].pc = "failing"
    /\ CommitRow(r, "errored", "errored")

\* The container is killed: out of memory, task timeout, or a cancellation. An
\* exception outside every try (patch_source_run_spec) ends the task like this.
Kill(r) ==
    /\ job[r].pc \notin Ended
    /\ Goto(r, "killed")
    /\ UNCHANGED <<source, run, handler, sweep>>

\* Cloud Run starts a failed task again, with the same run id; tries is how often
\* it still will.
Retry(r) ==
    /\ job[r].pc \in {"errored", "killed"}
    /\ job[r].tries > 0
    /\ job' = [job EXCEPT ![r].pc = "boot", ![r].tries = @ - 1]
    /\ UNCHANGED <<source, run, handler, sweep>>

-----------------------------------------------------------------------------
(* Time and maintenance.                                                   *)

\* Thirty minutes have passed since the stats of a running run were last
\* written (or since it was created, when they never were).
Elapse(r) ==
    /\ run[r].status = "running"
    /\ ~run[r].stale
    /\ run' = [run EXCEPT ![r].stale = TRUE]
    /\ UNCHANGED <<source, job, handler, sweep>>

\* Variant of FindStalled: only runs that never started count as stalled.
FindStalledQueued(s) ==
    LET stalled == {r \in Runs : run[r].source = s /\ run[r].status = "queued"}
    IN /\ Present(s)
       /\ sweep[s] = {} /\ stalled # {}
       /\ sweep' = [sweep EXCEPT ![s] = stalled]
       /\ UNCHANGED <<source, run, job, handler>>

\* reconcile_source loads the running runs without progress ...
FindStalled(s) ==
    LET stalled == {r \in Runs : /\ run[r].source = s
                                 /\ run[r].status = "running"
                                 /\ run[r].stale}
    IN /\ Present(s)
       /\ sweep[s] = {} /\ stalled # {}
       /\ sweep' = [sweep EXCEPT ![s] = stalled]
       /\ UNCHANGED <<source, run, job, handler>>

\* ... and fails them, whatever they have become.
Reconcile(s) ==
    LET failed == [to |-> "failed", columns |-> Columns]
    IN /\ sweep[s] # {}
       /\ run' = IF \E r \in sweep[s] : Refused(r, failed) THEN run
                 ELSE [r \in Runs |-> IF r \in sweep[s]
                                      THEN Written(r, failed) ELSE run[r]]
       /\ sweep' = [sweep EXCEPT ![s] = {}]
       /\ UNCHANGED <<source, job, handler>>

-----------------------------------------------------------------------------
HandlerNext(h) ==
    \/ \E r \in Runs, s \in Sources : CrawlRequest(h, r, s) \/ ParseRequest(h, r, s)
    \/ FindStopped(h)
    \/ SupersedeStopped(h)
    \/ Launch(h)
    \/ RecordExecution(h)
    \/ LoadForWrite(h)
    \/ LaunchFailed(h)
    \/ \E r \in Runs : StopRequest(h, r)
    \/ CancelExecution(h)
    \/ MarkStopped(h)
    \/ \E s \in Sources : DeleteRequest(h, s)
    \/ DeleteSource(h)
    \/ HandlerDies(h)

JobNext(r) ==
    \/ Boot(r)
    \/ LoadRow(r)
    \/ Start(r)
    \/ EnterBody(r)
    \/ Progress(r)
    \/ FinishWork(r)
    \/ Conclude(r)
    \/ Recheck(r)
    \/ Seal(r)
    \/ Raise(r)
    \/ FailCrawl(r)
    \/ CheckStopped(r)
    \/ FailParse(r)
    \/ Kill(r)
    \/ Retry(r)

Next ==
    \/ \E h \in Handlers : HandlerNext(h)
    \/ \E r \in Runs : JobNext(r) \/ Elapse(r)
    \/ \E s \in Sources : FindStalled(s) \/ Reconcile(s)
    \/ \E s \in Sources, st \in SourceStatuses : SetSourceStatus(s, st)

Spec == Init /\ [][Next]_vars

\* Time passes, the scheduler starts pinegraf-maintenance every six hours, and
\* maintenance commits what it loaded.
\* Nothing is assumed of handlers and jobs: both may die or hang.
FairSpec ==
    /\ Spec
    /\ \A r \in Runs : WF_vars(Elapse(r))
    /\ \A s \in Sources : WF_vars(FindStalled(s)) /\ WF_vars(Reconcile(s))

-----------------------------------------------------------------------------
(* Properties.                                                             *)

\* The index at work over every path that makes a row active, resurrections
\* by a late or repeated job start included: never two active runs of one
\* kind for one source.
OneActivePerSlot ==
    \A q, r \in Runs :
        (Active(q) /\ Active(r) /\ run[q].source = run[r].source
                   /\ run[q].kind = run[r].kind) => q = r

\* What finished_at tells. Seven writers set, clear or keep it, and each commit
\* writes only the columns that its session found different, so that status and
\* finished_at may come from two writers. They come apart only around the start
\* of a job (a stop between its load and its commit leaves running with
\* finished_at set, a resume that supersedes over it superseded without): never
\* on a row no job has started, a queued row or a completed one.
FinishedTold ==
    \A r \in Runs :
        /\ Exists(r) /\ ~run[r].started => (run[r].finished <=> ~Active(r))
        /\ run[r].status = "queued" => ~run[r].finished
        /\ run[r].status \in {"complete", "partial"} => run[r].finished

\* A job that ended of its own accord, well or with an error, does not leave
\* its run active: whatever stops, resumes and maintenance did meanwhile, the
\* slot is free again without the help of maintenance.
EndedJobSettles ==
    \A r \in Runs : job[r].pc \in {"done", "errored"} => ~Active(r)

\* The deletion of a source is complete and final: no handler or job still
\* holding one of its run ids brings a row back.
GoneTogether ==
    \A r \in Runs : (Exists(r) => Present(run[r].source))

\* Somebody is about to move run r: the request that created it, or its job.
Driven(r) ==
    \/ job[r].pc \notin Ended
    \/ job[r].pc = "killed" /\ job[r].tries > 0
    \/ \E h \in Handlers : /\ handler[h].run = r
                          /\ handler[h].pc \in {"created", "resume", "launch", "unlaunched"}

Stranded(r) == run[r].status = "queued" /\ ~Driven(r)

\* A run is left queued with nobody to start it only by a crash: of the API
\* instance or of the container, or by the cancellation of the execution. A
\* launch that raises never strands the run it created.
StrandedOnlyByCrash ==
    [][\A r \in Runs : Stranded(r)' => \/ Stranded(r)
                                       \/ \E h \in Handlers : HandlerDies(h)
                                       \/ \E h \in Handlers : CancelExecution(h)
                                       \/ Kill(r)]_vars

\* The runs that are active, slot by slot: what RunSlots abstracts them to.
ActiveRuns ==
    [x \in Sources \X Kinds |->
        {r \in Runs : Active(r) /\ <<run[r].source, run[r].kind>> = x}]

RunSlotsOf == INSTANCE RunSlots WITH Slots <- Sources \X Kinds,
                                     occupants <- ActiveRuns

\* The life cycle implements the promise of the index: a slot is handed from
\* run to run only through being empty.
ImplementsRunSlots == RunSlotsOf!Spec

\* Whatever happens to its job, a running run does not stay running for ever:
\* maintenance fails it once it makes no more progress.
RunningEnds == \A r \in Runs : (run[r].status = "running") ~> (run[r].status # "running")

(* What the documentation and the code's own tables say, and the code does *)
(* not do: the runs that check these expect a violation.                   *)

\* Resume creates a new run: the run that was paused is not restarted.
StoppedNeverRunsAgain ==
    [][\A r \in Runs : run[r].status = "stopped" => run'[r].status # "running"]_vars

\* Pause stops the execution and keeps the run as stopped: the job that was
\* paused does not go on to complete it.
StoppedIsNotCompleted ==
    [][\A r \in Runs : run[r].status = "stopped"
                          => run'[r].status \notin {"complete", "partial"}]_vars

\* A run cleared by a resume stays superseded (until its source is deleted).
SupersededIsFinal ==
    [][\A r \in Runs : run[r].status = "superseded"
                          => run'[r].status \in {"superseded", "gone"}]_vars
=============================================================================
