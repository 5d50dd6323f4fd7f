------------------------- MODULE RunLifecycleProofs -------------------------
(***************************************************************************)
(* What holds of the run life cycle for any number of sources, runs,       *)
(* concurrent requests, items and retries. First the types; then what one  *)
(* step may do to one row and to the writes that are pending on it, from   *)
(* which alone, and not from the actions, the safety invariants follow.    *)
(***************************************************************************)
EXTENDS RunLifecycle, TLAPS

SourceType == [kind : SourceKinds, status : {"active", "archived", "gone"}]

RowType == [source : Sources \cup {None}, kind : Kinds, status : RowStates,
            finished : BOOLEAN, stale : BOOLEAN, execution : BOOLEAN,
            started : BOOLEAN]

JobType == [pc : JobStates, tries : 0..MaxTries, left : 0..Items, write : Writes]

HandlerType == [pc : HandlerStates, run : Runs \cup {None},
                source : Sources \cup {None}, execution : BOOLEAN,
                write : Writes, archived : BOOLEAN, olds : SUBSET Runs]

\* A row that was created belongs to a source.
RowsOwned == \A r \in Runs : run[r].status # "none" => run[r].source \in Sources

\* What a request in progress holds: a run it created or found active, with
\* that run's source, or the source it is deleting; and what it is to write.
RequestOK(request) ==
    /\ request.pc \notin {"idle", "delete"} =>
         request.run \in Runs /\ run[request.run].status # "none"
    /\ request.pc = "delete" => request.source \in Sources
    /\ request.pc \in {"cancel", "mark"} =>
         request.source = run[request.run].source
    /\ request.write # Unread =>
         \/ request.pc = "unlaunched" /\ request.write.to = "failed"
         \/ request.pc = "mark" /\ request.write.to = "stopped"
    /\ \A r \in request.olds :
         request.pc = "resume" /\ r \in Runs /\ run[r].status # "none"

HandlerOK == \A h \in Handlers : RequestOK(handler[h])

\* What a job is to write depends on where it is.
ToWrite(pc) ==
    CASE pc = "start" -> {"running"}
      [] pc = "wrap" -> {"complete", "partial", "failed"}
      [] pc = "seal" -> {"complete"}
      [] pc \in {"failed", "failing"} -> {"failed"}
      [] OTHER -> {}

JobOK == \A r \in Runs : job[r].write # Unread => job[r].write.to \in ToWrite(job[r].pc)

\* Maintenance has loaded rows that exist.
SweepOK == \A s \in Sources : \A r \in sweep[s] : run[r].status # "none"

Typed ==
    /\ source \in [Sources -> SourceType]
    /\ run \in [Runs -> RowType]
    /\ job \in [Runs -> JobType]
    /\ handler \in [Handlers -> HandlerType]
    /\ sweep \in [Sources -> SUBSET Runs]
    /\ RowsOwned
    /\ HandlerOK
    /\ JobOK
    /\ SweepOK

\* A step that neither creates a row nor changes an owner.
KeepsOwners ==
    \A r \in Runs : /\ run'[r].source = run[r].source
                    /\ run'[r].status = "none" <=> run[r].status = "none"

-----------------------------------------------------------------------------
(* The writes to one row.                                                  *)

LEMMA StatusFacts ==
    /\ TerminalStatuses \cap ActiveStatuses = {}
    /\ TerminalStatuses \subseteq Statuses
    /\ ActiveStatuses = {"queued", "running"}
    /\ ActiveStatuses \subseteq Statuses
    /\ Statuses \subseteq RowStates
    /\ "none" \notin Statuses
    /\ "gone" \notin Statuses
BY DEF Statuses, ActiveStatuses, TerminalStatuses, RowStates

LEMMA LoadTyped ==
    ASSUME NEW r \in Runs, NEW st \in Statuses
    PROVE  /\ Load(r, st) \in Writes
           /\ Load(r, st) # Unread
           /\ Load(r, st).to = st
           /\ Load(r, st).columns = Changes(r, st)
<1>1. Changes(r, st) \in SUBSET Columns
  BY DEF Changes
<1>2. st # "none"
  BY StatusFacts
<1> QED
  BY <1>1, <1>2 DEF Load, Writes, Unread

LEMMA WriteTyped ==
    ASSUME NEW w \in Writes, w # Unread
    PROVE  w.to \in Statuses /\ w.columns \in SUBSET Columns
BY DEF Writes

\* What a commit leaves in the row: a well-formed row, of the same run, in which
\* only the columns of the write have changed.
LEMMA WrittenFields ==
    ASSUME run \in [Runs -> RowType], NEW r \in Runs, NEW w \in Writes, w # Unread
    PROVE  /\ Written(r, w) \in RowType
           /\ Written(r, w).source = run[r].source
           /\ Written(r, w).kind = run[r].kind
           /\ Written(r, w).status = IF "status" \in w.columns THEN w.to ELSE run[r].status
           /\ Written(r, w).finished = IF "finished" \in w.columns
                                       THEN w.to \notin ActiveStatuses ELSE run[r].finished
           /\ w.columns # {} => Written(r, w).started = (run[r].started \/ w.to = "running")
           /\ w.columns = {} => Written(r, w) = run[r]
<1> DEFINE st == IF "status" \in w.columns THEN w.to ELSE run[r].status
           over == IF "finished" \in w.columns THEN w.to \notin ActiveStatuses
                   ELSE run[r].finished
           begun == run[r].started \/ w.to = "running"
           row == [run[r] EXCEPT !.status = st, !.finished = over,
                                 !.stale = FALSE, !.started = begun]
<1>1. st \in RowStates /\ over \in BOOLEAN /\ begun \in BOOLEAN
  BY WriteTyped, StatusFacts DEF RowType
<1>2. Written(r, w) = IF w.columns = {} THEN run[r] ELSE row
  BY DEF Written
<1>3. w.columns = {} => st = run[r].status /\ over = run[r].finished
  OBVIOUS
<1>4. st = (IF "status" \in w.columns THEN w.to ELSE run[r].status)
  OBVIOUS
<1>5. over = (IF "finished" \in w.columns THEN w.to \notin ActiveStatuses
              ELSE run[r].finished)
  OBVIOUS
<1>6. begun = (run[r].started \/ w.to = "running")
  OBVIOUS
<1> HIDE DEF st, over, begun
<1>7. /\ row \in RowType
      /\ row.source = run[r].source
      /\ row.kind = run[r].kind
      /\ row.status = st
      /\ row.finished = over
      /\ row.started = begun
  BY <1>1 DEF RowType
<1> HIDE DEF row
<1> QED
  BY <1>2, <1>3, <1>4, <1>5, <1>6, <1>7

\* A commit of one row, and of several, keeps the rows well formed and owned.
LEMMA UpdateTyped ==
    ASSUME run \in [Runs -> RowType], NEW r \in Runs, NEW w \in Writes, w # Unread,
           ~Refused(r, w), Update(r, w)
    PROVE  run' \in [Runs -> RowType] /\ KeepsOwners
<1>1. w.columns # {} => Exists(r)
  BY DEF Refused
<1>2. w.to \in Statuses
  BY WriteTyped
<1>3. run' = [run EXCEPT ![r] = Written(r, w)]
  BY DEF Update
<1>4. run' \in [Runs -> RowType]
  BY <1>3, WrittenFields
<1>5. KeepsOwners
  BY <1>1, <1>2, <1>3, WrittenFields, StatusFacts DEF KeepsOwners, Exists
<1> QED
  BY <1>4, <1>5

LEMMA UpdateManyTyped ==
    ASSUME run \in [Runs -> RowType], NEW S \in SUBSET Runs, NEW w \in Writes, w # Unread,
           \A r \in S : ~Refused(r, w),
           run' = [r \in Runs |-> IF r \in S THEN Written(r, w) ELSE run[r]]
    PROVE  run' \in [Runs -> RowType] /\ KeepsOwners
<1>1. \A r \in S : w.columns # {} => Exists(r)
  BY DEF Refused
<1>2. w.to \in Statuses
  BY WriteTyped
<1>3. run' \in [Runs -> RowType]
  BY WrittenFields
<1>4. KeepsOwners
  BY <1>1, <1>2, WrittenFields, StatusFacts DEF KeepsOwners, Exists
<1> QED
  BY <1>3, <1>4

LEMMA TouchTyped ==
    ASSUME run \in [Runs -> RowType], NEW r \in Runs, run' = Touch(r)
    PROVE  run' \in [Runs -> RowType] /\ KeepsOwners
BY DEF Touch, Exists, RowType, KeepsOwners

\* Moving a job to another step keeps the jobs well formed.
LEMMA GotoTyped ==
    ASSUME job \in [Runs -> JobType], JobOK, NEW r \in Runs, NEW pc \in JobStates,
           Goto(r, pc)
    PROVE  /\ job' \in [Runs -> JobType]
           /\ JobOK'
           /\ job'[r].pc = pc
           /\ job'[r].write = Unread
           /\ job'[r].tries = job[r].tries
           /\ \A q \in Runs \ {r} : job'[q] = job[q]
<1> DEFINE left == IF pc = "work" THEN Items ELSE 0
           record == [job[r] EXCEPT !.pc = pc, !.write = Unread, !.left = left]
<1>1. left \in 0..Items
  BY BoundsAssumption
<1> HIDE DEF left
<1>2. /\ record \in JobType
      /\ record.pc = pc
      /\ record.write = Unread
      /\ record.tries = job[r].tries
  BY <1>1 DEF JobType, Writes
<1>3. job' = [job EXCEPT ![r] = record]
  BY DEF Goto, left
<1> HIDE DEF record
<1> QED
  BY <1>2, <1>3 DEF JobOK

-----------------------------------------------------------------------------
(* The moves of a request.                                                 *)

LEMMA IdleTyped ==
    /\ Idle \in HandlerType
    /\ Idle.pc = "idle"
    /\ Idle.write = Unread
    /\ Idle.olds = {}
BY DEF Idle, HandlerType, HandlerStates, Writes

\* A step that keeps the owners keeps what was right of the rows, of the
\* requests and jobs that stay, and of what maintenance holds.
LEMMA OwnersStay ==
    ASSUME Typed, KeepsOwners
    PROVE  /\ RowsOwned'
           /\ sweep' = sweep => SweepOK' /\ sweep' \in [Sources -> SUBSET Runs]
           /\ job' = job => JobOK' /\ job' \in [Runs -> JobType]
           /\ source' = source => source' \in [Sources -> SourceType]
<1>1. RowsOwned'
  BY DEF Typed, KeepsOwners, RowsOwned
<1>2. sweep' = sweep => SweepOK' /\ sweep' \in [Sources -> SUBSET Runs]
  BY DEF Typed, KeepsOwners, SweepOK
<1>3. job' = job => JobOK' /\ job' \in [Runs -> JobType]
  BY DEF Typed, JobOK
<1> QED
  BY <1>1, <1>2, <1>3 DEF Typed

LEMMA RequestStays ==
    ASSUME Typed, KeepsOwners, NEW request, RequestOK(request)
    PROVE  RequestOK(request)'
BY DEF Typed, KeepsOwners, RequestOK

LEMMA HandlersStay ==
    ASSUME Typed, KeepsOwners, handler' = handler
    PROVE  HandlerOK' /\ handler' \in [Handlers -> HandlerType]
<1> SUFFICES ASSUME NEW h \in Handlers PROVE RequestOK(handler[h])'
  BY DEF HandlerOK, Typed
<1>1. PICK request : request = handler[h]
  OBVIOUS
<1>2. RequestOK(request)'
  BY <1>1, RequestStays DEF Typed, HandlerOK
<1> QED
  BY <1>1, <1>2

\* One request changes, into one that is as it should be.
LEMMA HandlerMoves ==
    ASSUME Typed, KeepsOwners, NEW h \in Handlers, NEW request \in HandlerType,
           RequestOK(request), handler' = [handler EXCEPT ![h] = request]
    PROVE  HandlerOK' /\ handler' \in [Handlers -> HandlerType]
<1>1. ASSUME NEW g \in Handlers PROVE RequestOK(handler[g])'
  <2>1. CASE g = h
    <3>1. RequestOK(request)'
      BY RequestStays
    <3>2. handler'[g] = request
      BY <2>1 DEF Typed
    <3> QED
      BY <3>1, <3>2
  <2>2. CASE g # h
    <3>1. PICK other : other = handler[g]
      OBVIOUS
    <3>2. RequestOK(other)'
      BY <3>1, RequestStays DEF Typed, HandlerOK
    <3>3. handler'[g] = other
      BY <2>2, <3>1 DEF Typed
    <3> QED
      BY <3>2, <3>3
  <2> QED
    BY <2>1, <2>2
<1> QED
  BY <1>1 DEF HandlerOK, Typed

LEMMA HandlerEnds ==
    ASSUME Typed, KeepsOwners, NEW h \in Handlers,
           handler' = [handler EXCEPT ![h] = Idle]
    PROVE  HandlerOK' /\ handler' \in [Handlers -> HandlerType]
<1>1. PICK request \in HandlerType : request = Idle
  BY IdleTyped
<1>2. RequestOK(request)
  BY <1>1, IdleTyped DEF RequestOK
<1> QED
  BY <1>1, <1>2, HandlerMoves

-----------------------------------------------------------------------------
(* Type correctness, one lemma per actor.                                  *)

\* A new row is well formed, owned by its source, and held by its request.
LEMMA CreateTyped ==
    ASSUME Typed, NEW h \in Handlers, NEW r \in Runs, NEW s \in Sources,
           NEW k \in Kinds, CreateRun(h, r, s, k)
    PROVE  Typed'
<1> DEFINE row == [source |-> s, kind |-> k, status |-> "queued", finished |-> FALSE,
                   stale |-> FALSE, execution |-> FALSE, started |-> FALSE]
           request == [Idle EXCEPT !.pc = "created", !.run = r]
<1>1. row \in RowType /\ row.source = s /\ row.status = "queued"
  BY DEF RowType, RowStates, Statuses, ActiveStatuses
<1>2. /\ request \in HandlerType
      /\ request.pc = "created"
      /\ request.run = r
      /\ request.write = Unread
      /\ request.olds = {}
  BY DEF Idle, HandlerType, HandlerStates, Writes
<1>3. /\ run' = [run EXCEPT ![r] = row]
      /\ run[r].status = "none"
      /\ handler' = [handler EXCEPT ![h] = request]
      /\ source' = source
      /\ job' = job
      /\ sweep' = sweep
  BY DEF CreateRun
<1> HIDE DEF row, request
<1>4. RowsOwned'
  BY <1>1, <1>3 DEF Typed, RowsOwned
<1>5. \A q \in Runs : /\ run'[q].status # "none" <=> run[q].status # "none" \/ q = r
                      /\ q # r => run'[q] = run[q]
  BY <1>1, <1>3 DEF Typed
<1>6. ASSUME NEW g \in Handlers PROVE RequestOK(handler[g])'
  <2>1. CASE g = h
    BY <1>2, <1>3, <1>5, <2>1 DEF Typed, RequestOK
  <2>2. CASE g # h
    <3>1. handler'[g] = handler[g] /\ RequestOK(handler[g])
      BY <1>3, <2>2 DEF Typed, HandlerOK
    <3> QED
      BY <1>3, <1>5, <3>1 DEF RequestOK
  <2> QED
    BY <2>1, <2>2
<1>7. SweepOK' /\ JobOK'
  BY <1>3, <1>5 DEF Typed, SweepOK, JobOK
<1> QED
  BY <1>1, <1>2, <1>3, <1>4, <1>6, <1>7 DEF Typed, HandlerOK

\* A step of a request that leaves the rows and their sources alone.
LEMMA HandlerOnly ==
    ASSUME Typed, NEW h \in Handlers, NEW request \in HandlerType, RequestOK(request),
           handler' = [handler EXCEPT ![h] = request],
           UNCHANGED <<source, run, job, sweep>>
    PROVE  Typed'
<1>1. KeepsOwners
  BY DEF KeepsOwners
<1> QED
  BY <1>1, HandlerMoves, OwnersStay DEF Typed

LEMMA ResumeTyped ==
    ASSUME Typed, NEW h \in Handlers, FindStopped(h) \/ SupersedeStopped(h)
    PROVE  Typed'
<1>1. CASE FindStopped(h)
  <2>1. PICK olds \in SUBSET Runs :
          /\ \A q \in olds : run[q].status = "stopped"
          /\ handler' = [handler EXCEPT ![h].pc = IF olds = {} THEN "launch" ELSE "resume",
                                        ![h].olds = olds]
          /\ handler[h].pc = "created"
          /\ UNCHANGED <<source, run, job, sweep>>
    <3> DEFINE found == {q \in Runs : /\ run[q].status = "stopped"
                                      /\ run[q].source = run[handler[h].run].source
                                      /\ run[q].kind = run[handler[h].run].kind}
    <3>1. /\ found \in SUBSET Runs
          /\ \A q \in found : run[q].status = "stopped"
      OBVIOUS
    <3>2. /\ handler' = [handler EXCEPT ![h].pc = IF found = {} THEN "launch" ELSE "resume",
                                        ![h].olds = found]
          /\ handler[h].pc = "created"
          /\ UNCHANGED <<source, run, job, sweep>>
      BY <1>1 DEF FindStopped
    <3> HIDE DEF found
    <3> QED
      BY <3>1, <3>2
  <2> DEFINE pc == IF olds = {} THEN "launch" ELSE "resume"
  <2>2. pc \in {"launch", "resume"} /\ (olds # {} => pc = "resume")
    OBVIOUS
  <2> HIDE DEF pc
  <2>3. PICK request : request = [handler[h] EXCEPT !.pc = pc, !.olds = olds]
    OBVIOUS
  <2>4. /\ request \in HandlerType
        /\ request.pc = pc
        /\ request.olds = olds
        /\ request.run = handler[h].run
        /\ request.write = handler[h].write
    BY <2>2, <2>3 DEF Typed, HandlerType, HandlerStates
  <2>5. handler' = [handler EXCEPT ![h] = request]
    BY <2>1, <2>3 DEF pc
  <2>6. RequestOK(request)
    <3>1. RequestOK(handler[h])
      BY DEF Typed, HandlerOK
    <3>2. handler[h].write = Unread
      BY <2>1, <3>1 DEF RequestOK
    <3> QED
      BY <2>1, <2>2, <2>4, <3>1, <3>2 DEF RequestOK
  <2> QED
    BY <2>1, <2>4, <2>5, <2>6, HandlerOnly
<1>2. CASE SupersedeStopped(h)
  <2> DEFINE superseded == [to |-> "superseded", columns |-> {"status"}]
             olds == handler[h].olds
  <2>1. superseded \in Writes /\ superseded # Unread
    BY DEF Writes, Unread, Columns, Statuses, TerminalStatuses
  <2>2. olds \in SUBSET Runs
    BY DEF Typed, HandlerType
  <2>3. run' \in [Runs -> RowType] /\ KeepsOwners
    <3>1. CASE run' = run
      BY <3>1 DEF KeepsOwners, Typed
    <3>2. CASE /\ \A q \in olds : ~Refused(q, superseded)
               /\ run' = [q \in Runs |-> IF q \in olds THEN Written(q, superseded)
                                         ELSE run[q]]
      <4> HIDE DEF superseded, olds
      <4> QED
        BY <2>1, <2>2, <3>2, UpdateManyTyped DEF Typed
    <3> QED
      BY <1>2, <3>1, <3>2 DEF SupersedeStopped
  <2>4. UNCHANGED <<source, job, sweep>> /\ handler[h].pc = "resume"
    BY <1>2 DEF SupersedeStopped
  <2>5. HandlerOK' /\ handler' \in [Handlers -> HandlerType]
    <3>1. CASE handler' = [handler EXCEPT ![h] = Idle]
      BY <2>3, <3>1, HandlerEnds
    <3>2. CASE handler' = [handler EXCEPT ![h].pc = "launch", ![h].olds = {}]
      <4>1. PICK request : request = [handler[h] EXCEPT !.pc = "launch", !.olds = {}]
        OBVIOUS
      <4>2. /\ request \in HandlerType
            /\ request.pc = "launch"
            /\ request.olds = {}
            /\ request.run = handler[h].run
            /\ request.write = handler[h].write
        BY <4>1 DEF Typed, HandlerType, HandlerStates
      <4>3. handler' = [handler EXCEPT ![h] = request]
        BY <3>2, <4>1
      <4>4. RequestOK(handler[h])
        BY DEF Typed, HandlerOK
      <4>5. RequestOK(request)
        BY <2>4, <4>2, <4>4 DEF RequestOK
      <4> QED
        BY <2>3, <4>2, <4>3, <4>5, HandlerMoves
    <3> QED
      BY <1>2, <3>1, <3>2 DEF SupersedeStopped
  <2> QED
    BY <2>3, <2>4, <2>5, OwnersStay DEF Typed
<1> QED
  BY <1>1, <1>2

LEMMA LaunchTyped ==
    ASSUME Typed, NEW h \in Handlers, Launch(h)
    PROVE  Typed'
<1>1. handler[h].run \in Runs /\ RequestOK(handler[h])
  BY DEF Launch, Typed, HandlerOK, RequestOK
<1>2. PICK accepted \in BOOLEAN, raised \in BOOLEAN :
        /\ IF accepted THEN Goto(handler[h].run, "boot") ELSE job' = job
        /\ handler' = [handler EXCEPT ![h].pc =
                                IF raised THEN "unlaunched" ELSE "record"]
  BY DEF Launch
<1>3. /\ UNCHANGED <<source, run, sweep>>
      /\ KeepsOwners
      /\ handler[h].pc = "launch"
      /\ handler[h].write = Unread
  BY <1>1 DEF Launch, KeepsOwners, RequestOK
<1>4. job' \in [Runs -> JobType] /\ JobOK'
  BY <1>1, <1>2, <1>3, GotoTyped, OwnersStay DEF Typed, JobStates
<1>5. HandlerOK' /\ handler' \in [Handlers -> HandlerType]
  <2>1. PICK pc \in {"unlaunched", "record"} : handler' = [handler EXCEPT ![h].pc = pc]
    BY <1>2
  <2>2. PICK request : request = [handler[h] EXCEPT !.pc = pc]
    OBVIOUS
  <2>3. /\ request \in HandlerType
        /\ request.pc = pc
        /\ request.run = handler[h].run
        /\ request.write = Unread
        /\ request.olds = handler[h].olds
    BY <1>3, <2>2 DEF Typed, HandlerType, HandlerStates
  <2>4. handler' = [handler EXCEPT ![h] = request]
    BY <2>1, <2>2
  <2>5. RequestOK(request)
    BY <1>1, <1>3, <2>3 DEF RequestOK
  <2> QED
    BY <1>3, <2>3, <2>4, <2>5, HandlerMoves
<1> QED
  BY <1>3, <1>4, <1>5, OwnersStay DEF Typed

LEMMA RecordTyped ==
    ASSUME Typed, NEW h \in Handlers, RecordExecution(h)
    PROVE  Typed'
<1>1. handler[h].run \in Runs
  BY DEF RecordExecution, Typed, HandlerOK, RequestOK
<1>2. PICK b \in BOOLEAN : run' \in {run, [run EXCEPT ![handler[h].run].execution = b]}
  <2>1. (Exists(handler[h].run) /\ job[handler[h].run].tries > 0) \in BOOLEAN
    OBVIOUS
  <2> QED
    BY <2>1 DEF RecordExecution
<1>3. run' \in [Runs -> RowType] /\ KeepsOwners
  BY <1>1, <1>2 DEF Typed, RowType, KeepsOwners
<1>4. handler' = [handler EXCEPT ![h] = Idle] /\ UNCHANGED <<source, job, sweep>>
  BY DEF RecordExecution
<1> QED
  BY <1>3, <1>4, HandlerEnds, OwnersStay DEF Typed

LEMMA RequestLoads ==
    ASSUME Typed, NEW h \in Handlers, LoadForWrite(h)
    PROVE  Typed'
<1> DEFINE st == IF handler[h].pc = "mark" THEN "stopped" ELSE "failed"
           archived == /\ handler[h].pc = "mark"
                       /\ Exists(handler[h].run)
                       /\ source[handler[h].source].status = "archived"
<1>1. RequestOK(handler[h]) /\ handler[h].pc \in {"unlaunched", "mark"}
  BY DEF LoadForWrite, Typed, HandlerOK
<1>2. handler[h].run \in Runs /\ handler[h].olds = {}
  BY <1>1 DEF RequestOK, Typed, HandlerType
<1>3. st \in Statuses
  BY DEF Statuses, TerminalStatuses
<1>4. PICK w : w = Load(handler[h].run, st)
  OBVIOUS
<1>5. w \in Writes /\ w.to = st
  BY <1>2, <1>3, <1>4, LoadTyped
<1>6. PICK b \in BOOLEAN : b = archived
  OBVIOUS
<1>7. PICK request : request = [handler[h] EXCEPT !.write = w, !.archived = b]
  OBVIOUS
<1>8. /\ request \in HandlerType
      /\ request.pc = handler[h].pc
      /\ request.run = handler[h].run
      /\ request.source = handler[h].source
      /\ request.write = w
      /\ request.olds = {}
  BY <1>2, <1>5, <1>6, <1>7 DEF Typed, HandlerType
<1>9. RequestOK(request)
  BY <1>1, <1>5, <1>8 DEF RequestOK
<1>10. handler' = [handler EXCEPT ![h] = request] /\ UNCHANGED <<source, run, job, sweep>>
  BY <1>4, <1>6, <1>7 DEF LoadForWrite
<1> QED
  BY <1>8, <1>9, <1>10, HandlerOnly

LEMMA RequestWrites ==
    ASSUME Typed, NEW h \in Handlers, LaunchFailed(h) \/ MarkStopped(h)
    PROVE  Typed'
<1> DEFINE r == handler[h].run
           w == handler[h].write
<1>1. r \in Runs /\ w \in Writes /\ w # Unread
  BY DEF LaunchFailed, MarkStopped, Typed, HandlerOK, RequestOK, HandlerType
<1>2. run' = run \/ (~Refused(r, w) /\ Update(r, w))
  BY DEF LaunchFailed, MarkStopped
<1>3. run' \in [Runs -> RowType] /\ KeepsOwners
  <2> HIDE DEF r, w
  <2> QED
    BY <1>1, <1>2, UpdateTyped DEF Typed, KeepsOwners
<1>4. handler' = [handler EXCEPT ![h] = Idle] /\ UNCHANGED <<job, sweep>>
  BY DEF LaunchFailed, MarkStopped
<1>5. source' \in [Sources -> SourceType]
  <2>1. source' = source \/ \E s : source' = [source EXCEPT ![s].status = "active"]
    BY DEF LaunchFailed, MarkStopped
  <2> QED
    BY <2>1 DEF Typed, SourceType
<1> QED
  BY <1>3, <1>4, <1>5, HandlerEnds, OwnersStay DEF Typed

LEMMA StopTyped ==
    ASSUME Typed, NEW h \in Handlers, NEW r \in Runs, StopRequest(h, r)
    PROVE  Typed'
<1>1. run[r].status # "none" /\ run[r].source \in Sources
  BY DEF StopRequest, Active, ActiveStatuses, Typed, RowsOwned
<1>2. PICK request : request = [Idle EXCEPT !.pc = "cancel", !.run = r,
                                            !.source = run[r].source,
                                            !.execution = run[r].execution]
  OBVIOUS
<1>3. /\ request \in HandlerType
      /\ request.pc = "cancel"
      /\ request.run = r
      /\ request.source = run[r].source
      /\ request.write = Unread
      /\ request.olds = {}
  BY <1>1, <1>2 DEF Typed, RowType, Idle, HandlerType, HandlerStates, Writes
<1>4. RequestOK(request)
  BY <1>1, <1>3 DEF RequestOK
<1>5. handler' = [handler EXCEPT ![h] = request] /\ UNCHANGED <<source, run, job, sweep>>
  BY <1>2 DEF StopRequest
<1> QED
  BY <1>3, <1>4, <1>5, HandlerOnly

LEMMA CancelTyped ==
    ASSUME Typed, NEW h \in Handlers, CancelExecution(h)
    PROVE  Typed'
<1>1. RequestOK(handler[h]) /\ handler[h].pc = "cancel" /\ handler[h].run \in Runs
  BY DEF CancelExecution, Typed, HandlerOK, RequestOK
<1>2. /\ job' \in {job, [job EXCEPT ![handler[h].run].tries = 0]}
      /\ handler' = [handler EXCEPT ![h].pc = "mark"]
      /\ UNCHANGED <<source, run, sweep>>
      /\ KeepsOwners
  BY DEF CancelExecution, KeepsOwners
<1>3. job' \in [Runs -> JobType] /\ JobOK'
  <2> DEFINE record == [job[handler[h].run] EXCEPT !.tries = 0]
  <2>1. /\ record \in JobType
        /\ record.pc = job[handler[h].run].pc
        /\ record.write = job[handler[h].run].write
    BY <1>1, BoundsAssumption DEF Typed, JobType
  <2>2. job' = job \/ job' = [job EXCEPT ![handler[h].run] = record]
    BY <1>2
  <2> HIDE DEF record
  <2> QED
    BY <1>1, <2>1, <2>2 DEF Typed, JobOK
<1>4. PICK request : request = [handler[h] EXCEPT !.pc = "mark"]
  OBVIOUS
<1>5. /\ request \in HandlerType
      /\ request.pc = "mark"
      /\ request.run = handler[h].run
      /\ request.source = handler[h].source
      /\ request.write = handler[h].write
      /\ request.olds = handler[h].olds
  BY <1>4 DEF Typed, HandlerType, HandlerStates
<1>6. RequestOK(request)
  BY <1>1, <1>5 DEF RequestOK
<1>7. HandlerOK' /\ handler' \in [Handlers -> HandlerType]
  BY <1>2, <1>4, <1>5, <1>6, HandlerMoves
<1> QED
  BY <1>2, <1>3, <1>7, OwnersStay DEF Typed

LEMMA DeleteRequestTyped ==
    ASSUME Typed, NEW h \in Handlers, NEW s \in Sources, DeleteRequest(h, s)
    PROVE  Typed'
<1>1. PICK request : request = [Idle EXCEPT !.pc = "delete", !.source = s]
  OBVIOUS
<1>2. /\ request \in HandlerType
      /\ request.pc = "delete"
      /\ request.source = s
      /\ request.write = Unread
      /\ request.olds = {}
  BY <1>1 DEF Idle, HandlerType, HandlerStates, Writes
<1>3. RequestOK(request)
  BY <1>2 DEF RequestOK
<1>4. handler' = [handler EXCEPT ![h] = request] /\ UNCHANGED <<source, run, job, sweep>>
  BY <1>1 DEF DeleteRequest
<1> QED
  BY <1>2, <1>3, <1>4, HandlerOnly

LEMMA GoneFields ==
    ASSUME NEW row \in RowType
    PROVE  /\ Gone(row) \in RowType
           /\ Gone(row).source = row.source
           /\ Gone(row).status = "gone"
BY DEF Gone, RowType, RowStates

\* The rows that go had a source, hence were created.
LEMMA DeleteTyped ==
    ASSUME Typed, NEW h \in Handlers, DeleteSource(h)
    PROVE  Typed'
<1>1. handler[h].source \in Sources
  BY DEF DeleteSource, Typed, HandlerOK, RequestOK
<1>2. /\ run' = [r \in Runs |-> IF run[r].source = handler[h].source
                                THEN Gone(run[r])
                                ELSE run[r]]
      /\ source' = [source EXCEPT ![handler[h].source].status = "gone"]
      /\ handler' = [handler EXCEPT ![h] = Idle]
      /\ UNCHANGED <<job, sweep>>
  BY DEF DeleteSource
<1>3. run' \in [Runs -> RowType]
  BY <1>2, GoneFields DEF Typed
<1>4. \A r \in Runs : /\ run'[r].source = run[r].source
                      /\ run[r].status # "none" => run'[r].status # "none"
                      /\ run'[r].status # "none" =>
                           run[r].status # "none" \/ run[r].source \in Sources
  BY <1>1, <1>2, GoneFields DEF Typed
<1>5. RowsOwned' /\ SweepOK' /\ JobOK'
  BY <1>2, <1>4 DEF Typed, RowsOwned, SweepOK, JobOK
<1>6. ASSUME NEW g \in Handlers PROVE RequestOK(handler[g])'
  <2>1. CASE g = h
    <3>1. handler'[g] = Idle
      BY <1>2, <2>1 DEF Typed
    <3> QED
      BY <3>1, IdleTyped DEF RequestOK
  <2>2. CASE g # h
    <3>1. handler'[g] = handler[g] /\ RequestOK(handler[g])
      BY <1>2, <2>2 DEF Typed, HandlerOK
    <3> QED
      BY <1>4, <3>1 DEF RequestOK
  <2> QED
    BY <2>1, <2>2
<1>7. source' \in [Sources -> SourceType] /\ handler' \in [Handlers -> HandlerType]
  BY <1>1, <1>2, IdleTyped DEF Typed, SourceType
<1> QED
  BY <1>2, <1>3, <1>5, <1>6, <1>7 DEF Typed, HandlerOK

LEMMA HandlerStepTyped ==
    ASSUME Typed, NEW h \in Handlers, HandlerNext(h)
    PROVE  Typed'
<1>1. ASSUME NEW r \in Runs, NEW s \in Sources,
             CrawlRequest(h, r, s) \/ ParseRequest(h, r, s)
      PROVE  Typed'
  <2>1. source[s].kind \in Kinds /\ "parse" \in Kinds
    BY KindAssumption DEF Typed, SourceType, Kinds
  <2> QED
    BY <1>1, <2>1, CreateTyped DEF CrawlRequest, ParseRequest
<1>2. CASE HandlerDies(h)
  <2>1. handler' = [handler EXCEPT ![h] = Idle] /\ UNCHANGED <<source, run, job, sweep>>
    BY <1>2 DEF HandlerDies
  <2>2. KeepsOwners
    BY <2>1 DEF KeepsOwners
  <2> QED
    BY <2>1, <2>2, HandlerEnds, OwnersStay DEF Typed
<1> QED
  BY <1>1, <1>2, ResumeTyped, LaunchTyped, RecordTyped, RequestLoads, RequestWrites,
     StopTyped, CancelTyped, DeleteRequestTyped, DeleteTyped DEF HandlerNext

-----------------------------------------------------------------------------
(* The moves of a job.                                                     *)

\* All that most steps of a job do: move it on, and write its run's row.
JobStep(r) ==
    /\ \E pc \in JobStates : Goto(r, pc)
    /\ \/ run' = run
       \/ run' = Touch(r)
       \/ job[r].write # Unread /\ ~Refused(r, job[r].write) /\ Update(r, job[r].write)
    /\ UNCHANGED <<source, handler, sweep>>

LEMMA CommitSteps ==
    ASSUME NEW r \in Runs, NEW next \in JobStates, NEW error \in JobStates,
           CommitRow(r, next, error)
    PROVE  JobStep(r)
BY DEF CommitRow, JobStep

LEMMA JobSteps ==
    ASSUME NEW r \in Runs, JobNext(r)
    PROVE  JobStep(r) \/ LoadRow(r) \/ Progress(r) \/ Retry(r)
<1>1. Boot(r) => JobStep(r)
  BY DEF Boot, JobStep, JobStates
<1>2. EnterBody(r) => JobStep(r)
  BY DEF EnterBody, JobStep, JobStates
<1>3. FinishWork(r) => JobStep(r)
  BY DEF FinishWork, JobStep, JobStates
<1>4. Recheck(r) \/ CheckStopped(r) => JobStep(r)
  BY DEF Recheck, CheckStopped, JobStep, JobStates
<1>5. Raise(r) => JobStep(r)
  BY DEF Raise, JobStep, JobStates
<1>6. Kill(r) => JobStep(r)
  BY DEF Kill, JobStep, JobStates
<1>7. Start(r) \/ Conclude(r) \/ Seal(r) \/ FailCrawl(r) \/ FailParse(r) => JobStep(r)
  BY CommitSteps DEF Start, Conclude, Seal, FailCrawl, FailParse, JobStates
<1> QED
  BY <1>1, <1>2, <1>3, <1>4, <1>5, <1>6, <1>7 DEF JobNext

LEMMA TargetTyped ==
    ASSUME NEW r \in Runs, job[r].pc \in JobWrites
    PROVE  Target(r) \subseteq Statuses /\ Target(r) \subseteq ToWrite(job[r].pc)
BY DEF Target, ToWrite, JobWrites, FinalStatuses, Statuses, ActiveStatuses, TerminalStatuses

LEMMA JobStepTyped ==
    ASSUME Typed, NEW r \in Runs, JobNext(r)
    PROVE  Typed'
<1>1. CASE JobStep(r)
  <2>1. job' \in [Runs -> JobType] /\ JobOK'
    BY <1>1, GotoTyped DEF JobStep, Typed
  <2>2. run' \in [Runs -> RowType] /\ KeepsOwners
    <3>1. CASE run' = run
      BY <3>1 DEF Typed, KeepsOwners
    <3>2. CASE run' = Touch(r)
      BY <3>2, TouchTyped DEF Typed
    <3>3. CASE job[r].write # Unread /\ ~Refused(r, job[r].write) /\ Update(r, job[r].write)
      BY <3>3, UpdateTyped DEF Typed, JobType
    <3> QED
      BY <1>1, <3>1, <3>2, <3>3 DEF JobStep
  <2>3. UNCHANGED <<source, handler, sweep>>
    BY <1>1 DEF JobStep
  <2> QED
    BY <2>1, <2>2, <2>3, HandlersStay, OwnersStay DEF Typed
<1>2. CASE Progress(r)
  <2>1. UNCHANGED <<source, handler, sweep>>
    BY <1>2 DEF Progress
  <2>2. run' \in [Runs -> RowType] /\ KeepsOwners
    <3>1. CASE run' = run
      BY <3>1 DEF Typed, KeepsOwners
    <3>2. CASE run' = Touch(r)
      BY <3>2, TouchTyped DEF Typed
    <3> QED
      BY <1>2, <3>1, <3>2 DEF Progress
  <2>3. job' \in [Runs -> JobType] /\ JobOK'
    <3>1. CASE \E pc \in {"recheck", "done"} : Goto(r, pc)
      BY <3>1, GotoTyped DEF Typed, JobStates
    <3>2. CASE job' = [job EXCEPT ![r].left = @ - 1]
      <4> DEFINE record == [job[r] EXCEPT !.left = @ - 1]
      <4>1. job[r].left - 1 \in 0..Items
        BY <1>2, BoundsAssumption DEF Progress, Typed, JobType
      <4>2. /\ record \in JobType
            /\ record.pc = job[r].pc
            /\ record.write = job[r].write
        BY <4>1 DEF Typed, JobType
      <4>3. job' = [job EXCEPT ![r] = record]
        BY <3>2
      <4> HIDE DEF record
      <4> QED
        BY <4>2, <4>3 DEF Typed, JobOK
    <3> QED
      BY <1>2, <3>1, <3>2 DEF Progress
  <2> QED
    BY <2>1, <2>2, <2>3, HandlersStay, OwnersStay DEF Typed
<1>3. CASE Retry(r) \/ LoadRow(r)
  <2>1. UNCHANGED <<source, run, handler, sweep>> /\ KeepsOwners
    BY <1>3 DEF Retry, LoadRow, KeepsOwners
  <2>2. job' \in [Runs -> JobType] /\ JobOK'
    <3>1. CASE Retry(r)
      <4> DEFINE record == [job[r] EXCEPT !.pc = "boot", !.tries = @ - 1]
      <4>1. job[r].tries - 1 \in 0..MaxTries
        BY <3>1, BoundsAssumption DEF Retry, Typed, JobType
      <4>2. /\ record \in JobType
            /\ record.write = job[r].write
        BY <4>1 DEF Typed, JobType, JobStates
      <4>3. job' = [job EXCEPT ![r] = record]
        BY <3>1 DEF Retry
      <4>4. job[r].write = Unread
        BY <3>1 DEF Retry, Typed, JobOK, ToWrite
      <4> HIDE DEF record
      <4> QED
        BY <4>2, <4>3, <4>4 DEF Typed, JobOK
    <3>2. CASE LoadRow(r)
      <4>1. PICK st \in Target(r) : job' = [job EXCEPT ![r].write = Load(r, st)]
        BY <3>2 DEF LoadRow
      <4>2. st \in Statuses /\ st \in ToWrite(job[r].pc)
        BY <3>2, TargetTyped DEF LoadRow
      <4> DEFINE record == [job[r] EXCEPT !.write = Load(r, st)]
      <4>3. /\ record \in JobType
            /\ record.pc = job[r].pc
            /\ record.write.to = st
        BY <4>2, LoadTyped DEF Typed, JobType
      <4>4. job' = [job EXCEPT ![r] = record]
        BY <4>1
      <4> HIDE DEF record
      <4> QED
        BY <4>2, <4>3, <4>4 DEF Typed, JobOK
    <3> QED
      BY <1>3, <3>1, <3>2
  <2> QED
    BY <2>1, <2>2, HandlersStay, OwnersStay DEF Typed
<1> QED
  BY <1>1, <1>2, <1>3, JobSteps

-----------------------------------------------------------------------------
(* Time, maintenance, and the whole system.                                *)

LEMMA SweepTyped ==
    ASSUME Typed, NEW s \in Sources, FindStalled(s) \/ Reconcile(s)
    PROVE  Typed'
<1>1. UNCHANGED <<source, job, handler>>
  BY DEF FindStalled, Reconcile
<1>2. CASE FindStalled(s)
  <2> DEFINE stalled == {r \in Runs : /\ run[r].source = s
                                      /\ run[r].status = "running"
                                      /\ run[r].stale}
  <2>1. /\ stalled \in SUBSET Runs
        /\ \A r \in stalled : run[r].status # "none"
    OBVIOUS
  <2>2. sweep' = [sweep EXCEPT ![s] = stalled] /\ run' = run
    BY <1>2 DEF FindStalled
  <2>3. KeepsOwners
    BY <2>2 DEF KeepsOwners
  <2> HIDE DEF stalled
  <2>4. sweep' \in [Sources -> SUBSET Runs] /\ SweepOK'
    BY <2>1, <2>2 DEF Typed, SweepOK
  <2> QED
    BY <1>1, <2>2, <2>3, <2>4, HandlersStay, OwnersStay DEF Typed
<1>3. CASE Reconcile(s)
  <2> DEFINE failed == [to |-> "failed", columns |-> Columns]
             S == sweep[s]
  <2>1. failed \in Writes /\ failed # Unread
    BY DEF Writes, Unread, Statuses, TerminalStatuses
  <2>2. S \in SUBSET Runs
    BY DEF Typed
  <2>3. \/ run' = run
        \/ /\ \A r \in S : ~Refused(r, failed)
           /\ run' = [r \in Runs |-> IF r \in S THEN Written(r, failed) ELSE run[r]]
    BY <1>3 DEF Reconcile
  <2>4. run' \in [Runs -> RowType] /\ KeepsOwners
    <3> HIDE DEF failed, S
    <3> QED
      BY <2>1, <2>2, <2>3, UpdateManyTyped DEF Typed, KeepsOwners
  <2>5. sweep' = [sweep EXCEPT ![s] = {}]
    BY <1>3 DEF Reconcile
  <2>6. sweep' \in [Sources -> SUBSET Runs] /\ SweepOK'
    BY <2>4, <2>5 DEF Typed, SweepOK, KeepsOwners
  <2> QED
    BY <1>1, <2>4, <2>6, HandlersStay, OwnersStay DEF Typed
<1> QED
  BY <1>2, <1>3

LEMMA ElapseTyped ==
    ASSUME Typed, NEW r \in Runs, Elapse(r)
    PROVE  Typed'
<1> DEFINE row == [run[r] EXCEPT !.stale = TRUE]
<1>1. row \in RowType /\ row.source = run[r].source /\ row.status = run[r].status
  BY DEF Typed, RowType
<1>2. run' = [run EXCEPT ![r] = row] /\ UNCHANGED <<source, job, handler, sweep>>
  BY DEF Elapse
<1> HIDE DEF row
<1>3. run' \in [Runs -> RowType] /\ KeepsOwners
  BY <1>1, <1>2 DEF Typed, KeepsOwners
<1> QED
  BY <1>2, <1>3, HandlersStay, OwnersStay DEF Typed

LEMMA TypedInit == Init => Typed
<1> SUFFICES ASSUME Init PROVE Typed
  OBVIOUS
<1>1. source \in [Sources -> SourceType]
  BY DEF Init, SourceType
<1>2. run \in [Runs -> RowType]
  BY DEF Init, RowType, Kinds, RowStates
<1>3. job \in [Runs -> JobType]
  BY BoundsAssumption DEF Init, JobType, JobStates, Writes
<1>4. handler \in [Handlers -> HandlerType] /\ sweep \in [Sources -> SUBSET Runs]
  BY IdleTyped DEF Init
<1>5. RowsOwned /\ SweepOK /\ JobOK
  BY DEF Init, RowsOwned, SweepOK, JobOK
<1>6. HandlerOK
  BY IdleTyped DEF Init, HandlerOK, RequestOK
<1> QED
  BY <1>1, <1>2, <1>3, <1>4, <1>5, <1>6 DEF Typed

LEMMA TypedStep == Typed /\ [Next]_vars => Typed'
<1> SUFFICES ASSUME Typed, [Next]_vars PROVE Typed'
  OBVIOUS
<1>1. ASSUME NEW s \in Sources, NEW st \in SourceStatuses, SetSourceStatus(s, st)
      PROVE  Typed'
  <2>1. source' \in [Sources -> SourceType]
    BY <1>1, StatusAssumption DEF SetSourceStatus, Typed, SourceType
  <2>2. UNCHANGED <<run, job, handler, sweep>> /\ KeepsOwners
    BY <1>1 DEF SetSourceStatus, KeepsOwners
  <2> QED
    BY <2>1, <2>2, HandlersStay, OwnersStay DEF Typed
<1>2. CASE UNCHANGED vars
  <2>1. UNCHANGED <<source, run, job, handler, sweep>> /\ KeepsOwners
    BY <1>2 DEF vars, KeepsOwners
  <2> QED
    BY <2>1, HandlersStay, OwnersStay DEF Typed
<1> QED
  BY <1>1, <1>2, HandlerStepTyped, JobStepTyped, ElapseTyped, SweepTyped DEF Next

\* Every row, job and request keeps a value of its type, in every interleaving
\* of the admin handlers, the jobs and maintenance.
THEOREM TypeCorrect == Spec => []TypeOK
<1>1. Typed => TypeOK
  BY DEF Typed, TypeOK, SourceType, RowType, JobType, HandlerType
<1> QED
  BY <1>1, TypedInit, TypedStep, PTL DEF Spec

-----------------------------------------------------------------------------
(* The writes that are pending on a row.                                   *)

Superseding == [to |-> "superseded", columns |-> {"status"}]
Failing == [to |-> "failed", columns |-> Columns]

\* Some session has loaded row q and is to commit w.
Pending(q, w) ==
    /\ w # Unread
    /\ \/ w = job[q].write
       \/ \E h \in Handlers : handler[h].run = q /\ w = handler[h].write
       \/ (\E h \in Handlers : q \in handler[h].olds) /\ w = Superseding
       \/ (\E s \in Sources : q \in sweep[s]) /\ w = Failing

\* Only a job that starts writes running, and only a job that ends complete.
LEMMA PendingFacts ==
    ASSUME Typed, NEW q \in Runs, NEW w, Pending(q, w)
    PROVE  /\ w \in Writes
           /\ w.to \in TerminalStatuses \cup {"running"}
           /\ w.to = "running" => w = job[q].write /\ job[q].pc = "start"
           /\ w.to \in {"complete", "partial"} =>
                w = job[q].write /\ job[q].pc \in {"wrap", "seal"}
           /\ run[q].status = "none" => w = job[q].write /\ job[q].pc \in JobWrites
<1>1. CASE w = job[q].write
  BY <1>1 DEF Pending, Typed, JobType, JobOK, ToWrite, TerminalStatuses, JobWrites
<1>2. ASSUME NEW h \in Handlers, handler[h].run = q, w = handler[h].write
      PROVE  /\ w \in Writes
             /\ w.to \in {"failed", "stopped"}
             /\ run[q].status # "none"
  BY <1>2 DEF Pending, Typed, HandlerType, HandlerOK, RequestOK
<1>3. ASSUME NEW h \in Handlers, q \in handler[h].olds, w = Superseding
      PROVE  /\ w \in Writes
             /\ w.to = "superseded"
             /\ run[q].status # "none"
  <2>1. Superseding \in Writes /\ Superseding.to = "superseded"
    BY DEF Superseding, Writes, Columns, Statuses, TerminalStatuses
  <2> QED
    BY <1>3, <2>1 DEF Typed, HandlerOK, RequestOK
<1>4. ASSUME NEW s \in Sources, q \in sweep[s], w = Failing
      PROVE  /\ w \in Writes
             /\ w.to = "failed"
             /\ run[q].status # "none"
  <2>1. Failing \in Writes /\ Failing.to = "failed"
    BY DEF Failing, Writes, Statuses, TerminalStatuses
  <2> QED
    BY <1>4, <2>1 DEF Typed, SweepOK
<1>5. {"failed", "stopped", "superseded"} \subseteq TerminalStatuses
  BY DEF TerminalStatuses
<1> QED
  BY <1>1, <1>2, <1>3, <1>4, <1>5 DEF Pending

-----------------------------------------------------------------------------
(* What a step may do to row q.                                            *)

\* It keeps its place in the life cycle, ...
Same(q) == /\ run'[q].source = run[q].source
           /\ run'[q].kind = run[q].kind
           /\ run'[q].status = run[q].status
           /\ run'[q].finished = run[q].finished
           /\ run'[q].started = run[q].started

OnlyRow(q) == \A p \in Runs \ {q} : Same(p)

\* ... a write that was pending is committed, to running by its job alone, ...
Commits(q, w) == /\ Pending(q, w)
                 /\ ~Refused(q, w)
                 /\ run'[q] = Written(q, w)
                 /\ w.to = "running" => OnlyRow(q) /\ job'[q].pc = "enter"

\* ... it is deleted with its source, ...
Goes(q) == /\ run'[q].source = run[q].source
           /\ run'[q].status = "gone"
           /\ source'[run[q].source].status = "gone"

\* ... or, alone, takes the free slot for the first time.
Appears(q) == /\ run[q].status = "none"
              /\ run'[q].source \in Sources
              /\ Present(run'[q].source)
              /\ SlotFree(q, run'[q].source, run'[q].kind)
              /\ run'[q].status = "queued"
              /\ run'[q].finished = FALSE
              /\ run'[q].started = FALSE
              /\ OnlyRow(q)
              /\ \E h \in Handlers : handler'[h].run = q /\ handler'[h].pc = "created"

RowEffect(q) == Same(q) \/ (\E w \in Writes : Commits(q, w)) \/ Goes(q) \/ Appears(q)
RowEffects == \A q \in Runs : RowEffect(q)

LEMMA UnchangedRows == ASSUME run' = run PROVE RowEffects
BY DEF RowEffects, RowEffect, Same

LEMMA TouchEffect ==
    ASSUME Typed, NEW r \in Runs, run' = Touch(r)
    PROVE  RowEffects
BY DEF Typed, RowType, Touch, RowEffects, RowEffect, Same

LEMMA UpdateEffect ==
    ASSUME Typed, NEW r \in Runs, NEW w, Pending(r, w), ~Refused(r, w), Update(r, w),
           w.to = "running" => job'[r].pc = "enter"
    PROVE  RowEffects
<1>1. w \in Writes
  BY PendingFacts
<1>2. run'[r] = Written(r, w) /\ \A q \in Runs \ {r} : run'[q] = run[q]
  BY DEF Update, Typed
<1>3. OnlyRow(r)
  BY <1>2 DEF OnlyRow, Same
<1>4. Commits(r, w)
  BY <1>2, <1>3 DEF Commits
<1> QED
  BY <1>1, <1>3, <1>4 DEF RowEffects, RowEffect, OnlyRow

LEMMA CreateEffect ==
    ASSUME Typed, NEW h \in Handlers, NEW r \in Runs, NEW s \in Sources,
           NEW k \in Kinds, CreateRun(h, r, s, k)
    PROVE  RowEffects
<1> DEFINE row == [source |-> s, kind |-> k, status |-> "queued", finished |-> FALSE,
                   stale |-> FALSE, execution |-> FALSE, started |-> FALSE]
<1>1. /\ row.source = s
      /\ row.kind = k
      /\ row.status = "queued"
      /\ row.finished = FALSE
      /\ row.started = FALSE
  OBVIOUS
<1>2. /\ run' = [run EXCEPT ![r] = row]
      /\ run[r].status = "none"
      /\ Present(s)
      /\ SlotFree(r, s, k)
  BY DEF CreateRun
<1> HIDE DEF row
<1>3. OnlyRow(r)
  BY <1>2 DEF Typed, OnlyRow, Same
<1>4. handler'[h].run = r /\ handler'[h].pc = "created"
  BY DEF CreateRun, Typed, Idle
<1>5. Appears(r)
  BY <1>1, <1>2, <1>3, <1>4 DEF Typed, Appears
<1> QED
  BY <1>3, <1>5 DEF RowEffects, RowEffect, OnlyRow

LEMMA SupersedeEffect ==
    ASSUME Typed, NEW h \in Handlers, SupersedeStopped(h)
    PROVE  RowEffects
<1> SUFFICES ASSUME NEW q \in Runs PROVE RowEffect(q)
  BY DEF RowEffects
<1>1. \/ run'[q] = run[q]
      \/ /\ q \in handler[h].olds
         /\ ~Refused(q, Superseding)
         /\ run'[q] = Written(q, Superseding)
  BY DEF SupersedeStopped, Superseding
<1>2. CASE run'[q] = run[q]
  BY <1>2 DEF RowEffect, Same
<1>3. CASE /\ q \in handler[h].olds
           /\ ~Refused(q, Superseding)
           /\ run'[q] = Written(q, Superseding)
  <2>1. Superseding # Unread /\ Superseding.to # "running"
    BY DEF Superseding, Unread
  <2>2. Pending(q, Superseding)
    BY <1>3, <2>1 DEF Pending
  <2>3. Superseding \in Writes /\ Commits(q, Superseding)
    BY <1>3, <2>1, <2>2, PendingFacts DEF Commits
  <2> QED
    BY <2>3 DEF RowEffect
<1> QED
  BY <1>1, <1>2, <1>3

LEMMA ReconcileEffect ==
    ASSUME Typed, NEW s \in Sources, Reconcile(s)
    PROVE  RowEffects
<1> SUFFICES ASSUME NEW q \in Runs PROVE RowEffect(q)
  BY DEF RowEffects
<1>1. \/ run'[q] = run[q]
      \/ q \in sweep[s] /\ ~Refused(q, Failing) /\ run'[q] = Written(q, Failing)
  BY DEF Reconcile, Failing
<1>2. CASE run'[q] = run[q]
  BY <1>2 DEF RowEffect, Same
<1>3. CASE q \in sweep[s] /\ ~Refused(q, Failing) /\ run'[q] = Written(q, Failing)
  <2>1. Failing # Unread /\ Failing.to # "running"
    BY DEF Failing, Unread
  <2>2. Pending(q, Failing)
    BY <1>3, <2>1 DEF Pending
  <2>3. Failing \in Writes /\ Commits(q, Failing)
    BY <1>3, <2>1, <2>2, PendingFacts DEF Commits
  <2> QED
    BY <2>3 DEF RowEffect
<1> QED
  BY <1>1, <1>2, <1>3

LEMMA DeleteEffect ==
    ASSUME Typed, NEW h \in Handlers, DeleteSource(h)
    PROVE  RowEffects
<1> SUFFICES ASSUME NEW q \in Runs PROVE RowEffect(q)
  BY DEF RowEffects
<1>1. \/ run'[q] = run[q]
      \/ run'[q] = Gone(run[q]) /\ run[q].source = handler[h].source
  BY DEF DeleteSource
<1>2. source'[handler[h].source].status = "gone"
  BY DEF DeleteSource, Typed, SourceType, HandlerOK, RequestOK
<1> QED
  BY <1>1, <1>2, GoneFields DEF Typed, RowEffect, Same, Goes

LEMMA ElapseEffect ==
    ASSUME Typed, NEW r \in Runs, Elapse(r)
    PROVE  RowEffects
<1> DEFINE row == [run[r] EXCEPT !.stale = TRUE]
<1>1. /\ row.source = run[r].source
      /\ row.kind = run[r].kind
      /\ row.status = run[r].status
      /\ row.finished = run[r].finished
      /\ row.started = run[r].started
  BY DEF Typed, RowType
<1>2. run' = [run EXCEPT ![r] = row]
  BY DEF Elapse
<1> HIDE DEF row
<1> QED
  BY <1>1, <1>2 DEF Typed, RowEffects, RowEffect, Same

LEMMA RecordEffect ==
    ASSUME Typed, NEW h \in Handlers, RecordExecution(h)
    PROVE  RowEffects
<1> DEFINE r == handler[h].run
           row == [run[r] EXCEPT !.execution = Exists(r) /\ job[r].tries > 0]
<1>1. r \in Runs
  BY DEF RecordExecution, Typed, HandlerOK, RequestOK
<1>2. /\ row.source = run[r].source
      /\ row.kind = run[r].kind
      /\ row.status = run[r].status
      /\ row.finished = run[r].finished
      /\ row.started = run[r].started
  BY <1>1 DEF Typed, RowType
<1>3. run' = run \/ run' = [run EXCEPT ![r] = row]
  BY DEF RecordExecution
<1> HIDE DEF row, r
<1> QED
  BY <1>1, <1>2, <1>3 DEF Typed, RowEffects, RowEffect, Same

LEMMA JobEffect ==
    ASSUME Typed, NEW r \in Runs, JobNext(r)
    PROVE  RowEffects
<1>1. CASE run' = Touch(r)
  BY <1>1, TouchEffect
<1>2. CASE run' = run
  BY <1>2, UnchangedRows
<1>3. ASSUME NEW next \in JobStates, NEW error \in JobStates, CommitRow(r, next, error),
             job[r].pc = "start" => next = "enter",
             run' # run
      PROVE  RowEffects
  <2>1. /\ job[r].write # Unread
        /\ ~Refused(r, job[r].write)
        /\ Update(r, job[r].write)
        /\ Goto(r, next)
    BY <1>3 DEF CommitRow
  <2>2. job'[r].pc = next
    BY <2>1, GotoTyped DEF Typed
  <2>3. Pending(r, job[r].write)
    BY <2>1 DEF Pending
  <2>4. job[r].write.to = "running" => job[r].pc = "start"
    BY <2>3, PendingFacts
  <2> QED
    BY <1>3, <2>1, <2>2, <2>3, <2>4, UpdateEffect
<1>4. Start(r) => run' = run \/ RowEffects
  BY <1>3 DEF Start, JobStates
<1>5. Conclude(r) => run' = run \/ RowEffects
  BY <1>3 DEF Conclude, JobStates
<1>6. Seal(r) \/ FailCrawl(r) \/ FailParse(r) => run' = run \/ RowEffects
  BY <1>3 DEF Seal, FailCrawl, FailParse, JobStates
<1>7. EnterBody(r) \/ Progress(r) \/ Raise(r) => run' = Touch(r) \/ run' = run
  BY DEF EnterBody, Progress, Raise
<1>8. \/ Boot(r) \/ LoadRow(r) \/ FinishWork(r) \/ Recheck(r) \/ CheckStopped(r)
      \/ Kill(r) \/ Retry(r)
      => run' = run
  BY DEF Boot, LoadRow, FinishWork, Recheck, CheckStopped, Kill, Retry
<1> QED
  BY <1>1, <1>2, <1>4, <1>5, <1>6, <1>7, <1>8 DEF JobNext

LEMMA HandlerEffect ==
    ASSUME Typed, NEW h \in Handlers, HandlerNext(h)
    PROVE  RowEffects
<1>1. ASSUME NEW r \in Runs, NEW s \in Sources,
             CrawlRequest(h, r, s) \/ ParseRequest(h, r, s)
      PROVE  RowEffects
  <2>1. source[s].kind \in Kinds /\ "parse" \in Kinds
    BY KindAssumption DEF Typed, SourceType, Kinds
  <2> QED
    BY <1>1, <2>1, CreateEffect DEF CrawlRequest, ParseRequest
<1>2. CASE LaunchFailed(h) \/ MarkStopped(h)
  <2> DEFINE r == handler[h].run
             w == handler[h].write
  <2>1. w # Unread /\ r \in Runs
    BY <1>2 DEF LaunchFailed, MarkStopped, Typed, HandlerOK, RequestOK
  <2>2. w.to # "running"
    BY <2>1 DEF Typed, HandlerOK, RequestOK
  <2>3. run' = run \/ (~Refused(r, w) /\ Update(r, w))
    BY <1>2 DEF LaunchFailed, MarkStopped
  <2>4. Pending(r, w)
    BY <2>1 DEF Pending
  <2> HIDE DEF r, w
  <2> QED
    BY <2>1, <2>2, <2>3, <2>4, UpdateEffect, UnchangedRows
<1>3. ASSUME \/ FindStopped(h) \/ Launch(h) \/ LoadForWrite(h) \/ CancelExecution(h)
             \/ HandlerDies(h)
             \/ \E r \in Runs : StopRequest(h, r)
             \/ \E s \in Sources : DeleteRequest(h, s)
      PROVE  run' = run
  BY <1>3 DEF FindStopped, Launch, LoadForWrite, CancelExecution, HandlerDies, StopRequest,
              DeleteRequest
<1> QED
  BY <1>1, <1>2, <1>3, SupersedeEffect, DeleteEffect, RecordEffect, UnchangedRows
     DEF HandlerNext

LEMMA StepEffect == ASSUME Typed, [Next]_vars PROVE RowEffects
<1>1. ASSUME NEW s \in Sources, NEW st \in SourceStatuses, SetSourceStatus(s, st)
      PROVE  run' = run
  BY <1>1 DEF SetSourceStatus
<1>2. ASSUME NEW s \in Sources, FindStalled(s) PROVE run' = run
  BY <1>2 DEF FindStalled
<1>3. UNCHANGED vars => run' = run
  BY DEF vars
<1> QED
  BY <1>1, <1>2, <1>3, HandlerEffect, JobEffect, ElapseEffect, ReconcileEffect,
     UnchangedRows DEF Next

-----------------------------------------------------------------------------
(* The same, of the status alone.                                          *)

Keeps(q) == /\ run'[q].source = run[q].source
            /\ run'[q].kind = run[q].kind
            /\ run'[q].status = run[q].status

Ends(q) == /\ Exists(q)
           /\ run'[q].source = run[q].source
           /\ run'[q].kind = run[q].kind
           /\ run'[q].status \in TerminalStatuses

Starts(q) == /\ Exists(q)
             /\ SlotFree(q, run[q].source, run[q].kind)
             /\ run'[q].source = run[q].source
             /\ run'[q].kind = run[q].kind
             /\ run'[q].status = "running"
             /\ job'[q].pc = "enter"
             /\ OnlyRow(q)

StatusEffect(q) == Keeps(q) \/ Ends(q) \/ Goes(q) \/ Starts(q) \/ Appears(q)

LEMMA StatusEffects ==
    ASSUME Typed, RowEffects, NEW q \in Runs
    PROVE  StatusEffect(q)
<1>1. RowEffect(q)
  BY DEF RowEffects
<1>2. ASSUME NEW w \in Writes, Commits(q, w)
      PROVE  Keeps(q) \/ Ends(q) \/ Starts(q)
  <2>1. /\ w # Unread
        /\ w.to \in TerminalStatuses \cup {"running"}
        /\ ~Refused(q, w)
        /\ run'[q] = Written(q, w)
    BY <1>2, PendingFacts DEF Commits, Pending
  <2>2. /\ run'[q].source = run[q].source
        /\ run'[q].kind = run[q].kind
        /\ run'[q].status = IF "status" \in w.columns THEN w.to ELSE run[q].status
    BY <2>1, WrittenFields DEF Typed
  <2>3. CASE "status" \notin w.columns
    BY <2>2, <2>3 DEF Keeps
  <2>4. CASE "status" \in w.columns
    <3>1. Exists(q)
      BY <2>1, <2>4 DEF Refused
    <3>2. CASE w.to \in TerminalStatuses
      BY <2>2, <2>4, <3>1, <3>2 DEF Ends
    <3>3. CASE w.to = "running"
      <4>1. SlotFree(q, run[q].source, run[q].kind)
        BY <2>1, <2>4, <3>3, StatusFacts DEF Refused
      <4>2. OnlyRow(q) /\ job'[q].pc = "enter"
        BY <1>2, <3>3 DEF Commits
      <4> QED
        BY <2>2, <2>4, <3>1, <3>3, <4>1, <4>2 DEF Starts
    <3> QED
      BY <2>1, <3>2, <3>3
  <2> QED
    BY <2>3, <2>4
<1>3. Same(q) => Keeps(q)
  BY DEF Same, Keeps
<1> QED
  BY <1>1, <1>2, <1>3 DEF RowEffect, StatusEffect

-----------------------------------------------------------------------------
(* One active run per slot.                                                *)

\* An active row of the next state was active before, in the same slot, or is
\* the one row that took a free slot.
LEMMA ActiveBefore ==
    ASSUME Typed, RowEffects, NEW q \in Runs, Active(q)'
    PROVE  \/ Active(q) /\ run'[q].source = run[q].source /\ run'[q].kind = run[q].kind
           \/ OnlyRow(q) /\ SlotFree(q, run'[q].source, run'[q].kind)
<1>1. StatusEffect(q)
  BY StatusEffects
<1> QED
  BY <1>1, StatusFacts DEF StatusEffect, Keeps, Ends, Goes, Starts, Appears, Active

LEMMA OneActiveStep ==
    ASSUME Typed, OneActivePerSlot, RowEffects
    PROVE  OneActivePerSlot'
<1> SUFFICES ASSUME NEW q \in Runs, NEW r \in Runs, q # r, Active(q)', Active(r)',
                    run'[q].source = run'[r].source, run'[q].kind = run'[r].kind
             PROVE  FALSE
  BY DEF OneActivePerSlot
<1>1. ASSUME NEW x \in Runs, NEW y \in Runs, x # y, Active(y)', OnlyRow(x),
             SlotFree(x, run'[x].source, run'[x].kind),
             run'[x].source = run'[y].source, run'[x].kind = run'[y].kind
      PROVE  FALSE
  <2>1. Same(y)
    BY <1>1 DEF OnlyRow
  <2>2. Active(y) /\ run[y].source = run'[x].source /\ run[y].kind = run'[x].kind
    BY <1>1, <2>1 DEF Same, Active
  <2> QED
    BY <1>1, <2>2 DEF SlotFree
<1>2. CASE /\ Active(q) /\ run'[q].source = run[q].source /\ run'[q].kind = run[q].kind
           /\ Active(r) /\ run'[r].source = run[r].source /\ run'[r].kind = run[r].kind
  BY <1>2 DEF OneActivePerSlot
<1> QED
  BY <1>1, <1>2, ActiveBefore

-----------------------------------------------------------------------------
(* What finished_at tells.                                                 *)

\* What each pending write owes to what its session loaded, whatever others have
\* made of the row since: on a queued row it writes the status; on a row no job
\* has started it writes both columns, or the row has ended; a start that found
\* the row running meets no completed one; and a final status brings its time.
WriteOK(q, w) ==
    /\ run[q].status = "queued" => "status" \in w.columns
    /\ Exists(q) /\ ~run[q].started /\ w.to # "running" =>
         w.columns = Columns \/ ~Active(q)
    /\ w.to = "running" /\ "status" \notin w.columns =>
         run[q].status \notin {"complete", "partial"}
    /\ w.to \in {"complete", "partial", "failed"} /\ w.columns # {} =>
         "finished" \in w.columns

WritesOK == \A q \in Runs : \A w \in Writes : Pending(q, w) => WriteOK(q, w)

LEMMA FinishedStep ==
    ASSUME Typed, FinishedTold, WritesOK, RowEffects
    PROVE  FinishedTold'
<1> DEFINE Told(status, finished, started) ==
             /\ status \in Statuses /\ ~started => (finished <=> status \notin ActiveStatuses)
             /\ status = "queued" => ~finished
             /\ status \in {"complete", "partial"} => finished
<1> SUFFICES ASSUME NEW q \in Runs
             PROVE  Told(run'[q].status, run'[q].finished, run'[q].started)
  BY DEF FinishedTold, Exists, Active
<1>1. Told(run[q].status, run[q].finished, run[q].started)
  BY DEF FinishedTold, Exists, Active
<1>2. RowEffect(q)
  BY DEF RowEffects
<1>3. CASE Same(q)
  BY <1>1, <1>3 DEF Same
<1>4. CASE Goes(q)
  BY <1>4, StatusFacts DEF Goes
<1>5. CASE Appears(q)
  BY <1>5, StatusFacts DEF Appears
<1>6. ASSUME NEW w \in Writes, Commits(q, w)
      PROVE  Told(run'[q].status, run'[q].finished, run'[q].started)
  <2>1. /\ w # Unread
        /\ w.to \in TerminalStatuses \cup {"running"}
        /\ run'[q] = Written(q, w)
        /\ WriteOK(q, w)
    BY <1>6, PendingFacts DEF Commits, Pending, WritesOK
  <2>2. CASE w.columns = {}
    <3>1. run'[q] = run[q]
      BY <2>1, <2>2, WrittenFields DEF Typed
    <3> QED
      BY <1>1, <3>1
  <2>3. CASE w.columns # {}
    <3>1. /\ run'[q].status = IF "status" \in w.columns THEN w.to ELSE run[q].status
          /\ run'[q].finished = IF "finished" \in w.columns
                                THEN w.to \notin ActiveStatuses ELSE run[q].finished
          /\ run'[q].started = (run[q].started \/ w.to = "running")
      BY <2>1, <2>3, WrittenFields DEF Typed
    <3>2. Exists(q)
      BY <1>6, <2>3 DEF Commits, Refused
    <3>3. run'[q].status = "queued" => ~run'[q].finished
      BY <2>1, <3>1, StatusFacts DEF WriteOK
    <3>4. run'[q].status \in {"complete", "partial"} => run'[q].finished
      <4>1. CASE "status" \in w.columns
        BY <2>1, <2>3, <3>1, <4>1, StatusFacts DEF WriteOK
      <4>2. CASE "status" \notin w.columns
        BY <1>1, <2>1, <3>1, <4>2, StatusFacts DEF WriteOK
      <4> QED
        BY <4>1, <4>2
    <3>5. ~run'[q].started => (run'[q].finished <=> run'[q].status \notin ActiveStatuses)
      <4> SUFFICES ASSUME ~run'[q].started
                   PROVE  run'[q].finished <=> run'[q].status \notin ActiveStatuses
        OBVIOUS
      <4>1. ~run[q].started /\ w.to \in TerminalStatuses
        BY <2>1, <3>1
      <4>2. w.columns = Columns \/ ~Active(q)
        BY <2>1, <3>2, <4>1, StatusFacts DEF WriteOK
      <4>3. CASE w.columns = Columns
        BY <3>1, <4>1, <4>3, StatusFacts DEF Columns
      <4>4. CASE ~Active(q)
        BY <1>1, <3>1, <3>2, <4>1, <4>4, StatusFacts DEF Active, Exists
      <4> QED
        BY <4>2, <4>3, <4>4
    <3> QED
      BY <3>3, <3>4, <3>5
  <2> QED
    BY <2>2, <2>3
<1> QED
  BY <1>2, <1>3, <1>4, <1>5, <1>6 DEF RowEffect

\* The statuses that a session loads a row to write.
ToWriteAll == {"running", "complete", "partial", "failed", "stopped"}

\* Where a write comes from: it was pending, or its session has just loaded the
\* row, which this step does not change.
Loaded(q, w) ==
    /\ run' = run
    /\ \/ \E st \in ToWriteAll : w = Load(q, st)
       \/ w = Superseding /\ run[q].status = "stopped"
       \/ w = Failing

LEMMA JobWritesFrom ==
    ASSUME Typed, [Next]_vars, NEW q \in Runs
    PROVE  job'[q].write \in {Unread, job[q].write} \/ Loaded(q, job'[q].write)
<1>1. ASSUME NEW r \in Runs, JobNext(r)
      PROVE  job'[q].write \in {Unread, job[q].write} \/ Loaded(q, job'[q].write)
  <2>1. CASE JobStep(r)
    BY <2>1, GotoTyped DEF JobStep, Typed
  <2>2. CASE LoadRow(r)
    <3>1. PICK st \in Target(r) : job' = [job EXCEPT ![r].write = Load(r, st)]
      BY <2>2 DEF LoadRow
    <3>2. st \in ToWriteAll /\ run' = run
      BY <2>2, TargetTyped DEF LoadRow, ToWrite, ToWriteAll
    <3> DEFINE record == [job[r] EXCEPT !.write = Load(r, st)]
    <3>3. record.write = Load(r, st)
      BY DEF Typed, JobType
    <3>4. job' = [job EXCEPT ![r] = record]
      BY <3>1
    <3> HIDE DEF record
    <3>5. job'[q].write = IF q = r THEN Load(r, st) ELSE job[q].write
      BY <3>3, <3>4 DEF Typed
    <3> QED
      BY <3>2, <3>5 DEF Loaded
  <2>3. CASE Progress(r)
    <3>1. CASE \E pc \in {"recheck", "done"} : Goto(r, pc)
      BY <3>1, GotoTyped DEF Typed, JobStates
    <3>2. CASE job' = [job EXCEPT ![r].left = @ - 1]
      BY <3>2 DEF Typed, JobType
    <3> QED
      BY <2>3, <3>1, <3>2 DEF Progress
  <2>4. CASE Retry(r)
    BY <2>4 DEF Retry, Typed, JobType
  <2> QED
    BY <1>1, <2>1, <2>2, <2>3, <2>4, JobSteps
<1>2. ASSUME NEW h \in Handlers, HandlerNext(h)
      PROVE  job'[q].write \in {Unread, job[q].write}
  <2>1. CASE Launch(h)
    <3>1. handler[h].run \in Runs
      BY <2>1 DEF Launch, Typed, HandlerOK, RequestOK
    <3>2. Goto(handler[h].run, "boot") \/ job' = job
      BY <2>1 DEF Launch
    <3> QED
      BY <3>1, <3>2, GotoTyped DEF Typed, JobStates
  <2>2. CASE CancelExecution(h)
    <3>1. job' = job \/ job' = [job EXCEPT ![handler[h].run].tries = 0]
      BY <2>2 DEF CancelExecution
    <3> QED
      BY <3>1 DEF Typed, JobType
  <2>3. Launch(h) \/ CancelExecution(h) \/ job' = job
    BY <1>2 DEF HandlerNext, CrawlRequest, ParseRequest, CreateRun, FindStopped,
                SupersedeStopped, RecordExecution, LoadForWrite, LaunchFailed, StopRequest,
                MarkStopped, DeleteRequest, DeleteSource, HandlerDies
  <2> QED
    BY <2>1, <2>2, <2>3
<1> QED
  BY <1>1, <1>2 DEF Next, Elapse, FindStalled, Reconcile, SetSourceStatus, vars

\* A request moves by a step of its own.
LEMMA RequestMoves ==
    ASSUME Typed, [Next]_vars, NEW h \in Handlers
    PROVE  HandlerNext(h) \/ handler'[h] = handler[h]
<1>1. ASSUME NEW g \in Handlers, g # h, HandlerNext(g) PROVE handler'[h] = handler[h]
  BY <1>1 DEF HandlerNext, CrawlRequest, ParseRequest, CreateRun, FindStopped,
              SupersedeStopped, Launch, RecordExecution, LoadForWrite, LaunchFailed,
              StopRequest, CancelExecution, MarkStopped, DeleteRequest, DeleteSource,
              HandlerDies, Typed
<1>2. ASSUME \/ \E q \in Runs : JobNext(q) \/ Elapse(q)
             \/ \E s \in Sources : FindStalled(s) \/ Reconcile(s)
             \/ \E s \in Sources, st \in SourceStatuses : SetSourceStatus(s, st)
             \/ UNCHANGED vars
      PROVE  handler' = handler
  BY <1>2, JobSteps DEF JobStep, LoadRow, Progress, Retry, Elapse, FindStalled, Reconcile,
                        SetSourceStatus, vars
<1> QED
  BY <1>1, <1>2 DEF Next

\* Of one request: what it holds of rows, before and after a step.
LEMMA RequestFrom ==
    ASSUME Typed, [Next]_vars, NEW h \in Handlers
    PROVE  /\ \/ handler'[h].write = Unread
              \/ handler'[h].write = handler[h].write /\ handler'[h].run = handler[h].run
              \/ /\ handler'[h].run \in Runs
                 /\ Loaded(handler'[h].run, handler'[h].write)
           /\ \/ handler'[h].olds \subseteq handler[h].olds
              \/ \A q \in handler'[h].olds : Loaded(q, Superseding)
<1>1. CASE handler'[h] = handler[h]
  BY <1>1
<1>2. CASE handler'[h] = Idle
  BY <1>2, IdleTyped
<1>3. ASSUME NEW r \in Runs, NEW s \in Sources,
             CrawlRequest(h, r, s) \/ ParseRequest(h, r, s)
      PROVE  handler'[h].write = Unread /\ handler'[h].olds = {}
  BY <1>3 DEF CrawlRequest, ParseRequest, CreateRun, Typed, Idle
<1>4. ASSUME \/ \E r \in Runs : StopRequest(h, r)
             \/ \E s \in Sources : DeleteRequest(h, s)
      PROVE  handler'[h].write = Unread /\ handler'[h].olds = {}
  BY <1>4 DEF StopRequest, DeleteRequest, Typed, Idle
<1>5. CASE FindStopped(h)
  <2>1. /\ handler'[h].write = handler[h].write
        /\ handler'[h].run = handler[h].run
        /\ run' = run
        /\ \A q \in handler'[h].olds : run[q].status = "stopped"
    BY <1>5 DEF FindStopped, Typed, HandlerType
  <2> QED
    BY <2>1 DEF Loaded
<1>6. CASE SupersedeStopped(h) \/ Launch(h) \/ CancelExecution(h)
  <2>1. \/ handler'[h] = Idle
        \/ /\ handler'[h].write = handler[h].write
           /\ handler'[h].run = handler[h].run
           /\ handler'[h].olds \in {{}, handler[h].olds}
    BY <1>6 DEF SupersedeStopped, Launch, CancelExecution, Typed, HandlerType
  <2> QED
    BY <2>1, IdleTyped
<1>7. CASE LoadForWrite(h)
  <2> DEFINE st == IF handler[h].pc = "mark" THEN "stopped" ELSE "failed"
  <2>1. /\ handler'[h].write = Load(handler[h].run, st)
        /\ handler'[h].run = handler[h].run
        /\ handler'[h].olds = handler[h].olds
        /\ run' = run
    BY <1>7 DEF LoadForWrite, Typed, HandlerType
  <2>2. st \in ToWriteAll
    BY DEF ToWriteAll
  <2>3. handler[h].run \in Runs
    BY <1>7 DEF LoadForWrite, Typed, HandlerOK, RequestOK
  <2> HIDE DEF st
  <2> QED
    BY <2>1, <2>2, <2>3 DEF Loaded
<1>8. ASSUME HandlerNext(h)
      PROVE  \/ \E r \in Runs, s \in Sources : CrawlRequest(h, r, s) \/ ParseRequest(h, r, s)
             \/ \E r \in Runs : StopRequest(h, r)
             \/ \E s \in Sources : DeleteRequest(h, s)
             \/ FindStopped(h) \/ SupersedeStopped(h) \/ Launch(h) \/ CancelExecution(h)
             \/ LoadForWrite(h)
             \/ handler'[h] = Idle
  BY <1>8 DEF HandlerNext, RecordExecution, LaunchFailed, MarkStopped, DeleteSource,
              HandlerDies, Typed
<1> QED
  BY <1>1, <1>2, <1>3, <1>4, <1>5, <1>6, <1>7, <1>8, RequestMoves

LEMMA SweepFrom ==
    ASSUME Typed, [Next]_vars, NEW s \in Sources
    PROVE  sweep'[s] \subseteq sweep[s] \/ run' = run
<1>1. ASSUME NEW t \in Sources, FindStalled(t) \/ Reconcile(t)
      PROVE  sweep'[s] \subseteq sweep[s] \/ run' = run
  BY <1>1 DEF FindStalled, Reconcile, Typed
<1>2. ASSUME NEW h \in Handlers, HandlerNext(h) PROVE sweep' = sweep
  BY <1>2 DEF HandlerNext, CrawlRequest, ParseRequest, CreateRun, FindStopped,
              SupersedeStopped, Launch, RecordExecution, LoadForWrite, LaunchFailed,
              StopRequest, CancelExecution, MarkStopped, DeleteRequest, DeleteSource,
              HandlerDies
<1>3. ASSUME NEW r \in Runs, JobNext(r) PROVE sweep' = sweep
  BY <1>3, JobSteps DEF JobStep, LoadRow, Progress, Retry
<1> QED
  BY <1>1, <1>2, <1>3 DEF Next, Elapse, SetSourceStatus, vars

LEMMA PendingFrom ==
    ASSUME Typed, [Next]_vars, NEW q \in Runs, NEW w \in Writes, Pending(q, w)'
    PROVE  Pending(q, w) \/ Loaded(q, w)
<1>1. CASE w = job'[q].write
  BY <1>1, JobWritesFrom DEF Pending
<1>2. ASSUME NEW h \in Handlers, handler'[h].run = q, w = handler'[h].write
      PROVE  Pending(q, w) \/ Loaded(q, w)
  BY <1>2, RequestFrom DEF Pending
<1>3. ASSUME NEW h \in Handlers, q \in handler'[h].olds, w = Superseding
      PROVE  Pending(q, w) \/ Loaded(q, w)
  BY <1>3, RequestFrom DEF Pending
<1>4. ASSUME NEW s \in Sources, q \in sweep'[s], w = Failing
      PROVE  Pending(q, w) \/ Loaded(q, w)
  BY <1>4, SweepFrom DEF Pending, Loaded
<1> QED
  BY <1>1, <1>2, <1>3, <1>4 DEF Pending

\* A row that has just been loaded owes its writes to what it is.
LEMMA LoadedOK ==
    ASSUME Typed, FinishedTold, NEW q \in Runs, NEW w \in Writes, Loaded(q, w)
    PROVE  WriteOK(q, w)
<1>1. ASSUME NEW st \in ToWriteAll, w = Load(q, st)
      PROVE  WriteOK(q, w)
  <2>1. /\ w.to = st
        /\ w.columns = Changes(q, st)
        /\ st \in {"running", "complete", "partial", "failed", "stopped"}
    BY <1>1, LoadTyped DEF ToWriteAll, Statuses, ActiveStatuses, TerminalStatuses
  <2>2. ~Exists(q) => w.columns = {}
    BY <2>1 DEF Changes
  <2>3. Exists(q) =>
          /\ "status" \in w.columns <=> run[q].status # st
          /\ "finished" \in w.columns <=> \/ st \in {"complete", "partial", "failed"}
                                          \/ st = "running" /\ run[q].finished
                                          \/ st = "stopped" /\ ~run[q].finished
    BY <2>1 DEF Changes, Columns
  <2>4. w.columns \subseteq Columns
    BY <2>1 DEF Changes
  <2>5. run[q].status = "queued" => "status" \in w.columns
    BY <2>1, <2>3, StatusFacts DEF Exists
  <2>6. Exists(q) /\ ~run[q].started /\ w.to # "running" =>
          w.columns = Columns \/ ~Active(q)
    <3> SUFFICES ASSUME Exists(q), ~run[q].started, st # "running", Active(q)
                 PROVE  w.columns = Columns
      BY <2>1
    <3>1. run[q].status # st
      BY <2>1, StatusFacts DEF Active
    <3>2. ~run[q].finished
      BY DEF FinishedTold
    <3>3. "status" \in w.columns /\ "finished" \in w.columns
      BY <2>1, <2>3, <3>1, <3>2
    <3> QED
      BY <2>4, <3>3 DEF Columns
  <2>7. w.to = "running" /\ "status" \notin w.columns =>
          run[q].status \notin {"complete", "partial"}
    BY <2>1, <2>3, StatusFacts DEF Exists, Statuses, TerminalStatuses
  <2>8. w.to \in {"complete", "partial", "failed"} /\ w.columns # {} =>
         "finished" \in w.columns
    BY <2>1, <2>2, <2>3
  <2> QED
    BY <2>5, <2>6, <2>7, <2>8 DEF WriteOK
<1>2. CASE w = Superseding /\ run[q].status = "stopped"
  BY <1>2, StatusFacts DEF WriteOK, Superseding, Active
<1>3. CASE w = Failing
  BY <1>3 DEF WriteOK, Failing, Columns
<1> QED
  BY <1>1, <1>2, <1>3 DEF Loaded

\* A run that was not created yet has no job.
Fresh == \A r \in Runs : run[r].status = "none" => job[r].pc = "none"

\* A write that stays pending while others commit theirs.
LEMMA PendingOK ==
    ASSUME Typed, Fresh, WritesOK, RowEffects, NEW q \in Runs, NEW w \in Writes,
           Pending(q, w)
    PROVE  WriteOK(q, w)'
<1>1. WriteOK(q, w)
  BY DEF WritesOK
<1>2. RowEffect(q)
  BY DEF RowEffects
<1>3. CASE Same(q)
  BY <1>1, <1>3 DEF Same, WriteOK, Exists, Active
<1>4. CASE Goes(q)
  BY <1>1, <1>4, StatusFacts DEF Goes, WriteOK, Exists
<1>5. CASE Appears(q)
  <2>1. run[q].status = "none" /\ job[q].pc = "none"
    BY <1>5 DEF Appears, Fresh
  <2> QED
    BY <2>1, PendingFacts DEF JobWrites
<1>6. ASSUME NEW v \in Writes, Commits(q, v)
      PROVE  WriteOK(q, w)'
  <2>1. /\ v # Unread
        /\ Pending(q, v)
        /\ v.to \in TerminalStatuses \cup {"running"}
        /\ run'[q] = Written(q, v)
        /\ WriteOK(q, v)
    BY <1>6, PendingFacts DEF Commits, Pending, WritesOK
  <2>2. CASE v.columns = {}
    <3>1. run'[q] = run[q]
      BY <2>1, <2>2, WrittenFields DEF Typed
    <3> QED
      BY <1>1, <3>1 DEF WriteOK, Exists, Active
  <2>3. CASE v.columns # {}
    <3>1. /\ run'[q].status = IF "status" \in v.columns THEN v.to ELSE run[q].status
          /\ run'[q].started = (run[q].started \/ v.to = "running")
      BY <2>1, <2>3, WrittenFields DEF Typed
    <3>2. Exists(q)
      BY <1>6, <2>3 DEF Commits, Refused
    <3>3. run'[q].status # "queued"
      BY <2>1, <3>1, StatusFacts DEF WriteOK
    <3>4. ~run'[q].started /\ w.to # "running" => w.columns = Columns \/ ~Active(q)'
      <4> SUFFICES ASSUME ~run'[q].started, w.to # "running", w.columns # Columns
                   PROVE  ~Active(q)'
        OBVIOUS
      <4>1. ~run[q].started /\ v.to \in TerminalStatuses
        BY <2>1, <3>1
      <4>2. ~Active(q)
        BY <1>1, <3>2, <4>1 DEF WriteOK
      <4> QED
        BY <3>1, <4>1, <4>2, StatusFacts DEF Active
    <3>5. w.to = "running" /\ "status" \notin w.columns =>
            run'[q].status \notin {"complete", "partial"}
      <4>1. w.to = "running" => v.to \notin {"complete", "partial"}
        BY <2>1, PendingFacts
      <4> QED
        BY <1>1, <3>1, <4>1 DEF WriteOK
    <3> QED
      BY <1>1, <3>3, <3>4, <3>5 DEF WriteOK
  <2> QED
    BY <2>2, <2>3
<1> QED
  BY <1>2, <1>3, <1>4, <1>5, <1>6 DEF RowEffect

LEMMA WritesStep ==
    ASSUME Typed, Fresh, FinishedTold, WritesOK, [Next]_vars
    PROVE  WritesOK'
<1> SUFFICES ASSUME NEW q \in Runs, NEW w \in Writes, Pending(q, w)'
             PROVE  WriteOK(q, w)'
  BY DEF WritesOK
<1>1. CASE Pending(q, w)
  BY <1>1, StepEffect, PendingOK
<1>2. CASE Loaded(q, w)
  <2>1. WriteOK(q, w) /\ run' = run
    BY <1>2, LoadedOK DEF Loaded
  <2> QED
    BY <2>1 DEF WriteOK, Exists, Active
<1> QED
  BY <1>1, <1>2, PendingFrom

-----------------------------------------------------------------------------
(* The deletion of a source.                                               *)

\* A source is written by a stop, a deletion or an admin.
LEMMA SourceSteps ==
    ASSUME [Next]_vars
    PROVE  \/ source' = source
           \/ \E h \in Handlers : MarkStopped(h) \/ DeleteSource(h)
           \/ \E t \in Sources, st \in SourceStatuses : SetSourceStatus(t, st)
<1>1. ASSUME NEW h \in Handlers, HandlerNext(h)
      PROVE  source' = source \/ MarkStopped(h) \/ DeleteSource(h)
  BY <1>1 DEF HandlerNext, CrawlRequest, ParseRequest, CreateRun, FindStopped,
              SupersedeStopped, Launch, RecordExecution, LoadForWrite, LaunchFailed,
              StopRequest, CancelExecution, DeleteRequest, HandlerDies
<1>2. ASSUME NEW r \in Runs, JobNext(r)
      PROVE  source' = source
  BY <1>2, JobSteps DEF JobStep, LoadRow, Progress, Retry
<1> QED
  BY <1>1, <1>2 DEF Next, Elapse, FindStalled, Reconcile, vars

\* A source that a step removes leaves no row behind.
LEMMA SourceEffect ==
    ASSUME Typed, [Next]_vars, NEW s \in Sources, Present(s), ~Present(s)',
           NEW q \in Runs, run'[q].source = s
    PROVE  ~Exists(q)'
<1>1. CASE source' = source
  BY <1>1 DEF Present
<1>2. ASSUME NEW h \in Handlers, MarkStopped(h)
      PROVE  Present(s)'
  <2>1. source' = source \/ \E t : source' = [source EXCEPT ![t].status = "active"]
    BY <1>2 DEF MarkStopped
  <2> QED
    BY <2>1 DEF Typed, SourceType, Present
<1>3. ASSUME NEW t \in Sources, NEW st \in SourceStatuses, SetSourceStatus(t, st)
      PROVE  Present(s)'
  BY <1>3, StatusAssumption DEF SetSourceStatus, Typed, SourceType, Present
<1>4. ASSUME NEW h \in Handlers, DeleteSource(h)
      PROVE  ~Exists(q)'
  <2>1. handler[h].source = s
    BY <1>4 DEF DeleteSource, Typed, SourceType, Present
  <2>2. run'[q] = IF run[q].source = s THEN Gone(run[q]) ELSE run[q]
    BY <1>4, <2>1 DEF DeleteSource
  <2>3. run'[q].status = "gone"
    BY <2>2, GoneFields DEF Typed
  <2> QED
    BY <2>3, StatusFacts DEF Exists
<1> QED
  BY <1>1, <1>2, <1>3, <1>4, SourceSteps

LEMMA GoneStep ==
    ASSUME Typed, GoneTogether, [Next]_vars
    PROVE  GoneTogether'
<1> SUFFICES ASSUME NEW q \in Runs, Exists(q)'
             PROVE  source'[run'[q].source].status # "gone"
  BY DEF GoneTogether, Present
<1>1. StatusEffect(q)
  BY StepEffect, StatusEffects
<1>2. run'[q].source \in Sources /\ Present(run'[q].source)
  <2>1. CASE Exists(q) /\ run'[q].source = run[q].source
    BY <2>1, StatusFacts DEF GoneTogether, Typed, RowsOwned, Exists
  <2>2. CASE Appears(q)
    BY <2>2 DEF Appears
  <2> QED
    BY <1>1, <2>1, <2>2, StatusFacts
       DEF StatusEffect, Keeps, Ends, Goes, Starts, Exists
<1>3. \A s \in Sources : s = run'[q].source => Present(s)'
  BY <1>2, SourceEffect
<1> QED
  BY <1>2, <1>3 DEF Present

-----------------------------------------------------------------------------
(* A job that ended of its own accord.                                     *)

\* Only a job's own step, its launch or its cancellation changes it.
LEMMA JobChanges ==
    ASSUME Typed, [Next]_vars, NEW r \in Runs
    PROVE  \/ job'[r] = job[r]
           \/ JobNext(r)
           \/ job'[r].pc = "boot" /\ run[r].status # "none"
           \/ /\ \E h \in Handlers : CancelExecution(h)
              /\ job'[r].pc = job[r].pc
              /\ job'[r].write = job[r].write
<1>1. ASSUME NEW h \in Handlers, Launch(h)
      PROVE  job'[r] = job[r] \/ (job'[r].pc = "boot" /\ run[r].status # "none")
  <2>1. handler[h].run \in Runs /\ run[handler[h].run].status # "none"
    BY <1>1 DEF Launch, Typed, HandlerOK, RequestOK
  <2>2. Goto(handler[h].run, "boot") \/ job' = job
    BY <1>1 DEF Launch
  <2> QED
    BY <2>1, <2>2, GotoTyped DEF Typed, JobStates
<1>2. ASSUME NEW h \in Handlers, CancelExecution(h)
      PROVE  job'[r].pc = job[r].pc /\ job'[r].write = job[r].write
  <2> DEFINE record == [job[handler[h].run] EXCEPT !.tries = 0]
  <2>1. handler[h].run \in Runs
    BY <1>2 DEF CancelExecution, Typed, HandlerOK, RequestOK
  <2>2. /\ record.pc = job[handler[h].run].pc
        /\ record.write = job[handler[h].run].write
    BY <2>1 DEF Typed, JobType
  <2>3. job' = job \/ job' = [job EXCEPT ![handler[h].run] = record]
    BY <1>2 DEF CancelExecution
  <2> HIDE DEF record
  <2> QED
    BY <2>2, <2>3 DEF Typed
<1>3. ASSUME NEW q \in Runs, q # r, JobNext(q)
      PROVE  job'[r] = job[r]
  <2>1. CASE JobStep(q)
    BY <1>3, <2>1, GotoTyped DEF JobStep, Typed
  <2>2. CASE LoadRow(q) \/ Progress(q) \/ Retry(q)
    BY <1>3, <2>2 DEF LoadRow, Progress, Retry, Goto, Typed
  <2> QED
    BY <1>3, <2>1, <2>2, JobSteps
<1>4. \/ \E h \in Handlers : Launch(h) \/ CancelExecution(h)
      \/ \E q \in Runs : JobNext(q)
      \/ job' = job
  <2>1. ASSUME NEW h \in Handlers, HandlerNext(h)
        PROVE  job' = job \/ Launch(h) \/ CancelExecution(h)
    BY <2>1 DEF HandlerNext, CrawlRequest, ParseRequest, CreateRun, FindStopped,
                SupersedeStopped, RecordExecution, LoadForWrite, LaunchFailed, StopRequest,
                MarkStopped, DeleteRequest, DeleteSource, HandlerDies
  <2> QED
    BY <2>1 DEF Next, Elapse, FindStalled, Reconcile, SetSourceStatus, vars
<1> QED
  BY <1>1, <1>2, <1>3, <1>4

\* Where each step of a job goes.
LEMMA JobGoes ==
    ASSUME Typed, NEW r \in Runs, JobNext(r)
    PROVE  \/ Kill(r) /\ job'[r].pc = "killed"
           \/ Retry(r) /\ job'[r].pc = "boot"
           \/ /\ job[r].pc \notin Ended
              /\ job'[r].pc \notin {"none", "killed"}
<1>1. CASE Kill(r)
  BY <1>1, GotoTyped DEF Kill, JobStates, Typed
<1>2. CASE Retry(r)
  BY <1>2 DEF Retry, Typed, JobType
<1>3. CASE Boot(r) \/ EnterBody(r) \/ FinishWork(r) \/ Recheck(r) \/ CheckStopped(r) \/ Raise(r)
  <2>1. \E pc \in JobStates \ {"none", "killed"} : Goto(r, pc)
    BY <1>3 DEF Boot, EnterBody, FinishWork, Recheck, CheckStopped, Raise, JobStates
  <2>2. job'[r].pc \notin {"none", "killed"}
    BY <2>1, GotoTyped DEF Typed
  <2>3. job[r].pc \notin Ended
    BY <1>3 DEF Boot, EnterBody, FinishWork, Recheck, CheckStopped, Raise, Ended
  <2> QED
    BY <2>2, <2>3
<1>4. CASE Start(r) \/ Conclude(r) \/ Seal(r) \/ FailCrawl(r) \/ FailParse(r)
  <2>1. \E pc \in JobStates \ {"none", "killed"} : Goto(r, pc)
    BY <1>4 DEF Start, Conclude, Seal, FailCrawl, FailParse, CommitRow, JobStates
  <2>2. job'[r].pc \notin {"none", "killed"}
    BY <2>1, GotoTyped DEF Typed
  <2>3. job[r].pc \notin Ended
    BY <1>4 DEF Start, Conclude, Seal, FailCrawl, FailParse, Ended
  <2> QED
    BY <2>2, <2>3
<1>5. CASE LoadRow(r)
  BY <1>5 DEF LoadRow, JobWrites, Ended, Typed, JobType
<1>6. CASE Progress(r)
  <2>1. CASE \E pc \in {"recheck", "done"} : Goto(r, pc)
    BY <1>6, <2>1, GotoTyped DEF Progress, Ended, JobStates, Typed
  <2>2. CASE job' = [job EXCEPT ![r].left = @ - 1]
    BY <1>6, <2>2 DEF Progress, Ended, Typed, JobType
  <2> QED
    BY <1>6, <2>1, <2>2 DEF Progress
<1> QED
  BY <1>1, <1>2, <1>3, <1>4, <1>5, <1>6 DEF JobNext

LEMMA FreshStep ==
    ASSUME Typed, Fresh, [Next]_vars
    PROVE  Fresh'
<1> SUFFICES ASSUME NEW r \in Runs, run'[r].status = "none"
             PROVE  job'[r].pc = "none"
  BY DEF Fresh
<1>1. run[r].status = "none"
  <2>1. StatusEffect(r)
    BY StepEffect, StatusEffects
  <2> QED
    BY <2>1, StatusFacts DEF StatusEffect, Keeps, Ends, Goes, Starts, Appears
<1>2. job[r].pc = "none"
  BY <1>1 DEF Fresh
<1>3. ~JobNext(r)
  BY <1>2, JobGoes DEF Kill, Retry, Ended
<1> QED
  BY <1>1, <1>2, <1>3, JobChanges

\* A final write that leaves the status alone found the run ended, and only the
\* job itself would have started it again.
FinalOK ==
    \A r \in Runs : (/\ job[r].write # Unread
                     /\ job[r].pc # "start"
                     /\ "status" \notin job[r].write.columns) => ~Active(r)

LEMMA FinalStep ==
    ASSUME Typed, Fresh, FinalOK, [Next]_vars
    PROVE  FinalOK'
<1> SUFFICES ASSUME NEW r \in Runs, job'[r].write # Unread, job'[r].pc # "start",
                    "status" \notin job'[r].write.columns
             PROVE  ~Active(r)'
  BY DEF FinalOK
<1>1. CASE JobNext(r)
  <2>1. CASE JobStep(r)
    BY <2>1, GotoTyped DEF JobStep, Typed
  <2>2. CASE LoadRow(r)
    <3>1. PICK st \in Target(r) : job' = [job EXCEPT ![r].write = Load(r, st)]
      BY <2>2 DEF LoadRow
    <3>2. /\ job'[r].write = Load(r, st)
          /\ job'[r].pc = job[r].pc
          /\ run' = run
      BY <2>2, <3>1 DEF LoadRow, Typed, JobType
    <3>3. st \in ToWrite(job[r].pc) /\ st \in Statuses
      BY <2>2, TargetTyped DEF LoadRow
    <3>4. st \notin ActiveStatuses
      BY <3>2, <3>3 DEF ToWrite, ActiveStatuses
    <3>5. "status" \notin Changes(r, st)
      BY <3>2, <3>3, LoadTyped
    <3>6. ~Active(r)
      BY <3>4, <3>5, StatusFacts DEF Changes, Columns, Exists, Active
    <3> QED
      BY <3>2, <3>6 DEF Active
  <2>3. CASE Progress(r)
    <3>1. CASE \E pc \in {"recheck", "done"} : Goto(r, pc)
      BY <3>1, GotoTyped DEF Typed, JobStates
    <3>2. CASE job' = [job EXCEPT ![r].left = @ - 1]
      <4>1. job'[r].write = job[r].write /\ job[r].pc = "work"
        BY <2>3, <3>2 DEF Progress, Typed, JobType
      <4> QED
        BY <4>1 DEF Typed, JobOK, ToWrite
    <3> QED
      BY <2>3, <3>1, <3>2 DEF Progress
  <2>4. CASE Retry(r)
    <3>1. job'[r].write = job[r].write /\ job[r].pc \in {"errored", "killed"}
      BY <2>4 DEF Retry, Typed, JobType
    <3> QED
      BY <3>1 DEF Typed, JobOK, ToWrite
  <2> QED
    BY <1>1, <2>1, <2>2, <2>3, <2>4, JobSteps
<1>2. CASE job'[r].pc = "boot"
  BY <1>2, TypedStep DEF Typed, JobOK, ToWrite
<1>3. CASE job'[r].pc = job[r].pc /\ job'[r].write = job[r].write
  <2>1. ~Active(r)
    BY <1>3 DEF FinalOK
  <2>2. StatusEffect(r)
    BY StepEffect, StatusEffects
  <2>3. CASE Starts(r)
    BY <2>3, TypedStep DEF Starts, Typed, JobOK, ToWrite
  <2>4. CASE Appears(r)
    <3>1. job[r].pc = "none"
      BY <2>4 DEF Appears, Fresh
    <3> QED
      BY <1>3, <3>1 DEF Typed, JobOK, ToWrite
  <2> QED
    BY <2>1, <2>2, <2>3, <2>4, StatusFacts DEF StatusEffect, Keeps, Ends, Goes, Active
<1> QED
  BY <1>1, <1>2, <1>3, JobChanges

\* The final write of a job leaves its run inactive, also when it raises.
LEMMA CommitSettles ==
    ASSUME Typed, FinalOK, NEW r \in Runs, NEW next, NEW error,
           job[r].pc \in JobWrites \ {"start"}, CommitRow(r, next, error)
    PROVE  ~Active(r)'
<1> DEFINE w == job[r].write
<1>1. /\ w # Unread
      /\ w \in Writes
      /\ w.to \in TerminalStatuses
  BY DEF CommitRow, Typed, JobType, JobOK, ToWrite, JobWrites, TerminalStatuses
<1>2. "status" \notin w.columns => ~Active(r)
  BY <1>1 DEF FinalOK
<1>3. CASE Refused(r, w) /\ run' = run
  BY <1>1, <1>3, StatusFacts DEF Refused, Exists, Active
<1>4. CASE ~Refused(r, w) /\ Update(r, w)
  <2>1. run'[r] = Written(r, w)
    BY <1>4 DEF Update, Typed
  <2>2. run'[r].status = IF "status" \in w.columns THEN w.to ELSE run[r].status
    BY <1>1, <2>1, WrittenFields DEF Typed
  <2> HIDE DEF w
  <2> QED
    BY <1>1, <1>2, <2>2, StatusFacts DEF Active
<1> QED
  BY <1>3, <1>4 DEF CommitRow

\* The step that ends a job leaves its run inactive. A start the index refuses
\* does so because the slot belongs to another run, hence not to this one.
LEMMA JobSettles ==
    ASSUME Typed, OneActivePerSlot, FinalOK, NEW r \in Runs, JobNext(r),
           job'[r].pc \in {"done", "errored"}, job'[r].pc # job[r].pc
    PROVE  ~Active(r)'
<1>1. CASE Boot(r)
  <2>1. run' = run /\ ~Exists(r)
    BY <1>1, GotoTyped DEF Boot, JobStates, Typed
  <2> QED
    BY <2>1, StatusFacts DEF Exists, Active
<1>2. CASE Start(r)
  <2>1. Refused(r, job[r].write) /\ run' = run
    BY <1>2, GotoTyped DEF Start, CommitRow, JobStates, Typed
  <2>2. ~Active(r)
    BY <2>1, StatusFacts DEF Refused, OneActivePerSlot, SlotFree, Exists, Active
  <2> QED
    BY <2>1, <2>2 DEF Active
<1>3. CASE EnterBody(r) \/ Kill(r) \/ Raise(r)
  BY <1>3, GotoTyped DEF EnterBody, Kill, Raise, JobStates, Typed
<1>4. CASE Progress(r) \/ FinishWork(r)
  <2>1. CASE ~Active(r) /\ run' = run
    BY <2>1 DEF Active
  <2>2. CASE \E pc \in {"wrap", "recheck"} : Goto(r, pc)
    BY <2>2, GotoTyped DEF JobStates, Typed
  <2>3. CASE Progress(r) /\ job' = [job EXCEPT ![r].left = @ - 1]
    BY <2>3 DEF Typed, JobType
  <2> QED
    BY <1>4, <2>1, <2>2, <2>3 DEF Progress, FinishWork
<1>5. CASE Conclude(r) \/ Seal(r) \/ FailCrawl(r) \/ FailParse(r)
  BY <1>5, CommitSettles DEF Conclude, Seal, FailCrawl, FailParse, JobWrites
<1>6. CASE Recheck(r) \/ CheckStopped(r)
  <2>1. run' = run /\ run[r].status \in {"stopped", "gone"}
    BY <1>6, GotoTyped DEF Recheck, CheckStopped, JobStates, Typed
  <2> QED
    BY <2>1, StatusFacts DEF Active
<1>7. CASE Retry(r) \/ LoadRow(r)
  BY <1>7 DEF Retry, LoadRow, Typed, JobType
<1> QED
  BY <1>1, <1>2, <1>3, <1>4, <1>5, <1>6, <1>7 DEF JobNext

LEMMA SettledStep ==
    ASSUME Typed, OneActivePerSlot, Fresh, FinalOK, EndedJobSettles, [Next]_vars
    PROVE  EndedJobSettles'
<1> SUFFICES ASSUME NEW r \in Runs, job'[r].pc \in {"done", "errored"}
             PROVE  ~Active(r)'
  BY DEF EndedJobSettles
<1>1. CASE job'[r].pc # job[r].pc
  BY <1>1, JobChanges, JobSettles
<1>2. CASE job'[r].pc = job[r].pc
  <2>1. ~Active(r) /\ run[r].status # "none"
    BY <1>2 DEF EndedJobSettles, Fresh
  <2>2. StatusEffect(r)
    BY StepEffect, StatusEffects
  <2> QED
    BY <2>1, <2>2, StatusFacts DEF StatusEffect, Keeps, Ends, Goes, Starts, Appears, Active
<1> QED
  BY <1>1, <1>2

-----------------------------------------------------------------------------
(* The theorems.                                                           *)

\* What the invariants need of each other: that a job which ended has settled
\* its run rests on the slots, on what its pending write found, and on runs
\* without a row having no job; finished_at on all that is pending.
Safe ==
    /\ Typed
    /\ OneActivePerSlot
    /\ FinishedTold
    /\ WritesOK
    /\ GoneTogether
    /\ Fresh
    /\ FinalOK
    /\ EndedJobSettles

LEMMA SafeInit == Init => Safe
<1> SUFFICES ASSUME Init PROVE Safe
  OBVIOUS
<1>1. \A r \in Runs : /\ run[r].status = "none"
                      /\ job[r].pc = "none"
                      /\ job[r].write = Unread
  BY DEF Init
<1>2. \A r \in Runs : ~Active(r) /\ ~Exists(r)
  BY <1>1, StatusFacts DEF Active, Exists
<1>3. OneActivePerSlot /\ GoneTogether /\ Fresh /\ FinalOK /\ EndedJobSettles
  BY <1>1, <1>2 DEF OneActivePerSlot, GoneTogether, Fresh, FinalOK, EndedJobSettles
<1>4. FinishedTold
  BY <1>1, <1>2 DEF FinishedTold
<1>5. WritesOK
  <2> SUFFICES ASSUME NEW q \in Runs, NEW w \in Writes, Pending(q, w) PROVE FALSE
    BY DEF WritesOK
  <2>1. w = job[q].write /\ w # Unread
    BY <1>1, TypedInit, PendingFacts DEF Pending
  <2> QED
    BY <1>1, <2>1
<1> QED
  BY <1>3, <1>4, <1>5, TypedInit DEF Safe

LEMMA SafeStep == Safe /\ [Next]_vars => Safe'
BY TypedStep, StepEffect, OneActiveStep, FinishedStep, WritesStep, GoneStep, FreshStep,
   FinalStep, SettledStep DEF Safe

LEMMA SafeAlways == Spec => []Safe
BY SafeInit, SafeStep, PTL DEF Spec

\* Whatever handlers, jobs and retries do, and however late they do it: never
\* two active runs of one kind for one source.
THEOREM NeverTwoActive == Spec => []OneActivePerSlot
<1>1. Safe => OneActivePerSlot
  BY DEF Safe
<1> QED
  BY <1>1, SafeAlways, PTL

\* What finished_at still tells although status and finished_at may be written
\* by two sessions: whether a row that no job has started has ended, that a
\* queued one has not and that a completed one has.
THEOREM FinishedKept == Spec => []FinishedTold
<1>1. Safe => FinishedTold
  BY DEF Safe
<1> QED
  BY <1>1, SafeAlways, PTL

\* No row of a deleted source is left, or comes back.
THEOREM DeletedTogether == Spec => []GoneTogether
<1>1. Safe => GoneTogether
  BY DEF Safe
<1> QED
  BY <1>1, SafeAlways, PTL

\* A job that ends of its own accord leaves its run inactive.
THEOREM JobsSettle == Spec => []EndedJobSettles
<1>1. Safe => EndedJobSettles
  BY DEF Safe
<1> QED
  BY <1>1, SafeAlways, PTL


-----------------------------------------------------------------------------
(* Who drives a queued run.                                                *)

\* A row becomes queued by being created, and its request then holds it.
LEMMA QueuedByCreation ==
    ASSUME Typed, [Next]_vars, NEW r \in Runs,
           run'[r].status = "queued", run[r].status # "queued"
    PROVE  \E h \in Handlers : handler'[h].run = r /\ handler'[h].pc = "created"
<1>1. StatusEffect(r)
  BY StepEffect, StatusEffects
<1> QED
  BY <1>1, StatusFacts DEF StatusEffect, Keeps, Ends, Goes, Starts, Appears, TerminalStatuses

\* A row that is gone went with its source, and the runs that a resume found are
\* of the source of the run it launches.
Buried == \A r \in Runs : run[r].status = "gone" => ~Present(run[r].source)
Siblings ==
    \A h \in Handlers : \A q \in handler[h].olds : run[q].source = run[handler[h].run].source

LEMMA RowKeepsSource ==
    ASSUME Typed, [Next]_vars, NEW r \in Runs, run[r].status # "none"
    PROVE  run'[r].source = run[r].source
<1>1. StatusEffect(r)
  BY StepEffect, StatusEffects
<1> QED
  BY <1>1 DEF StatusEffect, Keeps, Ends, Goes, Starts, Appears

LEMMA SourceStaysGone ==
    ASSUME Typed, [Next]_vars, NEW s \in Sources, ~Present(s)
    PROVE  ~Present(s)'
<1>1. CASE source' = source
  BY <1>1 DEF Present
<1>2. ASSUME NEW h \in Handlers, MarkStopped(h) \/ DeleteSource(h)
      PROVE  ~Present(s)'
  <2>1. CASE MarkStopped(h)
    <3>1. \/ source' = source
          \/ /\ Present(handler[h].source)
             /\ source' = [source EXCEPT ![handler[h].source].status = "active"]
      BY <2>1 DEF MarkStopped
    <3> QED
      BY <3>1 DEF Typed, SourceType, Present
  <2>2. CASE DeleteSource(h)
    BY <2>2 DEF DeleteSource, Typed, SourceType, Present
  <2> QED
    BY <1>2, <2>1, <2>2
<1>3. ASSUME NEW t \in Sources, NEW st \in SourceStatuses, SetSourceStatus(t, st)
      PROVE  ~Present(s)'
  BY <1>3 DEF SetSourceStatus, Typed, SourceType, Present
<1> QED
  BY <1>1, <1>2, <1>3, SourceSteps

LEMMA BuriedStep ==
    ASSUME Typed, Buried, [Next]_vars
    PROVE  Buried'
<1> SUFFICES ASSUME NEW r \in Runs, run'[r].status = "gone"
             PROVE  source'[run'[r].source].status = "gone"
  BY DEF Buried, Present
<1>1. StatusEffect(r)
  BY StepEffect, StatusEffects
<1>2. CASE run[r].status = "gone"
  <2>1. run[r].source \in Sources /\ ~Present(run[r].source)
    BY <1>2 DEF Buried, Typed, RowsOwned
  <2>2. \A s \in Sources : s = run[r].source => ~Present(s)'
    BY <2>1, SourceStaysGone
  <2> QED
    BY <1>2, <2>1, <2>2, RowKeepsSource DEF Present
<1>3. CASE run[r].status # "gone"
  BY <1>1, <1>3, StatusFacts DEF StatusEffect, Keeps, Ends, Goes, Starts, Appears
<1> QED
  BY <1>2, <1>3

LEMMA SiblingsStep ==
    ASSUME Typed, Siblings, [Next]_vars
    PROVE  Siblings'
<1> SUFFICES ASSUME NEW h \in Handlers, NEW q \in handler'[h].olds
             PROVE  run'[q].source = run'[handler'[h].run].source
  BY DEF Siblings
<1>1. /\ handler'[h].pc = "resume"
      /\ q \in Runs
      /\ handler'[h].run \in Runs
  BY TypedStep DEF Typed, HandlerOK, RequestOK
<1>2. CASE handler'[h] = handler[h]
  <2>1. /\ run[q].status # "none"
        /\ run[handler[h].run].status # "none"
        /\ run[q].source = run[handler[h].run].source
    BY <1>1, <1>2 DEF Typed, HandlerOK, RequestOK, Siblings
  <2> QED
    BY <1>1, <1>2, <2>1, RowKeepsSource
<1>3. CASE FindStopped(h)
  <2>1. /\ run' = run
        /\ handler'[h].run = handler[h].run
        /\ run[q].source = run[handler[h].run].source
    BY <1>3 DEF FindStopped, Typed, HandlerType
  <2> QED
    BY <2>1
<1>4. ASSUME \/ \E r \in Runs, s \in Sources : CrawlRequest(h, r, s) \/ ParseRequest(h, r, s)
             \/ \E r \in Runs : StopRequest(h, r)
             \/ \E s \in Sources : DeleteRequest(h, s)
      PROVE  FALSE
  <2>1. ASSUME NEW r \in Runs, NEW s \in Sources,
               CrawlRequest(h, r, s) \/ ParseRequest(h, r, s)
        PROVE  handler'[h].pc = "created"
    BY <2>1 DEF CrawlRequest, ParseRequest, CreateRun, Idle, Typed
  <2>2. ASSUME NEW r \in Runs, StopRequest(h, r)
        PROVE  handler'[h].pc = "cancel"
    BY <2>2 DEF StopRequest, Idle, Typed
  <2>3. ASSUME NEW s \in Sources, DeleteRequest(h, s)
        PROVE  handler'[h].pc = "delete"
    BY <2>3 DEF DeleteRequest, Idle, Typed
  <2> QED
    BY <1>1, <1>4, <2>1, <2>2, <2>3
<1>5. CASE SupersedeStopped(h) \/ Launch(h) \/ LoadForWrite(h) \/ CancelExecution(h)
  <2>1. \/ handler'[h] = Idle
        \/ handler'[h].pc \in {"launch", "unlaunched", "record", "mark"}
    BY <1>5 DEF SupersedeStopped, Launch, LoadForWrite, CancelExecution, Typed, HandlerType
  <2> QED
    BY <1>1, <2>1, IdleTyped
<1>6. CASE \/ RecordExecution(h) \/ LaunchFailed(h) \/ MarkStopped(h) \/ DeleteSource(h)
           \/ HandlerDies(h)
  <2>1. handler'[h] = Idle
    BY <1>6 DEF RecordExecution, LaunchFailed, MarkStopped, DeleteSource, HandlerDies, Typed
  <2> QED
    BY <1>1, <2>1, IdleTyped
<1> QED
  BY <1>1, <1>2, <1>3, <1>4, <1>5, <1>6, RequestMoves DEF HandlerNext

\* The requests that are to launch a run.
Launching == {"created", "resume", "launch", "unlaunched"}

\* A request that drives a run drives it on, hands it to its job, or fails it;
\* or it dies.
LEMMA RequestDrives ==
    ASSUME Typed, WritesOK, GoneTogether, Buried, Siblings, [Next]_vars,
           NEW h \in Handlers, NEW r \in Runs, handler[h].run = r,
           handler[h].pc \in Launching, ~HandlerDies(h)
    PROVE  \/ handler'[h].run = r /\ handler'[h].pc \in Launching
           \/ job'[r].pc = "boot"
           \/ run'[r].status # "queued"
<1>1. handler[h] # Idle
  BY DEF Idle, Launching
<1>2. CASE FindStopped(h) \/ LoadForWrite(h)
  BY <1>2 DEF FindStopped, LoadForWrite, Launching, Typed, HandlerType
<1>3. CASE SupersedeStopped(h)
  <2>1. CASE \E q \in handler[h].olds : Refused(q, Superseding) /\ run' = run
    <3>1. PICK q \in handler[h].olds : Refused(q, Superseding)
      BY <2>1
    <3>2. q \in Runs /\ run[q].status # "none"
      BY DEF Typed, HandlerOK, RequestOK
    <3>3. ~Exists(q)
      BY <3>1, StatusFacts DEF Refused, Superseding
    <3>4. run[q].status = "gone"
      BY <3>2, <3>3 DEF Typed, RowType, RowStates, Exists
    <3>5. ~Present(run[r].source)
      BY <3>2, <3>4 DEF Buried, Siblings
    <3> QED
      BY <2>1, <3>5, StatusFacts DEF GoneTogether, Exists
  <2>2. CASE handler' = [handler EXCEPT ![h].pc = "launch", ![h].olds = {}]
    BY <2>2 DEF Launching, Typed, HandlerType
  <2> QED
    BY <1>3, <2>1, <2>2 DEF SupersedeStopped, Superseding
<1>4. CASE Launch(h)
  <2>1. PICK accepted \in BOOLEAN, raised \in BOOLEAN :
          /\ accepted \/ raised
          /\ IF accepted THEN Goto(r, "boot") ELSE job' = job
          /\ handler' = [handler EXCEPT ![h].pc = IF raised THEN "unlaunched" ELSE "record"]
    BY <1>4 DEF Launch
  <2>2. CASE accepted
    BY <2>1, <2>2, GotoTyped DEF Typed, JobStates
  <2>3. CASE raised
    BY <2>1, <2>3 DEF Launching, Typed, HandlerType
  <2> QED
    BY <2>1, <2>2, <2>3
<1>5. CASE LaunchFailed(h)
  <2> DEFINE w == handler[h].write
  <2>1. /\ w # Unread
        /\ w \in Writes
        /\ w.to = "failed"
        /\ Pending(r, w)
    BY <1>5 DEF LaunchFailed, Pending, Typed, HandlerType, HandlerOK, RequestOK
  <2>2. WriteOK(r, w)
    BY <2>1 DEF WritesOK
  <2>3. CASE Refused(r, w) /\ run' = run
    BY <2>1, <2>3, StatusFacts DEF Refused, Exists
  <2>4. CASE ~Refused(r, w) /\ Update(r, w)
    <3>1. run'[r] = Written(r, w)
      BY <2>4 DEF Update, Typed
    <3>2. run'[r].status = IF "status" \in w.columns THEN "failed" ELSE run[r].status
      BY <2>1, <3>1, WrittenFields DEF Typed
    <3> HIDE DEF w
    <3> QED
      BY <2>2, <3>2 DEF WriteOK
  <2> QED
    BY <1>5, <2>3, <2>4 DEF LaunchFailed
<1>6. ASSUME HandlerNext(h)
      PROVE  \/ FindStopped(h) \/ LoadForWrite(h) \/ SupersedeStopped(h)
             \/ Launch(h) \/ LaunchFailed(h)
  BY <1>1, <1>6 DEF HandlerNext, CrawlRequest, ParseRequest, CreateRun, RecordExecution,
                    StopRequest, CancelExecution, MarkStopped, DeleteRequest, DeleteSource,
                    Launching
<1> QED
  BY <1>2, <1>3, <1>4, <1>5, <1>6, RequestMoves

\* The end of a job is a kill, or settles its run.
LEMMA JobEnds ==
    ASSUME Typed, OneActivePerSlot, FinalOK, NEW r \in Runs, JobNext(r),
           job[r].pc \notin Ended, job'[r].pc \in Ended
    PROVE  Kill(r) \/ ~Active(r)'
<1>1. Kill(r) \/ job'[r].pc \in {"done", "errored"}
  BY JobGoes DEF Ended, Retry
<1>2. job'[r].pc # job[r].pc
  OBVIOUS
<1> QED
  BY <1>1, <1>2, JobSettles

\* What driving rests on.
Steered == Safe /\ Buried /\ Siblings

LEMMA SteeredAlways == Spec => []Steered
<1>1. Init => Steered
  <2> SUFFICES ASSUME Init PROVE Buried /\ Siblings
    BY SafeInit DEF Steered
  <2> QED
    BY IdleTyped DEF Init, Buried, Siblings
<1>2. Steered /\ [Next]_vars => Steered'
  BY SafeStep, BuriedStep, SiblingsStep DEF Steered, Safe
<1> QED
  BY <1>1, <1>2, PTL DEF Spec

\* Only a crash, or a cancellation, takes a queued run from whoever drives it.
LEMMA DrivenOn ==
    ASSUME Steered, [Next]_vars, NEW r \in Runs, Driven(r), run'[r].status = "queued",
           \A h \in Handlers : ~HandlerDies(h) /\ ~CancelExecution(h), ~Kill(r)
    PROVE  Driven(r)'
<1>1. /\ Typed
      /\ OneActivePerSlot
      /\ FinalOK
      /\ WritesOK
      /\ GoneTogether
      /\ Buried
      /\ Siblings
  BY DEF Steered, Safe
<1>2. Active(r)'
  BY StatusFacts DEF Active
<1>3. job'[r].pc = "boot" => Driven(r)'
  BY DEF Driven, Ended
<1>4. CASE job[r].pc \notin Ended
  <2>1. CASE job'[r].pc \notin Ended
    BY <2>1 DEF Driven
  <2>2. CASE job'[r].pc \in Ended
    <3>1. job'[r] # job[r]
      BY <1>4, <2>2
    <3>2. JobNext(r)
      BY <1>1, <2>2, <3>1, JobChanges DEF Ended
    <3> QED
      BY <1>1, <1>2, <1>4, <2>2, <3>2, JobEnds
  <2> QED
    BY <2>1, <2>2
<1>5. CASE job[r].pc = "killed" /\ job[r].tries > 0
  <2>1. JobNext(r) => job'[r].pc = "boot"
    BY <1>1, <1>5, JobGoes DEF Ended
  <2>2. job'[r] = job[r] \/ job'[r].pc = "boot"
    BY <1>1, <2>1, JobChanges
  <2> QED
    BY <1>3, <1>5, <2>2 DEF Driven
<1>6. ASSUME NEW h \in Handlers, handler[h].run = r, handler[h].pc \in Launching
      PROVE  Driven(r)'
  BY <1>1, <1>3, <1>6, RequestDrives DEF Driven, Launching
<1> QED
  BY <1>4, <1>5, <1>6 DEF Driven, Launching

\* A launch that raises, a start the index refuses, a failure that is recorded:
\* none of them strands a queued run. Only a crash does, of the API or of the
\* container, or a cancellation (main.py, _launch_source_run; web_api.py).
THEOREM StrandedByCrash == Spec => StrandedOnlyByCrash
<1> DEFINE Only == \A r \in Runs : Stranded(r)' => \/ Stranded(r)
                                                   \/ \E h \in Handlers : HandlerDies(h)
                                                   \/ \E h \in Handlers : CancelExecution(h)
                                                   \/ Kill(r)
<1>1. Steered /\ [Next]_vars => [Only]_vars
  <2> SUFFICES ASSUME Steered, [Next]_vars, NEW r \in Runs, Stranded(r)', ~Stranded(r),
                      \A h \in Handlers : ~HandlerDies(h) /\ ~CancelExecution(h), ~Kill(r)
               PROVE  FALSE
    OBVIOUS
  <2>1. run'[r].status = "queued" /\ ~Driven(r)'
    BY DEF Stranded
  <2>2. CASE run[r].status = "queued"
    <3>1. Driven(r)
      BY <2>2 DEF Stranded
    <3> QED
      BY <2>1, <3>1, DrivenOn
  <2>3. CASE run[r].status # "queued"
    BY <2>1, <2>3, QueuedByCreation DEF Steered, Safe, Driven
  <2> QED
    BY <2>2, <2>3
<1> QED
  BY <1>1, SteeredAlways, PTL DEF Spec, StrandedOnlyByCrash

-----------------------------------------------------------------------------
(* The life cycle implements the slots.                                    *)

Slot(r) == <<run[r].source, run[r].kind>>

LEMMA Occupants ==
    ASSUME NEW x \in Sources \X Kinds
    PROVE  /\ ActiveRuns[x] = {r \in Runs : Active(r) /\ Slot(r) = x}
           /\ ActiveRuns'[x] = {r \in Runs : Active(r)' /\ Slot(r)' = x}
BY DEF ActiveRuns, Slot

\* Where no row becomes active, every slot is left as it is or emptied.
LEMMA OnlyLeaves ==
    ASSUME OneActivePerSlot,
           \A r \in Runs : Active(r)' => Active(r) /\ Slot(r)' = Slot(r)
    PROVE  RunSlotsOf!Leave
<1>1. ASSUME NEW x \in Sources \X Kinds
      PROVE  ActiveRuns'[x] \in {{}, ActiveRuns[x]}
  <2> SUFFICES ASSUME NEW r \in Runs, r \in ActiveRuns'[x]
               PROVE  ActiveRuns'[x] = ActiveRuns[x]
    BY Occupants
  <2>1. \A q \in Runs : q \in ActiveRuns[x] => q = r
    BY Occupants DEF OneActivePerSlot, Slot
  <2>2. r \in ActiveRuns[x] /\ ActiveRuns'[x] \subseteq ActiveRuns[x]
    BY Occupants
  <2> QED
    BY <2>1, <2>2, Occupants
<1>2. ActiveRuns' \in [Sources \X Kinds -> SUBSET Runs]
  BY DEF ActiveRuns
<1> QED
  BY <1>1, <1>2 DEF RunSlotsOf!Leave

\* A row that becomes active, alone, enters a slot that was empty.
LEMMA OneEnters ==
    ASSUME Typed', NEW q \in Runs, ~Active(q), Active(q)', OnlyRow(q),
           SlotFree(q, run'[q].source, run'[q].kind),
           NEW x \in Sources \X Kinds, x = Slot(q)'
    PROVE  RunSlotsOf!Enter(x, q)
<1>1. \A r \in Runs \ {q} : (Active(r)' <=> Active(r)) /\ Slot(r)' = Slot(r)
  BY DEF OnlyRow, Same, Active, Slot
<1>2. \A r \in Runs \ {q} : Active(r) => Slot(r) # x
  BY DEF SlotFree, Slot
<1>3. ActiveRuns[x] = {}
  BY <1>2, Occupants
<1>4. ASSUME NEW y \in Sources \X Kinds
      PROVE  ActiveRuns'[y] = IF y = x THEN {q} ELSE ActiveRuns[y]
  <2>1. CASE y = x
    BY <1>1, <1>2, <2>1, Occupants
  <2>2. CASE y # x
    <3>1. \A r \in Runs : (Active(r)' /\ Slot(r)' = y) <=> (Active(r) /\ Slot(r) = y)
      BY <1>1, <2>2
    <3> QED
      BY <2>2, <3>1, Occupants
  <2> QED
    BY <2>1, <2>2
<1>5. ActiveRuns' = [ActiveRuns EXCEPT ![x] = {q}]
  <2>1. /\ ActiveRuns' = [y \in Sources \X Kinds |-> ActiveRuns'[y]]
        /\ ActiveRuns = [y \in Sources \X Kinds |-> ActiveRuns[y]]
    BY DEF ActiveRuns
  <2> QED
    BY <1>4, <2>1
<1> QED
  BY <1>3, <1>5 DEF RunSlotsOf!Enter

LEMMA SlotsStep ==
    ASSUME Safe, [Next]_vars
    PROVE  RunSlotsOf!Next
<1>1. RowEffects /\ Typed'
  BY StepEffect, TypedStep DEF Safe
<1>2. CASE \E q \in Runs : ~Active(q) /\ Active(q)'
  <2>1. PICK q \in Runs : ~Active(q) /\ Active(q)'
    BY <1>2
  <2>2. OnlyRow(q) /\ SlotFree(q, run'[q].source, run'[q].kind)
    BY <1>1, <2>1, ActiveBefore DEF Safe
  <2>3. Slot(q)' \in Sources \X Kinds
    BY <1>1, <2>1 DEF Typed, RowsOwned, RowType, Active, ActiveStatuses, Slot
  <2> QED
    BY <1>1, <2>1, <2>2, <2>3, OneEnters DEF RunSlotsOf!Next
<1>3. CASE \A q \in Runs : Active(q)' => Active(q)
  <2>1. ASSUME NEW r \in Runs, Active(r)'
        PROVE  Active(r) /\ Slot(r)' = Slot(r)
    <3>1. StatusEffect(r)
      BY <1>1, StatusEffects DEF Safe
    <3> QED
      BY <1>3, <2>1, <3>1, StatusFacts
         DEF StatusEffect, Keeps, Ends, Goes, Starts, Appears, Active, Slot
  <2> QED
    BY <2>1, OnlyLeaves DEF Safe, RunSlotsOf!Next
<1> QED
  BY <1>2, <1>3

\* The rows of source_runs, slot by slot, behave as the index promises: every
\* step of the life cycle is a step of RunSlots or changes no slot.
THEOREM SlotsImplemented == Spec => ImplementsRunSlots
<1>1. Init => RunSlotsOf!Init
  BY StatusFacts DEF Init, RunSlotsOf!Init, ActiveRuns, Active
<1>2. Safe /\ [Next]_vars => [RunSlotsOf!Next]_ActiveRuns
  BY SlotsStep
<1> QED
  BY <1>1, <1>2, SafeAlways, PTL DEF Spec, ImplementsRunSlots, RunSlotsOf!Spec
=============================================================================
