--------------------------- MODULE ProgressStream ---------------------------
(***************************************************************************)
(* progress.py: a stream of a run's progress polls the row and ends with a *)
(* final event. The row is written by others: RunLifecycle says which      *)
(* writes follow which; here they come in any order, a status with or      *)
(* without new stats. Of the stats only their own "status" matters.        *)
(***************************************************************************)
EXTENDS Naturals

CONSTANT MaxStarts   \* bound of this model: how often the job starts

Terminal == {"complete", "failed", "partial", "stopped", "superseded"}
Final == {"complete", "failed"}
NoStats == "none"

VARIABLES run,     \* the row: its status ("gone" once deleted) and stats
          starts,  \* starts of the job so far
          stream,  \* polling or ended
          sent     \* signature and event the stream has sent last

progressVars == <<run, starts, stream, sent>>

ProgressInit ==
    /\ run = [status |-> "queued", stats |-> NoStats]
    /\ starts = 0 /\ stream = "polling" /\ sent = <<>>

Writes(status, stats) ==
    /\ run.status # "gone"
    /\ run' = [status |-> status, stats |-> stats]
    /\ UNCHANGED <<stream, sent>>

\* The job starts, also for a run that is over: the stats stay as they are.
StartJob ==
    /\ starts < MaxStarts /\ starts' = starts + 1
    /\ Writes("running", run.stats)
\* Progress is reported until the job notices that the run was stopped.
Report == UNCHANGED starts /\ run.status # "queued" /\ Writes(run.status, "running")
\* The last update of a runner: status and stats at once. Only a failed run has
\* failed stats.
Conclude ==
    /\ UNCHANGED starts /\ run.status \notin {"queued", "gone"}
    /\ \E s \in {"complete", "failed", "partial", "stopped"} :
        Writes(s, IF s = "failed" THEN "failed" ELSE "complete")
\* A parse that raises writes its stats and leaves the status to the job.
FailStats == UNCHANGED starts /\ run.status # "queued" /\ Writes(run.status, "failed")
\* The job, the stop of a run, its replacement and maintenance write the status alone.
Mark ==
    /\ UNCHANGED starts
    /\ \E s \in {"complete", "failed", "stopped", "superseded"} : Writes(s, run.stats)
Delete == UNCHANGED starts /\ Writes("gone", run.stats)

-----------------------------------------------------------------------------
\* _event_from_run: the status an event shows.
\* Variant: what a final row shows when its stats do not say.
Unmapped(status, stats) == IF stats = NoStats THEN status ELSE stats
EventStatus(status, stats) ==
    LET shows == IF stats = NoStats THEN status ELSE stats IN
    IF status \in Terminal /\ shows \notin Final
    THEN IF status = "failed" THEN "failed" ELSE "complete"
    ELSE shows

\* One round of subscribe: an event when the signature changed, and the end
\* with a final row or a final event.
Poll ==
    /\ stream = "polling" /\ UNCHANGED <<run, starts>>
    /\ LET signature == <<run.status, run.stats>>
           event == IF run.status = "gone" THEN "failed" ELSE EventStatus(run.status, run.stats)
       IN  /\ sent' = IF sent # <<>> /\ sent[1] = signature THEN sent ELSE <<signature, event>>
           /\ stream' = IF run.status \in Terminal \cup {"gone"} \/ event \in Final
                        THEN "ended" ELSE stream
    /\ <<stream, sent>>' # <<stream, sent>>

ProgressNext == StartJob \/ Report \/ Conclude \/ FailStats \/ Mark \/ Delete \/ Poll

ProgressSpec == ProgressInit /\ [][ProgressNext]_progressVars
-----------------------------------------------------------------------------
\* Whatever is written to the row and in whichever order, the last event of a
\* stream that ended is one its reader takes for the end. (The page closes its
\* EventSource on such an event only; on any other it connects again, forever.)
LastWord == stream = "ended" => sent[2] \in Final
=============================================================================
