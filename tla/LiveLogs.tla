------------------------------ MODULE LiveLogs ------------------------------
(***************************************************************************)
(* live_logs.py: writers that append lines to a capped table, each in a    *)
(* transaction of its own, and one stream that polls the table from a      *)
(* cursor. A line has the time at which its writer made it, which is       *)
(* before the transaction that commits it, and a random id.                *)
(***************************************************************************)
EXTENDS Naturals, FiniteSets, FiniteSetsExt

CONSTANTS Writers, Ids,
          Cap,      \* LOG_CAP
          Replay,   \* INITIAL_REPLAY_LIMIT
          MaxTime   \* bound of this model on the clock

VARIABLES clock,
          table,   \* committed lines
          write,   \* where each writer is, its line and the lines it deletes
          cursor,  \* last_timestamp of the stream, 0 when it has seen no line
          seen,    \* ids the stream remembers
          shown,   \* lines it has sent
          passed   \* lines out of its reach: committed behind its cursor, or
                   \* older than the replay it began with

logVars == <<clock, table, write, cursor, seen, shown, passed>>

Lines == [time : 1..MaxTime, id : Ids]
Newer(a, b) == a.time > b.time \/ (a.time = b.time /\ a.id > b.id)
\* The n newest lines (order by timestamp desc, id desc limit n).
Newest(lines, n) == {a \in lines : Cardinality({b \in lines : Newer(b, a)}) < n}
Writing == {w \in Writers : write[w].pc # "idle"}
Used == {a.id : a \in table \cup shown \cup passed} \cup {write[w].line.id : w \in Writing}

Idle == [pc |-> "idle"]
LogInit ==
    /\ clock = 1 /\ table = {} /\ write = [w \in Writers |-> Idle]
    /\ cursor = 0 /\ seen = {} /\ shown = {} /\ passed = {}

Tick ==
    /\ clock < MaxTime
    /\ clock' = clock + 1
    /\ UNCHANGED <<table, write, cursor, seen, shown, passed>>

\* append_log: the line is made, and inserted in the transaction.
Append(w) ==
    /\ write[w].pc = "idle"
    /\ \E id \in Ids \ Used :
        write' = [write EXCEPT ![w] = [pc |-> "trim", line |-> [time |-> clock, id |-> id]]]
    /\ UNCHANGED <<clock, table, cursor, seen, shown, passed>>

\* What the delete statement sees: lines committed by then, and its own.
Trim(w) ==
    /\ write[w].pc = "trim"
    /\ LET visible == table \cup {write[w].line} IN
       write' = [write EXCEPT ![w] = [pc |-> "commit", line |-> write[w].line,
                                      doomed |-> visible \ Newest(visible, Cap)]]
    /\ UNCHANGED <<clock, table, cursor, seen, shown, passed>>

Commit(w) ==
    LET line == write[w].line IN
    /\ write[w].pc = "commit"
    /\ table' = (table \cup {line}) \ write[w].doomed
    /\ passed' = IF line.time < cursor THEN passed \cup {line} ELSE passed
    /\ write' = [write EXCEPT ![w] = Idle]
    /\ UNCHANGED <<clock, cursor, seen, shown>>

\* Any failure of an append is swallowed, and the transaction with it.
Swallow(w) ==
    /\ write[w].pc \in {"trim", "commit"}
    /\ write' = [write EXCEPT ![w] = Idle]
    /\ UNCHANGED <<clock, table, cursor, seen, shown, passed>>

\* subscribe_logs: lines are sent in order and the cursor follows them.
Sends(lines) ==
    /\ shown' = shown \cup lines
    /\ cursor' = Max({a.time : a \in lines} \cup {cursor})

\* Of more than Cap ids any Cap are kept: they are a set.
Kept(ids) == IF Cardinality(ids) > Cap THEN kSubset(Cap, ids) ELSE {ids}

\* A stream begins with the newest lines, or, where it had found none, with all.
Join ==
    /\ cursor = 0 /\ table # {}
    /\ \E replayed \in {Newest(table, Replay), table} :
        /\ Sends(replayed)
        /\ seen' \in Kept({a.id : a \in replayed})
        /\ passed' = passed \cup {a \in table \ replayed : a.time < cursor'}
    /\ UNCHANGED <<clock, table, write>>

\* Lines at the cursor's own time are read again: they may have been committed
\* since. Variant: the cursor is excluded.
After(a) == a.time > cursor
Since(a) == a.time >= cursor

Poll ==
    LET fresh == {a \in table : Since(a) /\ a.id \notin seen} IN
    /\ cursor # 0 /\ fresh # {}
    /\ Sends(fresh)
    /\ seen' \in Kept(seen \cup {a.id : a \in fresh})
    /\ UNCHANGED <<clock, table, write, passed>>

LogNext ==
    \/ Tick \/ Join \/ Poll
    \/ \E w \in Writers : Append(w) \/ Trim(w) \/ Commit(w) \/ Swallow(w)
-----------------------------------------------------------------------------
\* A line that is committed is sent, whatever other lines are written, trimmed
\* or committed meanwhile, unless it was trimmed first, or was committed behind
\* the cursor or before what the stream replays at first.
LinesArrive ==
    \A a \in Lines : a \in table ~> (a \in shown \/ a \in passed \/ a \notin table)
=============================================================================
