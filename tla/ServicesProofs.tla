--------------------------- MODULE ServicesProofs ---------------------------
(***************************************************************************)
(* Two of the parts that MCServices checks.                                *)
(*                                                                         *)
(* RobotsCache: OneLoadPerOrigin for every set of fetches and every        *)
(* assignment of origins. RobotsInv is inductive: a lock has one holder,   *)
(* whoever loads holds its lock, and while an origin is not loaded all who *)
(* wait for it or load it have the lock of the table.                      *)
(*                                                                         *)
(* ProgressStream: LastWord for any writes to the row. What was sent last  *)
(* is the event of its signature, which for a final row is a final one.    *)
(***************************************************************************)
EXTENDS RobotsCache, ProgressStream, TLAPS

LEMMA InitEstablishes == Init => RobotsInv
  BY DEF Init, RobotsInv, TypeOK, States, LoaderHolds, OneLock, Unloaded, Attempts

LEMMA OriginsAreKnown == \A f \in Fetches : OriginOf(f) \in Origins
  BY DEF Origins

\* A step that moves only the state of one fetch, to none that waits or loads.
LEMMA LeavingKeeps ==
  ASSUME NEW f \in Fetches, RobotsInv,
         pc' \in [Fetches -> States], tries' \in [Fetches -> 0..Attempts - 1],
         \A g \in Fetches \ {f} : pc'[g] = pc[g], pc'[f] \notin {"wait", "load"},
         UNCHANGED <<cache, entry, holder, lock>>
  PROVE  RobotsInv'
  BY DEF RobotsInv, TypeOK, LoaderHolds, OneLock, Unloaded

LEMMA BeginKeeps == ASSUME NEW f \in Fetches, RobotsInv, Begin(f) PROVE RobotsInv'
  <1>1. /\ pc' \in [Fetches -> States] /\ tries' \in [Fetches -> 0..Attempts - 1]
        /\ \A g \in Fetches \ {f} : pc'[g] = pc[g]
        /\ pc'[f] \notin {"wait", "load"}
    BY DEF RobotsInv, TypeOK, Begin, Goes, States
  <1>. QED
    BY <1>1, LeavingKeeps DEF Begin

LEMMA CachedKeeps == ASSUME NEW f \in Fetches, RobotsInv, Cached(f) PROVE RobotsInv'
  <1>1. /\ pc' \in [Fetches -> States] /\ tries' \in [Fetches -> 0..Attempts - 1]
        /\ \A g \in Fetches \ {f} : pc'[g] = pc[g]
        /\ pc'[f] \notin {"wait", "load"}
    BY DEF RobotsInv, TypeOK, Cached, Goes, Verdict, States
  <1>. QED
    BY <1>1, LeavingKeeps DEF Cached

LEMMA CancelKeeps == ASSUME NEW f \in Fetches, RobotsInv, Cancel(f) PROVE RobotsInv'
  <1>1. /\ pc' \in [Fetches -> States] /\ tries' \in [Fetches -> 0..Attempts - 1]
        /\ \A g \in Fetches \ {f} : pc'[g] = pc[g]
        /\ pc'[f] \notin {"wait", "load"}
    BY DEF RobotsInv, TypeOK, Cancel, Goes, States, Attempts
  <1>. QED
    BY <1>1, LeavingKeeps DEF Cancel

LEMMA RequestKeeps == ASSUME NEW f \in Fetches, RobotsInv, Request(f) PROVE RobotsInv'
  <1>1. tries[f] \in 0..Attempts - 1 /\ pc[f] = "request"
    BY DEF RobotsInv, TypeOK, Request
  <1>2. pc' \in [Fetches -> States]
    BY DEF RobotsInv, TypeOK, Request, Goes, States
  <1>3. tries' \in [Fetches -> 0..Attempts - 1]
    BY <1>1 DEF RobotsInv, TypeOK, Request, Attempts
  <1>4. \A g \in Fetches \ {f} : pc'[g] = pc[g]
    BY DEF RobotsInv, TypeOK, Request, Goes
  <1>5. pc'[f] \notin {"wait", "load"}
    BY <1>1 DEF RobotsInv, TypeOK, Request, Goes
  <1>. QED
    BY <1>2, <1>3, <1>4, <1>5, LeavingKeeps DEF Request

\* The lock found is the one of all who wait; a new one is made only where
\* nobody waits, as whoever waits has the one in the table.
LEMMA EnlistKeeps == ASSUME NEW f \in Fetches, RobotsInv, Enlist(f) PROVE RobotsInv'
  <1>. DEFINE o == OriginOf(f)
              l == IF entry[o] = None THEN f ELSE entry[o]
  <1>1. o \in Origins /\ cache[o] = "unknown" /\ l \in Fetches /\ pc[f] = "look"
    BY OriginsAreKnown DEF RobotsInv, TypeOK, Enlist
  <1>2. entry' = [entry EXCEPT ![o] = l] /\ lock' = [lock EXCEPT ![f] = l]
    BY DEF Enlist
  <1>3. pc' = [pc EXCEPT ![f] = "wait"] /\ UNCHANGED <<cache, holder, tries>>
    BY DEF Enlist, Goes
  <1>4. TypeOK'
    BY <1>1, <1>2, <1>3 DEF RobotsInv, TypeOK, States
  <1>5. LoaderHolds' /\ Unloaded'
    BY <1>1, <1>2, <1>3 DEF RobotsInv, TypeOK, LoaderHolds, Unloaded
  <1>6. ASSUME NEW g \in Fetches, pc'[g] \in {"wait", "load"}
        PROVE  lock'[g] \in Fetches
               /\ (cache'[OriginOf(g)] = "unknown" => entry'[OriginOf(g)] = lock'[g])
    <2>1. CASE g = f
      BY <2>1, <1>1, <1>2, <1>3 DEF RobotsInv, TypeOK
    <2>2. CASE g # f
      <3>1. /\ lock'[g] = lock[g] /\ lock[g] \in Fetches
            /\ cache[OriginOf(g)] = "unknown" => entry[OriginOf(g)] = lock[g]
        BY <2>2, <1>2, <1>3, <1>6 DEF RobotsInv, TypeOK, OneLock
      <3>2. lock[g] # None
        BY <3>1, NoneIsNoFetch
      <3>. QED
        BY <3>1, <3>2, <1>1, <1>2, <1>3, OriginsAreKnown DEF RobotsInv, TypeOK
    <2>. QED
      BY <2>1, <2>2
  <1>. QED
    BY <1>4, <1>5, <1>6 DEF RobotsInv, OneLock

LEMMA AcquireKeeps == ASSUME NEW f \in Fetches, RobotsInv, Acquire(f) PROVE RobotsInv'
  <1>1. /\ OriginOf(f) \in Origins /\ pc[f] = "wait"
        /\ lock[f] \in Fetches /\ holder[lock[f]] = None
    BY OriginsAreKnown DEF RobotsInv, OneLock, Acquire
  <1>2. CASE cache[OriginOf(f)] = "unknown"
    <2>1. /\ holder' = [holder EXCEPT ![lock[f]] = f] /\ pc' = [pc EXCEPT ![f] = "load"]
          /\ UNCHANGED <<cache, entry, lock, tries>>
      BY <1>2 DEF Acquire, Goes
    <2>2. TypeOK'
      BY <1>1, <2>1 DEF RobotsInv, TypeOK, States
    <2>3. LoaderHolds'
      BY <1>1, <2>1, NoneIsNoFetch DEF RobotsInv, TypeOK, LoaderHolds
    <2>4. OneLock' /\ Unloaded'
      BY <1>1, <1>2, <2>1 DEF RobotsInv, TypeOK, OneLock, Unloaded
    <2>. QED
      BY <2>2, <2>3, <2>4 DEF RobotsInv
  <1>3. CASE cache[OriginOf(f)] # "unknown"
    <2>1. /\ pc' \in [Fetches -> States] /\ tries' \in [Fetches -> 0..Attempts - 1]
          /\ \A g \in Fetches \ {f} : pc'[g] = pc[g]
          /\ pc'[f] \notin {"wait", "load"}
          /\ UNCHANGED <<cache, entry, holder, lock>>
      BY <1>3 DEF RobotsInv, TypeOK, Acquire, Goes, Verdict, States
    <2>. QED
      BY <2>1, LeavingKeeps
  <1>. QED
    BY <1>2, <1>3

\* The end of a load, whatever it leaves in the table for an origin that is
\* then known, or in place.
LEMMA ReleasingKeeps ==
  ASSUME NEW f \in Fetches, RobotsInv, pc[f] = "load",
         cache' \in [Origins -> {"unknown", "open", "rules"}],
         entry' \in [Origins -> Fetches \cup {None}],
         pc' \in [Fetches -> States], UNCHANGED <<lock, tries>>,
         \A g \in Fetches \ {f} : pc'[g] = pc[g], pc'[f] \notin {"wait", "load"},
         holder' = [holder EXCEPT ![lock[f]] = None],
         \A o \in Origins : cache'[o] = "unknown" => cache[o] = "unknown" /\ entry'[o] = entry[o],
         \A o \in Origins : cache'[o] # "unknown" => o = OriginOf(f) \/ cache[o] # "unknown"
  PROVE  RobotsInv'
  <1>1. lock[f] \in Fetches /\ holder[lock[f]] = f
    BY DEF RobotsInv, LoaderHolds, OneLock
  <1>2. TypeOK'
    BY <1>1 DEF RobotsInv, TypeOK
  <1>3. LoaderHolds'
    BY <1>1 DEF RobotsInv, TypeOK, LoaderHolds, OneLock
  <1>4. OneLock'
    BY OriginsAreKnown DEF RobotsInv, OneLock
  <1>5. ASSUME NEW g \in Fetches, pc'[g] = "load" PROVE cache'[OriginOf(g)] = "unknown"
    <2>1. g # f /\ pc[g] = "load" /\ cache[OriginOf(g)] = "unknown"
      BY <1>5 DEF RobotsInv, Unloaded
    <2>2. OriginOf(g) # OriginOf(f)
      BY <1>1, <2>1 DEF RobotsInv, LoaderHolds, OneLock, Unloaded
    <2>. QED
      BY <2>1, <2>2, OriginsAreKnown
  <1>. QED
    BY <1>2, <1>3, <1>4, <1>5 DEF RobotsInv, Unloaded

LEMMA LoadedKeeps == ASSUME NEW f \in Fetches, RobotsInv, Loaded(f) PROVE RobotsInv'
  <1>1. PICK known \in {"open", "rules"} :
          cache' = [cache EXCEPT ![OriginOf(f)] = known] /\ Goes(f, Verdict(f, known))
    BY DEF Loaded
  <1>2. /\ pc[f] = "load" /\ UNCHANGED <<lock, tries>>
        /\ entry' = [entry EXCEPT ![OriginOf(f)] = None]
        /\ holder' = [holder EXCEPT ![lock[f]] = None]
    BY DEF Loaded
  <1>3. cache' \in [Origins -> {"unknown", "open", "rules"}]
    BY <1>1 DEF RobotsInv, TypeOK
  <1>4. entry' \in [Origins -> Fetches \cup {None}]
    BY <1>2 DEF RobotsInv, TypeOK
  <1>5. /\ pc' \in [Fetches -> States] /\ \A g \in Fetches \ {f} : pc'[g] = pc[g]
        /\ pc'[f] \notin {"wait", "load"}
    BY <1>1 DEF RobotsInv, TypeOK, Goes, Verdict, States
  <1>6. \A o \in Origins :
          /\ cache'[o] = "unknown" => cache[o] = "unknown" /\ entry'[o] = entry[o]
          /\ cache'[o] # "unknown" => o = OriginOf(f) \/ cache[o] # "unknown"
    BY <1>1, <1>2, OriginsAreKnown DEF RobotsInv, TypeOK
  <1>. QED
    BY <1>2, <1>3, <1>4, <1>5, <1>6, ReleasingKeeps

LEMMA LoadFailsKeeps == ASSUME NEW f \in Fetches, RobotsInv, LoadFails(f) PROVE RobotsInv'
  <1>1. /\ pc[f] = "load" /\ UNCHANGED <<cache, entry, lock, tries>>
        /\ holder' = [holder EXCEPT ![lock[f]] = None]
        /\ pc' = [pc EXCEPT ![f] = "failed"]
    BY DEF LoadFails, Left, Goes
  <1>2. /\ pc' \in [Fetches -> States] /\ \A g \in Fetches \ {f} : pc'[g] = pc[g]
        /\ pc'[f] \notin {"wait", "load"}
    BY <1>1 DEF RobotsInv, TypeOK, States
  <1>3. /\ cache' \in [Origins -> {"unknown", "open", "rules"}]
        /\ entry' \in [Origins -> Fetches \cup {None}]
    BY <1>1 DEF RobotsInv, TypeOK
  <1>. QED
    BY <1>1, <1>2, <1>3, ReleasingKeeps

LEMMA StepKeeps == ASSUME RobotsInv, [Next]_vars PROVE RobotsInv'
  <1>1. CASE UNCHANGED vars
    BY <1>1 DEF vars, RobotsInv, TypeOK, LoaderHolds, OneLock, Unloaded
  <1>2. CASE Next
    BY <1>2, BeginKeeps, CachedKeeps, EnlistKeeps, AcquireKeeps, LoadedKeeps,
       LoadFailsKeeps, CancelKeeps, RequestKeeps DEF Next, Step
  <1>. QED
    BY <1>1, <1>2

LEMMA InvSuffices == RobotsInv => OneLoadPerOrigin
  BY DEF RobotsInv, LoaderHolds, OneLock, Unloaded, OneLoadPerOrigin

\* The rules of an origin are never requested twice at a time, nor once they
\* are known (robots_allowed), whichever fetches wait, fail or are cancelled.
THEOREM LoadsAreSingle == Spec => []OneLoadPerOrigin
  <1>1. Spec => []RobotsInv
    BY InitEstablishes, StepKeeps, PTL DEF Spec
  <1>. QED
    BY <1>1, InvSuffices, PTL

-----------------------------------------------------------------------------
(* The stream of a run's progress.                                         *)

EventOf(signature) ==
    IF signature[1] = "gone" THEN "failed" ELSE EventStatus(signature[1], signature[2])

StreamInv ==
    /\ sent # <<>> => sent[2] = EventOf(sent[1])
    /\ LastWord

\* An event of a row that is over or deleted is taken for the end.
LEMMA FinalEvents ==
    ASSUME NEW status \in Terminal \cup {"gone"}, NEW stats
    PROVE  EventOf(<<status, stats>>) \in Final
  BY DEF EventOf, EventStatus, Terminal, Final

LEMMA StreamAtFirst == ProgressInit => StreamInv
  BY DEF ProgressInit, StreamInv, LastWord

LEMMA StreamPolls == ASSUME StreamInv, Poll PROVE StreamInv'
  <1>1. PICK signature : signature = <<run.status, run.stats>>
    OBVIOUS
  <1>2. PICK event : event = EventOf(signature)
    OBVIOUS
  <1>3. /\ stream = "polling"
        /\ sent' = IF sent # <<>> /\ sent[1] = signature THEN sent ELSE <<signature, event>>
        /\ stream' = IF run.status \in Terminal \cup {"gone"} \/ event \in Final
                     THEN "ended" ELSE stream
    BY <1>1, <1>2 DEF Poll, EventOf
  <1>4. sent' # <<>> /\ sent'[1] = signature /\ sent'[2] = event
    BY <1>2, <1>3 DEF StreamInv
  <1>5. stream' = "ended" => event \in Final
    BY <1>1, <1>2, <1>3, FinalEvents
  <1>6. EventOf(sent[1])' = EventOf(signature)
    BY <1>4 DEF EventOf, EventStatus
  <1> QED  BY <1>2, <1>4, <1>5, <1>6 DEF StreamInv, LastWord, Final

LEMMA StreamStep == ASSUME StreamInv, [ProgressNext]_progressVars PROVE StreamInv'
  <1>1. CASE Poll
    BY <1>1, StreamPolls
  <1>2. CASE ~Poll
    <2>1. UNCHANGED <<stream, sent>>
      BY <1>2 DEF ProgressNext, progressVars, StartJob, Report, Conclude,
         FailStats, Mark, Delete, Writes
    <2> QED  BY <2>1 DEF StreamInv, EventOf, EventStatus, LastWord, Final, Terminal
  <1> QED  BY <1>1, <1>2

\* The last event of a progress stream that ended is one its reader takes for
\* the end, whatever is written to the row and however often the job starts
\* (progress.py subscribe, _event_from_run).
THEOREM StreamsEndFinal == ProgressSpec => []LastWord
  <1>1. StreamInv => LastWord
    BY DEF StreamInv
  <1> QED  BY <1>1, StreamAtFirst, StreamStep, PTL DEF ProgressSpec
=============================================================================
