----------------------------- MODULE RobotsCache -----------------------------
(***************************************************************************)
(* fetcher.py: the fetches of one process (asyncio tasks on one event      *)
(* loop) that share the rules of robots.txt per origin. A fetch runs alone *)
(* from one await to the next, so the dictionary lock, never held across   *)
(* an await, is part of the step that takes it; the load locks are held    *)
(* across the request for robots.txt. A load lock is an object, named here *)
(* by the fetch that made it.                                              *)
(***************************************************************************)
EXTENDS Naturals, FiniteSets

CONSTANTS Fetches,      \* calls of fetch_url
          OriginOf(_),  \* scheme and host of the URL of a fetch
          Malformed,    \* fetches of a URL without http(s) scheme or host
          Disallowed,   \* fetches the rules of their origin forbid, if it has any
          None

ASSUME NoneIsNoFetch == None \notin Fetches

Origins == {OriginOf(f) : f \in Fetches}
Attempts == 3  \* RETRY_COUNT + 1

VARIABLES cache,  \* _ROBOTS_CACHE: what is known of each origin
          entry,  \* _ROBOTS_LOAD_LOCKS: the lock of an origin that is loading
          holder, \* who holds each lock
          lock,   \* the lock each fetch has found
          pc,     \* where each fetch is
          tries   \* its requests so far that are to be repeated

vars == <<cache, entry, holder, lock, pc, tries>>

States == {"start", "look", "wait", "load", "request", "answered", "refused", "failed"}
TypeOK ==
    /\ cache \in [Origins -> {"unknown", "open", "rules"}]
    /\ entry \in [Origins -> Fetches \cup {None}]
    /\ holder \in [Fetches -> Fetches \cup {None}]
    /\ lock \in [Fetches -> Fetches \cup {None}]
    /\ pc \in [Fetches -> States]
    /\ tries \in [Fetches -> 0..Attempts - 1]

Init ==
    /\ cache = [o \in Origins |-> "unknown"]
    /\ entry = [o \in Origins |-> None]
    /\ holder = [f \in Fetches |-> None]
    /\ lock = [f \in Fetches |-> None]
    /\ pc = [f \in Fetches |-> "start"]
    /\ tries = [f \in Fetches |-> 0]

Goes(f, state) == pc' = [pc EXCEPT ![f] = state]
\* can_fetch; an origin without rules allows everything.
Verdict(f, known) == IF known = "rules" /\ f \in Disallowed THEN "refused" ELSE "request"

\* A source may be crawled without regard to robots.txt; a malformed URL is refused.
Begin(f) ==
    /\ pc[f] = "start"
    /\ \/ Goes(f, "request")
       \/ Goes(f, IF f \in Malformed THEN "refused" ELSE "look")
    /\ UNCHANGED <<cache, entry, holder, lock, tries>>

\* The first look: the cached rules, or the load lock of the origin.
Cached(f) ==
    /\ pc[f] = "look" /\ cache[OriginOf(f)] # "unknown"
    /\ Goes(f, Verdict(f, cache[OriginOf(f)]))
    /\ UNCHANGED <<cache, entry, holder, lock, tries>>

Enlist(f) ==
    LET o == OriginOf(f)
        l == IF entry[o] = None THEN f ELSE entry[o]
    IN  /\ pc[f] = "look" /\ cache[o] = "unknown"
        /\ entry' = [entry EXCEPT ![o] = l]
        /\ lock' = [lock EXCEPT ![f] = l]
        /\ Goes(f, "wait")
        /\ UNCHANGED <<cache, holder, tries>>

\* With the load lock, the second look: another fetch may have loaded meanwhile.
Acquire(f) ==
    LET o == OriginOf(f) IN
    /\ pc[f] = "wait" /\ holder[lock[f]] = None
    /\ \/ /\ cache[o] = "unknown"
          /\ holder' = [holder EXCEPT ![lock[f]] = f]
          /\ Goes(f, "load")
       \/ /\ cache[o] # "unknown"
          /\ Goes(f, Verdict(f, cache[o]))
          /\ UNCHANGED holder
    /\ UNCHANGED <<cache, entry, lock, tries>>

\* _load_robots returned: a transport error or an error status leaves the
\* origin without rules. The lock leaves the table, whoever still waits for it.
Loaded(f) ==
    LET o == OriginOf(f) IN
    /\ pc[f] = "load"
    /\ \E known \in {"open", "rules"} :
        /\ cache' = [cache EXCEPT ![o] = known]
        /\ Goes(f, Verdict(f, known))
    /\ entry' = [entry EXCEPT ![o] = None]
    /\ holder' = [holder EXCEPT ![lock[f]] = None]
    /\ UNCHANGED <<lock, tries>>

\* What a load that failed leaves in the table: the lock, for those who wait.
\* Variant: it is removed as after a load that succeeded.
Removed(f) == [entry EXCEPT ![OriginOf(f)] = None]
Left(f) == entry

\* _load_robots raised (a redirect loop, an invalid URL) or was cancelled.
LoadFails(f) ==
    /\ pc[f] = "load"
    /\ entry' = Left(f)
    /\ holder' = [holder EXCEPT ![lock[f]] = None]
    /\ Goes(f, "failed")
    /\ UNCHANGED <<cache, lock, tries>>

Cancel(f) ==
    /\ pc[f] \in {"wait", "request"}
    /\ Goes(f, "failed")
    /\ tries' = [tries EXCEPT ![f] = 0]
    /\ UNCHANGED <<cache, entry, holder, lock>>

\* One request for the page: transport errors and 5xx are tried again, then raised.
Request(f) ==
    /\ pc[f] = "request"
    /\ \/ \E end \in {"answered", "failed"} :
            Goes(f, end) /\ tries' = [tries EXCEPT ![f] = 0]
       \/ /\ tries[f] + 1 < Attempts
          /\ tries' = [tries EXCEPT ![f] = tries[f] + 1]
          /\ UNCHANGED pc
    /\ UNCHANGED <<cache, entry, holder, lock>>

Step(f) == Begin(f) \/ Cached(f) \/ Enlist(f) \/ Acquire(f) \/ Loaded(f)
           \/ LoadFails(f) \/ Cancel(f) \/ Request(f)
Next == \E f \in Fetches : Step(f)
Spec == Init /\ [][Next]_vars
-----------------------------------------------------------------------------
\* However fetches of an origin overlap, fail or are cancelled, at most one of
\* them is loading its robots.txt, and none once its rules are known.
OneLoadPerOrigin ==
    \A f \in Fetches : pc[f] = "load" =>
        /\ cache[OriginOf(f)] = "unknown"
        /\ \A g \in Fetches : pc[g] = "load" /\ OriginOf(g) = OriginOf(f) => f = g

\* What keeps them apart: who loads holds its lock, and who waits for or holds
\* a lock of an origin that is not loaded has the one in the table.
LoaderHolds == \A f \in Fetches : pc[f] = "load" => holder[lock[f]] = f
OneLock ==
    \A f \in Fetches : pc[f] \in {"wait", "load"} =>
        /\ lock[f] \in Fetches
        /\ cache[OriginOf(f)] = "unknown" => entry[OriginOf(f)] = lock[f]
Unloaded == \A f \in Fetches : pc[f] = "load" => cache[OriginOf(f)] = "unknown"
RobotsInv == TypeOK /\ LoaderHolds /\ OneLock /\ Unloaded
=============================================================================
