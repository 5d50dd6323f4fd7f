------------------------------ MODULE RunSlots ------------------------------
(***************************************************************************)
(* What the partial unique index ix_source_runs_one_active_per_source_kind *)
(* promises everybody who reads source_runs: each (source, kind) pair is a *)
(* slot that holds at most one active run, a run enters only an empty slot *)
(* and a slot never changes hands without having been empty in between.    *)
(* RunLifecycle implements this specification.                             *)
(***************************************************************************)
CONSTANTS Runs,     \* run ids
          Slots     \* the pairs of a source and a kind of run

VARIABLE occupants  \* occupants[x]: the active runs of slot x

Init == occupants = [x \in Slots |-> {}]

\* A queued or resumed run takes an empty slot.
Enter(x, r) ==
    /\ occupants[x] = {}
    /\ occupants' = [occupants EXCEPT ![x] = {r}]

\* Runs settle, or are deleted with their source: one transaction may empty
\* several slots.
Leave ==
    /\ occupants' \in [Slots -> SUBSET Runs]
    /\ \A x \in Slots : occupants'[x] \in {{}, occupants[x]}

Next ==
    \/ Leave
    \/ \E x \in Slots, r \in Runs : Enter(x, r)

Spec == Init /\ [][Next]_occupants
=============================================================================
