------------------------------ MODULE MCUpkeep ------------------------------
\* The two halves of a source that is a file, each in behaviours of its own:
\* the runs over its rows with the counters (FetchStore), and the file with
\* the requests that store, replace and remove it (Uploads).
EXTENDS FetchStore, Uploads, TLC

CONSTANTS j1, j2, u1, u2, f1, f2, f3, r1

VARIABLE half

Person(url) == [url |-> url, named |-> TRUE]
Blank(url) == [url |-> url, named |-> FALSE]
RowsFn == (j1 :> <<Person(u1), Person(u2), Person(u1)>>) @@ (j2 :> <<Blank(u2)>>)

\* Two runs beside each other, or one whose job is started again twice.
TwoBudgets == {[jobs |-> {j1, j2}, retries |-> 0], [jobs |-> {j1}, retries |-> 2]}

StoreNext == half = "store" /\ Next /\ UNCHANGED <<half, fileVars>>
UploadsNext == half = "files" /\ FilesNext /\ UNCHANGED <<half, vars>>
Maintained == half = "store" /\ Reconcile /\ UNCHANGED <<half, fileVars>>

MCInit == half \in {"store", "files"} /\ Init /\ FilesInit

MCSpec == /\ MCInit
          /\ [][StoreNext \/ UploadsNext]_<<half, vars, fileVars>>
          /\ WF_vars(Maintained)
=============================================================================
