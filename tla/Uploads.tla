------------------------------ MODULE Uploads ------------------------------
(***************************************************************************)
(* The uploaded file behind a source: the request that stores it, requests *)
(* that replace it, runs created for the path read at that moment, and the *)
(* removal of the source. Database and directory change in separate steps, *)
(* requests overlap, and the instance that serves one may die between its  *)
(* steps. What a run does with its file is the subject of FetchStore.      *)
(***************************************************************************)
EXTENDS Naturals, FiniteSets

CONSTANTS Files,     \* uploads: each stores a file under a name of its own
          Requests,  \* requests to crawl, each with its run
          None

ASSUME NoneIsNoFile == None \notin Files

VARIABLES holder,   \* the source: its state, kind and identifier
          disk,     \* files in uploads_dir
          upload,   \* where each upload is, and the file it will remove
          request,  \* where each request or its run is, and the path it has
          removal   \* the request to delete the source

fileVars == <<holder, disk, upload, request, removal>>

Held == holder.state = "live"
Running == {"queued", "running"}

\* _store_upload writes the file under a new name before anything refers to it.
Open(f) ==
    /\ upload[f].pc = "idle"
    /\ \/ holder.state = "none"
       \/ Held /\ holder.kind = "file"
    /\ upload' = [upload EXCEPT ![f] = [pc |-> "write", old |-> holder.file]]
    /\ UNCHANGED <<holder, disk, request, removal>>

Write(f) ==
    /\ upload[f].pc = "write"
    /\ disk' = disk \cup {f}
    /\ upload' = [upload EXCEPT ![f].pc = "commit"]
    /\ UNCHANGED <<holder, request, removal>>

Done(f) == upload' = [upload EXCEPT ![f] = [pc |-> "done", old |-> None]]

\* admin_upload_source, admin_upload_enrichment_source. One source is followed:
\* a second file uploaded as a source of its own is not.
CreateSource(f) ==
    /\ upload[f].pc = "commit" /\ upload[f].old = None
    /\ \/ /\ holder.state = "none"
          /\ \E k \in {"file", "enrichment"} :
              holder' = [state |-> "live", kind |-> k, file |-> f]
       \/ holder.state # "none" /\ UNCHANGED holder
    /\ Done(f)
    /\ UNCHANGED <<disk, request, removal>>

\* admin_replace_source_upload points the source at the new file, then removes
\* the one it had read at first.
Replace(f) ==
    /\ upload[f].pc = "commit" /\ upload[f].old # None
    /\ \/ /\ Held
          /\ holder' = [holder EXCEPT !.file = f]
          /\ upload' = [upload EXCEPT ![f].pc = "unlink"]
       \/ ~Held /\ Done(f) /\ UNCHANGED holder
    /\ UNCHANGED <<disk, request, removal>>

\* Variant: the file to remove is looked up after the commit.
Named(f) == {holder.file} \ {f}
Replaced(f) == {upload[f].old}

Unlink(f) ==
    /\ upload[f].pc = "unlink"
    /\ disk' = disk \ Replaced(f)
    /\ Done(f)
    /\ UNCHANGED <<holder, request, removal>>

\* The instance that serves the upload dies.
Abandon(f) ==
    /\ upload[f].pc \in {"write", "commit", "unlink"}
    /\ Done(f)
    /\ UNCHANGED <<holder, disk, request, removal>>

\* admin_source_crawl reads the source, then creates the run with the path.
Ask(r) ==
    /\ request[r].pc = "none"
    /\ Held
    /\ request' = [request EXCEPT ![r] = [pc |-> "asked", file |-> holder.file]]
    /\ UNCHANGED <<holder, disk, upload, removal>>

Queue(r) ==
    /\ request[r].pc = "asked"
    /\ LET refused == ~Held \/ \E q \in Requests : request[q].pc \in Running IN
       request' = [request EXCEPT ![r].pc = IF refused THEN "refused" ELSE "queued"]
    /\ UNCHANGED <<holder, disk, upload, removal>>

Read(r) ==
    /\ request[r].pc = "queued"
    /\ request' = [request EXCEPT ![r].pc = IF request[r].file \in disk THEN "running" ELSE "failed"]
    /\ UNCHANGED <<holder, disk, upload, removal>>

\* The run ends, or is stopped.
Finish(r) ==
    /\ request[r].pc \in Running
    /\ request' = [request EXCEPT ![r].pc = "ended"]
    /\ UNCHANGED <<holder, disk, upload, removal>>

\* delete_source with no active run notes the name of a file source's file,
\* and removes it once the rows are gone. A request that creates a run while
\* the removal is open makes its commit fail.
OpenRemoval ==
    /\ removal.pc = "idle"
    /\ Held
    /\ \A r \in Requests : request[r].pc \notin Running
    /\ removal' = [pc |-> "open", file |-> IF holder.kind = "file" THEN holder.file ELSE None]
    /\ UNCHANGED <<holder, disk, upload, request>>

CommitRemoval ==
    /\ removal.pc = "open"
    /\ \/ holder' = [holder EXCEPT !.state = "deleted"] /\ removal' = [removal EXCEPT !.pc = "unlink"]
       \/ /\ \E r \in Requests : request[r].pc \in Running
          /\ removal' = [pc |-> "done", file |-> None]
          /\ UNCHANGED holder
    /\ UNCHANGED <<disk, upload, request>>

UnlinkRemoved ==
    /\ removal.pc = "unlink"
    /\ disk' = disk \ {removal.file}
    /\ removal' = [pc |-> "done", file |-> None]
    /\ UNCHANGED <<holder, upload, request>>

FilesInit ==
    /\ holder = [state |-> "none", kind |-> "file", file |-> None]
    /\ disk = {}
    /\ upload = [f \in Files |-> [pc |-> "idle", old |-> None]]
    /\ request = [r \in Requests |-> [pc |-> "none", file |-> None]]
    /\ removal = [pc |-> "idle", file |-> None]

FilesNext ==
    \/ \E f \in Files : \/ Open(f) \/ Write(f) \/ CreateSource(f)
                        \/ Replace(f) \/ Unlink(f) \/ Abandon(f)
    \/ \E r \in Requests : Ask(r) \/ Queue(r) \/ Read(r) \/ Finish(r)
    \/ OpenRemoval \/ CommitRemoval \/ UnlinkRemoved

FilesSpec == FilesInit /\ [][FilesNext]_fileVars

-----------------------------------------------------------------------------
\* The file a source names is there, whatever uploads, replacements and
\* removals overlap or stop half way (main.py admin_replace_source_upload,
\* web_api.py _delete_uploaded_file).
FileKept == Held => holder.file \in disk
=============================================================================
