----------------------------- MODULE SiteImports -----------------------------
(***************************************************************************)
(* Archives and dumps that users upload and import into a site.  Uploads   *)
(* are written one at a time under a lock, after a sweep of what is too    *)
(* old, and counted against limits per user and for the server.  Imports   *)
(* run without the lock; what they unpack lies in the same directory.      *)
(***************************************************************************)
EXTENDS PanelBase, FiniteSetsExt

CONSTANTS
    ImpUsers,
    ImpMaxUploads,  \* bound: uploads
    ImpMaxImports,  \* bound: imports
    ImpMaxSize,     \* max_import_upload_bytes, in units
    ImpUserLimit,   \* max_user_upload_bytes
    ImpTotalLimit,  \* max_total_upload_bytes
    ImpMaxFaults    \* bound: steps that fail, restarts of the panel

ASSUME ImpAssumption ==
    /\ None \notin ImpUsers
    /\ ImpMaxUploads \in Nat /\ ImpMaxImports \in Nat /\ ImpMaxFaults \in Nat
    /\ ImpMaxSize \in Nat \ {0} /\ ImpUserLimit \in Nat \ {0} /\ ImpTotalLimit \in Nat \ {0}

ASSUME ImpNoneAssumption ==
    /\ None \notin {"whole", "holed", "running", "succeeded", "failed", "waiting",
                    "streaming", "ready", "stranded", "gone"}
    /\ None \notin 1 .. ImpMaxUploads

VARIABLES
    impUpload,  \* impUpload[k]: upload k
    impLock,    \* upload_lock: the upload that holds it, or None
    impTask,    \* impTask[i]: import i
    impSite,    \* archive whose files the site has, and whether all of them
    impOps,     \* impOps[i]: status of the operation of import i, or None
    impFaults,
    impSwept    \* history: imports whose unpacked files a sweep has hit

impVars == <<impUpload, impLock, impTask, impSite, impOps, impFaults, impSwept>>

ImpUploads == 1 .. ImpMaxUploads
ImpImports == 1 .. ImpMaxImports
\* state: waiting for the lock, streaming, ready for an import, stranded by a
\* restart, or gone again;
\* old: untouched for longer than the time to live; base: bytes when it began.
ImpNoUpload == [user |-> None, state |-> None, size |-> 0, old |-> FALSE, user0 |-> 0, total0 |-> 0]
\* tree: what is unpacked of the archive; a member keeps its time of change.
ImpNoTask == [upload |-> 0, pc |-> "off", tree |-> None]

ImpOnDisk(k) == impUpload[k].state \in {"streaming", "ready", "stranded"}
ImpBytes(ks) == FoldSet(LAMBDA k, n : n + impUpload[k].size, 0, ks)
ImpUploadsOf(u) == {k \in ImpUploads : impUpload[k].user = u /\ ImpOnDisk(k)}
\* Trees take room too.
ImpTrees == {impTask[i].upload : i \in {j \in ImpImports : impTask[j].tree # None}}

ImpTypeOK ==
    /\ \A k \in ImpUploads :
         /\ impUpload[k].user \in ImpUsers \cup {None}
         /\ impUpload[k].state \in {None, "waiting", "streaming", "ready", "stranded", "gone"}
         /\ impUpload[k].size \in 0 .. ImpMaxSize + 1 /\ impUpload[k].old \in BOOLEAN
    /\ impLock \in ImpUploads \cup {None}
    /\ \A i \in ImpImports :
         /\ impTask[i].pc \in {"off", "extract", "mirror", "finalize"}
         /\ impTask[i].tree \in {None, "whole", "holed"}
    /\ impOps \in [ImpImports -> {None, "running", "succeeded", "failed"}]

-----------------------------------------------------------------------------
(* Uploads.                                                                *)

BeginUpload(k, u) ==
    /\ impUpload[k].state = None /\ \A j \in 1 .. k - 1 : impUpload[j].state # None
    /\ impUpload' = [impUpload EXCEPT ![k].user = u, ![k].state = "waiting"]
    /\ UNCHANGED <<impLock, impTask, impSite, impOps, impFaults, impSwept>>

\* Mutation: uploads do not wait for each other.
NobodyWaits == TRUE

UploadLockFree == impLock = None

\* With the lock: files that are too old go, wherever below the directory they
\* lie, and what remains is counted.  An archive may hold old files.
LockAndSweep(k) ==
    /\ impUpload[k].state = "waiting" /\ UploadLockFree
    /\ impLock' = k
    /\ LET expired == {j \in ImpUploads : ImpOnDisk(j) /\ impUpload[j].old}
           kept == {j \in ImpUploads : ImpOnDisk(j)} \ expired IN
       /\ impUpload' = [j \in ImpUploads |->
            IF j \in expired THEN [impUpload[j] EXCEPT !.state = "gone"]
            ELSE IF j = k THEN [impUpload[k] EXCEPT !.state = "streaming",
                   !.user0 = ImpBytes(kept \cap ImpUploadsOf(impUpload[k].user)),
                   !.total0 = ImpBytes(kept) + ImpBytes(ImpTrees)]
            ELSE impUpload[j]]
    /\ \E hit \in SUBSET {i \in ImpImports : impTask[i].tree = "whole"} :
         /\ impTask' = [i \in ImpImports |-> IF i \in hit
                          THEN [impTask[i] EXCEPT !.tree = "holed"] ELSE impTask[i]]
         /\ impSwept' = impSwept \cup hit
    /\ UNCHANGED <<impSite, impOps, impFaults>>

\* A chunk is counted before it is written; past a limit the file is removed.
Chunk(k) ==
    /\ impUpload[k].state = "streaming"
    /\ LET u == impUpload[k]  size == u.size + 1 IN
       IF size <= ImpMaxSize /\ u.user0 + size <= ImpUserLimit /\ u.total0 + size <= ImpTotalLimit
       THEN impUpload' = [impUpload EXCEPT ![k].size = size] /\ UNCHANGED impLock
       ELSE impUpload' = [impUpload EXCEPT ![k].state = "gone"] /\ impLock' = None
    /\ UNCHANGED <<impTask, impSite, impOps, impFaults, impSwept>>

\* The body ends; an empty upload is removed.
EndUpload(k) ==
    /\ impUpload[k].state = "streaming"
    /\ impUpload' = [impUpload EXCEPT ![k].state = IF impUpload[k].size = 0 THEN "gone" ELSE "ready"]
    /\ impLock' = None
    /\ UNCHANGED <<impTask, impSite, impOps, impFaults, impSwept>>

\* The client goes away in the middle.
BreakUpload(k) ==
    /\ impUpload[k].state \in {"waiting", "streaming"}
    /\ impUpload' = [impUpload EXCEPT ![k].state = "gone"]
    /\ impLock' = IF impLock = k THEN None ELSE impLock
    /\ UNCHANGED <<impTask, impSite, impOps, impFaults, impSwept>>

\* The time to live passes over an upload, or over what a restart has left.
ExpireUpload(k) ==
    /\ ImpOnDisk(k) /\ ~impUpload[k].old /\ impLock # k
    /\ impUpload' = [impUpload EXCEPT ![k].old = TRUE]
    /\ UNCHANGED <<impLock, impTask, impSite, impOps, impFaults, impSwept>>

-----------------------------------------------------------------------------
(* Imports.                                                                *)

StartImport(i, k) ==
    /\ impOps[i] = None /\ \A j \in 1 .. i - 1 : impOps[j] # None
    /\ impUpload[k].state = "ready"
    /\ impOps' = [impOps EXCEPT ![i] = "running"]
    /\ impTask' = [impTask EXCEPT ![i] = [upload |-> k, pc |-> "extract", tree |-> None]]
    /\ UNCHANGED <<impUpload, impLock, impSite, impFaults, impSwept>>

Extract(i) ==
    /\ impTask[i].pc = "extract" /\ ImpOnDisk(impTask[i].upload)
    /\ impTask' = [impTask EXCEPT ![i].tree = "whole", ![i].pc = "mirror"]
    /\ UNCHANGED <<impUpload, impLock, impSite, impOps, impFaults, impSwept>>

\* mirror_import_tree() runs beside other requests, then the tree is removed.
MirrorTree(i) ==
    /\ impTask[i].pc = "mirror"
    /\ impSite' = [upload |-> impTask[i].upload, whole |-> impTask[i].tree = "whole"]
    /\ impTask' = [impTask EXCEPT ![i].tree = None, ![i].pc = "finalize"]
    /\ UNCHANGED <<impUpload, impLock, impOps, impFaults, impSwept>>

\* The end of an import, however it comes, removes its upload.
EndImport(i, status) ==
    /\ impOps' = [impOps EXCEPT ![i] = status]
    /\ impUpload' = [impUpload EXCEPT ![impTask[i].upload].state = "gone"]
    /\ impTask' = [impTask EXCEPT ![i].pc = "off", ![i].tree = None]
    /\ UNCHANGED <<impLock, impSite, impSwept>>

FinishImport(i) ==
    impTask[i].pc = "finalize" /\ EndImport(i, "succeeded") /\ UNCHANGED impFaults

\* The archive has gone, is refused or cannot be copied, or the dump fails.
ImportFails(i) ==
    /\ impTask[i].pc # "off"
    /\ \/ impTask[i].pc = "extract" /\ ~ImpOnDisk(impTask[i].upload) /\ UNCHANGED impFaults
       \/ impFaults < ImpMaxFaults /\ impFaults' = impFaults + 1
    /\ EndImport(i, "failed")

\* A restart leaves files behind, half an upload too, which the sweep finds.
ImpRestart ==
    /\ impFaults < ImpMaxFaults /\ impFaults' = impFaults + 1
    /\ impLock' = None
    /\ impUpload' = [k \in ImpUploads |->
         IF impUpload[k].state = "streaming" THEN [impUpload[k] EXCEPT !.state = "stranded"]
         ELSE IF impUpload[k].state = "waiting" THEN [impUpload[k] EXCEPT !.state = "gone"]
         ELSE impUpload[k]]
    /\ impTask' = [i \in ImpImports |-> [impTask[i] EXCEPT !.pc = "off", !.tree = None]]
    /\ impOps' = [i \in ImpImports |-> IF impOps[i] = "running" THEN "failed" ELSE impOps[i]]
    /\ UNCHANGED <<impSite, impSwept>>

-----------------------------------------------------------------------------
ImpInit ==
    /\ impUpload = [k \in ImpUploads |-> ImpNoUpload]
    /\ impLock = None
    /\ impTask = [i \in ImpImports |-> ImpNoTask]
    /\ impSite = [upload |-> 0, whole |-> TRUE]
    /\ impOps = [i \in ImpImports |-> None]
    /\ impFaults = 0 /\ impSwept = {}

ImpNext ==
    \/ \E k \in ImpUploads :
         \/ \E u \in ImpUsers : BeginUpload(k, u)
         \/ LockAndSweep(k) \/ Chunk(k) \/ EndUpload(k) \/ BreakUpload(k) \/ ExpireUpload(k)
         \/ \E i \in ImpImports : StartImport(i, k)
    \/ \E i \in ImpImports : Extract(i) \/ MirrorTree(i) \/ FinishImport(i) \/ ImportFails(i)
    \/ ImpRestart

ImpSpec == ImpInit /\ [][ImpNext]_impVars

-----------------------------------------------------------------------------
(* Properties.                                                             *)

\* What lies in the upload directory stays within the limit of each user and
\* of the server, though an upload compares with sums from when it began.
UploadsWithinLimits ==
    /\ \A u \in ImpUsers : ImpBytes(ImpUploadsOf(u)) <= ImpUserLimit
    /\ ImpBytes({k \in ImpUploads : ImpOnDisk(k)}) <= ImpTotalLimit

\* A site gets all files of an archive, unless a sweep has removed old ones
\* between unpacking and copying: also when the upload expires, or another
\* import of it ends, meanwhile.
ImportsWhole ==
    impSite.whole \/ \E i \in impSwept : impTask[i].upload = impSite.upload

ImportsSound == UploadsWithinLimits /\ ImportsWhole
=============================================================================
