---------------------------- MODULE VirtualFiles ----------------------------
(***************************************************************************)
(* The file operations of the virtual file system: VFSService over         *)
(* FileService, TrashService and the metadata services, on local sources   *)
(* and on S3.                                                              *)
(* One request at a time: it checks and changes the storage, then brings   *)
(* the metadata tree after it, step by step; a step that fails is written  *)
(* to the operation journal.  Calls fail and the process dies in between,  *)
(* and files change outside the program while it is idle.                  *)
(*                                                                         *)
(* Two deletions of one path within a second, which share a trash path,    *)
(* and requests for a mount point itself are left out.                     *)
(***************************************************************************)
EXTENDS MetadataTree, BucketStorage

CONSTANTS
    Contents,     \* what a user's file contains
    MaxTrash,     \* items in the trash (bound)
    BucketSets,   \* the sets of sources that may be on S3; the others are local
    MaxRequests,  \* requests in a behaviour without S3 (bound)
    MaxBucketRequests,  \* ... and with it (bound)
    FaultKinds,   \* "fs", "db", "journal", "crash", "outside"
    MaxFaults     \* how many faults in a behaviour (bound)

Mounts == {<<s>> : s \in Sources}

ASSUME FilesAssumption ==
    /\ IsFiniteSet(Paths)
    /\ \A p \in Paths : /\ p \in Seq(Range(p)) /\ Len(p) > 1
                        /\ \A n \in 1 .. Len(p) - 1 : SubSeq(p, 1, n) \in Paths \cup Mounts
    /\ \A p \in Paths \cup Mounts : ~IsHidden(p)
    /\ Contents \cap {"dir", Cut} = {}
    /\ MaxTrash \in Nat /\ MaxRequests \in Nat /\ MaxBucketRequests \in Nat /\ MaxFaults \in Nat
    /\ BucketSets \subseteq SUBSET Sources

VARIABLES
    buckets,   \* the sources on S3
    disk,      \* what exists in the storage of the sources
    bin,       \* the trash: slots, each with the path it came from, what it holds, and whether it has a row
    db,        \* the metadata tables
    journal,   \* the operation journal
    req,       \* the request that is being served
    excused,   \* nodes that may disagree with the storage, for a known reason: the journal, a crash,
               \* an outsider, what a failed or refused change left there (history)
    gone,      \* contents that users gave up (history)
    requests, faults   \* left

vars == <<buckets, disk, bin, db, journal, req, excused, gone, requests, faults>>

Slots == 1 .. MaxTrash
Names == {Last(p) : p \in Paths}
AnyPath == Seq(Sources \cup UNION {Range(p) : p \in Paths})
Idle == [pc |-> "idle", op |-> "none", old |-> Root, new |-> Root, todo |-> <<>>, slot |-> 0]

TypeOK ==
    /\ DOMAIN disk \subseteq Paths \cup Mounts /\ \A p \in DOMAIN disk : disk[p] \in Contents \cup {"dir", Cut}
    /\ DOMAIN bin \subseteq Slots
    /\ \A i \in DOMAIN db.node : db.node[i] \in Node(AnyPath)
    /\ \A o \in DOMAIN db.object : db.object[o] \in Object(AnyPath)
    /\ req.pc \in {"idle", "record", "row", "meta", "journal", "ok"}
    /\ requests \in Nat /\ faults \in Nat

RootRow == [parent |-> NoId, path |-> Root, kind |-> "root", object |-> NoId, state |-> "indexed"]

\* Every source is mounted and empty, or a bucket has an object that other tools put
\* into a directory without a marker.
Init ==
    /\ buckets \in BucketSets
    /\ \/ disk = [p \in Mounts |-> "dir"]
       \/ \E p \in Paths, c \in Contents :
            /\ p[1] \in buckets /\ Parent(p) \in Paths
            /\ disk = Plus([q \in Mounts |-> "dir"], Entry(p, c))
    /\ bin = <<>>
    /\ db = Upsert([node |-> [i \in {1} |-> RootRow], object |-> <<>>], Mounts, {})
    /\ journal = {} /\ req = Idle /\ excused = {} /\ gone = {}
    /\ faults = MaxFaults
    /\ requests = IF buckets = {} THEN MaxRequests ELSE MaxBucketRequests

\* What the program sees in the storage: for local sources, all that there is
Seen == IF buckets = {} THEN disk ELSE Shown(disk)
OnS3(path) == path[1] \in buckets

Fault(kind) == kind \in FaultKinds /\ faults > 0 /\ faults' = faults - 1

-----------------------------------------------------------------------------
(* Requests: the check and the change of the storage.  A request that is      *)
(* refused changes nothing and is no step.                                    *)

Step(do, path) == [do |-> do, path |-> path]

Begin(op, old, new, todo) ==
    /\ req.pc = "idle" /\ requests > 0
    /\ requests' = requests - 1
    /\ req' = [pc |-> "meta", op |-> op, old |-> old, new |-> new, todo |-> todo, slot |-> 0]

\* A request whose change of the storage fails
Refuse ==
    /\ req.pc = "idle" /\ requests > 0
    /\ requests' = requests - 1
    /\ Fault("fs")
    /\ UNCHANGED <<req, bin, db, journal>>

\* Directories of a bucket without a marker go with the last object in them, and
\* nobody tells the tree.
Vanished(path) ==
    {i \in DOMAIN db.node : /\ Exists(Seen, db.node[i].path) /\ ~Exists(Shown(disk'), db.node[i].path)
                            /\ ~IsSubPath(path, db.node[i].path)}

\* What a restore brings back, of a path that the tree still has
Returned == {i \in DOMAIN db.node : ~Exists(Seen, db.node[i].path) /\ Exists(Shown(disk'), db.node[i].path)}

\* What the tree still has below a path where there is nothing any more.  When something
\* is put there, it is put right when its directory is listed the next time.
Leftover(path) == {i \in Subtree(db, path) : db.node[i].path # path}

\* VFSService.Mkdir
Mkdir(path) ==
    /\ ~OnS3(path)
    /\ Begin("mkdir", Parent(path), path, <<Step("mkdir", path)>>)
    /\ disk' \in MkdirLocal(disk, path)
    /\ UNCHANGED <<bin, db, journal, excused, gone, faults>>

\* VFSService.Rename
Rename(path, name) ==
    LET new == Join(Parent(path), name)
    IN  /\ ~OnS3(path)
        /\ disk' \in RenameLocal(disk, path, new)
        /\ Begin("rename", path, new, <<Step("rename", path)>>)
        /\ excused' = excused \cup Leftover(new)
        /\ UNCHANGED <<bin, db, journal, gone, faults>>

\* moveOrCopy within a source, with remove
Move(path, target) ==
    LET new == Join(target, Last(path))
    IN  /\ path[1] = target[1] /\ ~OnS3(path)
        /\ Begin("move", path, new, <<Step("move", path)>>)
        /\ disk' \in MoveLocal(disk, path, target)
        /\ excused' = excused \cup Leftover(new)
        /\ UNCHANGED <<bin, db, journal, gone, faults>>

\* moveOrCopy without remove, within a source or between two
Copy(path, target) ==
    LET new == Join(target, Last(path))
    IN  /\ ~OnS3(path) /\ ~OnS3(target)
        /\ \/ /\ Begin("copy", path, new, <<Step("refresh", target)>>)
              /\ disk' \in CopyLocal(disk, path, target)
              /\ excused' = excused \cup Leftover(new)
              /\ UNCHANGED <<bin, db, journal, gone, faults>>
           \/ /\ Refuse
              /\ disk' \in CopyFails(disk, path, target)
              /\ excused' = excused \cup Subtree(db, new)
              /\ UNCHANGED gone

\* moveOrCopy between sources, with remove: the copy, then the removal of the
\* original; either may fail, and what was done so far stays.
MoveAcross(path, target) ==
    LET new == Join(target, Last(path))
    IN  /\ path[1] # target[1] /\ ~OnS3(path) /\ ~OnS3(target)
        /\ \/ /\ \E copied \in CopyAcross(disk, path, target) : disk' \in RemoveLocal(copied, path)
              /\ Begin("move", path, new, <<Step("refresh", target), Step("delete", path)>>)
              /\ excused' = excused \cup Leftover(new)
              /\ UNCHANGED <<bin, db, journal, gone, faults>>
           \/ /\ Refuse
              /\ disk' \in CopyFails(disk, path, target)
              /\ excused' = excused \cup Subtree(db, new)
              /\ UNCHANGED gone
           \/ /\ Refuse
              /\ \E copied \in CopyAcross(disk, path, target) : disk' \in RemoveFails(copied, path)
              /\ excused' = excused \cup Subtree(db, path) \cup Subtree(db, new)
              /\ UNCHANGED gone

\* VFSService.Delete with delete_mode permanent
Delete(path) ==
    /\ req.pc = "idle" /\ ~OnS3(path)
    /\ gone' = gone \cup {disk[p] : p \in Below(disk, path)}
    /\ \/ /\ disk' \in RemoveLocal(disk, path)
          /\ Begin("delete", path, path, <<Step("delete", path)>>)
          /\ UNCHANGED <<bin, db, journal, excused, faults>>
       \/ /\ Refuse
          /\ disk' \in RemoveFails(disk, path)
          /\ excused' = excused \cup Subtree(db, path)

\* The same requests on S3.  A rename or a move that fails half-way is answered with
\* the error: the tree knows nothing of it.
MkdirInBucket(path) ==
    /\ OnS3(path)
    /\ Begin("mkdir", Parent(path), path, <<Step("mkdir", path)>>)
    /\ disk' \in MkdirBucket(disk, path)
    /\ UNCHANGED <<bin, db, journal, excused, gone, faults>>

RenameBucket(path, name) ==
    LET new == Join(Parent(path), name)
    IN  /\ req.pc = "idle" /\ OnS3(path) /\ new \in Paths
        /\ \/ /\ disk' \in Transfer(disk, path, new, TRUE)
              /\ Begin("rename", path, new, <<Step("rename", path)>>)
              /\ excused' = excused \cup Leftover(new)
              /\ UNCHANGED <<bin, db, journal, gone, faults>>
           \/ /\ Refuse
              /\ disk' \in TransferFails(disk, path, new, TRUE)
              /\ excused' = excused \cup Subtree(db, path) \cup Subtree(db, new)
              /\ UNCHANGED gone

\* A directory that is moved into itself is gone, and all that it held.
MoveBucket(path, target) ==
    LET new == Join(target, Last(path))
    IN  /\ req.pc = "idle" /\ OnS3(path) /\ path[1] = target[1] /\ Into(disk, path, target)
        /\ \/ /\ disk' \in Transfer(disk, path, new, TRUE)
              /\ Begin("move", path, new, <<Step("move", path)>>)
              /\ gone' = IF IsSubPath(path, new) THEN gone \cup {disk[p] : p \in Below(disk, path)} ELSE gone
              /\ excused' = excused \cup Leftover(new) \cup Vanished(path)
              /\ UNCHANGED <<bin, db, journal, faults>>
           \/ /\ Refuse
              /\ disk' \in TransferFails(disk, path, new, TRUE)
              /\ excused' = excused \cup Subtree(db, path) \cup Subtree(db, new) \cup Vanished(path)
              /\ UNCHANGED gone

CopyBucket(path, target) ==
    LET new == Join(target, Last(path))
    IN  /\ req.pc = "idle" /\ OnS3(path) /\ path[1] = target[1] /\ Into(disk, path, target)
        /\ \/ /\ disk' \in Transfer(disk, path, new, FALSE)
              /\ Begin("copy", path, new, <<Step("refresh", target)>>)
              /\ excused' = excused \cup Leftover(new)
              /\ UNCHANGED <<bin, db, journal, gone, faults>>
           \/ /\ Refuse
              /\ disk' \in TransferFails(disk, path, new, FALSE)
              /\ excused' = excused \cup Subtree(db, new)
              /\ UNCHANGED gone

DeleteFromBucket(path) ==
    /\ req.pc = "idle" /\ OnS3(path)
    /\ gone' = gone \cup {disk[p] : p \in Below(disk, path)}
    /\ \/ /\ disk' \in DeleteBucket(disk, path)
          /\ Begin("delete", path, path, <<Step("delete", path)>>)
          /\ excused' = excused \cup Vanished(path)
          /\ UNCHANGED <<bin, db, journal, faults>>
       \/ /\ Refuse
          /\ disk' \in DeleteBucketFails(disk, path)
          /\ excused' = excused \cup Subtree(db, path) \cup Vanished(path)

\* Every file that is brought contains something else.
IsNew(content) ==
    /\ content \notin gone /\ \A p \in DOMAIN disk : disk[p] # content
    /\ \A k \in DOMAIN bin : \A r \in DOMAIN bin[k].tree : bin[k].tree[r] # content

\* FinishUpload of a new file, or an import into a local source: the file is put in
\* place.  (An import into a bucket gives its object a locator of another type.)
Upload(path, content) ==
    /\ NameIsFree(Seen, path) /\ IsDirectory(Seen, Parent(path)) /\ IsNew(content)
    /\ Begin("upload", path, path, <<Step("commit", path)>>)
    /\ disk' = IF OnS3(path) THEN CompleteUpload(disk, path, content) ELSE Plus(disk, Entry(path, content))
    /\ UNCHANGED <<bin, db, journal, excused, gone, faults>>

\* ImportLocalFile, for a PUT of WebDAV: a file that is at the path is overwritten in
\* place, and is lost even when the copying fails.  (Its MKCOL and DELETE are Mkdir
\* and Trash.)
ImportLocalFile(path, content) ==
    /\ ~OnS3(path) /\ IsDirectory(disk, Parent(path)) /\ ~IsDirectory(disk, path) /\ IsNew(content)
    /\ gone' = gone \cup {disk[p] : p \in {path} \cap DOMAIN disk}
    /\ \/ /\ Begin("upload", path, path, <<Step("commit", path)>>)
          /\ disk' = Plus(Entry(path, content), disk)
          /\ UNCHANGED <<bin, db, journal, excused, faults>>
       \/ /\ Refuse
          /\ disk' = Plus(Entry(path, Cut), disk)
          /\ excused' = excused \cup Subtree(db, path)

\* List, Search and Refresh refresh the directory first.
Refresh(path) ==
    /\ Find(db, path) # NoId /\ IsDir(db, Find(db, path)) /\ path # Root
    /\ Begin("refresh", path, path, <<Step("refresh", path)>>)
    /\ UNCHANGED <<disk, bin, db, journal, excused, gone, faults>>

-----------------------------------------------------------------------------
(* Downloads change nothing: each is what it delivers, or the error. *)

\* storageObjectInnerPath: where the object's locator says the file is
LocatedAt(object) == db.object[object].at

\* openLocalStorageObject
OpenLocal(path) ==
    CASE ~Exists(disk, path) -> "notfound"
      [] IsDirectory(disk, path) -> "directory"
      [] OTHER -> disk[path]

\* PresignDownload: the key is looked up, and no key is a directory.
Presign(path) == IF Exists(disk, path) /\ disk[path] # "dir" THEN disk[path] ELSE "notfound"

Open(path) == IF OnS3(path) THEN Presign(path) ELSE OpenLocal(path)

Errors == {"notfound", "directory", "unmatched"}

\* ResolveVFSObjectDownload, by node and object; "unmatched" when there is no node
ResolveVFSObjectDownload(path) ==
    LET id == Find(db, path)
        object == db.node[id].object
    IN  CASE id = NoId -> "unmatched"
          [] id # NoId /\ IsDir(db, id) -> "directory"
          [] id # NoId /\ ~IsDir(db, id) /\ (~Available(db, id) \/ object = NoId) -> "notfound"
          [] OTHER -> IF db.object[object].status = "available" THEN Open(LocatedAt(object))
                      ELSE "notfound"

\* ResolveDownload and ResolveDownloadRedirect: without a node the path itself is
\* opened, or looked up in the bucket.
ResolveDownload(path) ==
    IF ResolveVFSObjectDownload(path) = "unmatched" THEN OpenLocal(path)
    ELSE ResolveVFSObjectDownload(path)

ResolveDownloadRedirect(path) ==
    IF ResolveVFSObjectDownload(path) = "unmatched" THEN Presign(path)
    ELSE ResolveVFSObjectDownload(path)

Download(path) == IF OnS3(path) THEN ResolveDownloadRedirect(path) ELSE ResolveDownload(path)

\* AccessURLByVFSObject: the path that the links of a file name, {} for an error.  It
\* is where the object's locator says ...
AccessURLByVFSObject(path) ==
    IF ResolveVFSObjectDownload(path) \in Errors THEN {}
    ELSE {LocatedAt(db.node[Find(db, path)].object)}

\* ... and the path itself for the AccessURL of the file service, which also goes on
\* without a node (accessURLWithDriver on S3).
AccessURL(path) == IF Download(path) \in Errors THEN {} ELSE {path}

-----------------------------------------------------------------------------
(* Listings *)

\* metadataVFSItemFromNode: what is shown of a node
Item(i) ==
    [id |-> i, path |-> db.node[i].path, dir |-> IsDir(db, i), available |-> Available(db, i)]

\* listMetadata, after the refresh
ListChildren(path) == {Item(i) : i \in Children(db, Find(db, path))}

\* MetadataVFSService.Search, for a keyword that every name has
Search(path) == {Item(i) : i \in Subtree(db, path) \ {Find(db, path)}}

-----------------------------------------------------------------------------
(* The trash *)

\* VFSService.Delete with delete_mode trash: the files are renamed into the trash ...
Trash(path) ==
    LET slot == CHOOSE k \in Slots : k \notin DOMAIN bin
    IN  /\ Slots \ DOMAIN bin # {}
        /\ disk' \in IF OnS3(path) THEN DeleteBucket(disk, path) ELSE TrashLocal(disk, path)
        /\ req.pc = "idle" /\ requests > 0
        /\ requests' = requests - 1
        /\ req' = [Idle EXCEPT !.pc = "record", !.op = "trash", !.old = path, !.new = path, !.slot = slot]
        /\ bin' = Put(bin, slot, [from |-> path, tree |-> Tree(disk, path), row |-> FALSE])
        /\ excused' = IF OnS3(path) THEN excused \cup Vanished(path) ELSE excused
        /\ UNCHANGED <<db, journal, gone, faults>>

\* On S3 the move into the trash may end early: what was deleted by then is in the
\* trash without a row, and its user cannot get at it any more.
TrashFails(path) ==
    LET slot == CHOOSE k \in Slots : k \notin DOMAIN bin
        tree == Tree(disk, path)
    IN  /\ OnS3(path) /\ path \in Paths /\ Exists(Seen, path) /\ Slots \ DOMAIN bin # {}
        /\ req.pc = "idle" /\ requests > 0
        /\ requests' = requests - 1
        /\ Fault("fs")
        /\ \E part \in Progress(tree) :
             \/ disk' = disk /\ gone' = gone
                /\ bin' = Put(bin, slot, [from |-> path, tree |-> Restrict(tree, part), row |-> FALSE])
             \/ disk' = Deleted(disk, path, part) /\ gone' = gone \cup {tree[r] : r \in part}
                /\ bin' = Put(bin, slot, [from |-> path, tree |-> tree, row |-> FALSE])
        /\ excused' = excused \cup Subtree(db, path) \cup Vanished(path)
        /\ UNCHANGED <<db, journal, req>>

\* Mutant: a row that cannot be written is not noticed.
MutantRecordTrash ==
    /\ req.pc = "record"
    /\ \/ bin' = [bin EXCEPT ![req.slot].row = TRUE] /\ UNCHANGED faults
       \/ Fault("db") /\ UNCHANGED bin
    /\ req' = [req EXCEPT !.pc = "meta", !.todo = <<Step("delete", req.old)>>]
    /\ UNCHANGED <<disk, db, journal, excused, gone, requests>>

\* ... and recordTrashItem writes the row; if it cannot, they are renamed back.
RecordTrash ==
    /\ req.pc = "record"
    /\ \/ /\ bin' = [bin EXCEPT ![req.slot].row = TRUE]
          /\ req' = [req EXCEPT !.pc = "meta", !.todo = <<Step("delete", req.old)>>]
          /\ UNCHANGED <<disk, faults>>
       \/ /\ Fault("db")
          /\ disk' = Plus(EnsurePath(disk, Parent(req.old)), At(req.old, bin[req.slot].tree))
          /\ bin' = Restrict(bin, DOMAIN bin \ {req.slot})
          /\ req' = Idle
    /\ UNCHANGED <<db, journal, excused, gone, requests>>

HasRow(k) == k \in DOMAIN bin /\ bin[k].row

\* TrashService.Restore.  The metadata tree learns of it when the directory is
\* listed.
Restore(k) ==
    LET from == bin[k].from
        found == bin[k].tree # <<>>
    IN  /\ HasRow(k)
        /\ disk' \in IF OnS3(from) THEN RestoreBucket(disk, from, bin[k].tree)
                     ELSE RestoreLocal(disk, from, bin[k].tree)
        /\ req.pc = "idle" /\ requests > 0
        /\ requests' = requests - 1
        /\ bin' = [bin EXCEPT ![k].tree = <<>>]
        /\ req' = IF found THEN [Idle EXCEPT !.pc = "row", !.op = "restore", !.old = from, !.new = from, !.slot = k]
                  ELSE Idle
        /\ excused' = excused \cup Returned
        /\ UNCHANGED <<db, journal, gone, faults>>

\* On S3 it may end early: the row stays, and the path is taken when it is tried again.
RestoreFails(k) ==
    LET from == bin[k].from
        tree == bin[k].tree
    IN  /\ HasRow(k) /\ OnS3(from)
        /\ req.pc = "idle" /\ requests > 0
        /\ requests' = requests - 1
        /\ Fault("fs")
        /\ \E part \in Progress(tree) :
             \/ disk' \in RestoreBucket(disk, from, Restrict(tree, part)) /\ bin' = bin
             \/ /\ disk' \in RestoreBucket(disk, from, tree)
                /\ bin' = [bin EXCEPT ![k].tree = Restrict(tree, DOMAIN tree \ part)]
        /\ excused' = excused \cup Returned
        /\ UNCHANGED <<db, journal, req, gone>>

\* Delete of the trash service, and each item of ClearSource: the files are removed ...
Purge(k) ==
    /\ HasRow(k)
    /\ req.pc = "idle" /\ requests > 0
    /\ requests' = requests - 1
    /\ gone' = gone \cup {bin[k].tree[r] : r \in DOMAIN bin[k].tree}
    /\ bin' = [bin EXCEPT ![k].tree = <<>>]
    /\ req' = [Idle EXCEPT !.pc = "row", !.op = "purge", !.slot = k]
    /\ UNCHANGED <<disk, db, journal, excused, faults>>

\* ... and then the row.
DropRow ==
    /\ req.pc = "row"
    /\ req' = Idle
    /\ \/ bin' = Restrict(bin, DOMAIN bin \ {req.slot}) /\ UNCHANGED faults
       \/ Fault("db") /\ UNCHANGED bin
    /\ UNCHANGED <<disk, db, journal, excused, gone, requests>>

-----------------------------------------------------------------------------
(* The metadata, after the storage *)

Sync(step) ==
    CASE step.do = "mkdir"   -> MetaMkdir(db, step.path)
      [] step.do = "rename"  -> MetaRename(db, step.path, Last(req.new))
      [] step.do = "move"    -> MetaMove(db, step.path, Parent(req.new))
      [] step.do = "delete"  -> MetaDelete(db, step.path)
      [] step.do = "commit"  -> MetaCommit(db, step.path)
      [] step.do = "refresh" -> MetaRefresh(db, step.path, Seen, OnS3(step.path) \/ IsDirectory(disk, step.path))

\* What is done instead when the tree does not know the node (ErrFileNotFound):
\* syncMetadataRename refreshes the directory, syncMetadataMove both directories.
Fallback(step, err) ==
    IF err # "notfound" \/ step.do \notin {"rename", "move"} THEN <<>>
    ELSE IF step.do = "rename" \/ Parent(req.old) = Parent(req.new) THEN <<Step("refresh", Parent(req.new))>>
    ELSE <<Step("refresh", Parent(req.new)), Step("refresh", Parent(req.old))>>

\* The errors that a step may end with and be done
Tolerated(step, err) ==
    \/ err = "none"
    \/ err = "notfound" /\ step.do \in {"delete", "rename", "move"}

\* The node says what is in the storage.
Right(d, i) ==
    LET row == d.node[i]
    IN  IF Exists(Seen, row.path) THEN Available(d, i) /\ (row.kind = "file" <=> Seen[row.path] # "dir")
        ELSE ~Available(d, i)

\* S3 lists a directory that is gone as an empty one, and a refresh of it takes it
\* for there.
Unlisted(step) ==
    IF step.do = "refresh" /\ OnS3(step.path) THEN {Find(db, step.path)} ELSE {}

\* One step of syncMetadataMkdir, ...Rename, ...Move, ...Delete or ...RefreshParent
Metadata ==
    LET step == Head(req.todo)
        r == Sync(step)
        rest == IF r.err = "none" THEN Tail(req.todo) ELSE Fallback(step, r.err) \o Tail(req.todo)
    IN  /\ req.pc = "meta"
        /\ \/ /\ Tolerated(step, r.err)
              /\ db' = r.db
              /\ req' = [req EXCEPT !.todo = rest, !.pc = IF rest = <<>> THEN "ok" ELSE "meta"]
              /\ UNCHANGED faults
           \/ /\ ~Tolerated(step, r.err)
              /\ db' = r.db
              /\ req' = [req EXCEPT !.pc = "journal"]
              /\ UNCHANGED faults
           \/ /\ Fault("db")
              /\ req' = [req EXCEPT !.pc = "journal"]
              /\ UNCHANGED db
        /\ excused' = {i \in (excused \cup Unlisted(step)) \cap DOMAIN db'.node : ~Right(db', i)}
        /\ UNCHANGED <<disk, bin, journal, gone, requests>>

\* Mutant: the failure is answered and not recorded.
MutantJournalFailure ==
    /\ req.pc = "journal"
    /\ req' = Idle
    /\ UNCHANGED <<disk, bin, db, journal, excused, gone, requests, faults>>

\* recordMetadataMutationSyncFailure: the entry names the paths; when it cannot be
\* written nobody is told.  A refresh that a user asked for just fails.
JournalFailure ==
    LET entry == [op |-> req.op, old |-> req.old, new |-> req.new]
    IN  /\ req.pc = "journal"
        /\ req' = Idle
        /\ \/ /\ req.op = "refresh"
              /\ UNCHANGED <<journal, excused, faults>>
           \/ /\ req.op # "refresh"
              /\ journal' = journal \cup {entry}
              /\ excused' = excused \cup Subtree(db, req.old) \cup Subtree(db, req.new)
              /\ UNCHANGED faults
           \/ /\ req.op # "refresh" /\ Fault("journal")
              /\ excused' = excused \cup Subtree(db, req.old) \cup Subtree(db, req.new)
              /\ UNCHANGED journal
        /\ UNCHANGED <<disk, bin, db, gone, requests>>

Answer ==
    /\ req.pc = "ok"
    /\ req' = Idle
    /\ UNCHANGED <<disk, bin, db, journal, excused, gone, requests, faults>>

-----------------------------------------------------------------------------

\* The process dies within a request.  Storage and tree may differ then, unless all that
\* was left to do is a row of the trash or a refresh.
Crash ==
    /\ req.pc \notin {"idle", "ok"}
    /\ Fault("crash")
    /\ excused' = IF req.pc = "row" \/ req.op = "refresh" THEN excused
                  ELSE excused \cup Subtree(db, req.old) \cup Subtree(db, req.new)
    /\ gone' = gone \cup (IF req.pc = "record"
                          THEN {bin[req.slot].tree[r] : r \in DOMAIN bin[req.slot].tree} ELSE {})
    /\ req' = Idle
    /\ UNCHANGED <<disk, bin, db, journal, requests>>

\* Somebody else removes a file or a directory, or makes one, in the storage.
Outside(path) ==
    /\ req.pc = "idle"
    /\ Fault("outside")
    /\ \/ /\ disk' \in IF OnS3(path) THEN DeleteBucket(disk, path) ELSE RemoveLocal(disk, path)
          /\ gone' = gone \cup {disk[p] : p \in Below(disk, path)}
       \/ /\ NameIsFree(Seen, path) /\ IsDirectory(Seen, Parent(path))
          /\ \E what \in {"dir", Cut} : disk' = Plus(disk, Entry(path, what))
          /\ UNCHANGED gone
    /\ excused' = excused \cup Subtree(db, path) \cup Vanished(path)
    /\ UNCHANGED <<bin, db, journal, req, requests>>

\* One request at a time
Request ==
    \/ \E p \in Paths :
         \/ Mkdir(p) \/ MkdirInBucket(p) \/ Delete(p) \/ DeleteFromBucket(p) \/ Trash(p) \/ TrashFails(p) \/ Outside(p)
         \/ \E n \in Names : Rename(p, n) \/ RenameBucket(p, n)
         \/ \E c \in Contents : Upload(p, c) \/ ImportLocalFile(p, c)
         \/ \E t \in Paths \cup Mounts :
              Move(p, t) \/ Copy(p, t) \/ MoveAcross(p, t) \/ MoveBucket(p, t) \/ CopyBucket(p, t)
    \/ \E p \in Paths \cup Mounts : Refresh(p)
    \/ \E k \in Slots : Restore(k) \/ RestoreFails(k) \/ Purge(k)

Next ==
    /\ \/ req.pc = "idle" /\ Request
       \/ RecordTrash \/ DropRow \/ Metadata \/ JournalFailure \/ Answer \/ Crash
    /\ UNCHANGED buckets

Spec == Init /\ [][Next]_vars

-----------------------------------------------------------------------------

\* Whatever fails or dies, the tables are a tree: every node hangs below the node
\* whose path is its parent's.
TreeWellFormed == TypeOK /\ IsTree(db)

\* A download delivers the file that is at the path and never another one, through
\* every rename and move of the file or of a directory above it, also when it goes
\* through a link; and a file that the tree rightly shows can be downloaded.
DownloadIsOwnFile ==
    \A p \in Paths :
        LET got == Download(p)
            id == Find(db, p)
        IN  /\ got \in Errors \/ (Exists(disk, p) /\ got = disk[p])
            /\ \A q \in AccessURL(p) \cup AccessURLByVFSObject(p) : Download(q) = got
            /\ id # NoId /\ db.node[id].kind = "file" /\ Right(db, id) /\ Exists(disk, p) => got = disk[p]

\* A node that the tree shows as available and that is not in the storage has a
\* reason on record: the operation journal, a crash or a lost journal entry, a
\* request that failed half-way, somebody outside, or a directory without a marker
\* that went with the last object in it.  But for these directories no sequence of
\* requests that all succeeded leaves one, and a refresh that puts the node right
\* ends the excuse.
PhantomExplained ==
    req.pc = "idle" =>
        \A item \in Search(Root) :
            item.available /\ item.path \notin DOMAIN Seen => item.id \in excused

Kept(content) ==
    \/ \E p \in DOMAIN disk : disk[p] = content
    \/ \E k \in DOMAIN bin : \E r \in DOMAIN bin[k].tree :
          bin[k].tree[r] = content /\ (bin[k].row \/ req.pc = "record")

\* A file stays in the storage, or in the trash with a row to restore it by, until
\* somebody deletes it for good.
NothingLost ==
    [][\A c \in Contents : Kept(c) => Kept(c)' \/ c \in gone']_vars

Agrees(path) ==
    LET i == Find(db, path) IN IF i = NoId THEN ~Exists(Seen, path) ELSE Right(db, i)

\* A request that is answered with success has left storage and tree in agreement:
\* the listing of a refreshed directory shows as available just what the directory
\* holds; after a change the old and the new path agree, unless the node was one on
\* record as wrong before.
SuccessIsBoth ==
    req.pc = "ok" =>
        IF req.op = "refresh"
        THEN {<<item.path, item.dir>> : item \in {x \in ListChildren(req.old) : x.available}}
             = {<<p, Seen[p] = "dir">> : p \in Entries(Seen, req.old)}
        ELSE \A p \in (IF req.op = "copy" THEN {} ELSE {req.old}) \cup {req.new} :
                Agrees(p) \/ Find(db, p) \in excused
=============================================================================
