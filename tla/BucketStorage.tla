--------------------------- MODULE BucketStorage ---------------------------
(***************************************************************************)
(* What FileService, VFSService and TrashService do to an S3 source        *)
(* (s3_driver.go, and the ...WithDriver methods of file_service.go and     *)
(* trash_service.go).  A bucket maps keys to what the object contains, or  *)
(* to "dir" for the empty object that marks a directory; a directory       *)
(* without a marker is there as long as there is an object below it.       *)
(* Nothing is renamed: objects are copied, one after the other and each    *)
(* whole, and then the originals are deleted.  Operations are written as   *)
(* in LocalStorage.                                                        *)
(***************************************************************************)
EXTENDS LocalStorage

\* What statPathWithClient and List see: directories without a marker too
Shown(k) ==
    LET keys == DOMAIN k
        dirs == UNION {{SubSeq(p, 1, n) : n \in 1 .. Len(p)} : p \in keys}
    IN  [p \in dirs |-> IF p \in keys THEN k[p] ELSE "dir"]

\* copyDirectoryPrefix and copyObject, as far as given.  A listing has the marker of a
\* directory before what is below it, so here too Progress is what a failure leaves.
Copied(k, path, new, part) == Plus(k, At(new, Restrict(Tree(k, path), part)))

\* deleteDirectoryPrefix and deleteObject, as far as given
Deleted(k, path, part) == Restrict(k, DOMAIN k \ {path \o r : r \in part})

MkdirBucket(k, path) ==
    IF NameIsFree(Shown(k), path) /\ IsDirectory(Shown(k), Parent(path))
    THEN {Plus(k, Entry(path, "dir"))} ELSE {}

\* CompleteMultipartUpload: the object is there at once and whole.
CompleteUpload(k, path, content) == Plus(Entry(path, content), k)

\* The checks of renameOrCopy.  A directory may go into itself: its copy is then
\* deleted with it.
MayTransfer(k, path, new, remove) ==
    /\ Exists(Shown(k), path) /\ path # new /\ ~Exists(Shown(k), new)
    /\ Fits(new, Tree(k, path)) \/ (remove /\ IsSubPath(path, new))

\* renameOrCopy ends early: in the copying, or in the deletion after it.  The last
\* call, which looks at the new object, may fail when all is done.
TransferFails(k, path, new, remove) ==
    LET tree == Tree(k, path)
        whole == Copied(k, path, new, DOMAIN tree)
    IN  IF MayTransfer(k, path, new, remove) /\ ~IsSubPath(path, new)
        THEN {Copied(k, path, new, part) : part \in Progress(tree)}
             \cup (IF remove THEN {Deleted(whole, path, part) : part \in Progress(tree)} ELSE {})
        ELSE {}

\* renameOrCopy
Transfer(k, path, new, remove) ==
    IF ~MayTransfer(k, path, new, remove) THEN {}
    ELSE IF remove /\ IsSubPath(path, new) THEN {Without(k, path)}
    ELSE LET whole == Copied(k, path, new, DOMAIN Tree(k, path))
         IN  {IF remove THEN Without(whole, path) ELSE whole}

\* Move and Copy of the driver look at the target directory first.
Into(k, path, target) == IsDirectory(Shown(k), target) /\ Parent(path) # target

\* Delete of the driver
DeleteBucket(k, path) ==
    IF path \in Paths /\ Exists(Shown(k), path) THEN {Without(k, path)} ELSE {}

DeleteBucketFails(k, path) ==
    IF path \in Paths /\ Exists(Shown(k), path)
    THEN {Deleted(k, path, part) : part \in Progress(Tree(k, path))} ELSE {}

\* ensureDriverPath: a directory that is there gets no marker.
EnsurePath(k, path) ==
    Plus(k, [p \in {SubSeq(path, 1, n) : n \in 1 .. Len(path)} \ DOMAIN Shown(k) |-> "dir"])

\* restoreDriverTrash makes the directories above, looks at the path, and moves what
\* the trash holds there, as far as given.
MayRestore(k, path) ==
    /\ NameIsFree(Shown(k), path)
    /\ \A n \in 1 .. Len(path) - 1 :
         Exists(Shown(k), SubSeq(path, 1, n)) => IsDirectory(Shown(k), SubSeq(path, 1, n))

RestoreBucket(k, path, tree) ==
    IF MayRestore(k, path) THEN {Plus(EnsurePath(k, Parent(path)), At(path, tree))} ELSE {}
=============================================================================
