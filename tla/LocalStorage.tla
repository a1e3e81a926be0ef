---------------------------- MODULE LocalStorage ----------------------------
(***************************************************************************)
(* What FileService, VFSService and TrashService do to the directories of  *)
(* local sources (file_service.go, vfs_service.go, trash_service.go,       *)
(* local_storage_helpers.go).  A disk maps the virtual paths that exist to *)
(* "dir" or to what the file contains; the trash directories are kept      *)
(* apart.  An operation is the set of disks that it may leave when it      *)
(* succeeds: {} when it refuses.  Its ...Fails is what a failure in the    *)
(* middle leaves.                                                          *)
(***************************************************************************)
EXTENDS VirtualPath

CONSTANT Paths   \* the virtual paths that may exist below the mounts (bound)

\* What is left of a file whose copying failed
Cut == "cut"

\* sourcePathExists, localPathExists
Exists(k, path) == path \in DOMAIN k
IsDirectory(k, path) == Exists(k, path) /\ k[path] = "dir"

\* One disk on top of another, which the second shows where the first has nothing
Plus(k, other) == [p \in DOMAIN k \cup DOMAIN other |-> IF p \in DOMAIN k THEN k[p] ELSE other[p]]

Entry(path, what) == [p \in {path} |-> what]

Below(k, path) == {p \in DOMAIN k : IsSubPath(path, p)}

\* What is at a path and below it, by the path relative to it
Tree(k, path) == [r \in {Inner(path, p) : p \in Below(k, path)} |-> k[path \o r]]

Without(k, path) == Restrict(k, DOMAIN k \ Below(k, path))

\* A tree put at a path
At(path, tree) == [p \in {path \o r : r \in DOMAIN tree} |-> tree[Inner(path, p)]]

Fits(path, tree) == \A r \in DOMAIN tree : path \o r \in Paths

\* What of a tree has been copied when a call fails, or has not been removed yet: a
\* directory is copied before what is below it, and removed after it.
Progress(tree) ==
    {S \in SUBSET DOMAIN tree : \A r \in S : \A q \in DOMAIN tree : IsSubPath(q, r) => q \in S}

\* What copyDirectory or copyFile leave: some entries, one perhaps cut short
CutCopies(tree) ==
    UNION {{[r \in S |-> IF r = last /\ tree[r] # "dir" THEN Cut ELSE tree[r]] : last \in S}
           : S \in Progress(tree) \ {{}}}

\* ensureWritableNameAvailable (no mount is below another)
NameIsFree(k, path) == path \in Paths /\ ~Exists(k, path)

MkdirLocal(k, path) ==
    IF NameIsFree(k, path) /\ IsDirectory(k, Parent(path)) THEN {Plus(k, Entry(path, "dir"))} ELSE {}

\* os.Rename of what is at a path
Renamed(k, path, new) == Plus(Without(k, path), At(new, Tree(k, path)))

RenameLocal(k, path, new) ==
    IF Exists(k, path) /\ NameIsFree(k, new) /\ Fits(new, Tree(k, path))
    THEN {Renamed(k, path, new)} ELSE {}

\* os.Rename does not put a directory into itself.
MoveLocal(k, path, target) ==
    IF IsDirectory(k, target) /\ ~IsSubPath(path, target)
    THEN RenameLocal(k, path, Join(target, Last(path))) ELSE {}

\* A directory is not copied into itself: copyDirectory would not end.
MayCopy(k, path, target) ==
    /\ Exists(k, path) /\ IsDirectory(k, target) /\ ~IsSubPath(path, target)
    /\ NameIsFree(k, Join(target, Last(path)))
    /\ Fits(Join(target, Last(path)), Tree(k, path))

\* copyLocal
CopyLocal(k, path, target) ==
    IF MayCopy(k, path, target) THEN {Plus(k, At(Join(target, Last(path)), Tree(k, path)))} ELSE {}

CopyFails(k, path, target) ==
    IF MayCopy(k, path, target)
    THEN {Plus(k, At(Join(target, Last(path)), part)) : part \in CutCopies(Tree(k, path))} ELSE {}

\* copyAcrossSources, which has checks of its own
CopyAcross(k, path, target) ==
    IF path[1] # target[1] /\ MayCopy(k, path, target)
    THEN {Plus(k, At(Join(target, Last(path)), Tree(k, path)))} ELSE {}

\* removeLocalResolvedPath, and deleteLocal with delete_mode permanent
RemoveLocal(k, path) == IF path \in Paths /\ Exists(k, path) THEN {Without(k, path)} ELSE {}

RemoveFails(k, path) ==
    IF path \in Paths /\ Exists(k, path)
    THEN {Plus(Without(k, path), At(path, Restrict(Tree(k, path), left))) : left \in Progress(Tree(k, path))}
    ELSE {}

\* deleteLocal with delete_mode trash: os.Rename into the trash
TrashLocal(k, path) == IF path \in Paths /\ Exists(k, path) THEN {Without(k, path)} ELSE {}

\* restoreLocalTrash: the directories above are made first, and stay when the
\* trash turns out to be empty.
RestoreLocal(k, path, tree) ==
    LET above == {SubSeq(path, 1, n) : n \in 1 .. Len(path) - 1}
    IN  IF NameIsFree(k, path) /\ \A p \in above : Exists(k, p) => IsDirectory(k, p)
        THEN {Plus(Plus(k, [p \in above |-> "dir"]), At(path, tree))} ELSE {}
=============================================================================
