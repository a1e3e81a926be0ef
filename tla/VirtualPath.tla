----------------------------- MODULE VirtualPath -----------------------------
(***************************************************************************)
(* Virtual paths and mounts: vfs_path.go, vfs_conflict.go, vfs_registry.go *)
(* and the path helpers of local_storage_helpers.go and file_service.go.   *)
(* A normalized path is the sequence of its segments, <<>> stands for "/". *)
(* A mount is a record with the fields path and source.                    *)
(***************************************************************************)
EXTENDS Integers, Sequences, FiniteSets, SequencesExt

Root == <<>>

NoMount == [path |-> Root, source |-> "none"]

\* isSubPath: target is base, or below it.
IsSubPath(base, target) == IsPrefix(base, target)

\* parentVirtualPath, and splitParentName
Parent(path) == IF path = Root THEN Root ELSE Front(path)

\* joinVirtualPath
Join(parent, name) == Append(parent, name)

\* mergeMountAndInnerPath
Merge(mount, inner) == mount \o inner

\* The path below a prefix (strings.TrimPrefix after isSubPath)
Inner(prefix, path) == SubSeq(path, Len(prefix) + 1, Len(path))

\* rewriteMetadataSubtreePath
Rewrite(path, old, new) == new \o Inner(old, path)

\* normalizeVirtualPath of an absolute path: path.Clean drops "." and resolves
\* "..".  (Names with ".." inside, which are then refused, are left out.)
CleanStep(acc, seg) ==
    CASE seg = "." -> acc
      [] seg = ".." -> Parent(acc)
      [] OTHER -> Append(acc, seg)

Clean(segments) == FoldLeft(CleanStep, Root, segments)

\* Names the storage keeps for itself.  isHiddenVirtualPath takes every name that
\* begins with one of these; two stand for all of them.
Reserved == {".trash", ".system"}
IsHidden(path) == \E k \in DOMAIN path : path[k] \in Reserved

-----------------------------------------------------------------------------
(* Resolution.  Mounts are a set: their order matters only when two of them *)
(* have one path, which HasMountPathConflict refuses.                       *)

\* resolveVirtualPathByLongestPrefix
Resolve(path, mounts) ==
    LET hits == {m \in mounts : IsSubPath(m.path, path)}
        best == CHOOSE m \in hits : \A n \in hits : Len(m.path) >= Len(n.path)
    IN  IF hits # {}
        THEN [real |-> TRUE, virtual |-> FALSE, mount |-> best, inner |-> Inner(best.path, path)]
        ELSE [real |-> FALSE, virtual |-> \E m \in mounts : m.path # path /\ IsSubPath(path, m.path),
              mount |-> NoMount, inner |-> Root]

\* hasMountNameConflict: a mount point, or a directory that a mount projects,
\* has the name.
MountNameConflict(path, mounts) ==
    path # Root /\ \E m \in mounts : IsSubPath(path, m.path)
=============================================================================
