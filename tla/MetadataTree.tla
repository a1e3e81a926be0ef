---------------------------- MODULE MetadataTree ----------------------------
(***************************************************************************)
(* The metadata tree: the tables vfs_nodes and storage_objects             *)
(* (vfs_metadata_repo_impl.go) and what MetadataVFSService,                *)
(* MetadataVFSSyncService and MetadataVFSCommitService do to them, each a  *)
(* transaction.  db is a record of the two tables, functions from ids to   *)
(* rows.  Only live nodes are kept: a soft-deleted row is found by nobody  *)
(* here, and its id is not seen again.  Every source s is mounted at <<s>>, *)
(* so a locator (source, inner path) is written as the virtual path.       *)
(***************************************************************************)
EXTENDS VirtualPath, FiniteSetsExt

CONSTANT Sources

ASSUME TreeAssumption == Sources # {} /\ IsFiniteSet(Sources)

NoId == 0

DirKinds == {"root", "virtual_dir", "mount", "dir"}
States == {"indexed", "missing", "error"}

Node(Path) ==
    [parent : Nat, path : Path, kind : DirKinds \cup {"file"}, object : Nat, state : States]

Object(Path) == [at : Path, status : {"available", "missing"}]

Result(err, d) == [err |-> err, db |-> d]

\* The ids that rows get which are added, one for each key: none that is taken
NewIds(table, keys) ==
    CHOOSE new \in [keys -> 1 .. Cardinality(DOMAIN table) + Cardinality(keys)] :
        IsInjective(new) /\ Range(new) \cap DOMAIN table = {}

\* Update, or Create
PutAll(table, rows) ==
    [i \in DOMAIN table \cup DOMAIN rows |-> IF i \in DOMAIN rows THEN rows[i] ELSE table[i]]

Put(table, id, row) == [i \in DOMAIN table \cup {id} |-> IF i = id THEN row ELSE table[i]]

-----------------------------------------------------------------------------
(* The repository *)

\* FindByPath: the id, or NoId
Find(d, path) ==
    IF \E i \in DOMAIN d.node : d.node[i].path = path
    THEN CHOOSE i \in DOMAIN d.node : d.node[i].path = path
    ELSE NoId

Children(d, id) == {i \in DOMAIN d.node : d.node[i].parent = id}

\* ListByPathPrefix
Subtree(d, path) == {i \in DOMAIN d.node : IsSubPath(path, d.node[i].path)}

IsDir(d, id) == d.node[id].kind \in DirKinds

\* metadataVFSNodeUnavailable, without the states that nothing here sets
Available(d, id) == d.node[id].state = "indexed"

\* FindByLocator
FindObject(d, at) ==
    IF \E o \in DOMAIN d.object : d.object[o].at = at
    THEN CHOOSE o \in DOMAIN d.object : d.object[o].at = at
    ELSE NoId

\* UpsertByPath: the live node of a path is overwritten and keeps its id.
NodeIds(d, paths) ==
    LET new == NewIds(d.node, {p \in paths : Find(d, p) = NoId})
    IN  [p \in paths |-> IF Find(d, p) = NoId THEN new[p] ELSE Find(d, p)]

\* UpsertByLocator
ObjectIds(d, paths) ==
    LET new == NewIds(d.object, {p \in paths : FindObject(d, p) = NoId})
    IN  [p \in paths |-> IF FindObject(d, p) = NoId THEN new[p] ELSE FindObject(d, p)]

\* metadataCommitDirectoryKind, for what no mount is below
KindOf(path, isFile) == IF isFile THEN "file" ELSE IF Len(path) = 1 THEN "mount" ELSE "dir"

\* The nodes of some paths, upserted one after the other, each after its parent:
\* files with their objects, which they refer to, and directories.
Upsert(d, paths, files) ==
    LET ids == NodeIds(d, paths)
        objects == ObjectIds(d, files)
        Row(p) == [parent |-> IF Parent(p) \in paths THEN ids[Parent(p)] ELSE Find(d, Parent(p)),
                   path |-> p, kind |-> KindOf(p, p \in files),
                   object |-> IF p \in files THEN objects[p] ELSE NoId, state |-> "indexed"]
        pathOf == AntiFunction(ids)
        fileOf == AntiFunction(objects)
    IN  [d EXCEPT !.node = PutAll(@, [i \in Range(ids) |-> Row(pathOf[i])]),
                  !.object = PutAll(@, [o \in Range(objects) |-> [at |-> fileOf[o], status |-> "available"]])]

-----------------------------------------------------------------------------
(* MetadataVFSService *)

MetaMkdir(d, path) ==
    LET parent == Find(d, Parent(path))
    IN  CASE parent = NoId -> Result("notfound", d)
          [] parent # NoId /\ ~IsDir(d, parent) -> Result("invalid", d)
          [] parent # NoId /\ IsDir(d, parent) /\ Find(d, path) # NoId -> Result("conflict", d)
          [] OTHER -> Result("none", Upsert(d, {path}, {}))

\* Mutant: the locators of a moved subtree stay as they are.
MutantMoveSubtree(d, id, newParent, newPath) ==
    LET old == d.node[id].path
        moved == Subtree(d, old)
    IN  Result("none", [d EXCEPT !.node = [i \in DOMAIN d.node |->
            IF i = id THEN [d.node[i] EXCEPT !.parent = newParent, !.path = newPath]
            ELSE IF i \in moved THEN [d.node[i] EXCEPT !.path = Rewrite(@, old, newPath)]
            ELSE d.node[i]]])

\* updateMetadataSubtreePath, with syncPathBasedObjectLocator: the nodes of the
\* subtree get their new paths and their objects the locators of these.  A path
\* that is taken (ensureMetadataSubtreeTargetAvailable), or a locator that
\* another object has (a unique index), undoes it all.
MoveSubtree(d, id, newParent, newPath) ==
    LET old == d.node[id].path
        moved == Subtree(d, old)
        To(path) == Rewrite(path, old, newPath)
        objects == {d.node[i].object : i \in moved} \ {NoId}
        taken == \/ \E i \in moved : Find(d, To(d.node[i].path)) \notin moved \cup {NoId}
                 \/ \E o \in objects : FindObject(d, To(d.object[o].at)) \notin objects \cup {NoId}
    IN  IF taken THEN Result("conflict", d)
        ELSE Result("none",
               [d EXCEPT !.node = [i \in DOMAIN d.node |->
                    IF i = id THEN [d.node[i] EXCEPT !.parent = newParent, !.path = newPath]
                    ELSE IF i \in moved THEN [d.node[i] EXCEPT !.path = To(@)]
                    ELSE d.node[i]],
                         !.object = [o \in DOMAIN d.object |->
                    IF o \in objects THEN [d.object[o] EXCEPT !.at = To(@)] ELSE d.object[o]]])

MetaRename(d, path, name) ==
    LET id == Find(d, path)
        new == Join(Parent(path), name)
    IN  CASE id = NoId -> Result("notfound", d)
          [] id # NoId /\ d.node[id].kind = "mount" -> Result("unsupported", d)
          [] id # NoId /\ d.node[id].kind # "mount" /\ Find(d, new) # NoId -> Result("conflict", d)
          [] OTHER -> MoveSubtree(d, id, d.node[id].parent, new)

\* Both paths are in one source: between sources VFSService copies.
MetaMove(d, path, target) ==
    LET id == Find(d, path)
        dir == Find(d, target)
        new == Join(target, Last(path))
        known == id # NoId /\ dir # NoId
        valid == known /\ IsDir(d, dir) /\ ~IsSubPath(path, target)
    IN  CASE ~known -> Result("notfound", d)
          [] known /\ ~valid -> Result("invalid", d)
          [] valid /\ d.node[id].parent = dir -> Result("none", d)
          [] valid /\ d.node[id].parent # dir /\ Find(d, new) # NoId -> Result("conflict", d)
          [] OTHER -> MoveSubtree(d, id, dir, new)

\* Mutant: only the node itself is deleted.
MutantMetaDelete(d, path) ==
    IF Find(d, path) = NoId THEN Result("notfound", d)
    ELSE Result("none", [d EXCEPT !.node = Restrict(@, DOMAIN @ \ {Find(d, path)})])

\* Delete: the node and all live nodes below its path.  Objects stay.
MetaDelete(d, path) ==
    IF Find(d, path) = NoId THEN Result("notfound", d)
    ELSE Result("none", [d EXCEPT !.node = Restrict(@, DOMAIN @ \ Subtree(d, path))])

-----------------------------------------------------------------------------
(* MetadataVFSSyncService.  disk maps the paths that exist in the storage to *)
(* "dir" or to what the file contains.                                       *)

Entries(disk, path) == {p \in DOMAIN disk : p # Root /\ Parent(p) = path /\ ~IsHidden(p)}

\* metadataVFSChildIsControlNode
IsControl(row) == row.kind \in {"mount", "virtual_dir"}

\* Mutant: a child that is gone keeps its state.
MutantMarkMissing(d, gone) == d

\* Children that the listing lacks are missing, and so are their objects.
MarkMissing(d, gone) ==
    LET objects == {d.node[i].object : i \in gone} \ {NoId}
    IN  [node |-> [i \in DOMAIN d.node |->
                      IF i \in gone THEN [d.node[i] EXCEPT !.state = "missing"] ELSE d.node[i]],
         object |-> [o \in DOMAIN d.object |->
                      IF o \in objects THEN [d.object[o] EXCEPT !.status = "missing"] ELSE d.object[o]]]

\* applyRemoteEntries for the directory with the given id
Apply(d, id, disk) ==
    LET path == d.node[id].path
        entries == Entries(disk, path)
        gone == {i \in Children(d, id) : d.node[i].path \notin entries /\ ~IsControl(d.node[i])}
        shown == {p \in entries : Find(d, p) = NoId \/ ~IsControl(d.node[Find(d, p)])}
        marked == MarkMissing(Upsert(d, shown, {p \in shown : disk[p] # "dir"}), gone)
    IN  [marked EXCEPT !.node[id].state = "indexed"]

\* RefreshPath: when the directory cannot be listed it is marked.
MetaRefresh(d, path, disk, listable) ==
    LET id == Find(d, path)
    IN  CASE id = NoId -> Result("notfound", d)
          [] id # NoId /\ ~IsDir(d, id) -> Result("invalid", d)
          [] id # NoId /\ IsDir(d, id) /\ ~listable ->
                Result("provider", [d EXCEPT !.node[id].state = "error"])
          [] OTHER -> Result("none", Apply(d, id, disk))

-----------------------------------------------------------------------------
(* MetadataVFSCommitService *)

\* CommitFileObject, with ensureCommitParentPath for the directories above: one that
\* is there and as it should be is left alone.  A conflict on the way undoes it all.
MetaCommit(d, path) ==
    LET above == {SubSeq(path, 1, n) : n \in 1 .. Len(path) - 1}
        conflict == \/ \E p \in above : Find(d, p) # NoId /\ ~IsDir(d, Find(d, p))
                    \/ Find(d, path) # NoId /\ IsDir(d, Find(d, path))
    IN  IF conflict THEN Result("conflict", d)
        ELSE Result("none", Upsert(d, above \cup {path}, {path}))

-----------------------------------------------------------------------------
(* What makes the tables a tree *)

\* Every live node but the root has a live parent, right above it; no two nodes
\* have one path.  Renames rewrite the paths below and never touch the parents.
IsTree(d) ==
    /\ \A i, j \in DOMAIN d.node : d.node[i].path = d.node[j].path => i = j
    /\ \A i \in DOMAIN d.node :
        IF d.node[i].path = Root THEN d.node[i].parent = NoId
        ELSE /\ d.node[i].parent \in DOMAIN d.node
             /\ d.node[d.node[i].parent].path = Parent(d.node[i].path)
=============================================================================
