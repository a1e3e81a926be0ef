---------------------------- MODULE SourceMounts ----------------------------
(***************************************************************************)
(* Sources and where they are mounted: SourceService with the mount        *)
(* registry, and MetadataVFSMountService, which keeps a row of vfs_mounts   *)
(* and a mount node of the metadata tree for every source.                 *)
(* site is a record of the tables:                                         *)
(*   source  id to [mount, enabled]                                        *)
(*   used    the ids given out so far                                      *)
(*   row     vfs_mounts: mount path to [source, node, enabled]             *)
(*   tree    the metadata tree: a node also has the source it belongs to,  *)
(*           and the ids of deleted nodes are not given out again (next)   *)
(*   nested  sources mounted above or below another one (history)          *)
(*   unsynced  sources whose mount was not brought after them (history)    *)
(* WebDAV slugs, drivers and their configuration, and the probe of a       *)
(* remote storage, which only refuses, are left out.                       *)
(***************************************************************************)
EXTENDS MetadataTree, TLC

NoSource == 0

NodeRow(parent, path, kind, source) ==
    [parent |-> parent, path |-> path, kind |-> kind, object |-> NoId, state |-> "indexed",
     source |-> source]

\* VFSNodeRepository.Create
CreateNode(d, row) == [d EXCEPT !.node = Put(@, d.next, row), !.next = @ + 1]

NewTree ==
    [node |-> (1 :> NodeRow(NoId, Root, "root", NoSource)), object |-> <<>>, next |-> 2]

NewSite ==
    [source |-> <<>>, used |-> {}, row |-> <<>>, tree |-> NewTree, nested |-> {}, unsynced |-> {}]

\* ListEnabledMounts
EnabledMounts(site) ==
    {[path |-> site.source[s].mount, source |-> s] : s \in {t \in DOMAIN site.source : site.source[t].enabled}}

-----------------------------------------------------------------------------
(* MetadataVFSMountService *)

\* mountNodeReusableForSource
NodeReusable(site, id, s) ==
    \A p \in DOMAIN site.row :
        site.row[p].node = id => site.row[p].source = s \/ ~site.row[p].enabled

\* One segment of ensureSourceMountNode.  A directory on the way, or at the end
\* of it, becomes what the mount needs and keeps its id.
EnsureSegment(site, s, r, path) ==
    LET d == r.db
        id == Find(d, path)
        last == path = site.source[s].mount
        row == NodeRow(Find(d, Parent(path)), path, IF last THEN "mount" ELSE "virtual_dir",
                       IF last THEN s ELSE NoSource)
        foreign == last /\ d.node[id].kind = "mount" /\ d.node[id].source \notin {s, NoSource}
    IN  CASE r.err # "none" -> r
          [] r.err = "none" /\ id = NoId -> Result("none", CreateNode(d, row))
          [] r.err = "none" /\ id # NoId /\ (~IsDir(d, id) \/ (foreign /\ ~NodeReusable(site, id, s))) ->
                Result("conflict", d)
          [] OTHER -> Result("none", [d EXCEPT !.node[id] = row])

\* ensureSourceMountNode
EnsureMountNode(site, s) ==
    LET path == site.source[s].mount
        Segment(r, p) == EnsureSegment(site, s, r, p)
    IN  IF path = Root
        THEN Result("none", [site.tree EXCEPT !.node[Find(site.tree, Root)].source = s])
        ELSE FoldLeft(Segment, Result("none", site.tree), [n \in 1 .. Len(path) |-> SubSeq(path, 1, n)])

\* Mutant: the rows of the earlier mounts stay enabled.
MutantDisableOthers(site, s, keep) == site

\* disableOtherSourceMounts: all rows of the source, but the one at keep, are
\* disabled and their nodes marked.
DisableOthers(site, s, keep) ==
    LET others == {p \in DOMAIN site.row : site.row[p].source = s /\ p \notin keep}
        nodes == {site.row[p].node : p \in others}
    IN  [site EXCEPT
          !.row = [p \in DOMAIN @ |-> IF p \in others THEN [@[p] EXCEPT !.enabled = FALSE] ELSE @[p]],
          !.tree.node = [i \in DOMAIN @ |-> IF i \in nodes THEN [@[i] EXCEPT !.state = "stale"] ELSE @[i]]]

\* Two sources, one of which is mounted above the other (history)
NestedWith(site, s) ==
    {t \in DOMAIN site.source \ {s} : \/ IsSubPath(site.source[t].mount, site.source[s].mount)
                                      \/ IsSubPath(site.source[s].mount, site.source[t].mount)}

\* SyncSourceMount, in a transaction.  An enabled row of another source at the
\* path is a conflict; a disabled one is taken over.  A node has one row (a
\* unique index).
SyncSourceMount(site, s) ==
    LET path == site.source[s].mount
        blocked == path \in DOMAIN site.row /\ site.row[path].source # s /\ site.row[path].enabled
        r == EnsureMountNode(site, s)
        clash == \E p \in DOMAIN site.row \ {path} : site.row[p].node = Find(r.db, path)
        near == NestedWith(site, s)
        mounted ==
            [site EXCEPT !.tree = r.db, !.unsynced = @ \ {s},
                         !.row = Put(@, path, [source |-> s, node |-> Find(r.db, path),
                                               enabled |-> site.source[s].enabled]),
                         !.nested = IF near = {} THEN @ ELSE @ \cup near \cup {s}]
    IN  IF blocked \/ r.err # "none" \/ clash THEN Result("conflict", site)
        ELSE Result("none", DisableOthers(mounted, s, {path}))

\* SyncAllSourceMounts: in the order of the ids, past the ones that fail
SyncAllSourceMounts(site) ==
    LET Sync(acc, s) == SyncSourceMount(acc, s).db
    IN  FoldLeft(Sync, site, SetToSortSeq(DOMAIN site.source, <))

-----------------------------------------------------------------------------
(* SourceService.  A request checks first and writes later; what it has     *)
(* checked is its draft.                                                     *)

\* HasMountPathConflict: sources that are disabled have their paths too.  The
\* unique index on the column says the same again when the row is written.
HasMountPathConflict(site, path, except) ==
    \E s \in DOMAIN site.source \ {except} : site.source[s].mount = path

\* Create, after its checks: the row and the mount in one transaction
CreateSource(site, s, mount, enabled) ==
    LET created == [site EXCEPT !.source = Put(@, s, [mount |-> mount, enabled |-> enabled]),
                                !.used = @ \cup {s}]
        r == SyncSourceMount(created, s)
    IN  IF ~HasMountPathConflict(site, mount, s) /\ r.err = "none" THEN r ELSE Result("failed", site)

\* Update, after its checks.  The row is written as a whole; when the source is
\* gone the update fails.
UpdateSource(site, s, mount, enabled) ==
    LET updated == [site EXCEPT !.source = Put(@, s, [mount |-> mount, enabled |-> enabled])]
        r == SyncSourceMount(updated, s)
    IN  IF s \in DOMAIN site.source /\ ~HasMountPathConflict(site, mount, s) /\ r.err = "none"
        THEN r ELSE Result("failed", site)

\* Delete, after the check that it is not the default source: the mounts are
\* disabled; nodes, rules and shares stay.
DeleteSource(site, s) ==
    IF s \notin DOMAIN site.source THEN Result("notfound", site)
    ELSE LET disabled == DisableOthers(site, s, {})
         IN  Result("none", [disabled EXCEPT !.source = [t \in DOMAIN @ \ {s} |-> @[t]],
                                             !.unsynced = @ \ {s}])

\* ensureDefaultLocalSource: the source to use, and when there is none its row,
\* in no transaction
EnsureDefaultSource(site, local) ==
    LET enabled == {s \in DOMAIN site.source : site.source[s].enabled}
        s == Min(Sources \ site.used)
        created == [site EXCEPT !.source = Put(@, s, [mount |-> local, enabled |-> TRUE]),
                                !.used = @ \cup {s}, !.unsynced = @ \cup {s}]
    IN  CASE enabled # {} -> [err |-> "none", site |-> site, source |-> Min(enabled)]
          [] enabled = {} /\ HasMountPathConflict(site, local, NoSource) ->
                [err |-> "failed", site |-> site, source |-> NoSource]
          [] OTHER -> [err |-> "none", site |-> created, source |-> s]

-----------------------------------------------------------------------------
(* What the mounts promise *)

\* The mount of an enabled source is its node, and its row
IsMounted(site, s) ==
    LET p == site.source[s].mount
        node == site.tree.node[site.row[p].node]
    IN  /\ p \in DOMAIN site.row
        /\ site.row[p].source = s /\ site.row[p].enabled
        /\ site.row[p].node \in DOMAIN site.tree.node
        /\ node.path = p /\ node.source = s /\ node.state = "indexed" /\ node.kind \in {"mount", "root"}

\* The sources, the mount rows and the mount nodes agree: an enabled source has
\* one enabled row, at its path, whose node is its mount node, and no other
\* source has an enabled row.
Agree(site) ==
    /\ \A s \in DOMAIN site.source \ (site.nested \cup site.unsynced) :
        site.source[s].enabled => IsMounted(site, s)
    /\ \A p \in DOMAIN site.row : site.row[p].enabled =>
        LET s == site.row[p].source
        IN  s \in DOMAIN site.source /\ site.source[s].enabled /\ site.source[s].mount = p
=============================================================================
