------------------------------- MODULE Shares -------------------------------
(***************************************************************************)
(* Share links: ShareService and the table shares.  A share is bound to a  *)
(* node of the metadata tree; rows from before the tree have a virtual     *)
(* path only.  Opening one needs no account: it lists a directory or hands *)
(* out a download URL that is good for some time.  The metadata tree is    *)
(* taken to be in step with the storage (VirtualFiles is about that), so   *)
(* that the refreshes on the way change nothing.  Passwords are left out.  *)
(***************************************************************************)
EXTENDS AccessRules

CONSTANTS
    UrlTTL,   \* five minutes
    MaxTime   \* the clock (bound)

ASSUME SharesAssumption == UrlTTL \in Nat \ {0} /\ MaxTime \in Nat

Never == MaxTime + UrlTTL + 1   \* no expiry

\* metadataVFSNodeUnavailable: a stale node is served.
Unavailable(node) == node.state \in {"missing", "error"}

-----------------------------------------------------------------------------
(* The target of a share *)

NoTarget == [node |-> NoId, source |-> NoSource, inner |-> Root]

\* shareTargetFromNode, with shareInnerPathForSource
TargetFromNode(site, id) ==
    LET node == site.tree.node[id]
    IN  IF id \notin DOMAIN site.tree.node THEN NoTarget
        ELSE IF Unavailable(node) \/ node.source \notin DOMAIN site.source THEN NoTarget
        ELSE IF ~IsSubPath(site.source[node.source].mount, node.path) THEN NoTarget
        ELSE [node |-> id, source |-> node.source,
              inner |-> Inner(site.source[node.source].mount, node.path)]

\* Mutant: the path the share was made with comes first.
MutantShareTarget(site, share) ==
    TargetFromNode(site, IF Find(site.tree, share.path) # NoId THEN Find(site.tree, share.path) ELSE share.node)

\* resolveShareTarget.  (A path without a node has no file either: see above.)
ShareTarget(site, share) ==
    TargetFromNode(site, IF share.node # NoId THEN share.node ELSE Find(site.tree, share.path))

\* resolveCreateShareTarget: by a node, or by a path in a source, whose node is used
CreateTarget(site, id) == TargetFromNode(site, id)

\* Create, for a target the user may share
NewShare(site, owner, target, expires) ==
    [owner |-> owner, node |-> target.node, path |-> site.tree.node[target.node].path, expires |-> expires]

\* CanManageShare
MayManage(role, subject, share) == subject = share.owner \/ role \in {"super_admin", "admin"}

-----------------------------------------------------------------------------
(* Open *)

Refused == [kind |-> "refused"]

\* normalizeShareRelativePath, resolveShareTargetPath and isWithinShareRoot: the path that a
\* request is about, if it is a good one
Relative(root, rel) ==
    LET path == Merge(root, Clean(rel))
    IN  IF ".." \in Range(rel) \/ ~IsSubPath(root, path) THEN {} ELSE {path}

\* buildShareDownloadURL
UrlExpires(share, now) == Min({now + UrlTTL, share.expires})

\* buildShareDownloadURL: nothing is handed out when no time remains
FileAnswer(target, share, now) ==
    IF share.expires <= now THEN Refused
    ELSE [kind |-> "file", target |-> target, expires |-> UrlExpires(share, now)]

\* listPublicDirectory
Listing(site, id) ==
    {i \in Children(site.tree, id) :
        ~Unavailable(site.tree.node[i]) /\ Last(site.tree.node[i].path) \notin Reserved}

\* ensureShareAccessible
Expired(share, now) == now > share.expires

\* Open, with the path inside of the share
OpenShare(site, share, rel, now) ==
    LET root == ShareTarget(site, share)
        d == site.tree
        Serve(target) ==
            CASE target = NoTarget -> Refused
              [] target # NoTarget /\ ~IsDir(d, target.node) -> FileAnswer(target, share, now)
              [] OTHER -> [kind |-> "dir", target |-> target, items |-> Listing(site, target.node)]
        paths == Relative(d.node[root.node].path, rel)
    IN  IF Expired(share, now) \/ root = NoTarget THEN Refused
        ELSE IF ~IsDir(d, root.node) THEN FileAnswer(root, share, now)
        ELSE IF paths = {} THEN Refused
        ELSE Serve(TargetFromNode(site, Find(d, CHOOSE p \in paths : TRUE)))

-----------------------------------------------------------------------------
(* What a share promises *)

\* The node a share is about, now
Shared(site, share) == IF share.node # NoId THEN share.node ELSE Find(site.tree, share.path)

\* An answer shows only the shared node and what is below it, by the parents
\* and not by the paths; not after the share expired; a URL it hands out ends
\* with the share, and names the very file (unless its source is nested in
\* another, or disabled).
Sound(site, share, now, answer) ==
    answer.kind # "refused" =>
        LET id == answer.target.node
            shown == {id} \cup IF answer.kind = "dir" THEN answer.items ELSE {}
            named == Resolve(site.tree.node[id].path, EnabledMounts(site))
            s == answer.target.source
        IN  /\ now <= share.expires
            /\ \A n \in shown : /\ Shared(site, share) \in Ancestors(site.tree, n)
                                /\ ~Unavailable(site.tree.node[n])
            /\ answer.kind = "file" =>
                /\ answer.expires <= share.expires /\ answer.expires > now
                /\ \/ s \in site.nested \/ ~site.source[s].enabled
                   \/ named.mount.source = s /\ named.inner = answer.target.inner
=============================================================================
