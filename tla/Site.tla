-------------------------------- MODULE Site --------------------------------
(***************************************************************************)
(* The installation as its administrators and users change it: accounts    *)
(* (Accounts), sources and mounts (SourceMounts), access rules             *)
(* (AccessRules), shares (Shares), the system configuration, the first     *)
(* set-up and restarts.  Requests about accounts, and the set-up, are      *)
(* interleaved step by step; a request about a source checks in one step   *)
(* and writes in another; the others are one transaction each.             *)
(*                                                                         *)
(* A behaviour has a number of account requests or a number of edits of    *)
(* the rest, not both: of the accounts, the rest uses only the role of the *)
(* request's user, which each request reads anew.                          *)
(***************************************************************************)
EXTENDS Accounts, Shares

CONSTANTS
    Founders, Member,   \* the super admins and a user, where there are accounts already
    MountPaths,   \* where sources are mounted
    Local,        \* where the default source is
    Names,        \* names of files and directories
    Shapes,       \* effect, actions, priority and inheritance of the rules that are made
    Asked,        \* paths that visitors of a share ask for
    MaxRows, MaxRules, MaxShares,   \* bounds
    MaxEdits,     \* edits in a behaviour, together with the faults (bound)
    MaxFaults     \* database errors and restarts (bound)

ASSUME SiteAssumption ==
    /\ Founders \subseteq Users /\ Founders # {} /\ Member \in Users \ Founders
    /\ Local \in MountPaths /\ MaxEdits \in Nat /\ MaxFaults \in 0 .. MaxEdits
    /\ \A shape \in Shapes : shape.effect \in {"allow", "deny"} /\ shape.actions \subseteq Actions
                             /\ shape.actions # {}

VARIABLES
    site,     \* sources, mounts and the metadata tree
    config,   \* the system configuration
    draft,    \* requests about sources that have made their checks
    rule,     \* access rules
    share,    \* shares
    url,      \* the download URL that was handed out last
    now,      \* the clock
    edits, faults   \* left

rest == <<site, config, draft, rule, share, url, now, edits, faults>>
vars == <<accounts, rest>>

NoUrl == [kind |-> "refused"]

TypeOK ==
    /\ AccountsTypeOK
    /\ DOMAIN site.source \subseteq site.used /\ site.used \subseteq Sources
    /\ \A i \in DOMAIN rule : rule[i].source \in site.used \cup {NoSource}
    /\ \A k \in DOMAIN share : share[k].node \in 0 .. site.tree.next - 1
    /\ now \in 0 .. MaxTime /\ edits \in 0 .. MaxEdits /\ faults \in 0 .. MaxFaults

-----------------------------------------------------------------------------
(* Where a behaviour begins *)

\* Nothing is there yet.
FreshInstall ==
    /\ AccountsInit /\ requests = MaxRequests
    /\ site = NewSite /\ config = NoConfig
    /\ rule = <<>> /\ share = <<>> /\ edits = 0 /\ faults = MaxFaults

\* Super admins and a user, each with a session; a source with a directory and a
\* file in it; the user may do all in it; a share of the directory that expires
\* and one that was made before there were nodes.
Established ==
    LET d == Append(Local, CHOOSE n \in Names : TRUE)
        dir == Find(site.tree, d)
        file == Append(d, CHOOSE n \in Names : TRUE)
        mounted == CreateSource(NewSite, 1, Local, TRUE).db
        withDir == CreateNode(mounted.tree, NodeRow(Find(mounted.tree, Local), d, "dir", 1))
        names == SetToSeq(Founders \cup {Member})
    IN  /\ user = [u \in Founders \cup {Member} |->
                      NewUser(IF u \in Founders THEN "super_admin" ELSE "user", 0)]
        /\ token = [k \in DOMAIN names |-> [user |-> names[k], version |-> 0, revoked |-> FALSE,
                                            epoch |-> 0, from |-> 0]]
        /\ work = [w \in Workers |-> Idle] /\ past = NoPast
        /\ site = [mounted EXCEPT !.tree =
                      CreateNode(withDir, NodeRow(Find(withDir, d), file, "file", 1))]
        /\ config = [default |-> 1, multi |-> TRUE, exists |-> TRUE]
        /\ rule = <<RuleForNode(site, Find(site.tree, Local), Member,
                        [effect |-> "allow", actions |-> Actions, priority |-> 1, inherit |-> TRUE]),
                    RuleForNode(site, Find(site.tree, Local), CHOOSE f \in Founders : TRUE,
                        [effect |-> "deny", actions |-> Actions, priority |-> 2, inherit |-> TRUE])>>
        /\ share = <<[owner |-> Member, node |-> dir, path |-> d, expires |-> 1],
                     [owner |-> Member, node |-> NoId, path |-> d, expires |-> Never]>>
        /\ faults \in 0 .. MaxFaults
        /\ \/ requests = MaxRequests /\ edits = 0
           \/ requests = 0 /\ edits = MaxEdits - faults

Init ==
    /\ FreshInstall \/ Established
    /\ draft = {} /\ url = NoUrl /\ now = 0

-----------------------------------------------------------------------------
(* SetupService.Init: no transaction holds its steps together. *)

Setup(w, u) ==
    /\ Begin(w, [Idle EXCEPT !.op = "init", !.pc = "find", !.on = u, !.password = requests])
    /\ UNCHANGED <<user, token, past, rest>>

SetupStep(w) ==
    LET r == work[w]
    IN  /\ r.op = "init"
        /\ \/ /\ r.pc = "find"   \* Count
              /\ IF DOMAIN user # {} THEN End(w) ELSE Continue(w, "write")
              /\ UNCHANGED <<user, token, past, site, config>>
           \/ /\ r.pc = "write"
              /\ IF r.on \in DOMAIN user THEN End(w) /\ UNCHANGED <<user, past>>
                 ELSE /\ user' = WithUser(r.on, NewUser("super_admin", r.password))
                      /\ past' = [past EXCEPT !.password[r.on] = r.password]
                      /\ Continue(w, "source")
              /\ UNCHANGED <<token, site, config>>
           \/ /\ r.pc = "source"
              /\ LET e == EnsureDefaultSource(site, Local)
                 IN  /\ site' = e.site
                     /\ IF e.err = "none" THEN work' = [work EXCEPT ![w].pc = "mount", ![w].source = e.source]
                        ELSE End(w)
              /\ UNCHANGED <<user, token, past, config>>
           \/ /\ r.pc = "mount"
              /\ LET e == SyncSourceMount(site, r.source)
                 IN  /\ site' = e.db
                     /\ IF e.err = "none" THEN Continue(w, "config") ELSE End(w)
              /\ UNCHANGED <<user, token, past, config>>
           \/ /\ r.pc = "config"
              /\ config' = [default |-> r.source, multi |-> TRUE, exists |-> TRUE]
              /\ Continue(w, "issue")
              /\ UNCHANGED <<user, token, past, site>>
           \/ /\ r.pc = "issue"
              /\ Issue(r.on, 0, 0, 0)
              /\ End(w)
              /\ UNCHANGED <<user, past, site, config>>
        /\ UNCHANGED <<requests, draft, rule, share, url, now, edits, faults>>

-----------------------------------------------------------------------------
(* Edits *)

Edit == edits > 0 /\ edits' = edits - 1 /\ UNCHANGED <<accounts, faults>>

\* SystemService.UpdateConfig takes any source for the default one.
UpdateConfig(default, multi) ==
    /\ Edit
    /\ config' = [default |-> default, multi |-> multi, exists |-> TRUE]
    /\ UNCHANGED <<site, draft, rule, share, url, now>>

\* SourceService: the checks of Create, Update and Delete
Draft(d) == draft' = draft \cup {d} /\ UNCHANGED <<site, config, rule, share, url, now>>

CheckCreate(mount, enabled) ==
    /\ Edit
    /\ ~HasMountPathConflict(site, mount, NoSource)
    /\ Draft([do |-> "create", source |-> NoSource, mount |-> mount, enabled |-> enabled])

CheckUpdate(s, mount, enabled) ==
    /\ Edit
    /\ ~HasMountPathConflict(site, mount, s)
    /\ Draft([do |-> "update", source |-> s, mount |-> mount, enabled |-> enabled])

CheckDelete(s) ==
    /\ Edit
    /\ config.default # s
    /\ Draft([do |-> "delete", source |-> s, mount |-> Root, enabled |-> FALSE])

\* SourceService: the transaction that follows
Commit(d) ==
    /\ draft' = draft \ {d}
    /\ d.do = "create" => Sources \ site.used # {}
    /\ site' = CASE d.do = "create" -> CreateSource(site, Min(Sources \ site.used), d.mount, d.enabled).db
                 [] d.do = "update" -> UpdateSource(site, d.source, d.mount, d.enabled).db
                 [] OTHER -> DeleteSource(site, d.source).db
    /\ UNCHANGED <<accounts, config, rule, share, url, now, edits, faults>>

\* What VFSService lets be changed: below a mount point, and to a name that is
\* free and not on the way to a mount
Below(path) ==
    LET r == Resolve(path, EnabledMounts(site)) IN r.real /\ r.inner # Root

Writable(path) ==
    /\ Below(path) /\ ~IsHidden(path)
    /\ ~MountNameConflict(path, EnabledMounts(site))
    /\ Find(site.tree, path) = NoId

SourceAt(path) == Resolve(path, EnabledMounts(site)).mount.source

ChangeTree(d) ==
    /\ site' = [site EXCEPT !.tree = d]
    /\ UNCHANGED <<config, draft, rule, share, url, now>>

\* A directory or a file appears: Mkdir, an upload, a refresh
MakeFile(id, name, kind) ==
    LET path == Join(site.tree.node[id].path, name)
    IN  /\ Edit
        /\ IsDir(site.tree, id) /\ Writable(path) /\ site.tree.next <= MaxRows
        /\ ChangeTree(CreateNode(site.tree, NodeRow(id, path, kind, SourceAt(path))))

\* VFSService.Rename
RenameFile(id, name) ==
    LET path == site.tree.node[id].path
    IN  /\ Edit
        /\ Below(path) /\ Writable(Join(Parent(path), name))
        /\ ChangeTree(MetaRename(site.tree, path, name).db)

\* VFSService.Move within a source
MoveFile(id, to) ==
    LET path == site.tree.node[id].path
        target == site.tree.node[to].path
    IN  /\ Edit
        /\ Below(path) /\ IsDir(site.tree, to) /\ ~IsSubPath(path, target)
        /\ Writable(Join(target, Last(path))) /\ SourceAt(Join(target, Last(path))) = SourceAt(path)
        /\ ChangeTree(MetaMove(site.tree, path, target).db)

\* VFSService.Delete
DeleteFile(id) ==
    /\ Edit
    /\ Below(site.tree.node[id].path)
    /\ ChangeTree(MetaDelete(site.tree, site.tree.node[id].path).db)

\* A file is gone from the storage, and the next refresh notices.
Vanish(id) ==
    /\ Edit
    /\ ~IsDir(site.tree, id)
    /\ ChangeTree([site.tree EXCEPT !.node[id].state = "missing"])

\* ACLService.Create and Update, by a node or by a path
Rules(shape) ==
    {RuleForNode(site, id, Member, shape) : id \in {n \in DOMAIN site.tree.node :
        site.tree.node[n].source \in DOMAIN site.source \cup {NoSource}}}
    \cup {RuleForPath(site, s, <<n>>, Member, shape) : s \in DOMAIN site.source, n \in Names}

PutRule(i, shape) ==
    /\ Edit
    /\ \E r \in Rules(shape) : rule' = Put(rule, i, r)
    /\ UNCHANGED <<site, config, draft, share, url, now>>

\* ACLService.Delete
DeleteRule(i) ==
    /\ Edit
    /\ rule' = [j \in DOMAIN rule \ {i} |-> rule[j]]
    /\ UNCHANGED <<site, config, draft, share, url, now>>

\* ShareService.Create by the user: expires is a time from now
CreateShare(id, after) ==
    LET target == CreateTarget(site, id)
        k == Len(share) + 1
    IN  /\ Edit
        /\ k <= MaxShares /\ target # NoTarget
        /\ AuthorizeVirtualPath(site, rule, config, user[Member].role, Member, target.source,
                                site.tree.node[id].path, id, "share")
        /\ share' = Append(share, NewShare(site, Member, target, Min({Never, now + after})))
        /\ UNCHANGED <<site, config, draft, rule, url, now>>

\* ShareService.Update: a new time to expire
UpdateShare(k, after) ==
    /\ Edit
    /\ MayManage(user[Member].role, Member, share[k])
    /\ share' = [share EXCEPT ![k].expires = Min({Never, now + after})]
    /\ UNCHANGED <<site, config, draft, rule, url, now>>

\* ShareService.Delete; the last of the shares, so that they stay a sequence
DeleteShare(k) ==
    /\ Edit
    /\ k = Len(share) /\ MayManage(user[Member].role, Member, share[k])
    /\ share' = Front(share)
    /\ UNCHANGED <<site, config, draft, rule, url, now>>

\* ShareService.Open: only a URL outlives it.
Open(k, rel) ==
    LET answer == OpenShare(site, share[k], rel, now)
    IN  /\ Edit
        /\ answer.kind = "file"
        /\ url' = [share |-> k, until |-> share[k].expires] @@ answer
        /\ UNCHANGED <<site, config, draft, rule, share, now>>

Tick ==
    /\ Edit
    /\ now < MaxTime /\ now' = now + 1
    /\ UNCHANGED <<site, config, draft, rule, share, url>>

-----------------------------------------------------------------------------
Fault == faults > 0 /\ faults' = faults - 1

\* A request ends in a database error.
RequestFails(w) ==
    /\ Fault /\ Fail(w)
    /\ UNCHANGED <<site, config, draft, rule, share, url, now, edits>>

\* The process dies and starts again: SyncAllSourceMounts.
Restart ==
    /\ Fault
    /\ work' = [w \in Workers |-> Idle] /\ draft' = {}
    /\ site' = SyncAllSourceMounts(site)
    /\ UNCHANGED <<user, token, requests, past, config, rule, share, url, now, edits>>

AccountsNext == (ManageNext \/ SessionNext) /\ UNCHANGED rest

SetupNext == \E w \in Workers : (\E u \in Users : Setup(w, u)) \/ SetupStep(w)

SourceNext ==
    \/ \E s \in Sources, multi \in BOOLEAN : UpdateConfig(s, multi)
    \/ \E p \in MountPaths, enabled \in BOOLEAN :
        CheckCreate(p, enabled) \/ \E s \in DOMAIN site.source : CheckUpdate(s, p, enabled)
    \/ \E s \in DOMAIN site.source : CheckDelete(s)
    \/ \E d \in draft : Commit(d)

FileNext ==
    \E id \in DOMAIN site.tree.node :
        \/ \E n \in Names : RenameFile(id, n) \/ \E kind \in {"dir", "file"} : MakeFile(id, n, kind)
        \/ \E to \in DOMAIN site.tree.node : MoveFile(id, to)
        \/ DeleteFile(id) \/ Vanish(id)

RuleNext ==
    \/ \E i \in 1 .. MaxRules, shape \in Shapes : PutRule(i, shape)
    \/ \E i \in DOMAIN rule : DeleteRule(i)

ShareNext ==
    \/ \E id \in DOMAIN site.tree.node, after \in {1, Never} : CreateShare(id, after)
    \/ \E k \in DOMAIN share :
        (\E after \in {1, Never} : UpdateShare(k, after)) \/ DeleteShare(k) \/ \E rel \in Asked : Open(k, rel)
    \/ Tick

Next ==
    \/ AccountsNext \/ SetupNext
    \/ SourceNext \/ FileNext \/ RuleNext \/ ShareNext
    \/ Restart \/ \E w \in Workers : RequestFails(w)

Spec == Init /\ [][Next]_vars

-----------------------------------------------------------------------------
(* Properties *)

\* Tokens from before a revocation are not let in, a refresh token is exchanged
\* once and a password stays set, unless requests about one account overlapped
\* (UserService, AuthService).
SessionsEnd == RevokedStaysOut /\ RefreshedOnce /\ PasswordStays

\* There is a super admin who is not locked as soon as there is an account,
\* unless two requests overlapped (UserService.Update's check of the last one).
SuperAdminRemains ==
    user = <<>> \/ ActiveSuperAdmins(user) # {} \/ past.miscounted \/ past.stale # {}

\* ACLAuthorizer's loop over sorted rules and path prefixes decides as the rules
\* say: the highest priority that matches, deny before allow, and a rule for a
\* node goes with the node wherever it is renamed or moved.  Asking by node and
\* by path in the source comes to the same; a source that is shown holds
\* something the user may use.
DecisionsFollowRules ==
    \A u \in DOMAIN user, s \in DOMAIN site.source :
        LET role == user[u].role
            mount == site.source[s].mount
            free == Bypass(role, rule, config, s)
            mine == {id \in DOMAIN site.tree.node : /\ site.tree.node[id].source = s
                                                   /\ IsSubPath(mount, site.tree.node[id].path)}
            May(action) == {id \in mine : free \/ MayDo(site, rule, s, u, id, action)}
            AtPath(path) == \E action \in Actions :
                AuthorizePath(site, rule, config, role, u, s, Inner(mount, path), action)
        IN  config.exists =>
                /\ Visible(site, rule, config, role, u, s, mine) = May("read")
                /\ {id \in mine : AuthorizePath(site, rule, config, role, u, s,
                                       Inner(mount, site.tree.node[id].path), "share")} = May("share")
                /\ CanSeeSource(site, rule, config, role, u, s) =>
                    \/ free \/ AtPath(mount)
                    \/ \E i \in DOMAIN rule : LET path == RulePath(site.tree, rule[i])
                                              IN  IsSubPath(mount, path) /\ AtPath(path)

\* A share that is opened, by whatever path, shows what Sound says (ShareService.Open).
SharesServeTheirNode ==
    /\ \A k \in DOMAIN share, rel \in Asked :
        Sound(site, share[k], now, OpenShare(site, share[k], rel, now))
    /\ url # NoUrl => url.expires <= url.until

\* Sources, mount rows and mount nodes agree after every create, update and
\* delete, also of two requests that made their checks before either wrote, and
\* after a restart in the middle (MetadataVFSMountService, SourceService).
MountsAgree == TypeOK /\ IsTree(site.tree) /\ Agree(site)
=============================================================================
