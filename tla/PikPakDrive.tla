----------------------------- MODULE PikPakDrive -----------------------------
(***************************************************************************)
(* The PikPak storage driver (pikpak_driver.go, pikpak_path_cache.go,      *)
(* pikpak_client.go): requests that turn paths into provider ids, with a   *)
(* cache in between, and then call the provider with the ids.  Several     *)
(* requests run at once and the provider's tree also changes by itself.    *)
(*                                                                         *)
(* A request is a program: a sequence of stages, each at most one call to  *)
(* the provider.  withSession runs the program, and once more when the     *)
(* first run met an expired token or captcha.  Paths are sequences of      *)
(* names; the provider knows files by id and tolerates equal names in one  *)
(* folder.                                                                 *)
(***************************************************************************)
EXTENDS PikPakSession, Sequences, SequencesExt

CONSTANTS
    MaxIds,       \* how many files the provider has ids for (bound)
    Names,
    MaxDepth,     \* how many names a path has (bound)
    Ops,          \* the requests that are made
    MaxRequests   \* how many of them in a behaviour (bound)

Ids == 1 .. MaxIds
Paths == UNION {[1 .. k -> Names] : k \in 1 .. MaxDepth}
AnyPath == Paths \cup {<<>>}
Op == [kind : {"list", "stat", "mkdir", "rename", "move", "copy", "delete", "import", "direct",
               "complete", "download", "status"},
       path : AnyPath, dir : AnyPath, name : Names]

ASSUME DriveAssumption ==
    /\ MaxIds \in Nat
    /\ MaxDepth \in Nat
    /\ Ops \subseteq Op
    /\ \A op \in Ops : op.kind = "rename" => op.dir = Front(op.path)
    /\ MaxRequests \in Nat

VARIABLES
    tree,    \* the provider's files
    cache,   \* the path cache
    req,     \* the requests
    asked,   \* how many requests there have been
    doubled, \* history: equal names in a folder have an excuse
    hit      \* history: the last file that a request acted on

driveVars == <<tree, cache, req, asked, doubled, hit>>
vars == <<sessionVars, driveVars>>

RootId == 0
Absent == [parent |-> 0, name |-> "none", kind |-> "none"]
Gone == [Absent EXCEPT !.kind = "gone"]
Live(t) == {i \in Ids : t[i].kind \in {"file", "folder"}}

\* From folder to folder down to the id, one for each name of the path
Way(t, way, path) ==
    \A k \in 1 .. Len(path) :
        /\ t[way[k]].parent = (IF k = 1 THEN RootId ELSE way[k - 1])
        /\ t[way[k]].name = path[k]

\* The ids that the provider has under a path
IdsAt(t, path) ==
    IF path = <<>> THEN {RootId}
    ELSE {i \in Live(t) : \E way \in [1 .. Len(path) -> Live(t)] :
                             Way(t, way, path) /\ way[Len(path)] = i}

Children(t, id) == {i \in Live(t) : t[i].parent = id}

NoEntry == [id |-> 0, kind |-> "none", name |-> "none"]
RootEntry == [id |-> RootId, kind |-> "folder", name |-> "/"]
EntryOf(t, i) == [id |-> i, kind |-> t[i].kind, name |-> t[i].name]

\* pc "walk" before the next segment of the path, "listed" with the children of a
\* folder in hand, "folder" before CreateFolder, "call" before the other calls,
\* "drop" before the deferred invalidation; at: the path's segments resolved so far.
\* History: old, late: the tree has changed since the run began, since the last look at
\* it or the cache; named: the ids that op.path has had since the request began; doubt:
\* a cache entry was used that may be wrong; strayed: the tree changed between the look
\* that found a folder on the way to op.path and its listing.
Idle == [pc |-> "idle", op |-> [kind |-> "none", path |-> <<>>, dir |-> <<>>, name |-> "none"],
         stage |-> 0, at |-> 0, cur |-> NoEntry, files |-> {}, file |-> NoEntry, dir |-> NoEntry,
         old |-> FALSE, late |-> FALSE, named |-> {}, doubt |-> FALSE, strayed |-> FALSE]

-----------------------------------------------------------------------------
(* Programs *)

ListProgram == <<"file", "list">>
StatProgram == <<"file">>
MkdirProgram == <<"dir", "check", "create">>
RenameProgram == <<"file", "dir", "check", "rename">>

\* Mutant: Copy does not look for the name in the target folder.
MutantMoveOrCopyProgram(kind) ==
    IF kind = "copy" THEN <<"file", "dir", kind>> ELSE <<"file", "dir", "check", kind>>

MoveOrCopyProgram(kind) == <<"file", "dir", "check", kind>>
DeleteProgram == <<"file", "trash">>
ImportProgram == <<"ensure", "check", "upload", "put">>
DirectProgram == <<"ensure", "check", "upload">>
CompleteProgram == <<>>
DownloadProgram == <<"ensure", "check", "offline">>
StatusProgram == <<"poll">>

Program(op) ==
    CASE op.kind = "list" -> ListProgram
      [] op.kind = "stat" -> StatProgram
      [] op.kind = "mkdir" -> MkdirProgram
      [] op.kind = "rename" -> RenameProgram
      [] op.kind \in {"move", "copy"} -> MoveOrCopyProgram(op.kind)
      [] op.kind = "delete" -> DeleteProgram
      [] op.kind = "import" -> ImportProgram
      [] op.kind = "direct" -> DirectProgram
      [] op.kind = "complete" -> CompleteProgram
      [] op.kind = "download" -> DownloadProgram
      [] op.kind = "status" -> StatusProgram

Resolving == {"file", "dir", "ensure"}
Stage(q) == Program(q.op)[q.stage]
Goal(q) == IF Stage(q) = "file" THEN q.op.path ELSE q.op.dir

\* Mutant: Rename leaves the cache.
MutantInvalidates(op) == op.kind \notin {"list", "stat", "direct", "rename"}

\* Requests that drop the cache whatever comes of them.  (A finished direct upload
\* and the status of a finished download also do: the cache holds no absences, so
\* that what they add to the tree makes no entry wrong.)
Invalidates(op) == op.kind \notin {"list", "stat", "direct"}

-----------------------------------------------------------------------------
(* Moving through a program *)

Finish(q) == IF Invalidates(q.op) THEN [Idle EXCEPT !.pc = "drop"] ELSE Idle

\* fn is to run from its beginning, once there is a session.
Await(op, named) == [Idle EXCEPT !.pc = "session", !.op = op, !.named = named]

\* The first stage, or the one after the current one
Enter(q, k) ==
    LET prog == Program(q.op)
    IN  IF k > Len(prog) THEN Finish(q)
        ELSE [q EXCEPT !.stage = k, !.files = {}, !.at = 0, !.cur = RootEntry,
                       !.pc = IF prog[k] \in Resolving THEN "walk" ELSE "call"]

\* Mutant: the target folder ends up in the variable of the file.
MutantResolved(q, entry) ==
    IF Stage(q) = "file" THEN Enter([q EXCEPT !.file = entry], q.stage + 1)
    ELSE IF entry.kind = "folder" THEN Enter([q EXCEPT !.dir = entry, !.file = entry], q.stage + 1)
    ELSE Finish(q)

\* A path is resolved.
Resolved(q, entry) ==
    IF Stage(q) = "file" THEN Enter([q EXCEPT !.file = entry], q.stage + 1)
    ELSE IF entry.kind = "folder" THEN Enter([q EXCEPT !.dir = entry], q.stage + 1)
    ELSE Finish(q)

\* Other requests learn that the tree has changed.
Put(r, q) == req' = [req EXCEPT ![r] = q]

PutAndTell(r, q, t) ==
    req' = [s \in Slots |->
              LET p == IF s = r THEN q ELSE req[s]
              IN  IF p.pc = "idle" THEN p
                  ELSE [p EXCEPT !.old = @ \/ s # r, !.late = @ \/ s # r,
                                 !.named = @ \cup IdsAt(t, p.op.path)]]

NoHit == [id |-> 0, named |-> {0}, doubt |-> FALSE]
NoCache == [p \in Paths |-> [entry |-> NoEntry, taint |-> FALSE]]
Cached(path) == IF path = <<>> THEN RootEntry ELSE cache[path].entry
IsCached(path) == path = <<>> \/ cache[path].entry # NoEntry

\* Is somebody between a change of the tree and the invalidation?
Dropping == \E s \in Slots : req[s].pc = "drop"
Doubtful(path) == path # <<>> /\ (cache[path].taint \/ Dropping)

\* The prefix to which the cache takes a walk that has come as far as i
Reach(goal, i) ==
    IF i = 0 /\ IsCached(goal) THEN Len(goal)
    ELSE CHOOSE j \in i .. Len(goal) :
            /\ \A k \in i + 1 .. j : IsCached(SubSeq(goal, 1, k))
            /\ j < Len(goal) => ~IsCached(SubSeq(goal, 1, j + 1))

Init ==
    /\ SessionInit
    /\ tree = [i \in Ids |->
                 CASE i = 1 -> [parent |-> 0, name |-> "a", kind |-> "folder"]
                   [] i = 2 -> [parent |-> 1, name |-> "b", kind |-> "file"]
                   [] OTHER -> Absent]
    /\ cache = NoCache
    /\ req = [r \in Slots |-> Idle]
    /\ asked = 0
    /\ doubled = FALSE
    /\ hit = NoHit

\* A request begins: withSession.
Begin(r, op) ==
    /\ req[r].pc = "idle"
    /\ asked < MaxRequests
    /\ asked' = asked + 1
    /\ EnsureSession(r)
    /\ Put(r, Await(op, IdsAt(tree, op.path)))
    /\ UNCHANGED <<tree, cache, doubled, hit>>

\* A step towards a session.  Once it is there fn runs; or it cannot be had.
Session(r) ==
    /\ req[r].pc = "session"
    /\ SessionStep(r)
    /\ req' = [req EXCEPT ![r] =
                 CASE sess'[r].pc = "ready" -> Enter([@ EXCEPT !.old = FALSE], 1)
                   [] sess'[r].pc = "failed" -> Idle
                   [] OTHER -> @]
    /\ UNCHANGED <<tree, cache, asked, doubled, hit>>

\* The cache takes a walk some way, to its end perhaps.
WalkCached(r) ==
    LET q == req[r]
        goal == Goal(q)
        j == Reach(goal, q.at)
        entry == Cached(SubSeq(goal, 1, j))
        doubts == {SubSeq(goal, 1, k) : k \in q.at + 1 .. j}
        p == [q EXCEPT !.at = j, !.cur = entry, !.late = FALSE, !.doubt = @ \/ \E path \in doubts : Doubtful(path)]
    IN  /\ q.pc = "walk" /\ (j > q.at \/ j = Len(goal))
        /\ Put(r, IF j = Len(goal) THEN Resolved(p, entry)
                  ELSE IF entry.kind # "folder" THEN Finish(p)
                  ELSE p)
        /\ UNCHANGED <<sessionVars, tree, cache, asked, doubled, hit>>

-----------------------------------------------------------------------------
(* Calls to the provider *)

\* Is request r about to call the provider?
Calling(r) ==
    \/ req[r].pc = "walk" /\ Reach(Goal(req[r]), req[r].at) = req[r].at /\ req[r].at < Len(Goal(req[r]))
    \/ req[r].pc = "folder"
    \/ req[r].pc = "call" /\ Stage(req[r]) # "put"

Authorized(r) == Calling(r) /\ sess[r].tok \in accepts

\* ErrCloudTokenInvalid, ErrCloudCaptchaExpired: fn returns, its deferred invalidation
\* included, and runs once more with a new session.
TokenRefused(r) ==
    /\ Calling(r) /\ sess[r].tok \notin accepts
    /\ IF sess[r].again
       THEN /\ Put(r, Finish(req[r]))
            /\ UNCHANGED <<session, sess, cache>>
       ELSE /\ RefreshAccess(r)
            /\ Put(r, Await(req[r].op, req[r].named))
            /\ cache' = IF Invalidates(req[r].op) THEN NoCache ELSE cache
    /\ UNCHANGED <<stored, password, accepts, renews, issued, torn, lapsed, edited, faults,
                   tree, asked, doubled, hit>>

CaptchaRefused(r) ==
    /\ Authorized(r) /\ ~sess[r].again
    /\ Fault("captcha")
    /\ RefreshDriveCaptcha(r)
    /\ Put(r, Await(req[r].op, req[r].named))
    /\ cache' = IF Invalidates(req[r].op) THEN NoCache ELSE cache
    /\ UNCHANGED <<stored, password, accepts, renews, issued, torn, lapsed, edited,
                   tree, asked, doubled, hit>>

\* listFilesAll, for a walk or for List
ListFiles(r) ==
    LET q == req[r]
        id == IF q.pc = "walk" THEN q.cur.id ELSE q.file.id
    IN  /\ Authorized(r)
        /\ q.pc = "walk" \/ (q.pc = "call" /\ Stage(q) = "list")
        /\ Put(r, IF q.pc = "call" /\ q.file.kind # "folder" THEN Finish(q)
                  ELSE [q EXCEPT !.pc = "listed", !.late = FALSE,
                                 !.strayed = @ \/ (q.late /\ q.at > 0 /\ Stage(q) = "file"),
                                 !.files = {EntryOf(tree, i) : i \in Children(tree, id)}])
        /\ UNCHANGED <<sessionVars, tree, cache, asked, doubled, hit>>

\* cacheChildren: of equal names the last one stays.
CacheChildren(parent, files, doubt) ==
    [p \in Paths |->
        LET found == {f \in files : p = Append(parent, f.name)}
        IN  IF found = {} THEN cache[p]
            ELSE [entry |-> CHOOSE f \in found : \A g \in found : f.id >= g.id, taint |-> doubt]]

\* The first file of that name
Pick(files, name) ==
    LET found == {f \in files : f.name = name}
    IN  IF found = {} THEN NoEntry ELSE CHOOSE f \in found : \A g \in found : f.id <= g.id

\* What a walk does with the children of a folder
WalkListed(r) ==
    LET q == req[r]
        goal == Goal(q)
        parent == SubSeq(goal, 1, q.at)
        found == Pick(q.files, goal[q.at + 1])
        p == [q EXCEPT !.files = {}, !.at = @ + 1, !.cur = found]
    IN  /\ q.pc = "listed" /\ Stage(q) \in Resolving
        /\ cache' = CacheChildren(parent, q.files, q.old \/ q.doubt)
        /\ Put(r, CASE found = NoEntry /\ Stage(q) = "ensure" -> [q EXCEPT !.pc = "folder", !.files = {}]
                    [] found = NoEntry /\ Stage(q) # "ensure" -> Finish(q)
                    [] found # NoEntry /\ q.at + 1 = Len(goal) -> Resolved(p, found)
                    [] OTHER -> IF found.kind = "folder" THEN [p EXCEPT !.pc = "walk"] ELSE Finish(p))
        /\ UNCHANGED <<sessionVars, tree, asked, doubled, hit>>

\* The name that ensureNoChildWithName looks for
NewName(q) == IF q.op.kind \in {"move", "copy"} THEN q.file.name ELSE q.op.name

\* A folder does not go into itself, and ensureNoChildWithName lists the target.
CheckName(r) ==
    LET q == req[r]
        refused == \/ \E i \in Children(tree, q.dir.id) : tree[i].name = NewName(q)
                   \/ q.op.kind \in {"move", "copy"} /\ q.file.kind = "folder"
                         /\ IsPrefix(q.op.path, q.op.dir)
    IN  /\ q.pc = "call" /\ Stage(q) = "check"
        /\ Authorized(r)
        /\ Put(r, IF refused THEN Finish(q) ELSE Enter([q EXCEPT !.late = FALSE], q.stage + 1))
        /\ UNCHANGED <<sessionVars, tree, cache, asked, doubled, hit>>

\* List has its answer.
ListListed(r) ==
    LET q == req[r]
    IN  /\ q.pc = "listed" /\ Stage(q) = "list"
        /\ cache' = CacheChildren(q.op.path, q.files, q.old \/ q.doubt)
        /\ Put(r, Enter(q, q.stage + 1))
        /\ UNCHANGED <<sessionVars, tree, asked, doubled, hit>>

Fresh(t) == {i \in Ids : t[i].kind = "none" /\ \A j \in Ids : j < i => t[j].kind # "none"}

Add(t, parent, name, kind) ==
    IF Fresh(t) = {} THEN t
    ELSE [t EXCEPT ![CHOOSE i \in Fresh(t) : TRUE] = [parent |-> parent, name |-> name, kind |-> kind]]

Creates == {"create", "copy", "upload", "offline"}

\* What a call makes of the provider's tree.  (A copied folder is an empty one.)
Effect(t, q) ==
    CASE Stage(q) = "create" -> Add(t, q.dir.id, q.op.name, "folder")
      [] Stage(q) \in {"upload", "offline"} -> Add(t, q.dir.id, q.op.name, "file")
      [] Stage(q) = "copy" ->
            IF q.file.id \in Live(t) THEN Add(t, q.dir.id, t[q.file.id].name, t[q.file.id].kind) ELSE t
      [] Stage(q) = "rename" -> IF q.file.id \in Live(t) THEN [t EXCEPT ![q.file.id].name = q.op.name] ELSE t
      [] Stage(q) = "move" -> IF q.file.id \in Live(t) THEN [t EXCEPT ![q.file.id].parent = q.dir.id] ELSE t
      [] Stage(q) = "trash" -> [i \in Ids |-> IF i = q.file.id \/ (i \in Live(t) /\ t[i].parent = q.file.id) THEN Gone ELSE t[i]]
      [] OTHER -> t

\* CreateFolder on the way to a folder (ensureFolderPathWithSession)
CreateFolder(r) ==
    LET q == req[r]
        goal == Goal(q)
        name == goal[q.at + 1]
        made == [id |-> CHOOSE i \in Fresh(tree) : TRUE, kind |-> "folder", name |-> name]
        p == [q EXCEPT !.at = @ + 1, !.cur = made, !.pc = "walk"]
    IN  /\ q.pc = "folder" /\ Authorized(r) /\ Fresh(tree) # {}
        /\ tree' = Add(tree, q.cur.id, name, "folder")
        /\ cache' = [cache EXCEPT ![SubSeq(goal, 1, q.at + 1)] = [entry |-> made, taint |-> q.old \/ q.doubt]]
        /\ PutAndTell(r, IF q.at + 1 = Len(goal) THEN Resolved(p, made) ELSE p, tree')
        /\ doubled' = (doubled \/ q.late \/ q.doubt)
        /\ UNCHANGED <<sessionVars, asked, hit>>

\* History: has the tree changed since the request looked for the name, or since it
\* looked up the file that it now gives a name, or brings with the name it has?
Outdated(q) == q.doubt \/ IF Stage(q) \in {"rename", "move", "copy"} THEN q.old ELSE q.late

\* The call that the program is for.  An answer may be lost: the client calls again.
Call(r) ==
    LET q == req[r]
        once == Effect(tree, q)
    IN  /\ q.pc = "call" /\ Stage(q) \notin {"list", "check", "put"}
        /\ Authorized(r)
        /\ Stage(q) \in Creates => Fresh(tree) # {}
        /\ \/ /\ tree' = once
              /\ doubled' = (doubled \/ (Outdated(q) /\ Stage(q) \notin {"trash", "poll"}))
              /\ PutAndTell(r, Enter(q, q.stage + 1), once)
              /\ UNCHANGED faults
           \/ /\ Stage(q) \in Creates /\ Fresh(once) # {}
              /\ Fault("lost")
              /\ tree' = Effect(once, q)
              /\ doubled' = TRUE
              /\ PutAndTell(r, Enter(q, q.stage + 1), tree')
           \/ \E done \in BOOLEAN :  \* the client gives up
              /\ Fault("net")
              /\ tree' = IF done THEN once ELSE tree
              /\ doubled' = (doubled \/ (done /\ Outdated(q)))
              /\ PutAndTell(r, Finish(q), tree')
        /\ hit' = IF Stage(q) \in {"rename", "move", "copy", "trash"}
                  THEN [id |-> q.file.id, named |-> q.named, doubt |-> q.doubt \/ q.strayed] ELSE hit
        /\ UNCHANGED <<session, stored, accepts, renews, password, issued, sess, torn, lapsed, edited, cache, asked>>

\* PutObject of ImportFile: the store may refuse, which counts as an invalid token and
\* runs the whole import once more.
PutObject(r) ==
    /\ req[r].pc = "call" /\ Stage(req[r]) = "put"
    /\ \/ /\ Put(r, Finish(req[r]))
          /\ UNCHANGED <<session, sess, cache, faults>>
       \/ /\ Fault("net") /\ ~sess[r].again
          /\ RefreshAccess(r)
          /\ Put(r, Await(req[r].op, req[r].named))
          /\ cache' = NoCache
    /\ UNCHANGED <<stored, password, accepts, renews, issued, torn, lapsed, edited, tree, asked, doubled, hit>>

\* The deferred invalidatePikPakPathCache
Invalidate(r) ==
    /\ req[r].pc = "drop"
    /\ cache' = NoCache
    /\ Put(r, Idle)
    /\ hit' = NoHit
    /\ Set(r, Out)
    /\ UNCHANGED <<session, stored, password, accepts, renews, issued, torn, lapsed, edited, faults,
                   tree, asked, doubled>>

-----------------------------------------------------------------------------
(* The world *)

\* A cached path reaches its TTL.
ExpireEntry(path) ==
    /\ cache[path].entry # NoEntry
    /\ Fault("ttl")
    /\ cache' = [cache EXCEPT ![path] = NoCache[path]]
    /\ UNCHANGED <<session, stored, accepts, renews, password, issued, sess, torn, lapsed, edited,
                   tree, req, asked, doubled, hit>>

\* Files are moved about in the provider's own application: all that is cached
\* may be wrong until its TTL.
Outside ==
    /\ Fault("outside")
    /\ \E i \in Live(tree), n \in Names :
          /\ n # tree[i].name /\ IdsAt(tree, <<n>>) = {}
          /\ tree' = [tree EXCEPT ![i].name = n]
    /\ cache' = [p \in Paths |-> [cache[p] EXCEPT !.taint = (cache[p].entry # NoEntry)]]
    /\ req' = [r \in Slots |-> IF req[r].pc = "idle" THEN req[r]
                               ELSE [req[r] EXCEPT !.old = TRUE, !.late = TRUE, !.named = @ \cup IdsAt(tree', req[r].op.path)]]
    /\ doubled' = TRUE
    /\ UNCHANGED <<session, stored, accepts, renews, password, issued, sess, torn, lapsed, edited, asked, hit>>

Crash ==
    /\ SessionCrash
    /\ cache' = NoCache
    /\ req' = [r \in Slots |-> Idle]
    /\ UNCHANGED <<tree, asked, doubled, hit>>

Next ==
    \/ \E r \in Slots :
          \/ \E op \in Ops : Begin(r, op)
          \/ Session(r) \/ WalkCached(r) \/ TokenRefused(r) \/ CaptchaRefused(r) \/ ListFiles(r)
          \/ WalkListed(r) \/ ListListed(r) \/ CheckName(r) \/ CreateFolder(r) \/ Call(r) \/ PutObject(r) \/ Invalidate(r)
    \/ \E path \in Paths : ExpireEntry(path)
    \/ Outside \/ Crash
    \/ (Expire \/ Revoke \/ EditSource) /\ UNCHANGED driveVars

Spec == Init /\ [][Next]_vars

-----------------------------------------------------------------------------
TypeOK ==
    /\ SessionTypeOK
    /\ \A i \in Ids : tree[i].kind \in {"none", "file", "folder", "gone"} /\ tree[i].parent \in Ids \cup {RootId}
    /\ \A p \in Paths : cache[p].entry = NoEntry \/ cache[p].entry.id \in Ids
    /\ \A r \in Slots : req[r].pc \in {"idle", "session", "walk", "listed", "folder", "call", "drop"}
    /\ asked \in 0 .. MaxRequests

\* The cache tells the truth between changes of the tree and their invalidation:
\* every cached path has the file that the provider has there, unless it was put in
\* the cache by a request that had begun to look before a change, or the tree was
\* changed in another application.
CacheAgrees ==
    /\ TypeOK
    /\ \A p \in Paths :
          cache[p].entry # NoEntry /\ ~cache[p].taint /\ ~Dropping
          => cache[p].entry.id \in IdsAt(tree, p)

\* A request renames, moves, copies or deletes a file that had the path it was given
\* at some moment since it began, second runs, refreshed tokens and requests in
\* between included, unless it used a cache entry of the kind excepted above, or the
\* tree changed between its finding a folder on the way and listing it: it then takes
\* a file that may never have had that path.
ActsOnNamedFile == hit.doubt \/ hit.id \in hit.named

\* Two files of one name in a folder come only from an answer that was lost and a call
\* made again, from a change between a request's check and its call or, where a file is
\* renamed, moved or copied by the id that its path had, since that was looked up, from
\* a cache entry of the kind excepted above, or from outside.
DuplicatesExplained ==
    \A i, j \in Live(tree) :
        i # j /\ tree[i].parent = tree[j].parent /\ tree[i].name = tree[j].name => doubled
=============================================================================
