------------------------------ MODULE Accounts ------------------------------
(***************************************************************************)
(* Accounts and sessions: UserService, AuthService, the authentication     *)
(* middleware and the tables users and refresh_tokens.  A request reads    *)
(* the row of an account and later writes it whole (or only its token      *)
(* version); several requests run at once and nothing locks the row.       *)
(* SetupService.Init, which also makes the default source, is in Site.     *)
(* Tokens that expire by themselves are left out.                          *)
(***************************************************************************)
EXTENDS Naturals, Sequences, FiniteSets

CONSTANTS
    Users,       \* user names
    Workers,     \* requests that run at once
    MaxTokens,   \* token pairs issued (bound)
    MaxRequests  \* requests in a behaviour (bound)

ASSUME AccountsAssumption ==
    IsFiniteSet(Users) /\ IsFiniteSet(Workers) /\ MaxTokens \in Nat /\ MaxRequests \in Nat

VARIABLES
    user,       \* the accounts: name to row
    token,      \* the token pairs issued, in order: the claims of both, and the refresh token's row
    work,       \* what each worker is doing
    requests,   \* requests left
    past        \* what was asked for, and which writes relied on an old row (history)

accounts == <<user, token, work, requests, past>>

Roles == {"super_admin", "admin", "operator", "user"}
Statuses == {"active", "locked"}
Managers == {"super_admin", "admin"}

UserRow == [role : Roles, status : Statuses, version : Nat, password : Nat]

NewUser(role, password) == [role |-> role, status |-> "active", version |-> 0, password |-> password]

NoPast == [revoked |-> [u \in Users |-> 0], password |-> [u \in Users |-> 0],
           stale |-> {}, reused |-> {}, miscounted |-> FALSE]

\* A worker without a request.  A request has an account that it is on; one that
\* manages accounts has the role of who sent it, and what it is to write; then
\* what it has read or found: the row of the account with the revocations so far
\* (history), the active super admins, the refresh token, the source.
Idle ==
    [op |-> "none", pc |-> "idle", on |-> "nobody", actor |-> "user",
     role |-> "user", status |-> "active", password |-> 0,
     row |-> NewUser("user", 0), epoch |-> 0, counted |-> 0, from |-> 0, source |-> 0]

AccountsTypeOK ==
    /\ DOMAIN user \subseteq Users /\ \A u \in DOMAIN user : user[u] \in UserRow
    /\ \A t \in DOMAIN token : token[t].user \in DOMAIN user /\ token[t].version \in Nat
    /\ \A w \in Workers : work[w].pc \in
            {"idle", "find", "user", "count", "write", "revoke", "issue", "source", "mount", "config"}
    /\ requests \in 0 .. MaxRequests

-----------------------------------------------------------------------------
(* Roles (domain/permission) and the middleware *)

\* CanAssignRole and CanManageTargetRole
CanManage(actor, role) ==
    \/ actor = "super_admin"
    \/ actor = "admin" /\ role \in {"operator", "user"}

\* countActiveSuperAdmins
ActiveSuperAdmins(users) ==
    {u \in DOMAIN users : users[u].role = "super_admin" /\ users[u].status = "active"}

\* RequireAuth: whether an access token is let in.  The request then has the
\* role of the row, not of the token.
Accepted(t) ==
    LET row == user[token[t].user]
    IN  row.version = token[t].version /\ row.status # "locked"

-----------------------------------------------------------------------------
(* A request *)

Begin(w, request) ==
    /\ work[w] = Idle /\ requests > 0
    /\ work' = [work EXCEPT ![w] = request]
    /\ requests' = requests - 1

Continue(w, pc) == work' = [work EXCEPT ![w].pc = pc]

\* The request has read the row of its account.
ContinueWithRow(w, pc) ==
    work' = [work EXCEPT ![w].pc = pc, ![w].row = user[work[w].on], ![w].epoch = past.revoked[work[w].on]]

End(w) == work' = [work EXCEPT ![w] = Idle]

\* RequireAuth and RequireCapabilities for a request that manages accounts.  The
\* number of the request is the password it sets.
Manage(w, t, op, u, role, status) ==
    /\ requests > 0 /\ Accepted(t)
    /\ user[token[t].user].role \in Managers
    /\ Begin(w, [Idle EXCEPT !.op = op, !.pc = "find", !.actor = user[token[t].user].role, !.on = u,
                             !.role = role, !.status = status, !.password = requests])
    /\ UNCHANGED <<user, token, past>>

\* A database error ends a request; what it wrote before stays.
Fail(w) ==
    /\ work[w] # Idle
    /\ End(w)
    /\ UNCHANGED <<user, token, requests, past>>

\* UserRepository.Create
WithUser(u, row) == [v \in DOMAIN user \cup {u} |-> IF v = u THEN row ELSE user[v]]

\* issueAndStoreTokenPair
Issue(u, version, epoch, from) ==
    /\ Len(token) < MaxTokens
    /\ token' = Append(token, [user |-> u, version |-> version, revoked |-> FALSE,
                               epoch |-> epoch, from |-> from])

\* UserRepository.Update with a row that has changed since it was read
Stale(w) == user[work[w].on] # work[w].row

-----------------------------------------------------------------------------
(* UserService *)

\* Create: the name must be free; the unique index has the last word.
CreateUser(w) ==
    LET r == work[w]
    IN  /\ r.op = "create"
        /\ \/ /\ r.pc = "find"
              /\ IF r.on \in DOMAIN user \/ ~CanManage(r.actor, r.role) THEN End(w)
                 ELSE Continue(w, "write")
              /\ UNCHANGED <<user, past>>
           \/ /\ r.pc = "write"
              /\ IF r.on \in DOMAIN user THEN UNCHANGED <<user, past>>
                 ELSE /\ user' = WithUser(r.on, NewUser(r.role, r.password))
                      /\ past' = [past EXCEPT !.password[r.on] = r.password]
              /\ End(w)
        /\ UNCHANGED <<token, requests>>

\* Mutant: locking the last super admin is not looked at.
MutantDemotes(r) == r.row.role = "super_admin" /\ r.role # "super_admin"

\* The last super admin must stay.
Demotes(r) == r.row.role = "super_admin" /\ (r.role # "super_admin" \/ r.status = "locked")

ChangesPrivilege(r) == r.row.role # r.role \/ r.row.status # r.status

\* Mutant: only locking and unlocking revoke the tokens.
MutantUpdatedRow(r) ==
    [r.row EXCEPT !.role = r.role, !.status = r.status,
                  !.version = IF r.row.status # r.status THEN @ + 1 ELSE @]

UpdatedRow(r) ==
    [r.row EXCEPT !.role = r.role, !.status = r.status,
                  !.version = IF ChangesPrivilege(r) THEN @ + 1 ELSE @]

\* Update
UpdateUser(w) ==
    LET r == work[w]
        u == r.on
    IN  /\ r.op = "update"
        /\ \/ /\ r.pc = "find"
              /\ IF u \notin DOMAIN user \/ ~CanManage(r.actor, user[u].role) \/ ~CanManage(r.actor, r.role)
                 THEN End(w)
                 ELSE ContinueWithRow(w, IF Demotes([r EXCEPT !.row = user[u]]) THEN "count" ELSE "write")
              /\ UNCHANGED <<user, past>>
           \/ /\ r.pc = "count"
              /\ LET n == Cardinality(ActiveSuperAdmins(user))
                 IN  IF n = 1 THEN End(w)
                     ELSE work' = [work EXCEPT ![w].pc = "write", ![w].counted = n]
              /\ UNCHANGED <<user, past>>
           \/ /\ r.pc = "write"
              /\ user' = [user EXCEPT ![u] = UpdatedRow(r)]
              /\ past' = [past EXCEPT
                    !.revoked[u] = IF ChangesPrivilege(r) THEN @ + 1 ELSE @,
                    !.stale = IF Stale(w) THEN @ \cup {u} ELSE @,
                    !.miscounted = @ \/ (Demotes(r) /\ r.counted # Cardinality(ActiveSuperAdmins(user)))]
              /\ End(w)
        /\ UNCHANGED <<token, requests>>

\* ResetPassword: the whole row, with the new password
ResetPassword(w) ==
    LET r == work[w]
        u == r.on
    IN  /\ r.op = "reset"
        /\ \/ /\ r.pc = "find"
              /\ IF u \notin DOMAIN user THEN End(w) ELSE ContinueWithRow(w, "write")
              /\ UNCHANGED <<user, past>>
           \/ /\ r.pc = "write"
              /\ user' = [user EXCEPT ![u] = [r.row EXCEPT !.password = r.password]]
              /\ past' = [past EXCEPT !.password[u] = r.password,
                                      !.stale = IF Stale(w) THEN @ \cup {u} ELSE @]
              /\ End(w)
        /\ UNCHANGED <<token, requests>>

\* RevokeTokens: UpdateTokenVersion writes one column.
RevokeTokens(w) ==
    LET r == work[w]
        u == r.on
    IN  /\ r.op = "revoke"
        /\ \/ /\ r.pc = "find"
              /\ IF u \notin DOMAIN user THEN End(w) ELSE ContinueWithRow(w, "write")
              /\ UNCHANGED <<user, past>>
           \/ /\ r.pc = "write"
              /\ user' = [user EXCEPT ![u].version = r.row.version + 1]
              /\ past' = [past EXCEPT !.revoked[u] = @ + 1,
                                      !.stale = IF Stale(w) THEN @ \cup {u} ELSE @]
              /\ End(w)
        /\ UNCHANGED <<token, requests>>

-----------------------------------------------------------------------------
(* AuthService *)

\* Login with the password of the account
Login(w, u) ==
    /\ Begin(w, [Idle EXCEPT !.op = "login", !.pc = "find", !.on = u])
    /\ UNCHANGED <<user, token, past>>

LoginStep(w) ==
    LET r == work[w]
    IN  /\ r.op = "login"
        /\ \/ /\ r.pc = "find"
              /\ IF r.on \notin DOMAIN user THEN End(w)
                 ELSE IF user[r.on].status = "locked" THEN End(w)
                 ELSE ContinueWithRow(w, "issue")
              /\ UNCHANGED token
           \/ /\ r.pc = "issue"
              /\ Issue(r.on, r.row.version, r.epoch, 0)
              /\ End(w)
        /\ UNCHANGED <<user, requests, past>>

\* Refresh exchanges a refresh token for a new pair.
Refresh(w, t) ==
    /\ Begin(w, [Idle EXCEPT !.op = "refresh", !.pc = "find", !.on = token[t].user, !.from = t])
    /\ UNCHANGED <<user, token, past>>

\* RevokeByTokenHash does not mind a token that is revoked already.
RevokeByTokenHash(t) == [token EXCEPT ![t].revoked = TRUE]

RefreshStep(w) ==
    LET r == work[w]
        u == r.on
        t == r.from
    IN  /\ r.op = "refresh"
        /\ \/ /\ r.pc = "find"
              /\ IF token[t].revoked THEN End(w) ELSE Continue(w, "user")
              /\ UNCHANGED <<token, past>>
           \/ /\ r.pc = "user"
              /\ IF user[u].status = "locked" \/ user[u].version # token[t].version THEN End(w)
                 ELSE ContinueWithRow(w, "revoke")
              /\ UNCHANGED <<token, past>>
           \/ /\ r.pc = "revoke"
              /\ token' = RevokeByTokenHash(t)
              /\ past' = IF token[t].revoked THEN [past EXCEPT !.reused = @ \cup {t}] ELSE past
              /\ Continue(w, "issue")
           \/ /\ r.pc = "issue"
              /\ Issue(u, r.row.version, r.epoch, t)
              /\ End(w)
              /\ UNCHANGED past
        /\ UNCHANGED <<user, requests>>

\* Logout
Logout(w, t) ==
    /\ work[w] = Idle /\ requests > 0 /\ requests' = requests - 1
    /\ token' = RevokeByTokenHash(t)
    /\ UNCHANGED <<user, work, past>>

-----------------------------------------------------------------------------
AccountsInit ==
    /\ user = <<>> /\ token = <<>>
    /\ work = [w \in Workers |-> Idle]
    /\ past = NoPast

\* A request of UserService
ManageNext ==
    \E w \in Workers :
        \/ \E t \in DOMAIN token, u \in Users :
            \/ \E role \in Roles : Manage(w, t, "create", u, role, "active")
            \/ \E role \in Roles, status \in Statuses : Manage(w, t, "update", u, role, status)
            \/ \E op \in {"reset", "revoke"} : Manage(w, t, op, u, "user", "active")
        \/ CreateUser(w) \/ UpdateUser(w) \/ ResetPassword(w) \/ RevokeTokens(w)

\* A request of AuthService
SessionNext ==
    \E w \in Workers :
        \/ \E u \in Users : Login(w, u)
        \/ \E t \in DOMAIN token : Refresh(w, t) \/ Logout(w, t)
        \/ LoginStep(w) \/ RefreshStep(w)

-----------------------------------------------------------------------------
(* What the accounts promise *)

\* No token from before a change of role or status, or a revocation, is let in
\* after it: also not one that a login or an exchange, under way at the time,
\* issued later.
RevokedStaysOut ==
    \A t \in DOMAIN token :
        Accepted(t) => token[t].epoch = past.revoked[token[t].user] \/ token[t].user \in past.stale

\* A refresh token is exchanged once.
RefreshedOnce ==
    \A t \in DOMAIN token \ past.reused : Cardinality({s \in DOMAIN token : token[s].from = t}) <= 1

\* The password of an account is the one that was set last.
PasswordStays ==
    \A u \in DOMAIN user \ past.stale : user[u].password = past.password[u]
=============================================================================
