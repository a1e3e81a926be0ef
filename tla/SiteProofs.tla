----------------------------- MODULE SiteProofs -----------------------------
(***************************************************************************)
(* What the accounts of an installation promise, for any number of         *)
(* accounts, tokens, requests at once and restarts: tokens end with a      *)
(* revocation, a refresh token is exchanged once, a password stays as it   *)
(* was set, and an active super admin remains.                             *)
(***************************************************************************)
EXTENDS Site, FiniteSetTheorems, SequenceTheorems, TLAPS

-----------------------------------------------------------------------------
(* The inductive invariant *)

Ops == {"none", "create", "update", "reset", "revoke", "login", "refresh", "init"}
Pcs == {"idle", "find", "user", "count", "write", "revoke", "issue", "source", "mount", "config"}

IsRequest(r) ==
    /\ r = [op |-> r.op, pc |-> r.pc, on |-> r.on, actor |-> r.actor, role |-> r.role, status |-> r.status,
            password |-> r.password, row |-> r.row, epoch |-> r.epoch, counted |-> r.counted,
            from |-> r.from, source |-> r.source]
    /\ r.op \in Ops /\ r.pc \in Pcs
    /\ r.role \in Roles /\ r.status \in Statuses /\ r.password \in Nat
    /\ r.row \in UserRow /\ r.epoch \in Nat /\ r.from \in Nat

TokenRow == [user : Users, version : Nat, revoked : BOOLEAN, epoch : Nat, from : Nat]

Past == [revoked : [Users -> Nat], password : [Users -> Nat], stale : SUBSET Users,
         reused : SUBSET Nat, miscounted : BOOLEAN]

AccountTypes ==
    /\ DOMAIN user \subseteq Users /\ \A u \in DOMAIN user : user[u] \in UserRow
    /\ token \in Seq(TokenRow)
    /\ DOMAIN work = Workers /\ \A w \in Workers : IsRequest(work[w])
    /\ requests \in Nat
    /\ past \in Past

\* What a request relies on: its account is there once it has been found, and a
\* row that was read carries the revocations up to that moment; a request that
\* is to demote a super admin did not count exactly one.
WorkerOK(r) ==
    /\ r.op # "none" => r.on \in Users
    /\ r.op \in {"create", "update", "reset", "revoke"} => DOMAIN user # {}
    /\ (r.op \in {"update", "reset", "revoke"} /\ r.pc \in {"count", "write"}) => r.on \in DOMAIN user
    /\ (r.op \in {"login", "refresh"} /\ r.pc \in {"revoke", "issue"}) =>
            r.on \in DOMAIN user /\ (r.on \in past.stale \/ r.row.version = r.epoch)
    /\ (r.op = "init" /\ r.pc \in {"source", "mount", "config", "issue"}) => r.on \in DOMAIN user
    /\ r.op = "refresh" => r.from \in DOMAIN token /\ token[r.from].user = r.on
    /\ (r.op = "update" /\ r.pc = "write" /\ Demotes(r)) => r.counted # 1

\* An account on which no requests overlapped has the version that its
\* revocations give it, and the password that was set last.
RowsFollow ==
    /\ \A u \in DOMAIN user \ past.stale :
        user[u].version = past.revoked[u] /\ user[u].password = past.password[u]
    /\ \A u \in Users \ DOMAIN user : past.revoked[u] = 0

\* A token has the version of its account when the row was read for it.
TokensFollow ==
    \A t \in DOMAIN token :
        /\ token[t].user \in DOMAIN user
        /\ token[t].user \in past.stale \/ token[t].version = token[t].epoch
        /\ token[t].from \in DOMAIN token \cup {0}

\* A request that has revoked a refresh token and is to issue the next one
Exchanges(r, t) == r.op = "refresh" /\ r.pc = "issue" /\ r.from = t

\* A refresh token is exchanged, or about to be, by one request, and only once it
\* is revoked.
ExchangedOnce(t) ==
    /\ ~token[t].revoked => /\ \A s \in DOMAIN token : token[s].from # t
                            /\ \A w \in Workers : ~Exchanges(work[w], t)
    /\ \A s1, s2 \in DOMAIN token : token[s1].from = t /\ token[s2].from = t => s1 = s2
    /\ \A w1, w2 \in Workers : Exchanges(work[w1], t) /\ Exchanges(work[w2], t) => w1 = w2
    /\ \A s \in DOMAIN token, w \in Workers : ~(token[s].from = t /\ Exchanges(work[w], t))

AccountsInv ==
    /\ AccountTypes
    /\ \A w \in Workers : WorkerOK(work[w])
    /\ RowsFollow /\ TokensFollow
    /\ \A t \in DOMAIN token \ past.reused : ExchangedOnce(t)
    /\ SuperAdminRemains

-----------------------------------------------------------------------------
(* What a step of a request does to the table of workers *)

\* Only worker w has moved.
Only(w) == DOMAIN work' = Workers /\ \A v \in Workers \ {w} : work'[v] = work[v]

\* The idle worker is a request of no kind, and relies on nothing.
LEMMA IdleIsRequest == IsRequest(Idle) /\ Idle.op = "none"
BY SMTT(60) DEF IsRequest, Idle, Ops, Pcs, Roles, Statuses, UserRow, NewUser

\* End, Continue, ContinueWithRow and Begin move one worker.
LEMMA Moves ==
    ASSUME NEW w \in Workers, AccountTypes
    PROVE  /\ End(w) => Only(w) /\ work'[w] = Idle
           /\ \A pc : Continue(w, pc) => Only(w) /\ work'[w] = [work[w] EXCEPT !.pc = pc]
           /\ \A pc : ContinueWithRow(w, pc) =>
                Only(w) /\ work'[w] = [work[w] EXCEPT !.pc = pc, !.row = user[work[w].on],
                                                      !.epoch = past.revoked[work[w].on]]
           /\ \A q : Begin(w, q) => Only(w) /\ work'[w] = q /\ requests' \in Nat
<1>1. DOMAIN work = Workers /\ requests \in Nat
    BY DEF AccountTypes
<1>2. End(w) => Only(w) /\ work'[w] = Idle
    BY <1>1 DEF End, Only
<1>3. ASSUME NEW pc, Continue(w, pc)
      PROVE  Only(w) /\ work'[w] = [work[w] EXCEPT !.pc = pc]
    BY <1>1, <1>3 DEF Continue, Only
<1>4. ASSUME NEW pc, ContinueWithRow(w, pc)
      PROVE  Only(w) /\ work'[w] = [work[w] EXCEPT !.pc = pc, !.row = user[work[w].on],
                                                    !.epoch = past.revoked[work[w].on]]
    BY <1>1, <1>4 DEF ContinueWithRow, Only
<1>5. ASSUME NEW q, Begin(w, q)
      PROVE  Only(w) /\ work'[w] = q /\ requests' \in Nat
    BY <1>1, <1>5 DEF Begin, Only
<1> QED BY <1>2, <1>3, <1>4, <1>5

\* What the other requests rely on is not taken away: accounts and tokens stay,
\* and so does the mark of an account on which requests overlapped.
LEMMA OthersOK ==
    ASSUME NEW w, Only(w), \A v \in Workers : WorkerOK(work[v]),
           DOMAIN user \subseteq DOMAIN user', past.stale \subseteq past'.stale,
           DOMAIN token \subseteq DOMAIN token',
           \A t \in DOMAIN token : token'[t].user = token[t].user
    PROVE  \A v \in Workers \ {w} : WorkerOK(work[v])'
<1> SUFFICES ASSUME NEW v \in Workers \ {w} PROVE WorkerOK(work[v])'
    OBVIOUS
<1>1. work'[v] = work[v]
    BY DEF Only
<1>2. PICK r : r = work[v]
    OBVIOUS
<1>3. WorkerOK(r) /\ work'[v] = r
    BY <1>1, <1>2
<1>4. DOMAIN user # {} => DOMAIN user' # {}
    OBVIOUS
<1> QED BY <1>3, <1>4 DEF WorkerOK, Demotes

\* A request that moves without a write keeps the invariant, if it is a good
\* request where it comes to and is not about to issue a token for another one.
LEMMA WorkStep ==
    ASSUME AccountsInv, NEW w \in Workers, Only(w), UNCHANGED <<user, token, past>>, requests' \in Nat,
           IsRequest(work'[w]), WorkerOK(work[w])', \A t : ~Exchanges(work'[w], t)
    PROVE  AccountsInv'
<1>1. AccountTypes'
  <2>1. \A v \in Workers : IsRequest(work'[v])
    BY DEF AccountsInv, AccountTypes, Only
  <2> QED BY <2>1 DEF AccountsInv, AccountTypes, Only
<1>2. \A v \in Workers : WorkerOK(work[v])'
    BY OthersOK DEF AccountsInv
<1>3. RowsFollow' /\ TokensFollow'
    BY DEF AccountsInv, RowsFollow, TokensFollow
<1>4. ASSUME NEW t \in DOMAIN token' \ past'.reused PROVE ExchangedOnce(t)'
  <2>1. ExchangedOnce(t) /\ token' = token
    BY <1>4 DEF AccountsInv
  <2>2. \A v \in Workers : Exchanges(work'[v], t) => v # w /\ Exchanges(work[v], t)
    BY DEF Only
  <2> QED BY <2>1, <2>2 DEF ExchangedOnce
<1>5. SuperAdminRemains'
    BY DEF AccountsInv, SuperAdminRemains, ActiveSuperAdmins
<1>6. (\A v \in Workers : WorkerOK(work[v]))'
    BY <1>2
<1>7. (\A t \in DOMAIN token \ past.reused : ExchangedOnce(t))'
    BY <1>4
<1> QED BY <1>1, <1>6, <1>3, <1>7, <1>5 DEF AccountsInv

\* A request that ends without a write keeps the invariant.
LEMMA EndStep ==
    ASSUME AccountsInv, NEW w \in Workers, End(w), UNCHANGED <<user, token, past, requests>>
    PROVE  AccountsInv'
<1>1. Only(w) /\ work'[w] = Idle /\ requests' \in Nat
    BY Moves DEF AccountsInv, AccountTypes
<1>2. IsRequest(work'[w]) /\ work'[w].op = "none"
    BY <1>1, IdleIsRequest
<1>3. WorkerOK(work[w])' /\ \A t : ~Exchanges(work'[w], t)
    BY <1>2 DEF WorkerOK, Exchanges
<1> QED BY <1>1, <1>2, <1>3, WorkStep, SMTT(60)

-----------------------------------------------------------------------------
(* The writes *)

\* UserService writes the row of an account that is there.
LEMMA UserWrite ==
    ASSUME AccountsInv, NEW w \in Workers, End(w), UNCHANGED <<token, requests>>,
           NEW u \in DOMAIN user, NEW row \in UserRow, user' = [user EXCEPT ![u] = row],
           past' \in Past, past.stale \subseteq past'.stale, past'.reused = past.reused,
           \A v \in Users \ {u} : past'.revoked[v] = past.revoked[v] /\ past'.password[v] = past.password[v],
           u \in past'.stale \/ (row.version = past'.revoked[u] /\ row.password = past'.password[u]),
           SuperAdminRemains'
    PROVE  AccountsInv'
<1>1. Only(w) /\ work'[w] = Idle
    BY Moves DEF AccountsInv
<1>2. IsRequest(work'[w]) /\ work'[w].op = "none"
    BY <1>1, IdleIsRequest
<1>3. DOMAIN user' = DOMAIN user /\ user'[u] = row /\ \A v \in DOMAIN user \ {u} : user'[v] = user[v]
    OBVIOUS
<1>4. AccountTypes'
  <2>1. \A v \in Workers : IsRequest(work'[v])
    BY <1>1, <1>2 DEF AccountsInv, AccountTypes, Only
  <2>2. DOMAIN user' \subseteq Users /\ \A v \in DOMAIN user' : user'[v] \in UserRow
    BY <1>3 DEF AccountsInv, AccountTypes
  <2> QED BY <1>1, <2>1, <2>2 DEF AccountsInv, AccountTypes, Only
<1>5. (\A v \in Workers : WorkerOK(work[v]))'
  <2>1. WorkerOK(work[w])'
    BY <1>2 DEF WorkerOK
  <2>2. \A v \in Workers \ {w} : WorkerOK(work[v])'
    BY <1>1, <1>3, OthersOK DEF AccountsInv
  <2> QED BY <2>1, <2>2
<1>6. RowsFollow'
  <2>1. \A v \in DOMAIN user' \ past'.stale :
            user'[v].version = past'.revoked[v] /\ user'[v].password = past'.password[v]
    BY <1>3 DEF AccountsInv, AccountTypes, RowsFollow
  <2>2. \A v \in Users \ DOMAIN user' : past'.revoked[v] = 0
    BY <1>3 DEF AccountsInv, RowsFollow
  <2> QED BY <2>1, <2>2 DEF RowsFollow
<1>7. TokensFollow'
    BY <1>3 DEF AccountsInv, TokensFollow
<1>8. (\A t \in DOMAIN token \ past.reused : ExchangedOnce(t))'
  <2> SUFFICES ASSUME NEW t \in DOMAIN token \ past.reused PROVE ExchangedOnce(t)'
    OBVIOUS
  <2>1. ExchangedOnce(t) /\ token' = token
    BY DEF AccountsInv
  <2>2. \A v \in Workers : Exchanges(work'[v], t) => Exchanges(work[v], t)
    BY <1>1, <1>2 DEF Only, Exchanges
  <2> QED BY <2>1, <2>2 DEF ExchangedOnce
<1> QED BY <1>4, <1>5, <1>6, <1>7, <1>8, SMTT(60) DEF AccountsInv

\* A new account.  Its name has never been revoked; the request that made it goes
\* on or ends.
LEMMA UserAppears ==
    ASSUME AccountsInv, NEW w \in Workers, Only(w), UNCHANGED <<token, requests>>,
           NEW u \in Users \ DOMAIN user, NEW row \in UserRow, user' = WithUser(u, row),
           row.version = 0, past' = [past EXCEPT !.password[u] = row.password],
           IsRequest(work'[w]), WorkerOK(work[w])', \A t : ~Exchanges(work'[w], t),
           SuperAdminRemains'
    PROVE  AccountsInv'
<1>1. /\ past' \in Past /\ past'.revoked = past.revoked /\ past'.stale = past.stale
      /\ past'.reused = past.reused /\ past'.password[u] = row.password
      /\ \A v \in Users \ {u} : past'.password[v] = past.password[v]
  <2>1. PICK old : old = past
    OBVIOUS
  <2>2. old \in Past /\ row.password \in Nat
    BY <2>1 DEF AccountsInv, AccountTypes, UserRow
  <2>3. past' = [old EXCEPT !.password[u] = row.password]
    BY <2>1
  <2> QED BY <2>1, <2>2, <2>3, SMTT(60) DEF Past
<1>2. /\ DOMAIN user' = DOMAIN user \cup {u} /\ user'[u] = row
      /\ \A v \in DOMAIN user : user'[v] = user[v]
    BY DEF WithUser
<1>3. AccountTypes'
  <2>1. \A v \in Workers : IsRequest(work'[v])
    BY DEF AccountsInv, AccountTypes, Only
  <2>2. DOMAIN user' \subseteq Users /\ \A v \in DOMAIN user' : user'[v] \in UserRow
    BY <1>2 DEF AccountsInv, AccountTypes
  <2> QED BY <1>1, <2>1, <2>2 DEF AccountsInv, AccountTypes, Only
<1>4. (\A v \in Workers : WorkerOK(work[v]))'
  <2>1. \A v \in Workers \ {w} : WorkerOK(work[v])'
    BY <1>1, <1>2, OthersOK DEF AccountsInv
  <2> QED BY <2>1
<1>5. RowsFollow'
  <2>1. \A v \in DOMAIN user' \ past'.stale :
            user'[v].version = past'.revoked[v] /\ user'[v].password = past'.password[v]
    BY <1>1, <1>2 DEF AccountsInv, AccountTypes, RowsFollow
  <2>2. \A v \in Users \ DOMAIN user' : past'.revoked[v] = 0
    BY <1>1, <1>2 DEF AccountsInv, RowsFollow
  <2> QED BY <2>1, <2>2 DEF RowsFollow
<1>6. TokensFollow'
    BY <1>1, <1>2 DEF AccountsInv, TokensFollow
<1>7. (\A t \in DOMAIN token \ past.reused : ExchangedOnce(t))'
  <2> SUFFICES ASSUME NEW t \in DOMAIN token \ past.reused PROVE ExchangedOnce(t)'
    BY <1>1
  <2>1. ExchangedOnce(t) /\ token' = token
    BY DEF AccountsInv
  <2>2. \A v \in Workers : Exchanges(work'[v], t) => Exchanges(work[v], t)
    BY DEF Only
  <2> QED BY <2>1, <2>2 DEF ExchangedOnce
<1> QED BY <1>3, <1>4, <1>5, <1>6, <1>7 DEF AccountsInv

\* issueAndStoreTokenPair ends a request: the new token has the version of the
\* row that the request read, and the token it was exchanged for, if any, has no
\* other successor.
LEMMA TokenAppears ==
    ASSUME AccountsInv, NEW w \in Workers, NEW version \in Nat, NEW epoch \in Nat, NEW from,
           Issue(work[w].on, version, epoch, from), End(w), UNCHANGED <<user, requests, past>>,
           work[w].on \in DOMAIN user, work[w].on \in past.stale \/ version = epoch,
           from = 0 \/ Exchanges(work[w], from), work[w].op # "none"
    PROVE  AccountsInv'
<1>1. Only(w) /\ work'[w] = Idle
    BY Moves DEF AccountsInv
<1>2. IsRequest(work'[w]) /\ work'[w].op = "none"
    BY <1>1, IdleIsRequest
<1>3. PICK u \in Users : u = work[w].on
    BY DEF AccountsInv, AccountTypes
<1>4. from \in DOMAIN token \cup {0} /\ (from # 0 => Exchanges(work[w], from) /\ token[from].user = u)
  <2>1. WorkerOK(work[w])
    BY DEF AccountsInv
  <2>2. ASSUME from # 0 PROVE work[w].op = "refresh" /\ work[w].from = from
    BY <2>2 DEF Exchanges
  <2> QED BY <1>3, <2>1, <2>2 DEF WorkerOK
<1>5. PICK n \in Nat : n = Len(token) /\ DOMAIN token = 1 .. n
    BY DEF AccountsInv, AccountTypes
<1>6. PICK row \in TokenRow : row = [user |-> u, version |-> version, revoked |-> FALSE,
                                     epoch |-> epoch, from |-> from]
  <2>1. from \in Nat /\ FALSE \in BOOLEAN
    BY <1>4, <1>5
  <2> QED BY <2>1, Zenon DEF TokenRow
<1>7. /\ row.user = u /\ row.version = version /\ ~row.revoked /\ row.epoch = epoch /\ row.from = from
    BY <1>6
<1>8. /\ token' \in Seq(TokenRow) /\ DOMAIN token' = 1 .. (n + 1) /\ token'[n + 1] = row
      /\ \A t \in DOMAIN token : t \in DOMAIN token' /\ token'[t] = token[t]
  <2>1. token \in Seq(TokenRow) /\ token' = Append(token, row)
    BY <1>3, <1>6 DEF AccountsInv, AccountTypes, Issue
  <2> QED BY <1>5, <2>1
<1> HIDE <1>6
<1>9. AccountTypes'
  <2>1. \A v \in Workers : IsRequest(work'[v])
    BY <1>1, <1>2 DEF AccountsInv, AccountTypes, Only
  <2> QED BY <1>1, <1>8, <2>1 DEF AccountsInv, AccountTypes, Only
<1>10. (\A v \in Workers : WorkerOK(work[v]))'
  <2>1. WorkerOK(work[w])'
    BY <1>2 DEF WorkerOK
  <2>2. \A v \in Workers \ {w} : WorkerOK(work[v])'
    BY <1>1, <1>8, OthersOK DEF AccountsInv
  <2> QED BY <2>1, <2>2
<1>11. RowsFollow' /\ SuperAdminRemains'
    BY DEF AccountsInv, RowsFollow, SuperAdminRemains, ActiveSuperAdmins
<1>12. \A t \in DOMAIN token' : t \in DOMAIN token \/ t = n + 1
    BY <1>5, <1>8
<1>13. TokensFollow'
  <2> SUFFICES ASSUME NEW t \in DOMAIN token'
               PROVE  /\ token'[t].user \in DOMAIN user
                      /\ token'[t].user \in past.stale \/ token'[t].version = token'[t].epoch
                      /\ token'[t].from \in DOMAIN token' \cup {0}
    BY DEF TokensFollow
  <2>1. CASE t \in DOMAIN token
    BY <1>8, <2>1 DEF AccountsInv, TokensFollow
  <2>2. CASE t = n + 1
    BY <1>3, <1>4, <1>7, <1>8, <2>2
  <2> QED BY <1>12, <2>1, <2>2
<1>14. (\A t \in DOMAIN token \ past.reused : ExchangedOnce(t))'
  <2> SUFFICES ASSUME NEW t \in DOMAIN token' \ past.reused PROVE ExchangedOnce(t)'
    OBVIOUS
  <2>1. \A v \in Workers : Exchanges(work'[v], t) => v # w /\ Exchanges(work[v], t)
    BY <1>1, <1>2 DEF Only, Exchanges
  <2>2. CASE t \in DOMAIN token
    <3>1. ExchangedOnce(t) /\ token'[t] = token[t]
      BY <1>8, <2>2 DEF AccountsInv
    <3>2. ASSUME NEW s \in DOMAIN token', token'[s].from = t
          PROVE  (s \in DOMAIN token /\ token[s].from = t) \/ (s = n + 1 /\ Exchanges(work[w], t))
      BY <1>4, <1>5, <1>7, <1>8, <1>12, <2>2, <3>2
    <3>3. ~token'[t].revoked => /\ \A s \in DOMAIN token' : token'[s].from # t
                                /\ \A v \in Workers : ~Exchanges(work'[v], t)
      BY <2>1, <3>1, <3>2 DEF ExchangedOnce
    <3>4. \A s1, s2 \in DOMAIN token' : token'[s1].from = t /\ token'[s2].from = t => s1 = s2
      BY <3>1, <3>2 DEF ExchangedOnce
    <3>5. \A v1, v2 \in Workers : Exchanges(work'[v1], t) /\ Exchanges(work'[v2], t) => v1 = v2
      BY <2>1, <3>1 DEF ExchangedOnce
    <3>6. \A s \in DOMAIN token', v \in Workers : ~(token'[s].from = t /\ Exchanges(work'[v], t))
      BY <2>1, <3>1, <3>2 DEF ExchangedOnce
    <3> QED BY <3>3, <3>4, <3>5, <3>6 DEF ExchangedOnce
  <2>3. CASE t = n + 1
    <3>1. \A s \in DOMAIN token' : token'[s].from # t
      BY <1>4, <1>5, <1>7, <1>8, <1>12, <2>3 DEF AccountsInv, TokensFollow
    <3>2. \A v \in Workers : ~Exchanges(work'[v], t)
      <4> SUFFICES ASSUME NEW v \in Workers, Exchanges(work[v], t) PROVE FALSE
        BY <2>1
      <4>1. WorkerOK(work[v])
        BY DEF AccountsInv
      <4>2. t \in DOMAIN token
        BY <4>1 DEF WorkerOK, Exchanges
      <4> QED BY <1>5, <2>3, <4>2
    <3> QED BY <3>1, <3>2 DEF ExchangedOnce
  <2> QED BY <1>12, <2>2, <2>3
<1> QED BY <1>9, <1>10, <1>11, <1>13, <1>14, SMTT(60) DEF AccountsInv

\* RevokeByTokenHash, by a logout or in the middle of an exchange.  Only this
\* exchange goes on to issue a successor, unless the token was revoked before.
LEMMA TokenRevoked ==
    ASSUME AccountsInv, NEW w \in Workers, Only(w), NEW t \in DOMAIN token,
           token' = RevokeByTokenHash(t), user' = user, requests' \in Nat,
           past' \in Past, past'.revoked = past.revoked, past'.password = past.password,
           past'.stale = past.stale, past'.miscounted = past.miscounted,
           past.reused \subseteq past'.reused,
           IsRequest(work'[w]), WorkerOK(work[w])',
           \A s : Exchanges(work'[w], s) => s = t /\ (t \in past'.reused \/ ~token[t].revoked)
    PROVE  AccountsInv'
<1>1. PICK n \in Nat : n = Len(token) /\ DOMAIN token = 1 .. n
    BY DEF AccountsInv, AccountTypes
<1>2. token[t] \in TokenRow
    BY <1>1 DEF AccountsInv, AccountTypes
<1>3. PICK row \in TokenRow : row = [token[t] EXCEPT !.revoked = TRUE]
  <2>1. [token[t] EXCEPT !.revoked = TRUE] \in TokenRow
    BY <1>2 DEF TokenRow
  <2> QED BY <2>1
<1>4. /\ row.user = token[t].user /\ row.version = token[t].version /\ row.epoch = token[t].epoch
      /\ row.from = token[t].from /\ row.revoked
    BY <1>2, <1>3 DEF TokenRow
<1>5. /\ token' \in Seq(TokenRow) /\ DOMAIN token' = DOMAIN token /\ token'[t] = row
      /\ \A s \in DOMAIN token \ {t} : token'[s] = token[s]
  <2>1. token' = [token EXCEPT ![t] = row]
    BY <1>3 DEF RevokeByTokenHash
  <2>2. token \in Seq(TokenRow) /\ t \in 1 .. Len(token)
    BY <1>1 DEF AccountsInv, AccountTypes
  <2>3. [token EXCEPT ![t] = row] \in Seq(TokenRow)
    BY <2>2, ExceptSeq
  <2> QED BY <2>1, <2>3
<1> HIDE <1>3
<1>6. \A s \in DOMAIN token : /\ token'[s].user = token[s].user /\ token'[s].version = token[s].version
                              /\ token'[s].epoch = token[s].epoch /\ token'[s].from = token[s].from
    BY <1>4, <1>5
<1>7. AccountTypes'
  <2>1. \A v \in Workers : IsRequest(work'[v])
    BY DEF AccountsInv, AccountTypes, Only
  <2> QED BY <1>5, <2>1 DEF AccountsInv, AccountTypes, Only
<1>8. (\A v \in Workers : WorkerOK(work[v]))'
  <2>1. \A v \in Workers \ {w} : WorkerOK(work[v])'
    BY <1>5, <1>6, OthersOK DEF AccountsInv
  <2> QED BY <2>1
<1>9. RowsFollow' /\ SuperAdminRemains'
    BY DEF AccountsInv, RowsFollow, SuperAdminRemains, ActiveSuperAdmins
<1>10. TokensFollow'
    BY <1>5, <1>6 DEF AccountsInv, TokensFollow
<1>11. (\A s \in DOMAIN token \ past.reused : ExchangedOnce(s))'
  <2> SUFFICES ASSUME NEW s \in DOMAIN token \ past'.reused PROVE ExchangedOnce(s)'
    BY <1>5
  <2>1. ExchangedOnce(s)
    BY DEF AccountsInv
  <2>2. ASSUME NEW v \in Workers, Exchanges(work'[v], s)
        PROVE  Exchanges(work[v], s) \/ (v = w /\ s = t /\ ~token[t].revoked)
    BY <2>2 DEF Only
  <2>3. ~token'[s].revoked => s # t /\ ~token[s].revoked
    BY <1>4, <1>5
  <2>4. ~token'[s].revoked => /\ \A r \in DOMAIN token' : token'[r].from # s
                              /\ \A v \in Workers : ~Exchanges(work'[v], s)
    BY <1>5, <1>6, <2>1, <2>2, <2>3, ZenonT(60) DEF ExchangedOnce
  <2>5. \A s1, s2 \in DOMAIN token' : token'[s1].from = s /\ token'[s2].from = s => s1 = s2
    BY <1>5, <1>6, <2>1 DEF ExchangedOnce
  <2>6. \A v1, v2 \in Workers : Exchanges(work'[v1], s) /\ Exchanges(work'[v2], s) => v1 = v2
    BY <2>1, <2>2 DEF ExchangedOnce
  <2>7. \A r \in DOMAIN token', v \in Workers : ~(token'[r].from = s /\ Exchanges(work'[v], s))
    BY <1>5, <1>6, <2>1, <2>2 DEF ExchangedOnce
  <2> QED BY <2>4, <2>5, <2>6, <2>7 DEF ExchangedOnce
<1> QED BY <1>7, <1>8, <1>9, <1>10, <1>11 DEF AccountsInv

-----------------------------------------------------------------------------
(* The operations *)

\* WorkStep for a request with a name: q is where worker w comes to.
LEMMA GoesTo ==
    ASSUME AccountsInv, NEW w \in Workers, Only(w), UNCHANGED <<user, token, past>>, requests' \in Nat,
           NEW q, work'[w] = q, IsRequest(q), WorkerOK(q), q.op # "refresh" \/ q.pc # "issue"
    PROVE  AccountsInv'
<1>1. WorkerOK(work[w])'
    BY DEF WorkerOK, Demotes
<1>2. \A t : ~Exchanges(work'[w], t)
    BY DEF Exchanges
<1> QED BY <1>1, <1>2, WorkStep

\* What is known of the request of a worker.
LEMMA AtWork ==
    ASSUME AccountsInv, NEW w \in Workers
    PROVE  IsRequest(work[w]) /\ WorkerOK(work[w]) /\ requests \in Nat /\ past \in Past
BY DEF AccountsInv, AccountTypes

\* An active super admin remains when one row changes, unless the row was the
\* only one and its change was neither refused nor recorded.
LEMMA SuperAdminStays ==
    ASSUME SuperAdminRemains, NEW u \in DOMAIN user, NEW row, user' = [user EXCEPT ![u] = row],
           past.stale \subseteq past'.stale, past.miscounted => past'.miscounted,
           \/ past'.stale # {} \/ past'.miscounted
           \/ row.role = "super_admin" /\ row.status = "active"
           \/ ~(user[u].role = "super_admin" /\ user[u].status = "active")
           \/ Cardinality(ActiveSuperAdmins(user)) # 1
    PROVE  SuperAdminRemains'
<1> SUFFICES ASSUME past'.stale = {}, ~past'.miscounted PROVE ActiveSuperAdmins(user') # {}
    BY DEF SuperAdminRemains
<1>1. PICK v : v \in ActiveSuperAdmins(user)
  <2>1. user # <<>>
    OBVIOUS
  <2> QED BY <2>1 DEF SuperAdminRemains
<1>2. \A x \in DOMAIN user \ {u} : user'[x] = user[x]
    OBVIOUS
<1>3. ASSUME NEW x \in ActiveSuperAdmins(user), x # u PROVE x \in ActiveSuperAdmins(user')
    BY <1>2, <1>3 DEF ActiveSuperAdmins
<1>4. CASE row.role = "super_admin" /\ row.status = "active"
  <2>1. u \in ActiveSuperAdmins(user')
    BY <1>4 DEF ActiveSuperAdmins
  <2> QED BY <2>1
<1>5. CASE ~(user[u].role = "super_admin" /\ user[u].status = "active")
  <2>1. v # u
    BY <1>1, <1>5 DEF ActiveSuperAdmins
  <2> QED BY <1>1, <1>3, <2>1
<1>6. CASE Cardinality(ActiveSuperAdmins(user)) # 1
  <2>1. CASE ActiveSuperAdmins(user) = {u}
    BY <1>6, <2>1, FS_Singleton
  <2>2. CASE ActiveSuperAdmins(user) # {u}
    BY <1>1, <1>3, <2>2
  <2> QED BY <2>1, <2>2
<1> QED BY <1>4, <1>5, <1>6

\* RequireAuth and RequireCapabilities let a request in.
LEMMA ManageKeeps ==
    ASSUME AccountsInv, NEW w \in Workers, NEW t \in DOMAIN token, NEW u \in Users,
           NEW op \in {"create", "update", "reset", "revoke"}, NEW role \in Roles, NEW status \in Statuses,
           Manage(w, t, op, u, role, status)
    PROVE  AccountsInv'
<1>1. PICK q : q = [Idle EXCEPT !.op = op, !.pc = "find", !.actor = user[token[t].user].role, !.on = u,
                                !.role = role, !.status = status, !.password = requests]
    OBVIOUS
<1>2. Begin(w, q) /\ UNCHANGED <<user, token, past>>
    BY <1>1, SMTT(60) DEF Manage
<1>3. Only(w) /\ work'[w] = q /\ requests' \in Nat
    BY <1>2, Moves DEF AccountsInv
<1>4. IsRequest(q) /\ q.op = op /\ q.pc = "find" /\ q.on = u
    BY <1>1, AtWork, IdleIsRequest, ZenonT(150) DEF IsRequest, Ops, Pcs, Idle
<1>5. DOMAIN user # {}
    BY DEF AccountsInv, TokensFollow
<1>6. WorkerOK(q)
    BY <1>4, <1>5 DEF WorkerOK
<1> QED BY <1>2, <1>3, <1>4, <1>6, GoesTo

\* UserService.Create
LEMMA CreateUserKeeps ==
    ASSUME AccountsInv, NEW w \in Workers, CreateUser(w)
    PROVE  AccountsInv'
<1>1. PICK r : r = work[w]
    OBVIOUS
<1>2. r.op = "create" /\ IsRequest(r) /\ WorkerOK(r) /\ UNCHANGED <<token, requests>>
    BY <1>1, AtWork DEF CreateUser
<1>3. CASE End(w) /\ UNCHANGED <<user, past>>
    BY <1>2, <1>3, EndStep
<1>4. CASE Continue(w, "write") /\ UNCHANGED <<user, past>>
  <2>1. PICK q : q = [r EXCEPT !.pc = "write"]
    OBVIOUS
  <2>2. Only(w) /\ work'[w] = q
    BY <1>1, <1>4, <2>1, Moves DEF AccountsInv
  <2>3. IsRequest(q) /\ q.op = r.op /\ q.on = r.on
    BY <1>2, <2>1 DEF IsRequest, Pcs
  <2>4. WorkerOK(q)
    BY <1>2, <2>3 DEF WorkerOK
  <2> QED BY <1>2, <1>4, <2>2, <2>3, <2>4, GoesTo, AtWork
<1>5. CASE /\ r.on \notin DOMAIN user /\ End(w)
           /\ user' = WithUser(r.on, NewUser(r.role, r.password))
           /\ past' = [past EXCEPT !.password[r.on] = r.password]
  <2>1. PICK u \in Users \ DOMAIN user : u = r.on
    BY <1>2, <1>5 DEF WorkerOK
  <2>2. PICK row \in UserRow : row = NewUser(r.role, r.password)
    BY <1>2 DEF IsRequest, UserRow, NewUser, Statuses
  <2>3. row.version = 0 /\ row.password = r.password
    BY <2>2 DEF NewUser
  <2>4. Only(w) /\ work'[w] = Idle
    BY <1>5, Moves DEF AccountsInv
  <2>5. IsRequest(work'[w]) /\ WorkerOK(work[w])' /\ \A t : ~Exchanges(work'[w], t)
    BY <2>4, IdleIsRequest DEF WorkerOK, Exchanges
  <2>6. user' = WithUser(u, row) /\ past' = [past EXCEPT !.password[u] = row.password]
    BY <1>5, <2>1, <2>2, <2>3
  <2>7. SuperAdminRemains'
    <3>1. DOMAIN user # {}
      BY <1>2 DEF WorkerOK
    <3>2. \A v \in ActiveSuperAdmins(user) : v \in ActiveSuperAdmins(user')
      BY <2>6 DEF ActiveSuperAdmins, WithUser
    <3>3. past'.miscounted = past.miscounted /\ past'.stale = past.stale
      BY <2>6, AtWork DEF Past
    <3>4. user # <<>>
      BY <3>1
    <3> QED BY <3>2, <3>3, <3>4 DEF AccountsInv, SuperAdminRemains
  <2> QED BY <1>2, <2>3, <2>4, <2>5, <2>6, <2>7, UserAppears
<1> QED BY <1>1, <1>3, <1>4, <1>5 DEF CreateUser

\* A request that has read the row of its account goes on.
LEMMA ReadsRow ==
    ASSUME AccountsInv, NEW w \in Workers, NEW r, r = work[w], NEW pc \in Pcs, r.on \in DOMAIN user,
           r.op # "none", r.op # "refresh" \/ pc # "issue",
           \/ r.op # "update" \/ pc # "write" \/ user[r.on].role # "super_admin"
           \/ r.role = "super_admin" /\ r.status # "locked",
           ContinueWithRow(w, pc), UNCHANGED <<user, token, past, requests>>
    PROVE  AccountsInv'
<1>1. IsRequest(r) /\ WorkerOK(r) /\ requests \in Nat /\ past \in Past
    BY AtWork
<1>2. PICK u \in Users : u = r.on /\ u \in DOMAIN user
    BY DEF AccountsInv, AccountTypes
<1>3. PICK row \in UserRow : row = user[u]
    BY <1>2 DEF AccountsInv, AccountTypes
<1>4. PICK epoch \in Nat : epoch = past.revoked[u]
    BY <1>1, <1>2 DEF Past
<1> PICK q : q = [r EXCEPT !.pc = pc, !.row = row, !.epoch = epoch]
    OBVIOUS
<1>5. /\ IsRequest(q) /\ q.op = r.op /\ q.pc = pc /\ q.on = u /\ q.row = row /\ q.epoch = epoch
      /\ q.from = r.from /\ q.role = r.role /\ q.status = r.status
  <2>1. IsRequest(q) /\ q.op = r.op /\ q.pc = pc /\ q.row = row /\ q.epoch = epoch
    BY <1>1, <1>3, <1>4, ZenonT(60) DEF IsRequest
  <2>2. q.on = r.on /\ q.from = r.from /\ q.role = r.role /\ q.status = r.status
    BY <1>1, <1>3, <1>4 DEF IsRequest
  <2> QED BY <1>2, <2>1, <2>2
<1>6. u \in past.stale \/ row.version = epoch
    BY <1>2, <1>3, <1>4 DEF AccountsInv, RowsFollow
<1>7. WorkerOK(q)
  <2>1. q.op \in {"login", "refresh"} /\ q.pc \in {"revoke", "issue"} =>
            q.on \in DOMAIN user /\ (q.on \in past.stale \/ q.row.version = q.epoch)
    BY <1>2, <1>5, <1>6
  <2>2. q.op = "refresh" => q.from \in DOMAIN token /\ token[q.from].user = q.on
    BY <1>1, <1>2, <1>5 DEF WorkerOK
  <2>3. q.op = "update" /\ q.pc = "write" /\ Demotes(q) => q.counted # 1
    BY <1>2, <1>3, <1>5 DEF Demotes
  <2>4. q.on \in Users /\ q.on \in DOMAIN user /\ DOMAIN user # {}
    BY <1>2, <1>5, SMTT(60)
  <2> QED BY <2>1, <2>2, <2>3, <2>4 DEF WorkerOK
<1>8. Only(w) /\ work'[w] = q
    BY <1>2, <1>3, <1>4, Moves DEF AccountsInv
<1> QED BY <1>1, <1>5, <1>7, <1>8, GoesTo

\* UserService.Update
LEMMA UpdateUserKeeps ==
    ASSUME AccountsInv, NEW w \in Workers, UpdateUser(w)
    PROVE  AccountsInv'
<1>1. PICK r : r = work[w]
    OBVIOUS
<1>2. r.op = "update" /\ IsRequest(r) /\ WorkerOK(r) /\ UNCHANGED <<token, requests>> /\ past \in Past
    BY <1>1, AtWork DEF UpdateUser
<1>3. CASE End(w) /\ UNCHANGED <<user, past>>
    BY <1>2, <1>3, EndStep
<1>4. CASE /\ r.on \in DOMAIN user /\ UNCHANGED <<user, past>>
           /\ ContinueWithRow(w, IF Demotes([r EXCEPT !.row = user[r.on]]) THEN "count" ELSE "write")
  <2>1. PICK pc \in Pcs : /\ ContinueWithRow(w, pc)
                          /\ pc = "write" => ~Demotes([r EXCEPT !.row = user[r.on]])
    <3>1. CASE Demotes([r EXCEPT !.row = user[r.on]])
      <4>1. ContinueWithRow(w, "count")
        BY <1>4, <3>1, Zenon
      <4> QED BY <4>1 DEF Pcs
    <3>2. CASE ~Demotes([r EXCEPT !.row = user[r.on]])
      <4>1. ContinueWithRow(w, "write")
        BY <1>4, <3>2, Zenon
      <4> QED BY <3>2, <4>1 DEF Pcs
    <3> QED BY <3>1, <3>2
  <2>2. PICK s : s = [r EXCEPT !.row = user[r.on]] /\ (pc = "write" => ~Demotes(s))
    BY <2>1, Zenon
  <2>3. s.row = user[r.on] /\ s.role = r.role /\ s.status = r.status
    BY <1>2, <2>2 DEF IsRequest
  <2>4. pc # "write" \/ user[r.on].role # "super_admin" \/ (r.role = "super_admin" /\ r.status # "locked")
    BY <2>2, <2>3 DEF Demotes
  <2> QED BY <1>1, <1>2, <1>4, <2>1, <2>4, ReadsRow
<1>5. CASE \E n : /\ r.pc = "count" /\ n # 1 /\ UNCHANGED <<user, past>>
                  /\ work' = [work EXCEPT ![w].pc = "write", ![w].counted = n]
  <2>1. PICK n : n # 1 /\ work' = [work EXCEPT ![w].pc = "write", ![w].counted = n]
    BY <1>5
  <2>2. PICK q : q = [r EXCEPT !.pc = "write", !.counted = n]
    OBVIOUS
  <2>3. Only(w) /\ work'[w] = q
    BY <1>1, <2>1, <2>2 DEF Only, AccountsInv, AccountTypes
  <2>4. IsRequest(q) /\ q.op = r.op /\ q.on = r.on /\ q.counted = n /\ q.pc = "write"
    BY <1>2, <2>2 DEF IsRequest, Pcs
  <2>5. WorkerOK(q)
    BY <1>2, <1>5, <2>1, <2>4 DEF WorkerOK
  <2> QED BY <1>2, <1>5, <2>3, <2>4, <2>5, GoesTo, AtWork
<1>6. CASE /\ r.pc = "write" /\ End(w)
           /\ user' = [user EXCEPT ![r.on] = UpdatedRow(r)]
           /\ past' = [past EXCEPT
                  !.revoked[r.on] = IF ChangesPrivilege(r) THEN @ + 1 ELSE @,
                  !.stale = IF Stale(w) THEN @ \cup {r.on} ELSE @,
                  !.miscounted = @ \/ (Demotes(r) /\ r.counted # Cardinality(ActiveSuperAdmins(user)))]
  <2>1. PICK u \in DOMAIN user : u = r.on
    BY <1>2, <1>6 DEF WorkerOK
  <2>2. u \in Users
    BY DEF AccountsInv, AccountTypes
  <2>3. PICK row \in UserRow : row = UpdatedRow(r)
    <3>1. PICK version \in Nat :
              version = IF r.row.status # r.status \/ r.row.role # r.role THEN r.row.version + 1 ELSE r.row.version
      BY <1>2 DEF IsRequest, UserRow
    <3>2. UpdatedRow(r) = [r.row EXCEPT !.role = r.role, !.status = r.status, !.version = version]
      BY <3>1 DEF UpdatedRow, ChangesPrivilege
    <3>3. r.row \in UserRow /\ r.role \in Roles /\ r.status \in Statuses
      BY <1>2 DEF IsRequest
    <3>4. [r.row EXCEPT !.role = r.role, !.status = r.status, !.version = version] \in UserRow
      BY <3>3 DEF UserRow
    <3> QED BY <3>2, <3>4
  <2>4. /\ row.role = r.role /\ row.status = r.status /\ row.password = r.row.password
        /\ row.version = IF ChangesPrivilege(r) THEN r.row.version + 1 ELSE r.row.version
    BY <1>2, <2>3 DEF IsRequest, UpdatedRow, UserRow
  <2>5. PICK miscounted \in BOOLEAN :
            miscounted <=> (past.miscounted \/ (Demotes(r) /\ r.counted # Cardinality(ActiveSuperAdmins(user))))
    OBVIOUS
  <2>6. PICK stale \in SUBSET Users : stale = IF Stale(w) THEN past.stale \cup {u} ELSE past.stale
    BY <1>2, <2>2 DEF Past
  <2>7. PICK count \in Nat : count = IF ChangesPrivilege(r) THEN past.revoked[u] + 1 ELSE past.revoked[u]
    BY <1>2, <2>2 DEF Past
  <2>8. past' = [past EXCEPT !.revoked[u] = count, !.stale = stale, !.miscounted = miscounted]
    <3>1. miscounted = (past.miscounted \/ (Demotes(r) /\ r.counted # Cardinality(ActiveSuperAdmins(user))))
      BY <2>5
    <3> QED BY <1>6, <2>1, <2>6, <2>7, <3>1
  <2>9. /\ past' \in Past /\ past'.stale = stale /\ past'.reused = past.reused
        /\ past'.revoked[u] = count /\ past'.password = past.password
        /\ \A v \in Users \ {u} : past'.revoked[v] = past.revoked[v]
        /\ past'.miscounted = miscounted
    <3>1. PICK old : old = past
      OBVIOUS
    <3>2. old \in Past /\ past' = [old EXCEPT !.revoked[u] = count, !.stale = stale, !.miscounted = miscounted]
      BY <1>2, <2>8, <3>1
    <3> QED BY <2>2, <3>1, <3>2 DEF Past
  <2>10. Stale(w) <=> user[u] # r.row
    BY <1>1, <2>1 DEF Stale
  <2>11. user' = [user EXCEPT ![u] = row]
    BY <1>6, <2>1, <2>3
  <2>12. u \in stale \/ (row.version = count /\ row.password = past.password[u])
    BY <2>4, <2>6, <2>7, <2>10 DEF AccountsInv, RowsFollow
  <2>13. SuperAdminRemains'
    <3>1. ASSUME user[u].role = "super_admin", user[u].status = "active", ~miscounted, ~Stale(w),
                 ~(r.role = "super_admin" /\ r.status = "active")
          PROVE  Cardinality(ActiveSuperAdmins(user)) # 1
      <4>1. r.row.role = "super_admin" /\ r.status \in {"active", "locked"}
        BY <1>2, <2>10, <3>1 DEF IsRequest, Statuses
      <4>2. Demotes(r)
        BY <3>1, <4>1 DEF Demotes
      <4>3. r.counted # 1
        BY <1>2, <1>6, <4>2 DEF WorkerOK
      <4>4. r.counted = Cardinality(ActiveSuperAdmins(user))
        BY <2>5, <3>1, <4>2
      <4> QED BY <4>3, <4>4
    <3>2. Stale(w) => stale # {}
      BY <2>6
    <3>3. past.miscounted => miscounted
      BY <2>5
    <3>4. past.stale \subseteq stale
      BY <2>6
    <3> QED BY <2>4, <2>9, <2>11, <3>1, <3>2, <3>3, <3>4, SuperAdminStays DEF AccountsInv
  <2>14. /\ End(w) /\ UNCHANGED <<token, requests>> /\ past.stale \subseteq past'.stale
         /\ u \in past'.stale \/ (row.version = past'.revoked[u] /\ row.password = past'.password[u])
    BY <1>2, <1>6, <2>6, <2>9, <2>12
  <2> QED BY <2>9, <2>11, <2>13, <2>14, UserWrite
<1>7. \/ End(w) /\ UNCHANGED <<user, past>>
      \/ /\ r.on \in DOMAIN user /\ UNCHANGED <<user, past>>
         /\ ContinueWithRow(w, IF Demotes([r EXCEPT !.row = user[r.on]]) THEN "count" ELSE "write")
      \/ \E n : /\ r.pc = "count" /\ n # 1 /\ UNCHANGED <<user, past>>
                /\ work' = [work EXCEPT ![w].pc = "write", ![w].counted = n]
      \/ /\ r.pc = "write" /\ End(w)
         /\ user' = [user EXCEPT ![r.on] = UpdatedRow(r)]
         /\ past' = [past EXCEPT
                !.revoked[r.on] = IF ChangesPrivilege(r) THEN @ + 1 ELSE @,
                !.stale = IF Stale(w) THEN @ \cup {r.on} ELSE @,
                !.miscounted = @ \/ (Demotes(r) /\ r.counted # Cardinality(ActiveSuperAdmins(user)))]
    BY <1>1, Zenon DEF UpdateUser
<1> QED BY <1>3, <1>4, <1>5, <1>6, <1>7

\* UserService.ResetPassword
LEMMA ResetPasswordKeeps ==
    ASSUME AccountsInv, NEW w \in Workers, ResetPassword(w)
    PROVE  AccountsInv'
<1>1. PICK r : r = work[w]
    OBVIOUS
<1>2. r.op = "reset" /\ IsRequest(r) /\ WorkerOK(r) /\ UNCHANGED <<token, requests>> /\ past \in Past
    BY <1>1, AtWork DEF ResetPassword
<1>3. CASE End(w) /\ UNCHANGED <<user, past>>
    BY <1>2, <1>3, EndStep
<1>4. CASE r.on \in DOMAIN user /\ ContinueWithRow(w, "write") /\ UNCHANGED <<user, past>>
    BY <1>1, <1>2, <1>4, ReadsRow DEF Pcs
<1>5. CASE /\ r.pc = "write" /\ End(w)
           /\ user' = [user EXCEPT ![r.on] = [r.row EXCEPT !.password = r.password]]
           /\ past' = [past EXCEPT !.password[r.on] = r.password,
                                   !.stale = IF Stale(w) THEN @ \cup {r.on} ELSE @]
  <2>1. PICK u \in DOMAIN user : u = r.on
    BY <1>2, <1>5 DEF WorkerOK
  <2>2. u \in Users
    BY DEF AccountsInv, AccountTypes
  <2>3. PICK row \in UserRow : row = [r.row EXCEPT !.password = r.password]
    BY <1>2 DEF IsRequest, UserRow
  <2>4. /\ row.role = r.row.role /\ row.status = r.row.status /\ row.version = r.row.version
        /\ row.password = r.password
    BY <1>2, <2>3 DEF IsRequest, UserRow
  <2>5. PICK stale \in SUBSET Users : stale = IF Stale(w) THEN past.stale \cup {u} ELSE past.stale
    BY <1>2, <2>2 DEF Past
  <2>6. /\ past' \in Past /\ past'.stale = stale /\ past'.reused = past.reused
        /\ past'.revoked = past.revoked /\ past'.password[u] = r.password
        /\ \A v \in Users \ {u} : past'.password[v] = past.password[v]
        /\ past'.miscounted = past.miscounted
    <3>1. PICK old : old = past
      OBVIOUS
    <3>2. PICK password \in Nat : password = r.password
      BY <1>2 DEF IsRequest
    <3>3. past' = [old EXCEPT !.password[u] = password, !.stale = stale]
      BY <1>5, <2>1, <2>5, <3>1, <3>2
    <3> QED BY <1>2, <2>2, <3>1, <3>2, <3>3 DEF Past
  <2>7. Stale(w) <=> user[u] # r.row
    BY <1>1, <2>1 DEF Stale
  <2>8. user' = [user EXCEPT ![u] = row]
    BY <1>5, <2>1, <2>3
  <2>9. u \in stale \/ (row.version = past'.revoked[u] /\ row.password = past'.password[u])
    BY <2>4, <2>5, <2>6, <2>7 DEF AccountsInv, RowsFollow
  <2>10. SuperAdminRemains'
    <3>1. \/ stale # {} \/ (row.role = "super_admin" /\ row.status = "active")
          \/ ~(user[u].role = "super_admin" /\ user[u].status = "active")
      BY <2>4, <2>5, <2>7
    <3> QED BY <2>5, <2>6, <2>8, <3>1, SuperAdminStays DEF AccountsInv
  <2>11. End(w) /\ UNCHANGED <<token, requests>> /\ past.stale \subseteq past'.stale
    BY <1>2, <1>5, <2>5, <2>6
  <2> QED BY <2>6, <2>8, <2>9, <2>10, <2>11, UserWrite
<1> QED BY <1>1, <1>3, <1>4, <1>5, Zenon DEF ResetPassword

\* UserService.RevokeTokens
LEMMA RevokeTokensKeeps ==
    ASSUME AccountsInv, NEW w \in Workers, RevokeTokens(w)
    PROVE  AccountsInv'
<1>1. PICK r : r = work[w]
    OBVIOUS
<1>2. r.op = "revoke" /\ IsRequest(r) /\ WorkerOK(r) /\ UNCHANGED <<token, requests>> /\ past \in Past
    BY <1>1, AtWork DEF RevokeTokens
<1>3. CASE End(w) /\ UNCHANGED <<user, past>>
    BY <1>2, <1>3, EndStep
<1>4. CASE r.on \in DOMAIN user /\ ContinueWithRow(w, "write") /\ UNCHANGED <<user, past>>
    BY <1>1, <1>2, <1>4, ReadsRow DEF Pcs
<1>5. CASE /\ r.pc = "write" /\ End(w)
           /\ user' = [user EXCEPT ![r.on].version = r.row.version + 1]
           /\ past' = [past EXCEPT !.revoked[r.on] = @ + 1,
                                   !.stale = IF Stale(w) THEN @ \cup {r.on} ELSE @]
  <2>1. PICK u \in DOMAIN user : u = r.on
    BY <1>2, <1>5 DEF WorkerOK
  <2>2. u \in Users /\ user[u] \in UserRow
    BY DEF AccountsInv, AccountTypes
  <2>3. PICK version \in Nat : version = r.row.version + 1
    BY <1>2 DEF IsRequest, UserRow
  <2>4. PICK row \in UserRow : row = [user[u] EXCEPT !.version = version]
    BY <2>2 DEF UserRow
  <2>5. /\ row.role = user[u].role /\ row.status = user[u].status /\ row.version = version
        /\ row.password = user[u].password
    BY <2>2, <2>4 DEF UserRow
  <2>6. PICK stale \in SUBSET Users : stale = IF Stale(w) THEN past.stale \cup {u} ELSE past.stale
    BY <1>2, <2>2 DEF Past
  <2>7. /\ past' \in Past /\ past'.stale = stale /\ past'.reused = past.reused
        /\ past'.password = past.password /\ past'.revoked[u] = past.revoked[u] + 1
        /\ \A v \in Users \ {u} : past'.revoked[v] = past.revoked[v]
        /\ past'.miscounted = past.miscounted
    <3>1. PICK old : old = past
      OBVIOUS
    <3>2. PICK count \in Nat : count = old.revoked[u] + 1
      BY <1>2, <2>2, <3>1 DEF Past
    <3>3. past' = [old EXCEPT !.revoked[u] = count, !.stale = stale]
      BY <1>5, <2>1, <2>6, <3>1, <3>2
    <3> QED BY <1>2, <2>2, <3>1, <3>2, <3>3 DEF Past
  <2>8. Stale(w) <=> user[u] # r.row
    BY <1>1, <2>1 DEF Stale
  <2>9. user' = [user EXCEPT ![u] = row]
    BY <1>5, <2>1, <2>3, <2>4
  <2>10. u \in stale \/ (row.version = past'.revoked[u] /\ row.password = past'.password[u])
    BY <2>3, <2>5, <2>6, <2>7, <2>8 DEF AccountsInv, RowsFollow
  <2>11. SuperAdminRemains'
    BY <2>5, <2>6, <2>7, <2>9, SuperAdminStays DEF AccountsInv
  <2>12. End(w) /\ UNCHANGED <<token, requests>> /\ past.stale \subseteq past'.stale
    BY <1>2, <1>5, <2>6, <2>7
  <2> QED BY <2>7, <2>9, <2>10, <2>11, <2>12, UserWrite
<1> QED BY <1>1, <1>3, <1>4, <1>5, Zenon DEF RevokeTokens

\* A request of AuthService or SetupService begins.
LEMMA SessionBegins ==
    ASSUME AccountsInv, NEW w \in Workers, NEW q, Begin(w, q), UNCHANGED <<user, token, past>>,
           IsRequest(q), q.on \in Users, q.op \in {"login", "refresh", "init"}, q.pc = "find",
           q.op = "refresh" => q.from \in DOMAIN token /\ token[q.from].user = q.on
    PROVE  AccountsInv'
<1>1. Only(w) /\ work'[w] = q /\ requests' \in Nat
    BY Moves DEF AccountsInv
<1>2. WorkerOK(q)
    BY DEF WorkerOK
<1> QED BY <1>1, <1>2, GoesTo, SMTT(60)

\* A request goes on without having read or written.
LEMMA JustGoesOn ==
    ASSUME AccountsInv, NEW w \in Workers, NEW pc \in Pcs, Continue(w, pc),
           UNCHANGED <<user, token, past, requests>>,
           \/ work[w].op = "refresh" /\ pc = "user"
           \/ work[w].op = "init" /\ pc = "write"
           \/ work[w].op = "init" /\ work[w].on \in DOMAIN user
    PROVE  AccountsInv'
<1>1. PICK r : r = work[w]
    OBVIOUS
<1>2. IsRequest(r) /\ WorkerOK(r) /\ requests \in Nat
    BY <1>1, AtWork
<1>3. PICK q : q = [r EXCEPT !.pc = pc]
    OBVIOUS
<1>4. IsRequest(q) /\ q.op = r.op /\ q.pc = pc /\ q.on = r.on /\ q.from = r.from
    BY <1>2, <1>3 DEF IsRequest
<1>5. Only(w) /\ work'[w] = q
    BY <1>1, <1>3, Moves DEF AccountsInv
<1>6. WorkerOK(q)
    BY <1>1, <1>2, <1>4 DEF WorkerOK
<1> QED BY <1>1, <1>2, <1>4, <1>5, <1>6, GoesTo

\* AuthService.Login
LEMMA LoginKeeps ==
    ASSUME AccountsInv, NEW w \in Workers, \/ \E u \in Users : Login(w, u)
                                           \/ LoginStep(w)
    PROVE  AccountsInv'
<1>1. CASE \E u \in Users : Login(w, u)
  <2>1. PICK u \in Users : Login(w, u)
    BY <1>1
  <2>2. PICK q : q = [Idle EXCEPT !.op = "login", !.pc = "find", !.on = u]
    OBVIOUS
  <2>3. IsRequest(q) /\ q.op = "login" /\ q.pc = "find" /\ q.on = u
    BY <2>2, IdleIsRequest DEF IsRequest, Ops, Pcs
  <2>4. Begin(w, q) /\ UNCHANGED <<user, token, past>>
    BY <2>1, <2>2 DEF Login
  <2> QED BY <2>3, <2>4, SessionBegins
<1>2. CASE LoginStep(w)
  <2>1. PICK r : r = work[w]
    OBVIOUS
  <2>2. r.op = "login" /\ IsRequest(r) /\ WorkerOK(r) /\ UNCHANGED <<user, requests, past>>
    BY <1>2, <2>1, AtWork DEF LoginStep
  <2>3. CASE End(w) /\ UNCHANGED token
    BY <2>2, <2>3, EndStep
  <2>4. CASE r.on \in DOMAIN user /\ ContinueWithRow(w, "issue") /\ UNCHANGED token
    BY <2>1, <2>2, <2>4, ReadsRow DEF Pcs
  <2>5. CASE r.pc = "issue" /\ Issue(r.on, r.row.version, r.epoch, 0) /\ End(w)
    <3>1. r.row.version \in Nat /\ r.epoch \in Nat
      BY <2>2 DEF IsRequest, UserRow
    <3>2. r.on \in DOMAIN user /\ (r.on \in past.stale \/ r.row.version = r.epoch)
      BY <2>2, <2>5 DEF WorkerOK
    <3> QED BY <2>1, <2>2, <2>5, <3>1, <3>2, TokenAppears
  <2> QED BY <1>2, <2>1, <2>3, <2>4, <2>5, Zenon DEF LoginStep
<1> QED BY <1>1, <1>2

\* AuthService.Refresh begins.
LEMMA RefreshKeeps ==
    ASSUME AccountsInv, NEW w \in Workers, NEW t \in DOMAIN token, Refresh(w, t)
    PROVE  AccountsInv'
<1>1. PICK u \in Users : u = token[t].user
    BY DEF AccountsInv, AccountTypes, TokensFollow
<1>2. PICK q : q = [Idle EXCEPT !.op = "refresh", !.pc = "find", !.on = u, !.from = t]
    OBVIOUS
<1>3. t \in Nat
    BY DEF AccountsInv, AccountTypes
<1>4. IsRequest(q) /\ q.op = "refresh" /\ q.pc = "find" /\ q.on = u /\ q.from = t
    BY <1>2, <1>3, IdleIsRequest DEF IsRequest, Ops, Pcs
<1>5. Begin(w, q) /\ UNCHANGED <<user, token, past>>
    BY <1>1, <1>2 DEF Refresh
<1> QED BY <1>1, <1>4, <1>5, SessionBegins

\* AuthService.Logout
LEMMA LogoutKeeps ==
    ASSUME AccountsInv, NEW w \in Workers, NEW t \in DOMAIN token, Logout(w, t)
    PROVE  AccountsInv'
<1>1. /\ work[w] = Idle /\ requests' = requests - 1 /\ requests > 0
      /\ token' = RevokeByTokenHash(t) /\ UNCHANGED <<user, work, past>>
    BY DEF Logout
<1>2. Only(w) /\ requests' \in Nat /\ past' \in Past
    BY <1>1, AtWork DEF Only, AccountsInv, AccountTypes
<1>3. work'[w] = Idle
    BY <1>1
<1>4. IsRequest(work'[w]) /\ WorkerOK(work[w])' /\ \A s : ~Exchanges(work'[w], s)
    BY <1>3, IdleIsRequest DEF WorkerOK, Exchanges
<1> QED BY <1>1, <1>2, <1>4, TokenRevoked

\* The steps of AuthService.Refresh
LEMMA RefreshStepKeeps ==
    ASSUME AccountsInv, NEW w \in Workers, RefreshStep(w)
    PROVE  AccountsInv'
<1>1. PICK r : r = work[w]
    OBVIOUS
<1>2. r.op = "refresh" /\ IsRequest(r) /\ WorkerOK(r) /\ UNCHANGED <<user, requests>> /\ past \in Past
    BY <1>1, AtWork DEF RefreshStep
<1>3. r.from \in DOMAIN token /\ token[r.from].user = r.on /\ r.on \in DOMAIN user
    BY <1>2 DEF WorkerOK, AccountsInv, TokensFollow
<1>4. CASE End(w) /\ UNCHANGED <<token, past>>
    BY <1>2, <1>4, EndStep
<1>5. CASE Continue(w, "user") /\ UNCHANGED <<token, past>>
    BY <1>1, <1>2, <1>5, JustGoesOn DEF Pcs
<1>6. CASE ContinueWithRow(w, "revoke") /\ UNCHANGED <<token, past>>
    BY <1>1, <1>2, <1>3, <1>6, ReadsRow DEF Pcs
<1>7. CASE /\ r.pc = "revoke" /\ token' = RevokeByTokenHash(r.from) /\ Continue(w, "issue")
           /\ past' = IF token[r.from].revoked THEN [past EXCEPT !.reused = @ \cup {r.from}] ELSE past
  <2>1. PICK t \in DOMAIN token : t = r.from
    BY <1>3
  <2>2. PICK q : q = [r EXCEPT !.pc = "issue"]
    OBVIOUS
  <2>3. /\ IsRequest(q) /\ q.op = r.op /\ q.pc = "issue" /\ q.on = r.on /\ q.from = t
        /\ q.row = r.row /\ q.epoch = r.epoch
    BY <1>2, <2>1, <2>2 DEF IsRequest, Pcs
  <2>4. Only(w) /\ work'[w] = q
    BY <1>1, <1>7, <2>2, Moves DEF AccountsInv
  <2>5. /\ past' \in Past /\ past'.revoked = past.revoked /\ past'.password = past.password
        /\ past'.stale = past.stale /\ past'.miscounted = past.miscounted
        /\ past.reused \subseteq past'.reused /\ (t \in past'.reused \/ ~token[t].revoked)
    <3>1. CASE token[t].revoked
      <4>1. past' = [past EXCEPT !.reused = past.reused \cup {t}]
        BY <1>7, <2>1, <3>1, Zenon
      <4>2. t \in Nat
        BY DEF AccountsInv, AccountTypes
      <4> QED BY <1>2, <4>1, <4>2 DEF Past
    <3>2. CASE ~token[t].revoked
      <4>1. past' = past
        BY <1>7, <2>1, <3>2, Zenon
      <4> QED BY <1>2, <3>2, <4>1
    <3> QED BY <3>1, <3>2
  <2>6. DOMAIN token' = DOMAIN token /\ token'[t].user = token[t].user
    <3>1. token' = [token EXCEPT ![t].revoked = TRUE]
      BY <1>7, <2>1 DEF RevokeByTokenHash
    <3>2. token[t] \in TokenRow
      BY DEF AccountsInv, AccountTypes
    <3>3. PICK row : row = [token[t] EXCEPT !.revoked = TRUE]
      OBVIOUS
    <3>4. row.user = token[t].user
      BY <3>2, <3>3 DEF TokenRow
    <3> QED BY <3>1, <3>3, <3>4
  <2>7. WorkerOK(work[w])'
    <3>1. q.on \in past'.stale \/ q.row.version = q.epoch
      BY <1>2, <1>7, <2>3, <2>5 DEF WorkerOK
    <3> QED BY <1>2, <1>3, <2>1, <2>3, <2>4, <2>6, <3>1 DEF WorkerOK, AccountsInv, AccountTypes
  <2>8. \A s : Exchanges(work'[w], s) => s = t
    BY <2>3, <2>4 DEF Exchanges
  <2>9. token' = RevokeByTokenHash(t) /\ user' = user /\ requests' \in Nat
    BY <1>2, <1>7, <2>1, AtWork
  <2> QED BY <2>3, <2>4, <2>5, <2>7, <2>8, <2>9, TokenRevoked
<1>8. CASE r.pc = "issue" /\ Issue(r.on, r.row.version, r.epoch, r.from) /\ End(w) /\ UNCHANGED past
  <2>1. r.row.version \in Nat /\ r.epoch \in Nat
    BY <1>2 DEF IsRequest, UserRow
  <2>2. r.on \in past.stale \/ r.row.version = r.epoch
    BY <1>2, <1>8 DEF WorkerOK
  <2>3. Exchanges(work[w], r.from)
    BY <1>1, <1>2, <1>8 DEF Exchanges
  <2> QED BY <1>1, <1>2, <1>3, <1>8, <2>1, <2>2, <2>3, TokenAppears
<1> QED BY <1>1, <1>4, <1>5, <1>6, <1>7, <1>8, Zenon DEF RefreshStep

\* SetupService.Init begins.
LEMMA SetupKeeps ==
    ASSUME AccountsInv, NEW w \in Workers, NEW u \in Users, Setup(w, u)
    PROVE  AccountsInv'
<1>1. PICK q : q = [Idle EXCEPT !.op = "init", !.pc = "find", !.on = u, !.password = requests]
    OBVIOUS
<1>2. IsRequest(q) /\ q.op = "init" /\ q.pc = "find" /\ q.on = u
    BY <1>1, AtWork, IdleIsRequest DEF IsRequest, Ops, Pcs
<1>3. Begin(w, q) /\ UNCHANGED <<user, token, past>>
    BY <1>1 DEF Setup
<1> QED BY <1>2, <1>3, SessionBegins

\* The steps of SetupService.Init: its account is a super admin.
LEMMA SetupStepKeeps ==
    ASSUME AccountsInv, NEW w \in Workers, SetupStep(w)
    PROVE  AccountsInv'
<1>1. PICK r : r = work[w]
    OBVIOUS
<1>2. r.op = "init" /\ IsRequest(r) /\ WorkerOK(r) /\ requests' = requests /\ past \in Past
    BY <1>1, AtWork DEF SetupStep
<1>3. CASE End(w) /\ UNCHANGED <<user, token, past>>
    BY <1>2, <1>3, EndStep
<1>4. CASE Continue(w, "write") /\ UNCHANGED <<user, token, past>>
    BY <1>1, <1>2, <1>4, JustGoesOn DEF Pcs
<1>5. CASE /\ r.on \notin DOMAIN user /\ Continue(w, "source") /\ token' = token
           /\ user' = WithUser(r.on, NewUser("super_admin", r.password))
           /\ past' = [past EXCEPT !.password[r.on] = r.password]
  <2>1. PICK u \in Users \ DOMAIN user : u = r.on
    BY <1>2, <1>5 DEF WorkerOK
  <2>2. PICK row \in UserRow : row = NewUser("super_admin", r.password)
    BY <1>2 DEF IsRequest, UserRow, NewUser, Statuses, Roles
  <2>3. row.version = 0 /\ row.password = r.password /\ row.role = "super_admin" /\ row.status = "active"
    BY <2>2 DEF NewUser
  <2>4. user' = WithUser(u, row) /\ past' = [past EXCEPT !.password[u] = row.password]
    BY <1>5, <2>1, <2>2, <2>3
  <2>5. u \in DOMAIN user' /\ user'[u] = row
    BY <2>4 DEF WithUser
  <2>6. PICK q : q = [r EXCEPT !.pc = "source"]
    OBVIOUS
  <2>7. IsRequest(q) /\ q.op = "init" /\ q.pc = "source" /\ q.on = u
    BY <1>2, <2>1, <2>6 DEF IsRequest, Pcs
  <2>8. Only(w) /\ work'[w] = q
    BY <1>1, <1>5, <2>6, Moves DEF AccountsInv
  <2>9. WorkerOK(work[w])' /\ \A t : ~Exchanges(work'[w], t)
    BY <2>5, <2>7, <2>8 DEF WorkerOK, Exchanges
  <2>10. SuperAdminRemains'
    BY <2>3, <2>5 DEF SuperAdminRemains, ActiveSuperAdmins
  <2> QED BY <1>2, <1>5, <2>3, <2>4, <2>7, <2>8, <2>9, <2>10, UserAppears
<1>6. CASE \E s : /\ work' = [work EXCEPT ![w].pc = "mount", ![w].source = s]
                  /\ r.pc = "source" /\ UNCHANGED <<user, token, past>>
  <2>1. PICK s : work' = [work EXCEPT ![w].pc = "mount", ![w].source = s]
    BY <1>6
  <2>2. PICK q : q = [r EXCEPT !.pc = "mount", !.source = s]
    OBVIOUS
  <2>3. IsRequest(q) /\ q.op = "init" /\ q.pc = "mount" /\ q.on = r.on
    BY <1>2, <2>2 DEF IsRequest, Pcs
  <2>4. Only(w) /\ work'[w] = q
    BY <1>1, <2>1, <2>2 DEF Only, AccountsInv, AccountTypes
  <2>5. WorkerOK(q)
    BY <1>2, <1>6, <2>3 DEF WorkerOK
  <2> QED BY <1>2, <1>6, <2>3, <2>4, <2>5, GoesTo, AtWork
<1>7. CASE \/ r.pc = "mount" /\ Continue(w, "config") /\ UNCHANGED <<user, token, past>>
           \/ r.pc = "config" /\ Continue(w, "issue") /\ UNCHANGED <<user, token, past>>
  <2>1. r.on \in DOMAIN user
    BY <1>2, <1>7 DEF WorkerOK
  <2> QED BY <1>1, <1>2, <1>7, <2>1, JustGoesOn DEF Pcs
<1>8. CASE r.pc = "issue" /\ Issue(r.on, 0, 0, 0) /\ End(w) /\ UNCHANGED <<user, past>>
  <2>1. r.on \in DOMAIN user
    BY <1>2, <1>8 DEF WorkerOK
  <2> QED BY <1>1, <1>2, <1>8, <2>1, TokenAppears
<1>9. ASSUME r.pc = "find"
      PROVE  (End(w) \/ Continue(w, "write")) /\ UNCHANGED <<user, token, past>>
    BY <1>1, <1>9, Zenon DEF SetupStep
<1> QED BY <1>1, <1>3, <1>4, <1>5, <1>6, <1>7, <1>8, Zenon DEF SetupStep

\* A database error, a restart, and all that leaves the accounts alone
LEMMA OthersKeep ==
    ASSUME AccountsInv, \/ \E w \in Workers : RequestFails(w)
                        \/ Restart
                        \/ UNCHANGED accounts
    PROVE  AccountsInv'
<1>1. ASSUME NEW w \in Workers, RequestFails(w) PROVE AccountsInv'
    BY <1>1, EndStep DEF RequestFails, Fail
<1>2. CASE Restart
  <2>1. work' = [w \in Workers |-> Idle] /\ UNCHANGED <<user, token, requests, past>>
    BY <1>2 DEF Restart
  <2>2. \A w \in Workers : IsRequest(work'[w]) /\ work'[w].op = "none"
    BY <2>1, IdleIsRequest
  <2>3. AccountTypes'
    BY <2>1, <2>2 DEF AccountsInv, AccountTypes
  <2>4. (\A w \in Workers : WorkerOK(work[w]))'
    BY <2>2 DEF WorkerOK
  <2>5. RowsFollow' /\ TokensFollow' /\ SuperAdminRemains'
    BY <2>1 DEF AccountsInv, RowsFollow, TokensFollow, SuperAdminRemains, ActiveSuperAdmins
  <2>6. (\A t \in DOMAIN token \ past.reused : ExchangedOnce(t))'
    BY <2>1, <2>2 DEF AccountsInv, ExchangedOnce, Exchanges
  <2> QED BY <2>3, <2>4, <2>5, <2>6 DEF AccountsInv
<1>3. CASE UNCHANGED accounts
  <2>1. UNCHANGED <<user, token, work, requests, past>>
    BY <1>3 DEF accounts
  <2>2. AccountTypes'
    BY <2>1 DEF AccountsInv, AccountTypes
  <2>3. (\A w \in Workers : WorkerOK(work[w]))'
    BY <2>1 DEF AccountsInv, WorkerOK, Demotes
  <2>4. RowsFollow' /\ TokensFollow' /\ SuperAdminRemains'
    BY <2>1 DEF AccountsInv, RowsFollow, TokensFollow, SuperAdminRemains, ActiveSuperAdmins
  <2>5. (\A t \in DOMAIN token \ past.reused : ExchangedOnce(t))'
    BY <2>1 DEF AccountsInv, ExchangedOnce, Exchanges
  <2> QED BY <2>2, <2>3, <2>4, <2>5 DEF AccountsInv
<1> QED BY <1>1, <1>2, <1>3

\* Edits of sources, files, rules and shares leave the accounts alone.
LEMMA EditsLeaveAccounts ==
    ASSUME SourceNext \/ FileNext \/ RuleNext \/ ShareNext
    PROVE  UNCHANGED accounts
<1>1. SourceNext => UNCHANGED accounts
    BY Zenon DEF SourceNext, UpdateConfig, CheckCreate, CheckUpdate, CheckDelete, Commit, Edit
<1>2. FileNext => UNCHANGED accounts
    BY Zenon, ZenonT(60) DEF FileNext, RenameFile, MakeFile, MoveFile, DeleteFile, Vanish, Edit
<1>3. RuleNext => UNCHANGED accounts
    BY Zenon DEF RuleNext, PutRule, DeleteRule, Edit
<1>4. ShareNext => UNCHANGED accounts
    BY Zenon DEF ShareNext, CreateShare, UpdateShare, DeleteShare, Open, Tick, Edit
<1> QED BY <1>1, <1>2, <1>3, <1>4

-----------------------------------------------------------------------------
(* The invariant holds *)

LEMMA StepKeeps ==
    ASSUME AccountsInv, [Next]_vars
    PROVE  AccountsInv'
<1>1. CASE ManageNext
  <2>1. ASSUME NEW w \in Workers, NEW t \in DOMAIN token, NEW u \in Users, NEW role \in Roles,
               Manage(w, t, "create", u, role, "active")
        PROVE  AccountsInv'
    BY <2>1, ManageKeeps DEF Statuses
  <2>2. ASSUME NEW w \in Workers, NEW t \in DOMAIN token, NEW u \in Users, NEW role \in Roles,
               NEW status \in Statuses, Manage(w, t, "update", u, role, status)
        PROVE  AccountsInv'
    BY <2>2, ManageKeeps
  <2>3. ASSUME NEW w \in Workers, NEW t \in DOMAIN token, NEW u \in Users, NEW op \in {"reset", "revoke"},
               Manage(w, t, op, u, "user", "active")
        PROVE  AccountsInv'
    BY <2>3, ManageKeeps DEF Statuses, Roles
  <2> QED BY <1>1, <2>1, <2>2, <2>3, CreateUserKeeps, UpdateUserKeeps, ResetPasswordKeeps,
             RevokeTokensKeeps, ZenonT(60) DEF ManageNext
<1>2. CASE SessionNext
    BY <1>2, LoginKeeps, RefreshKeeps, LogoutKeeps, RefreshStepKeeps, Zenon DEF SessionNext
<1>3. CASE SetupNext
    BY <1>3, SetupKeeps, SetupStepKeeps, Zenon DEF SetupNext
<1>4. CASE SourceNext \/ FileNext \/ RuleNext \/ ShareNext
    BY <1>4, EditsLeaveAccounts, OthersKeep
<1>5. CASE Restart \/ \E w \in Workers : RequestFails(w)
    BY <1>5, OthersKeep
<1>6. CASE UNCHANGED vars
    BY <1>6, OthersKeep DEF vars
<1> QED BY <1>1, <1>2, <1>3, <1>4, <1>5, <1>6, Zenon DEF Next, AccountsNext

\* SetToSeq puts a finite set in some order.
LEMMA Ordered ==
    ASSUME NEW S, IsFiniteSet(S)
    PROVE  \E n \in Nat : SetToSeq(S) \in [1 .. n -> S]
<1>1. PICK n \in Nat : n = Cardinality(S) /\ ExistsBijection(1 .. n, S)
    BY FS_CardinalityType
<1>2. PICK f \in [1 .. n -> S] : IsInjective(f)
    BY <1>1 DEF ExistsBijection, Bijection, Injection
<1> QED BY <1>1, <1>2 DEF SetToSeq

LEMMA InitHolds ==
    ASSUME Init
    PROVE  AccountsInv
<1>1. work = [w \in Workers |-> Idle] /\ past = NoPast /\ requests \in Nat
  <2>1. \/ AccountsInit /\ requests = MaxRequests
        \/ /\ work = [w \in Workers |-> Idle] /\ past = NoPast
           /\ requests = MaxRequests \/ requests = 0
    BY Zenon DEF Init, FreshInstall, Established
  <2> QED BY <2>1, AccountsAssumption DEF AccountsInit
<1>2. \A w \in Workers : IsRequest(work[w]) /\ work[w].op = "none"
    BY <1>1, IdleIsRequest
<1>3. past \in Past
    BY <1>1 DEF NoPast, Past
<1>4. \A u \in Users : past.revoked[u] = 0 /\ past.password[u] = 0
    BY <1>1 DEF NoPast
<1>5. \A w \in Workers : WorkerOK(work[w])
    BY <1>2 DEF WorkerOK
<1>6. CASE FreshInstall
  <2>1. user = <<>> /\ token = <<>>
    BY <1>6 DEF FreshInstall, AccountsInit
  <2>2. DOMAIN user = {} /\ DOMAIN token = {} /\ token \in Seq(TokenRow)
    BY <2>1
  <2>3. AccountTypes
    BY <1>1, <1>2, <1>3, <2>2 DEF AccountTypes
  <2> QED BY <1>4, <1>5, <2>1, <2>2, <2>3 DEF AccountsInv, RowsFollow, TokensFollow, SuperAdminRemains
<1>7. CASE Established
  <2>1. PICK names : names = SetToSeq(Founders \cup {Member})
    OBVIOUS
  <2>2. /\ user = [u \in Founders \cup {Member} |->
                      NewUser(IF u \in Founders THEN "super_admin" ELSE "user", 0)]
        /\ token = [k \in DOMAIN names |-> [user |-> names[k], version |-> 0, revoked |-> FALSE,
                                            epoch |-> 0, from |-> 0]]
    BY <1>7, <2>1, Zenon DEF Established
  <2>3. PICK n \in Nat : names \in [1 .. n -> Founders \cup {Member}]
    <3>1. IsFiniteSet(Founders \cup {Member})
      BY AccountsAssumption, SiteAssumption, FS_Subset
    <3> QED BY <2>1, <3>1, Ordered
  <2>4. DOMAIN user \subseteq Users /\ DOMAIN user = Founders \cup {Member}
    BY <2>2, SiteAssumption
  <2>5. \A u \in DOMAIN user : user[u] \in UserRow /\ user[u].version = 0 /\ user[u].password = 0
    BY <2>2 DEF UserRow, NewUser, Roles, Statuses
  <2>6. \A k \in 1 .. n : names[k] \in Users /\ names[k] \in DOMAIN user
    BY <2>3, <2>4
  <2>7. /\ DOMAIN token = 1 .. n
        /\ \A k \in 1 .. n : /\ token[k].user = names[k] /\ token[k].version = 0
                             /\ token[k].epoch = 0 /\ token[k].from = 0
    BY <2>2, <2>3
  <2>8. token \in Seq(TokenRow)
    <3>1. \A k \in 1 .. n : [user |-> names[k], version |-> 0, revoked |-> FALSE,
                             epoch |-> 0, from |-> 0] \in TokenRow
      BY <2>6, FALSE \in BOOLEAN, 0 \in Nat, Zenon DEF TokenRow
    <3>2. token \in [1 .. n -> TokenRow]
      BY <2>2, <2>3, <3>1
    <3> QED BY <3>2, SeqDef
  <2>9. AccountTypes
    BY <1>1, <1>2, <1>3, <2>4, <2>5, <2>8 DEF AccountTypes
  <2>10. RowsFollow /\ TokensFollow
    BY <1>4, <2>4, <2>5, <2>6, <2>7 DEF RowsFollow, TokensFollow
  <2>11. \A t \in DOMAIN token : ExchangedOnce(t)
    BY <1>2, <2>7 DEF ExchangedOnce, Exchanges
  <2>12. SuperAdminRemains
    <3>1. PICK f : f \in Founders
      BY SiteAssumption
    <3>2. f \in ActiveSuperAdmins(user)
      BY <2>2, <3>1 DEF ActiveSuperAdmins, NewUser
    <3> QED BY <3>2 DEF SuperAdminRemains
  <2> QED BY <1>5, <2>9, <2>10, <2>11, <2>12 DEF AccountsInv
<1> QED BY <1>6, <1>7 DEF Init

LEMMA AccountsHold == Spec => []AccountsInv
<1>1. Init => AccountsInv
    BY InitHolds
<1>2. AccountsInv /\ [Next]_vars => AccountsInv'
    BY StepKeeps
<1> QED BY <1>1, <1>2, PTL DEF Spec

-----------------------------------------------------------------------------
(* What follows from it *)

\* A token that is let in has the version of its account, and so all of its
\* revocations; the successors of a refresh token are one.
LEMMA InvEndsSessions ==
    ASSUME AccountsInv
    PROVE  SessionsEnd
<1>1. RevokedStaysOut
  <2> SUFFICES ASSUME NEW t \in DOMAIN token, Accepted(t), token[t].user \notin past.stale
               PROVE  token[t].epoch = past.revoked[token[t].user]
    BY DEF RevokedStaysOut
  <2> QED BY DEF Accepted, AccountsInv, RowsFollow, TokensFollow
<1>2. RefreshedOnce
  <2> SUFFICES ASSUME NEW t \in DOMAIN token \ past.reused
               PROVE  Cardinality({s \in DOMAIN token : token[s].from = t}) <= 1
    BY DEF RefreshedOnce
  <2>1. PICK S : S = {s \in DOMAIN token : token[s].from = t}
    OBVIOUS
  <2>2. \A s1, s2 \in S : s1 = s2
    BY <2>1 DEF AccountsInv, ExchangedOnce
  <2>3. S = {} \/ \E s : S = {s}
    BY <2>2
  <2>4. Cardinality(S) \in {0, 1}
    BY <2>3, FS_EmptySet, FS_Singleton
  <2> QED BY <2>1, <2>4
<1>3. PasswordStays
    BY DEF PasswordStays, AccountsInv, RowsFollow
<1> QED BY <1>1, <1>2, <1>3 DEF SessionsEnd

\* Tokens from before a revocation are not let in, a refresh token is exchanged
\* once and a password stays as it was set last, for any number of accounts,
\* tokens and requests at once (UserService, AuthService, SetupService), unless
\* requests about one account overlapped.
THEOREM SessionsAreEnded == Spec => []SessionsEnd
<1>1. AccountsInv => SessionsEnd
    BY InvEndsSessions
<1> QED BY <1>1, AccountsHold, PTL

\* An active super admin remains whatever is asked for (UserService.Update),
\* unless two requests overlapped.
THEOREM ASuperAdminRemains == Spec => []SuperAdminRemains
<1>1. AccountsInv => SuperAdminRemains
    BY DEF AccountsInv
<1> QED BY <1>1, AccountsHold, PTL
=============================================================================
