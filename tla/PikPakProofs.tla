---------------------------- MODULE PikPakProofs ----------------------------
(***************************************************************************)
(* Proofs about the PikPak driver, for every number of requests, paths,    *)
(* files and faults, whatever requests run at the same time:               *)
(*                                                                         *)
(*   - the refresh token in the source row outlives a restart (TokenInv);  *)
(*   - the path cache tells the truth, a request acts on the file it was   *)
(*     given, and equal names in a folder have a reason (DriveInv, which   *)
(*     says of each request what it knows at its place in its program).    *)
(***************************************************************************)
EXTENDS PikPakDrive, SequenceTheorems, NaturalsInduction, WellFoundedInduction, TLAPS

\* The session in memory has a token that works, or a request has exchanged it and
\* is about to put the next one there.
SessionLives ==
    lapsed \/ edited \/ State.refresh \in renews \/ \E r \in Slots : sess[r].pc = "apply"

\* The row has the session's token, or a request is about to write the row.
RowFollows ==
    torn \/ edited \/ stored = State.refresh \/ \E r \in Slots : sess[r].pc = "save"

\* No token is "" except in a session that is not there yet.
NoBlanks ==
    /\ stored # 0
    /\ session = NoSession \/ session.refresh # 0
    /\ \A r \in Slots : /\ sess[r].pc = "apply" => sess[r].new # 0
                        /\ sess[r].pc = "save" => sess[r].raw # 0 /\ session # NoSession

\* A request that is not on its way to a session is done with it.
AtWork ==
    /\ DOMAIN req = Slots /\ \A r \in Slots : DOMAIN req[r] = DOMAIN Idle
    /\ \A r \in Slots : req[r].pc = "session" \/ AtRest(r)

TokenInv == SessionTypeOK /\ NoBlanks /\ SessionLives /\ RowFollows /\ AtWork

-----------------------------------------------------------------------------
(* Requests keep their shape. *)

Shape(q) == DOMAIN q = DOMAIN Idle

LEMMA IdleShape == "pc" \in DOMAIN Idle /\ Shape(Idle) /\ Idle.pc = "idle"
BY DEF Idle, Shape

LEMMA FinishShape == \A q : Shape(Finish(q))
BY IdleShape DEF Finish, Shape

LEMMA AwaitShape == \A op, named : Shape(Await(op, named)) /\ Await(op, named).pc = "session"
BY IdleShape DEF Await, Shape

LEMMA EnterShape ==
    ASSUME NEW q, NEW k, Shape(q)
    PROVE  Shape(Enter(q, k))
BY FinishShape DEF Enter, Shape

LEMMA ResolvedShape ==
    ASSUME NEW q, NEW entry, Shape(q)
    PROVE  Shape(Resolved(q, entry))
<1>1. Shape([q EXCEPT !.file = entry]) /\ Shape([q EXCEPT !.dir = entry])
  BY DEF Shape
<1>2. PICK a, b : a = [q EXCEPT !.file = entry] /\ b = [q EXCEPT !.dir = entry]
  OBVIOUS
<1>3. Shape(Enter(a, q.stage + 1)) /\ Shape(Enter(b, q.stage + 1))
  BY <1>1, <1>2, EnterShape
<1>. QED
  BY <1>2, <1>3, FinishShape DEF Resolved

\* What a request's step, or one that it tells the others of, does to the requests
Moves(r) ==
    /\ DOMAIN req' = Slots /\ \A s \in Slots : Shape(req'[s])
    /\ \A s \in Slots \ {r} : req'[s].pc = req[s].pc

LEMMA PutMoves ==
    ASSUME AtWork, NEW r \in Slots, NEW q, Shape(q), Put(r, q)
    PROVE  Moves(r) /\ req'[r] = q
BY DEF AtWork, Moves, Put, Shape

LEMMA PutAndTellMoves ==
    ASSUME AtWork, NEW r \in Slots, NEW q, NEW t, Shape(q), PutAndTell(r, q, t)
    PROVE  Moves(r)
<1>1. DOMAIN req' = Slots
  BY DEF PutAndTell
<1>2. ASSUME NEW s \in Slots
      PROVE  /\ Shape(req'[s])
             /\ req'[s].pc = IF s = r THEN q.pc ELSE req[s].pc
  <2>1. PICK p : p = IF s = r THEN q ELSE req[s]
    OBVIOUS
  <2>2. Shape(p)
    BY <2>1 DEF AtWork, Shape
  <2>3. req'[s] = p \/ \E a, b, c : req'[s] = [p EXCEPT !.old = a, !.late = b, !.named = c]
    <3>1. req'[s] = IF p.pc = "idle" THEN p
                    ELSE [p EXCEPT !.old = @ \/ s # r, !.late = @ \/ s # r,
                                   !.named = @ \cup IdsAt(t, p.op.path)]
      BY <2>1 DEF PutAndTell
    <3>2. PICK c : c = p.named \cup IdsAt(t, p.op.path)
      OBVIOUS
    <3>3. PICK a, b : a = (p.old \/ s # r) /\ b = (p.late \/ s # r)
      OBVIOUS
    <3>4. p.pc # "idle" => req'[s] = [p EXCEPT !.old = a, !.late = b, !.named = c]
      BY <3>1, <3>2, <3>3
    <3>5. p.pc = "idle" => req'[s] = p
      BY <3>1, Zenon
    <3>. QED
      BY <3>4, <3>5
  <2>. QED
    BY <2>1, <2>2, <2>3, IdleShape DEF Shape
<1>. QED
  BY <1>1, <1>2 DEF Moves

-----------------------------------------------------------------------------
(* Steps that leave the session alone *)

LEMMA DriveStep ==
    ASSUME TokenInv, NEW r \in Slots, Moves(r), req[r].pc # "session",
           faults' = faults \/ \E kind : Fault(kind),
           UNCHANGED <<session, stored, password, accepts, renews, issued, sess, torn, lapsed, edited>>
    PROVE  TokenInv'
<1>1. faults' \in 0 .. MaxFaults
  BY SessionAssumption DEF TokenInv, SessionTypeOK, Fault
<1>2. SessionTypeOK' /\ NoBlanks' /\ SessionLives' /\ RowFollows'
  BY <1>1 DEF TokenInv, SessionTypeOK, NoBlanks, SessionLives, RowFollows, State
<1>3. AtWork'
  BY DEF TokenInv, AtWork, Moves, Shape, AtRest
<1>. QED
  BY <1>2, <1>3 DEF TokenInv

-----------------------------------------------------------------------------
(* Steps of the session *)

LEMMA StateFacts ==
    ASSUME TokenInv
    PROVE  /\ State \in [access : Tokens, refresh : Tokens]
           /\ State.refresh # 0 /\ State # NoSession
           /\ session = NoSession => State.refresh = stored
           /\ session # NoSession => State = session
<1>1. stored \in Tokens /\ stored # 0 /\ session \in [access : Tokens, refresh : Tokens]
      /\ (session = NoSession \/ session.refresh # 0) /\ 0 \in Tokens
  BY SessionAssumption DEF TokenInv, SessionTypeOK, NoBlanks, Tokens
<1>2. CASE session = NoSession
  BY <1>1, <1>2 DEF State, NoSession
<1>3. CASE session # NoSession
  BY <1>1, <1>3 DEF State, NoSession
<1>. QED
  BY <1>2, <1>3

\* The state is put in place, with or without its access token: the refresh token
\* stays the same.
LEMMA StateKept ==
    ASSUME TokenInv, NEW a \in Tokens, session' = [access |-> a, refresh |-> State.refresh]
    PROVE  State' = session' /\ session' \in [access : Tokens, refresh : Tokens] /\ session'.refresh # 0
           /\ State'.refresh = State.refresh
<1>1. PICK n \in Tokens : n = State.refresh /\ n # 0
  BY StateFacts
<1>2. session' = [access |-> a, refresh |-> n]
  BY <1>1
<1>3. session' # NoSession /\ session' \in [access : Tokens, refresh : Tokens] /\ session'.refresh = n
  BY <1>1, <1>2 DEF NoSession
<1>4. State' = session'
  BY <1>3 DEF State, NoSession
<1>. QED
  BY <1>1, <1>3, <1>4

LEMMA OutOK == Out \in Sess /\ Failed \in Sess /\ Out.pc = "out" /\ Failed.pc = "failed"
<1>1. 0 \in Tokens
  BY SessionAssumption DEF Tokens
<1>. QED
  BY <1>1 DEF Out, Failed, Sess

\* One request sets its part of the session, with the tokens of the provider and of
\* the row as they were.
LEMMA OwnStep ==
    ASSUME TokenInv, NEW r \in Slots, NEW q \in Sess, Set(r, q), AtRest(r),
           q.pc = "save" => q.raw # 0 /\ session'.refresh # 0, q.pc # "apply",
           session' \in [access : Tokens, refresh : Tokens],
           session' = session \/ session'.refresh # 0,
           State'.refresh = State.refresh,
           UNCHANGED <<stored, password, accepts, renews, issued, torn, lapsed, edited>>,
           faults' = faults \/ \E kind : Fault(kind),
           Moves(r), req'[r].pc = "session" \/ q.pc \in {"out", "ready", "failed"}
    PROVE  TokenInv'
<1>1. faults' \in 0 .. MaxFaults
  BY SessionAssumption DEF TokenInv, SessionTypeOK, Fault
<1>2. sess' \in [Slots -> Sess] /\ sess'[r] = q /\ \A s \in Slots \ {r} : sess'[s] = sess[s]
  BY DEF TokenInv, SessionTypeOK, Set
<1>3. SessionTypeOK'
  BY <1>1, <1>2 DEF TokenInv, SessionTypeOK
<1>4. NoBlanks'
  BY <1>2 DEF TokenInv, NoBlanks, NoSession
<1>5. \A s \in Slots : sess[s].pc \in {"apply", "save"} => sess'[s] = sess[s]
  BY <1>2 DEF AtRest
<1>6. SessionLives' /\ RowFollows'
  BY <1>5 DEF TokenInv, SessionLives, RowFollows
<1>7. AtWork'
  BY <1>2 DEF TokenInv, AtWork, Moves, Shape, AtRest
<1>. QED
  BY <1>3, <1>4, <1>6, <1>7 DEF TokenInv

LEMMA BeginStep ==
    ASSUME TokenInv, NEW r \in Slots, NEW op, Begin(r, op)
    PROVE  TokenInv'
<1>0. State \in [access : Tokens, refresh : Tokens] /\ State.refresh # 0
  BY StateFacts
<1>1. PICK a \in Tokens, n \in Tokens : a = State.access /\ n = State.refresh /\ n # 0
  BY <1>0
<1>2. session' = [access |-> a, refresh |-> State.refresh]
  BY <1>0, <1>1 DEF Begin, EnsureSession
<1>3. State'.refresh = State.refresh /\ session' \in [access : Tokens, refresh : Tokens] /\ session'.refresh # 0
  BY <1>2, StateKept
<1>4. PICK q \in Sess : Set(r, q) /\ q.pc \in {"save", "auth"} /\ (q.pc = "save" => q.raw # 0)
  <2>1. CASE a # 0
    <3>1. PICK q \in Sess : q = [Out EXCEPT !.pc = "save", !.raw = n, !.tok = a]
      BY OutOK DEF Sess
    <3>2. q.pc = "save" /\ q.raw = n
      BY <3>1 DEF Out
    <3>. QED
      BY <1>1, <2>1, <3>1, <3>2 DEF Begin, EnsureSession
  <2>2. CASE a = 0
    <3>1. PICK q \in Sess : q = [Out EXCEPT !.pc = "auth", !.copy = n]
      BY OutOK DEF Sess
    <3>2. q.pc = "auth"
      BY <3>1 DEF Out
    <3>. QED
      BY <1>1, <2>2, <3>1, <3>2 DEF Begin, EnsureSession
  <2>. QED
    BY <2>1, <2>2
<1>5. PICK p : Shape(p) /\ Put(r, p) /\ p.pc = "session"
  BY AwaitShape DEF Begin
<1>6. Moves(r) /\ req'[r] = p
  BY <1>5, PutMoves DEF TokenInv
<1>7. AtRest(r) /\ UNCHANGED <<stored, password, accepts, renews, issued, torn, lapsed, edited, faults>>
  BY DEF Begin, EnsureSession
<1>. QED
  BY <1>3, <1>4, <1>5, <1>6, <1>7, OwnStep

\* A second run: refreshAccess or refreshDriveCaptcha
LEMMA AgainStep ==
    ASSUME TokenInv, NEW r \in Slots, req[r].pc # "session", RefreshAccess(r) \/ RefreshDriveCaptcha(r),
           NEW op, NEW named, Put(r, Await(op, named)),
           faults' = faults \/ \E kind : Fault(kind),
           UNCHANGED <<stored, password, accepts, renews, issued, torn, lapsed, edited>>
    PROVE  TokenInv'
<1>0. State \in [access : Tokens, refresh : Tokens] /\ State.refresh # 0 /\ 0 \in Tokens
  BY StateFacts, SessionAssumption DEF Tokens
<1>1. PICK a \in Tokens, n \in Tokens : a = State.access /\ n = State.refresh /\ n # 0
  BY <1>0
<1>2. PICK b \in Tokens : session' = [access |-> b, refresh |-> State.refresh]
  BY <1>0, <1>1 DEF RefreshAccess, RefreshDriveCaptcha
<1>3. State'.refresh = State.refresh /\ session' \in [access : Tokens, refresh : Tokens] /\ session'.refresh # 0
  BY <1>2, StateKept
<1>4. PICK q \in Sess : Set(r, q) /\ q.pc \in {"save", "auth"} /\ (q.pc = "save" => q.raw # 0)
  <2>1. CASE RefreshDriveCaptcha(r)
    <3>1. PICK q \in Sess : q = [Out EXCEPT !.pc = "save", !.raw = n, !.tok = a, !.again = TRUE]
      BY OutOK DEF Sess
    <3>2. q.pc = "save" /\ q.raw = n
      BY <3>1 DEF Out
    <3>. QED
      BY <1>1, <2>1, <3>1, <3>2 DEF RefreshDriveCaptcha
  <2>2. CASE RefreshAccess(r)
    <3>1. PICK q \in Sess : q = [Out EXCEPT !.pc = "auth", !.copy = n, !.again = TRUE]
      BY OutOK DEF Sess
    <3>2. q.pc = "auth"
      BY <3>1 DEF Out
    <3>. QED
      BY <1>1, <2>2, <3>1, <3>2 DEF RefreshAccess
  <2>. QED
    BY <2>1, <2>2
<1>5. Moves(r) /\ req'[r].pc = "session"
  BY AwaitShape, PutMoves DEF TokenInv
<1>6. AtRest(r)
  BY DEF TokenInv, AtWork
<1>. QED
  BY <1>3, <1>4, <1>5, <1>6, OwnStep

LEMMA SessionMoves ==
    ASSUME TokenInv, NEW r \in Slots, Session(r)
    PROVE  Moves(r) /\ (req'[r].pc = "session" \/ sess'[r].pc \in {"ready", "failed"})
<1>1. DOMAIN req = Slots /\ Shape(req[r]) /\ req[r].pc = "session" /\ \A s \in Slots : Shape(req[s])
  BY DEF TokenInv, AtWork, Session, Shape
<1>2. PICK a, b : a = [req[r] EXCEPT !.old = FALSE] /\ b = Enter(a, 1)
  OBVIOUS
<1>3. Shape(a) /\ Shape(b)
  BY <1>1, <1>2, EnterShape DEF Shape
<1>4. PICK p : /\ req' = [req EXCEPT ![r] = p]
               /\ p = CASE sess'[r].pc = "ready" -> b [] sess'[r].pc = "failed" -> Idle [] OTHER -> req[r]
  BY <1>2 DEF Session
<1>5. Shape(p) /\ (p.pc = "session" \/ sess'[r].pc \in {"ready", "failed"})
  BY <1>1, <1>3, <1>4, IdleShape
<1>6. req'[r] = p /\ DOMAIN req' = Slots /\ \A s \in Slots \ {r} : req'[s] = req[s]
  BY <1>1, <1>4
<1>. QED
  BY <1>1, <1>5, <1>6 DEF Moves

\* A step towards a session keeps the invariant when the two facts about the tokens
\* hold afterwards.
LEMMA TowardsSession ==
    ASSUME TokenInv, NEW r \in Slots, Session(r), NEW q \in Sess, Set(r, q),
           q.pc = "save" => q.raw # 0 /\ session'.refresh # 0, q.pc = "apply" => q.new # 0,
           session' \in [access : Tokens, refresh : Tokens],
           session' = session \/ session'.refresh # 0,
           stored' \in Tokens \ {0}, password' = password, edited' = edited,
           accepts' \subseteq Tokens, renews' \subseteq Tokens, issued' \in Tokens,
           torn' \in BOOLEAN, lapsed' \in BOOLEAN,
           faults' = faults \/ \E kind : Fault(kind),
           SessionLives', RowFollows'
    PROVE  TokenInv'
<1>1. faults' \in 0 .. MaxFaults
  BY SessionAssumption DEF TokenInv, SessionTypeOK, Fault
<1>2. sess' \in [Slots -> Sess] /\ sess'[r] = q /\ \A s \in Slots \ {r} : sess'[s] = sess[s]
  BY DEF TokenInv, SessionTypeOK, Set
<1>3. SessionTypeOK'
  BY <1>1, <1>2 DEF TokenInv, SessionTypeOK
<1>4. NoBlanks'
  BY <1>2 DEF TokenInv, NoBlanks, NoSession
<1>5. Moves(r) /\ (req'[r].pc = "session" \/ sess'[r].pc \in {"ready", "failed"})
  BY SessionMoves
<1>6. AtWork'
  BY <1>2, <1>5 DEF TokenInv, AtWork, Moves, Shape, AtRest
<1>. QED
  BY <1>3, <1>4, <1>6 DEF TokenInv

LEMMA IssueTypes ==
    ASSUME TokenInv, Issue
    PROVE  issued' \in Tokens \ {0} /\ issued' = issued + 1 /\ accepts' \subseteq Tokens
BY SessionAssumption DEF TokenInv, SessionTypeOK, Issue, Tokens

LEMMA RefreshTokenStep ==
    ASSUME TokenInv, NEW r \in Slots, Session(r), RefreshToken(r)
    PROVE  TokenInv'
<1>0. SessionTypeOK /\ NoBlanks /\ SessionLives /\ RowFollows /\ stored \in Tokens \ {0}
  BY DEF TokenInv, SessionTypeOK, NoBlanks
<1>1. PICK c \in Sess : c = sess[r] /\ c.pc = "auth"
  BY <1>0 DEF SessionTypeOK, RefreshToken
<1>2. UNCHANGED <<password, session, stored, torn, edited>> /\ State' = State
  BY DEF RefreshToken, State
<1>3. 0 \in Tokens
  BY SessionAssumption DEF Tokens
<1>4. ASSUME NEW q, Set(r, q), q.pc # "save" PROVE RowFollows'
  <2>1. \A s \in Slots \ {r} : sess'[s] = sess[s]
    BY <1>0, <1>4 DEF SessionTypeOK, Set
  <2>2. sess[r].pc # "save"
    BY <1>1
  <2>3. (\E s \in Slots : sess[s].pc = "save") => \E s \in Slots : sess'[s].pc = "save"
    BY <2>1, <2>2
  <2>. QED
    BY <1>0, <1>2, <2>3 DEF RowFollows
<1>5. ASSUME NEW q \in Sess, Set(r, q), q.pc \in {"login", "failed"}, lapsed' \/ (lapsed' = lapsed /\ renews' = renews)
      PROVE  SessionLives'
  <2>1. \A s \in Slots \ {r} : sess'[s] = sess[s]
    BY <1>0, <1>5 DEF SessionTypeOK, Set
  <2>2. sess[r].pc # "apply"
    BY <1>1
  <2>3. (\E s \in Slots : sess[s].pc = "apply") => \E s \in Slots : sess'[s].pc = "apply"
    BY <2>1, <2>2
  <2>. QED
    BY <1>0, <1>2, <1>5, <2>3 DEF SessionLives
<1>6. CASE /\ Issue /\ renews' = (renews \ {c.copy}) \cup {issued + 1}
           /\ Set(r, [c EXCEPT !.pc = "apply", !.copy = 0, !.new = issued + 1])
           /\ UNCHANGED <<lapsed, faults>>
  <2>1. PICK n \in Tokens : n = issued + 1 /\ n # 0 /\ issued' = n /\ accepts' \subseteq Tokens
    BY <1>6, IssueTypes
  <2>2. PICK q \in Sess : q = [c EXCEPT !.pc = "apply", !.copy = 0, !.new = n]
    BY <1>3 DEF Sess
  <2>3. q.pc = "apply" /\ q.new = n
    BY <2>2 DEF Sess
  <2>4. Set(r, q) /\ renews' \subseteq Tokens
    BY <1>0, <1>6, <2>1, <2>2 DEF SessionTypeOK
  <2>5. sess'[r].pc = "apply"
    BY <1>0, <2>3, <2>4 DEF SessionTypeOK, Set
  <2>6. SessionLives'
    BY <2>5 DEF SessionLives
  <2>7. RowFollows'
    BY <1>4, <2>3, <2>4
  <2>. QED
    BY <1>0, <1>2, <1>6, <2>1, <2>3, <2>4, <2>6, <2>7, TowardsSession DEF SessionTypeOK, NoBlanks
<1>7. CASE /\ Issue /\ renews' = (renews \ {c.copy}) \cup {issued + 1} /\ Fault("lost")
           /\ Set(r, [c EXCEPT !.pc = "login", !.copy = 0]) /\ lapsed' = TRUE
  <2>1. PICK n \in Tokens : n = issued + 1 /\ n # 0 /\ issued' = n /\ accepts' \subseteq Tokens
    BY <1>7, IssueTypes
  <2>2. PICK q \in Sess : q = [c EXCEPT !.pc = "login", !.copy = 0]
    BY <1>3 DEF Sess
  <2>3. q.pc = "login"
    BY <2>2 DEF Sess
  <2>4. Set(r, q) /\ renews' \subseteq Tokens
    BY <1>0, <1>7, <2>1, <2>2 DEF SessionTypeOK
  <2>5. SessionLives' /\ RowFollows'
    BY <1>4, <1>5, <1>7, <2>3, <2>4
  <2>. QED
    BY <1>0, <1>2, <1>7, <2>1, <2>3, <2>4, <2>5, TowardsSession DEF SessionTypeOK, NoBlanks
<1>8. CASE /\ Set(r, [c EXCEPT !.pc = "login", !.copy = 0])
           /\ UNCHANGED <<accepts, renews, issued, lapsed, faults>>
  <2>2. PICK q \in Sess : q = [c EXCEPT !.pc = "login", !.copy = 0]
    BY <1>3 DEF Sess
  <2>3. q.pc = "login"
    BY <2>2 DEF Sess
  <2>5. SessionLives' /\ RowFollows'
    BY <1>4, <1>5, <1>8, <2>2, <2>3
  <2>. QED
    BY <1>0, <1>2, <1>8, <2>2, <2>3, <2>5, TowardsSession DEF SessionTypeOK, NoBlanks
<1>9. CASE Fault("net") /\ Set(r, Failed) /\ UNCHANGED <<accepts, renews, issued, lapsed>>
  <2>2. PICK q \in Sess : q = Failed /\ q.pc = "failed"
    BY OutOK
  <2>5. SessionLives' /\ RowFollows'
    BY <1>4, <1>5, <1>9, <2>2
  <2>. QED
    BY <1>0, <1>2, <1>9, <2>2, <2>5, TowardsSession DEF SessionTypeOK, NoBlanks
<1>10. \/ /\ Issue /\ renews' = (renews \ {c.copy}) \cup {issued + 1}
          /\ Set(r, [c EXCEPT !.pc = "apply", !.copy = 0, !.new = issued + 1])
          /\ UNCHANGED <<lapsed, faults>>
       \/ /\ Issue /\ renews' = (renews \ {c.copy}) \cup {issued + 1} /\ Fault("lost")
          /\ Set(r, [c EXCEPT !.pc = "login", !.copy = 0]) /\ lapsed' = TRUE
       \/ /\ Set(r, [c EXCEPT !.pc = "login", !.copy = 0])
          /\ UNCHANGED <<accepts, renews, issued, lapsed, faults>>
       \/ Fault("net") /\ Set(r, Failed) /\ UNCHANGED <<accepts, renews, issued, lapsed>>
  BY <1>1, Zenon DEF RefreshToken
<1>. QED
  BY <1>6, <1>7, <1>8, <1>9, <1>10

LEMMA LoginStep ==
    ASSUME TokenInv, NEW r \in Slots, Session(r), Login(r)
    PROVE  TokenInv'
<1>0. SessionTypeOK /\ NoBlanks /\ SessionLives /\ RowFollows /\ stored \in Tokens \ {0}
  BY DEF TokenInv, SessionTypeOK, NoBlanks
<1>1. PICK c \in Sess : c = sess[r] /\ c.pc = "login"
  BY <1>0 DEF SessionTypeOK, Login
<1>2. UNCHANGED <<password, session, stored, torn, lapsed, edited>> /\ State' = State
  BY DEF Login, State
<1>3. 0 \in Tokens
  BY SessionAssumption DEF Tokens
<1>4. ASSUME NEW q, Set(r, q), renews \subseteq renews' PROVE SessionLives' /\ RowFollows'
  <2>1. \A s \in Slots \ {r} : sess'[s] = sess[s]
    BY <1>0, <1>4 DEF SessionTypeOK, Set
  <2>2. sess[r].pc \notin {"save", "apply"}
    BY <1>1
  <2>3. /\ (\E s \in Slots : sess[s].pc = "save") => \E s \in Slots : sess'[s].pc = "save"
        /\ (\E s \in Slots : sess[s].pc = "apply") => \E s \in Slots : sess'[s].pc = "apply"
    BY <2>1, <2>2
  <2>. QED
    BY <1>0, <1>2, <1>4, <2>3 DEF RowFollows, SessionLives
<1>5. CASE /\ Issue /\ renews' = renews \cup {issued + 1} /\ UNCHANGED faults
           /\ Set(r, [c EXCEPT !.pc = "apply", !.copy = 0, !.new = issued + 1])
  <2>1. PICK n \in Tokens : n = issued + 1 /\ n # 0 /\ issued' = n /\ accepts' \subseteq Tokens
    BY <1>5, IssueTypes
  <2>2. PICK q \in Sess : q = [c EXCEPT !.pc = "apply", !.copy = 0, !.new = n]
    BY <1>3 DEF Sess
  <2>3. q.pc = "apply" /\ q.new = n
    BY <2>2 DEF Sess
  <2>4. Set(r, q) /\ renews' \subseteq Tokens
    BY <1>0, <1>5, <2>1, <2>2 DEF SessionTypeOK
  <2>5. SessionLives' /\ RowFollows'
    BY <1>4, <1>5, <2>4
  <2>. QED
    BY <1>0, <1>2, <1>5, <2>1, <2>3, <2>4, <2>5, TowardsSession DEF SessionTypeOK, NoBlanks
<1>6. CASE /\ Set(r, Failed) /\ UNCHANGED <<accepts, renews, issued>>
           /\ faults' = faults \/ Fault("net")
  <2>1. PICK q \in Sess : q = Failed /\ q.pc = "failed"
    BY OutOK
  <2>2. SessionLives' /\ RowFollows'
    BY <1>4, <1>6
  <2>. QED
    BY <1>0, <1>2, <1>6, <2>1, <2>2, TowardsSession DEF SessionTypeOK, NoBlanks
<1>7. \/ /\ Issue /\ renews' = renews \cup {issued + 1} /\ UNCHANGED faults
         /\ Set(r, [c EXCEPT !.pc = "apply", !.copy = 0, !.new = issued + 1])
      \/ /\ Set(r, Failed) /\ UNCHANGED <<accepts, renews, issued>>
         /\ faults' = faults \/ Fault("net")
  BY <1>1, Zenon DEF Login
<1>. QED
  BY <1>5, <1>6, <1>7

\* The session gets the new token, and the row will, unless the request fails now.
LEMMA ApplyStep ==
    ASSUME TokenInv, NEW r \in Slots, Session(r), Apply(r)
    PROVE  TokenInv'
<1>0. SessionTypeOK /\ NoBlanks /\ stored \in Tokens \ {0} /\ 0 \in Tokens
  BY SessionAssumption DEF TokenInv, SessionTypeOK, NoBlanks, Tokens
<1>1. PICK c \in Sess : c = sess[r] /\ c.pc = "apply"
  BY <1>0 DEF SessionTypeOK, Apply
<1>2. PICK n \in Tokens : n = c.new /\ n # 0
  BY <1>0, <1>1 DEF NoBlanks, Sess
<1>3. session' = [access |-> n, refresh |-> n] /\ lapsed' = (n \notin renews)
      /\ UNCHANGED <<password, stored, accepts, renews, issued, edited>>
  BY <1>1, <1>2 DEF Apply, ApplyAuthToken
<1>4. session' \in [access : Tokens, refresh : Tokens] /\ session' # NoSession /\ session'.refresh = n
  BY <1>2, <1>3 DEF NoSession
<1>5. State' = session'
  BY <1>4 DEF State, NoSession
<1>6. SessionLives'
  BY <1>3, <1>4, <1>5 DEF SessionLives
<1>7. CASE Set(r, [c EXCEPT !.pc = "save", !.new = 0, !.raw = n, !.tok = 0]) /\ UNCHANGED <<torn, faults>>
  <2>1. PICK q \in Sess : q = [c EXCEPT !.pc = "save", !.new = 0, !.raw = n, !.tok = 0]
    BY <1>0 DEF Sess
  <2>2. q.pc = "save" /\ q.raw = n /\ Set(r, q)
    BY <1>7, <2>1 DEF Sess
  <2>3. sess'[r].pc = "save"
    BY <1>0, <2>2 DEF SessionTypeOK, Set
  <2>4. RowFollows'
    BY <2>3 DEF RowFollows
  <2>. QED
    BY <1>0, <1>2, <1>3, <1>4, <1>6, <1>7, <2>2, <2>4, TowardsSession DEF SessionTypeOK
<1>8. CASE Fault("net") /\ Set(r, Failed) /\ torn' = TRUE
  <2>1. PICK q \in Sess : q = Failed /\ q.pc = "failed"
    BY OutOK
  <2>2. RowFollows'
    BY <1>8 DEF RowFollows
  <2>. QED
    BY <1>0, <1>2, <1>3, <1>4, <1>6, <1>8, <2>1, <2>2, TowardsSession DEF SessionTypeOK
<1>9. \/ Set(r, [c EXCEPT !.pc = "save", !.new = 0, !.raw = session'.refresh, !.tok = 0]) /\ UNCHANGED <<torn, faults>>
      \/ Fault("net") /\ Set(r, Failed) /\ torn' = TRUE
  BY <1>1, Zenon DEF Apply
<1>. QED
  BY <1>4, <1>7, <1>8, <1>9

\* The row is behind the session afterwards only if torn says so.
LEMMA SaveStep ==
    ASSUME TokenInv, NEW r \in Slots, Session(r), Save(r)
    PROVE  TokenInv'
<1>0. SessionTypeOK /\ NoBlanks /\ SessionLives /\ stored \in Tokens \ {0} /\ 0 \in Tokens
  BY SessionAssumption DEF TokenInv, SessionTypeOK, NoBlanks, Tokens
<1>1. PICK c \in Sess : c = sess[r] /\ c.pc = "save"
  BY <1>0 DEF SessionTypeOK, Save
<1>2. PICK n \in Tokens : n = c.raw /\ n # 0
  BY <1>0, <1>1 DEF NoBlanks, Sess
<1>3. UNCHANGED <<password, session, accepts, renews, issued, lapsed, edited>>
  BY DEF Save
<1>4. session # NoSession => State' = State
  BY <1>3 DEF State
<1>5. ASSUME NEW q, Set(r, q) PROVE (\E s \in Slots : sess[s].pc = "apply") => \E s \in Slots : sess'[s].pc = "apply"
  <2>1. \A s \in Slots \ {r} : sess'[s] = sess[s]
    BY <1>0, <1>5 DEF SessionTypeOK, Set
  <2>. QED
    BY <1>1, <2>1
<1>6. CASE /\ stored' = n /\ torn' = (n # State.refresh) /\ UNCHANGED faults
           /\ \E t \in Tokens : Set(r, [c EXCEPT !.pc = "ready", !.raw = 0, !.tok = t])
  <2>1. PICK t \in Tokens : Set(r, [c EXCEPT !.pc = "ready", !.raw = 0, !.tok = t])
    BY <1>6
  <2>2. PICK q \in Sess : q = [c EXCEPT !.pc = "ready", !.raw = 0, !.tok = t]
    BY <1>0 DEF Sess
  <2>3. q.pc = "ready" /\ Set(r, q)
    BY <2>1, <2>2 DEF Sess
  <2>4. RowFollows'
    BY <1>3, <1>4, <1>6 DEF RowFollows, State
  <2>6. session # NoSession
    BY <1>0, <1>1 DEF NoBlanks
  <2>5. SessionLives'
    BY <1>0, <1>3, <1>4, <1>5, <2>3, <2>6 DEF SessionLives
  <2>. QED
    BY <1>0, <1>2, <1>3, <1>6, <2>3, <2>4, <2>5, TowardsSession DEF SessionTypeOK, NoBlanks
<1>7. CASE Fault("db") /\ torn' = TRUE /\ Set(r, Failed) /\ UNCHANGED stored
  <2>1. PICK q \in Sess : q = Failed /\ q.pc = "failed"
    BY OutOK
  <2>2. RowFollows'
    BY <1>7 DEF RowFollows
  <2>3. State' = State
    BY <1>3, <1>7 DEF State
  <2>4. SessionLives'
    BY <1>0, <1>3, <1>5, <1>7, <2>3 DEF SessionLives
  <2>. QED
    BY <1>0, <1>2, <1>3, <1>7, <2>1, <2>2, <2>4, TowardsSession DEF SessionTypeOK, NoBlanks
<1>8. \/ /\ stored' = n /\ torn' = (n # State.refresh) /\ UNCHANGED faults
         /\ Set(r, [c EXCEPT !.pc = "ready", !.raw = 0, !.tok = IF c.tok # 0 THEN c.tok ELSE session.access])
      \/ Fault("db") /\ torn' = TRUE /\ Set(r, Failed) /\ UNCHANGED stored
  BY <1>1, <1>2, Zenon DEF Save
<1>9. (IF c.tok # 0 THEN c.tok ELSE session.access) \in Tokens
  BY <1>0 DEF SessionTypeOK, Sess
<1>. QED
  BY <1>6, <1>7, <1>8, <1>9

-----------------------------------------------------------------------------
(* The requests' other steps, and the world *)

LEMMA InvalidateStep ==
    ASSUME TokenInv, NEW r \in Slots, Invalidate(r)
    PROVE  TokenInv'
<1>1. AtRest(r) /\ Moves(r)
  <2>1. req[r].pc # "session" /\ Put(r, Idle)
    BY DEF Invalidate
  <2>. QED
    BY <2>1, IdleShape, PutMoves DEF TokenInv, AtWork
<1>2. PICK q \in Sess : q = Out /\ q.pc = "out"
  BY OutOK
<1>3. Set(r, q) /\ UNCHANGED <<session, stored, password, accepts, renews, issued, torn, lapsed, edited, faults>>
  BY <1>2 DEF Invalidate
<1>4. State' = State /\ session' \in [access : Tokens, refresh : Tokens]
  BY <1>3 DEF State, TokenInv, SessionTypeOK
<1>. QED
  BY <1>1, <1>2, <1>3, <1>4, OwnStep

LEMMA RefusedStep ==
    ASSUME TokenInv, NEW r \in Slots, TokenRefused(r) \/ CaptchaRefused(r) \/ PutObject(r)
    PROVE  TokenInv'
<1>0. req[r].pc # "session" /\ UNCHANGED <<stored, password, accepts, renews, issued, torn, lapsed, edited>>
  BY DEF TokenRefused, CaptchaRefused, PutObject, Authorized, Calling
<1>1. faults' = faults \/ \E kind : Fault(kind)
  BY Zenon DEF TokenRefused, CaptchaRefused, PutObject
<1>2. \/ Put(r, Finish(req[r])) /\ UNCHANGED <<session, sess>>
      \/ (RefreshAccess(r) \/ RefreshDriveCaptcha(r)) /\ Put(r, Await(req[r].op, req[r].named))
  BY Zenon DEF TokenRefused, CaptchaRefused, PutObject
<1>3. CASE Put(r, Finish(req[r])) /\ UNCHANGED <<session, sess>>
  <2>1. Moves(r)
    BY <1>3, FinishShape, PutMoves DEF TokenInv
  <2>. QED
    BY <1>0, <1>1, <1>3, <2>1, DriveStep
<1>4. CASE (RefreshAccess(r) \/ RefreshDriveCaptcha(r)) /\ Put(r, Await(req[r].op, req[r].named))
  <2>1. PICK op, named : op = req[r].op /\ named = req[r].named
    OBVIOUS
  <2>. QED
    BY <1>0, <1>1, <1>4, <2>1, AgainStep
<1>. QED
  BY <1>2, <1>3, <1>4

\* The steps that put a request forward and leave the session's variables
LEMMA WalkStep ==
    ASSUME TokenInv, NEW r \in Slots,
           WalkCached(r) \/ ListFiles(r) \/ WalkListed(r) \/ ListListed(r) \/ CheckName(r)
    PROVE  TokenInv'
<1>0. Shape(req[r])
  BY SMTT(60) DEF TokenInv, AtWork, Shape
<1>1. UNCHANGED sessionVars /\ req[r].pc # "session"
  BY DEF WalkCached, ListFiles, WalkListed, ListListed, CheckName
<1>2. CASE WalkCached(r)
  <2>. DEFINE goal == Goal(req[r])
              j == Reach(goal, req[r].at)
              entry == Cached(SubSeq(goal, 1, j))
              doubts == {SubSeq(goal, 1, k) : k \in req[r].at + 1 .. j}
              p == [req[r] EXCEPT !.at = j, !.cur = entry, !.late = FALSE, !.doubt = @ \/ \E path \in doubts : Doubtful(path)]
  <2>1. Put(r, IF j = Len(goal) THEN Resolved(p, entry)
                  ELSE IF entry.kind # "folder" THEN Finish(p) ELSE p)
    BY <1>2 DEF WalkCached
  <2>2. Shape(p)
    BY <1>0 DEF Shape
  <2>. HIDE DEF goal, j, entry, doubts, p
  <2>3. PICK x, e : x = p /\ e = entry
    OBVIOUS
  <2>4. Shape(Resolved(x, e)) /\ Shape(Finish(x)) /\ Shape(x)
    BY <2>2, <2>3, ResolvedShape, FinishShape
  <2>5. PICK q : Shape(q) /\ Put(r, q)
    BY <2>1, <2>3, <2>4
  <2>. QED
    BY <1>1, <2>5, PutMoves, DriveStep, SMTT(60) DEF TokenInv, sessionVars
<1>3. CASE ListFiles(r)
  <2>1. PICK f, st, q : Put(r, q) /\ (q = Finish(req[r]) \/ q = [req[r] EXCEPT !.pc = "listed", !.late = FALSE, !.strayed = st, !.files = f])
    BY <1>3 DEF ListFiles
  <2>2. Shape(q)
    BY <1>0, <2>1, FinishShape DEF Shape
  <2>. QED
    BY <1>1, <2>1, <2>2, PutMoves, DriveStep, SMTT(60) DEF TokenInv, sessionVars
<1>4. CASE WalkListed(r)
  <2>. DEFINE goal == Goal(req[r])
              found == Pick(req[r].files, goal[req[r].at + 1])
              p == [req[r] EXCEPT !.files = {}, !.at = @ + 1, !.cur = found]
  <2>1. PICK q : Put(r, q) /\ q \in {[req[r] EXCEPT !.pc = "folder", !.files = {}], Finish(req[r]),
                                   Resolved(p, found), [p EXCEPT !.pc = "walk"], Finish(p)}
    BY <1>4, ZenonT(60) DEF WalkListed
  <2>2. Shape(p) /\ Shape([req[r] EXCEPT !.pc = "folder", !.files = {}])
    BY <1>0 DEF Shape
  <2>. HIDE DEF goal, found, p
  <2>3. PICK x, e : x = p /\ e = found
    OBVIOUS
  <2>4. Shape(Resolved(x, e)) /\ Shape(Finish(x)) /\ Shape([x EXCEPT !.pc = "walk"]) /\ Shape(Finish(req[r]))
    BY <2>2, <2>3, ResolvedShape, FinishShape DEF Shape
  <2>5. Shape(q)
    BY <2>1, <2>2, <2>3, <2>4
  <2>. QED
    BY <1>1, <2>1, <2>5, PutMoves, DriveStep DEF TokenInv, sessionVars
<1>5. CASE ListListed(r)
  <2>1. PICK q, k : Put(r, q) /\ q = Enter(req[r], k)
    BY <1>5 DEF ListListed
  <2>2. Shape(q)
    BY <1>0, <2>1, EnterShape
  <2>. QED
    BY <1>1, <2>1, <2>2, PutMoves, DriveStep DEF TokenInv, sessionVars
<1>6. CASE CheckName(r)
  <2>1. PICK q, p, k : Put(r, q) /\ p = [req[r] EXCEPT !.late = FALSE] /\ (q = Finish(req[r]) \/ q = Enter(p, k))
    BY <1>6 DEF CheckName
  <2>2. Shape(p)
    BY <1>0, <2>1 DEF Shape
  <2>3. Shape(q)
    BY <2>1, <2>2, EnterShape, FinishShape
  <2>. QED
    BY <1>1, <2>1, <2>3, PutMoves, DriveStep DEF TokenInv, sessionVars
<1>. QED
  BY <1>2, <1>3, <1>4, <1>5, <1>6

LEMMA ChangeStep ==
    ASSUME TokenInv, NEW r \in Slots, CreateFolder(r) \/ Call(r)
    PROVE  TokenInv'
<1>0. Shape(req[r])
  BY DEF TokenInv, AtWork, Shape
<1>1. CASE CreateFolder(r)
  <2>. DEFINE goal == Goal(req[r])
              made == [id |-> CHOOSE i \in Fresh(tree) : TRUE, kind |-> "folder", name |-> goal[req[r].at + 1]]
              p == [req[r] EXCEPT !.at = @ + 1, !.cur = made, !.pc = "walk"]
  <2>1. PICK q, t : PutAndTell(r, q, t) /\ q \in {Resolved(p, made), p}
    BY <1>1 DEF CreateFolder
  <2>2. Shape(p)
    BY <1>0, SMTT(60) DEF Shape
  <2>3. UNCHANGED sessionVars /\ req[r].pc # "session"
    BY <1>1 DEF CreateFolder
  <2>. HIDE DEF goal, made, p
  <2>4. PICK x, e : x = p /\ e = made
    OBVIOUS
  <2>5. Shape(q)
    BY <2>1, <2>2, <2>4, ResolvedShape
  <2>. QED
    BY <2>1, <2>3, <2>5, PutAndTellMoves, DriveStep, SMTT(60) DEF TokenInv, sessionVars
<1>2. CASE Call(r)
  <2>1. \E t : PutAndTell(r, Enter(req[r], req[r].stage + 1), t) \/ PutAndTell(r, Finish(req[r]), t)
    BY <1>2, Zenon DEF Call
  <2>2. Shape(Enter(req[r], req[r].stage + 1)) /\ Shape(Finish(req[r]))
    BY <1>0, EnterShape, FinishShape
  <2>3. PICK q, t : PutAndTell(r, q, t) /\ Shape(q)
    BY <2>1, <2>2
  <2>4. req[r].pc # "session" /\ (faults' = faults \/ \E kind : Fault(kind))
        /\ UNCHANGED <<session, stored, accepts, renews, password, issued, sess, torn, lapsed, edited>>
    BY <1>2, Zenon DEF Call
  <2>. QED
    BY <2>3, <2>4, PutAndTellMoves, DriveStep DEF TokenInv
<1>. QED
  BY <1>1, <1>2

\* Expired entries, changes in another application, expired access tokens: the
\* refresh tokens and the requests' way to a session stay.
LEMMA OutsideStep ==
    ASSUME TokenInv, (\E path \in Paths : ExpireEntry(path)) \/ Outside \/ (Expire /\ UNCHANGED driveVars)
    PROVE  TokenInv'
<1>1. UNCHANGED <<session, stored, renews, password, issued, sess, torn, lapsed, edited>>
      /\ \E kind : Fault(kind)
  BY ZenonT(60) DEF ExpireEntry, Outside, Expire
<1>2. accepts' \subseteq Tokens
  BY DEF ExpireEntry, Outside, Expire, TokenInv, SessionTypeOK
<1>3. faults' \in 0 .. MaxFaults
  BY <1>1, SessionAssumption DEF TokenInv, SessionTypeOK, Fault
<1>4. SessionTypeOK' /\ NoBlanks' /\ SessionLives' /\ RowFollows'
  BY <1>1, <1>2, <1>3 DEF TokenInv, SessionTypeOK, NoBlanks, SessionLives, RowFollows, State
<1>5. DOMAIN req' = Slots /\ \A s \in Slots : Shape(req'[s]) /\ req'[s].pc = req[s].pc
  <2>1. CASE UNCHANGED req
    BY <2>1 DEF TokenInv, AtWork, Shape
  <2>2. CASE Outside
    <3>1. DOMAIN req' = Slots
      BY <2>2 DEF Outside
    <3>2. ASSUME NEW s \in Slots PROVE Shape(req'[s]) /\ req'[s].pc = req[s].pc
      <4>1. \/ req'[s] = req[s]
            \/ \E c : req'[s] = [req[s] EXCEPT !.old = TRUE, !.late = TRUE, !.named = c]
        BY <2>2 DEF Outside
      <4>2. Shape(req[s])
        BY DEF TokenInv, AtWork, Shape
      <4>. QED
        BY <4>1, <4>2, IdleShape DEF Shape
    <3>. QED
      BY <3>1, <3>2
  <2>. QED
    BY <2>1, <2>2 DEF ExpireEntry, Expire, driveVars
<1>6. AtWork'
  BY <1>1, <1>5 DEF TokenInv, AtWork, AtRest, Shape
<1>. QED
  BY <1>4, <1>6, SMTT(60) DEF TokenInv

\* The provider or an administrator takes the token away: lapsed and edited say so.
LEMMA TakenStep ==
    ASSUME TokenInv, Revoke \/ EditSource, UNCHANGED driveVars
    PROVE  TokenInv'
<1>0. UNCHANGED <<session, password, sess, torn, req>> /\ \E kind : Fault(kind)
  BY DEF Revoke, EditSource, driveVars
<1>1. faults' \in 0 .. MaxFaults
  BY <1>0, SessionAssumption DEF TokenInv, SessionTypeOK, Fault
<1>2. AtWork'
  BY <1>0 DEF TokenInv, AtWork, AtRest
<1>3. CASE Revoke
  <2>1. lapsed' = TRUE /\ accepts' = {} /\ renews' = {} /\ UNCHANGED <<stored, issued, edited>>
    BY <1>3 DEF Revoke
  <2>2. SessionTypeOK' /\ NoBlanks' /\ SessionLives'
    BY <1>0, <1>1, <2>1 DEF TokenInv, SessionTypeOK, NoBlanks, SessionLives
  <2>3. RowFollows'
    BY <1>0, <2>1 DEF TokenInv, RowFollows, State
  <2>. QED
    BY <1>2, <2>2, <2>3 DEF TokenInv
<1>4. CASE EditSource
  <2>1. PICK n \in Tokens : n # 0 /\ issued' = n /\ n = issued + 1 /\ accepts' \subseteq Tokens
    BY <1>4, IssueTypes DEF EditSource
  <2>2. stored' = n /\ edited' = TRUE /\ lapsed' = lapsed
        /\ (renews' = (renews \ {stored}) \cup {n} \/ renews' = renews \cup {n})
    BY <1>4, <2>1 DEF EditSource
  <2>3. renews' \subseteq Tokens
    BY <2>2 DEF TokenInv, SessionTypeOK
  <2>4. SessionTypeOK' /\ NoBlanks' /\ SessionLives' /\ RowFollows'
    BY <1>0, <1>1, <2>1, <2>2, <2>3 DEF TokenInv, SessionTypeOK, NoBlanks, SessionLives, RowFollows
  <2>. QED
    BY <1>2, <2>4 DEF TokenInv
<1>. QED
  BY <1>3, <1>4

\* The session is made from the row again: lapsed says so when the row was behind.
LEMMA CrashStep ==
    ASSUME TokenInv, Crash
    PROVE  TokenInv'
<1>0. SessionTypeOK /\ NoBlanks /\ SessionLives
  BY DEF TokenInv
<1>1. /\ UNCHANGED <<password, stored, accepts, renews, issued, edited>>
      /\ session' = NoSession /\ sess' = [r \in Slots |-> Out] /\ torn' = FALSE
      /\ lapsed' = (lapsed \/ State.refresh # stored \/ \E r \in Slots : sess[r].pc = "apply")
      /\ req' = [r \in Slots |-> Idle] /\ Fault("crash")
  BY DEF Crash, SessionCrash
<1>2. NoSession \in [access : Tokens, refresh : Tokens]
  BY SessionAssumption DEF NoSession, Tokens
<1>3. faults' \in 0 .. MaxFaults
  BY <1>0, <1>1, SessionAssumption DEF SessionTypeOK, Fault
<1>4. State' = [access |-> 0, refresh |-> stored]
  BY <1>1 DEF State, NoSession
<1>5. State'.refresh = stored
  BY <1>4
<1>6. SessionTypeOK'
  BY <1>0, <1>1, <1>2, <1>3, OutOK DEF SessionTypeOK
<1>7. NoBlanks' /\ AtWork'
  BY <1>0, <1>1, OutOK, IdleShape DEF NoBlanks, NoSession, AtWork, AtRest, Shape
<1>8. RowFollows' /\ SessionLives'
  BY <1>0, <1>1, <1>5 DEF RowFollows, SessionLives
<1>. QED
  BY <1>6, <1>7, <1>8 DEF TokenInv

-----------------------------------------------------------------------------

LEMMA TokenInit == Init => TokenInv
<1>. SUFFICES ASSUME Init PROVE TokenInv
  OBVIOUS
<1>1. NoSession \in [access : Tokens, refresh : Tokens] /\ 1 \in Tokens /\ 1 # 0
  BY SessionAssumption DEF NoSession, Tokens
<1>2. /\ session = NoSession /\ password \in BOOLEAN /\ stored = 1 /\ accepts = {1} /\ renews = {1}
      /\ issued = 1 /\ sess = [r \in Slots |-> Out] /\ torn = FALSE /\ lapsed = FALSE
      /\ edited = FALSE /\ faults = MaxFaults /\ req = [r \in Slots |-> Idle]
  BY SessionAssumption DEF Init, SessionInit
<1>3. SessionTypeOK
  <2>1. sess \in [Slots -> Sess] /\ session \in [access : Tokens, refresh : Tokens]
        /\ accepts \in SUBSET Tokens /\ renews \in SUBSET Tokens
    BY <1>1, <1>2, OutOK
  <2>2. faults \in 0 .. MaxFaults
    BY <1>2, SessionAssumption
  <2>3. torn \in BOOLEAN /\ lapsed \in BOOLEAN /\ edited \in BOOLEAN /\ password \in BOOLEAN
    BY <1>2, Zenon
  <2>4. stored \in Tokens /\ issued \in Tokens
    BY <1>1, <1>2
  <2>. QED
    BY <2>1, <2>2, <2>3, <2>4 DEF SessionTypeOK
<1>4. State = [access |-> 0, refresh |-> stored]
  BY <1>2 DEF State, NoSession
<1>5. NoBlanks /\ AtWork
  BY <1>1, <1>2, OutOK, IdleShape DEF NoBlanks, AtWork, AtRest, Shape
<1>6. RowFollows /\ SessionLives
  BY <1>2, <1>4 DEF RowFollows, SessionLives
<1>. QED
  BY <1>3, <1>5, <1>6 DEF TokenInv

LEMMA TokenStep == TokenInv /\ [Next]_vars => TokenInv'
<1>. SUFFICES ASSUME TokenInv, [Next]_vars PROVE TokenInv'
  OBVIOUS
<1>1. ASSUME NEW r \in Slots, NEW op \in Ops, Begin(r, op) PROVE TokenInv'
  BY <1>1, BeginStep
<1>2. ASSUME NEW r \in Slots, Session(r) PROVE TokenInv'
  BY <1>2, RefreshTokenStep, LoginStep, ApplyStep, SaveStep DEF Session, SessionStep
<1>3. CASE UNCHANGED vars
  <2>1. UNCHANGED <<session, stored, password, accepts, renews, issued, sess, torn, lapsed, edited, faults, req>>
    BY <1>3 DEF vars, sessionVars, driveVars
  <2>2. SessionTypeOK' /\ NoBlanks' /\ SessionLives' /\ RowFollows' /\ AtWork'
    BY <2>1 DEF TokenInv, SessionTypeOK, NoBlanks, SessionLives, RowFollows, AtWork, State, AtRest
  <2>. QED
    BY <2>2 DEF TokenInv
<1>. QED
  BY <1>1, <1>2, <1>3, InvalidateStep, RefusedStep, WalkStep, ChangeStep, OutsideStep, TakenStep, CrashStep
     DEF Next

\* When no request is at work on the session, the source row holds a refresh token
\* that the provider still accepts: writeBackRuntimeConfig has put the newest one
\* there, however many requests exchanged tokens, logged in, wrote the row or were
\* refused and ran again at once.  Only a failed or late write, an answer lost, a
\* revocation, an edit or a crash between exchange and write is an exception, each
\* remembered in torn, lapsed or edited.
THEOREM RowTokenLives == Spec => []StoredTokenLives
<1>1. TokenInv => StoredTokenLives
  <2>. SUFFICES ASSUME TokenInv, \A r \in Slots : AtRest(r), ~ torn, ~ lapsed, ~ edited
                PROVE  stored \in renews
    BY DEF StoredTokenLives
  <2>1. \A r \in Slots : sess[r].pc \notin {"apply", "save"}
    BY DEF AtRest
  <2>. QED
    BY <2>1 DEF TokenInv, SessionLives, RowFollows
<1>. QED
  BY <1>1, TokenInit, TokenStep, PTL DEF Spec

-----------------------------------------------------------------------------
(* The invariant of the cache, the files acted on and the duplicates *)

AnyName == Names \cup {"a", "b", "none", "/"}
AnyId == Ids \cup {RootId}
File == [parent : AnyId, name : AnyName, kind : {"none", "file", "folder", "gone"}]
Listed == [id : Ids, kind : {"file", "folder"}, name : AnyName]
Entry == [id : AnyId, kind : {"none", "file", "folder"}, name : AnyName]

\* Requests as records.  Between two requests there is no operation.
NoOp == Idle.op
Request ==
    [pc : {"idle", "session", "walk", "listed", "folder", "call", "drop"},
     op : Ops \cup {NoOp}, stage : Nat, at : Nat, cur : Entry, files : SUBSET Listed,
     file : Entry, dir : Entry, old : BOOLEAN, late : BOOLEAN, named : SUBSET AnyId,
     doubt : BOOLEAN, strayed : BOOLEAN]

Working(q) == q.pc \in {"walk", "listed", "folder", "call"}

\* The program counter and the stage belong together.
Placed(q) ==
    /\ q.pc \notin {"idle", "drop"} => q.op \in Ops
    /\ Working(q) => q.stage \in 1 .. Len(Program(q.op))
    /\ q.pc \in {"walk", "folder"} => Stage(q) \in Resolving
    /\ q.pc = "folder" => Stage(q) = "ensure"
    /\ q.pc = "listed" => Stage(q) \in Resolving \cup {"list"}
    /\ q.pc = "call" => Stage(q) \notin Resolving
    /\ Working(q) /\ Stage(q) \in Resolving =>
         /\ q.at < Len(Goal(q)) \/ (q.pc = "walk" /\ q.at = 0 /\ Goal(q) = <<>>)
         /\ q.at = 0 => q.cur.id = RootId

\* Has the request resolved op.path, for an operation that needs the file; op.dir, for
\* a rename?  Has it looked for the name that it is about to give?
HasFile(q) == Working(q) /\ q.op.kind \in {"list", "rename", "move", "copy", "delete"} /\ q.stage > 1
HasDir(q) == Working(q) /\ q.op.kind = "rename" /\ q.stage > 2
Checked(q) ==
    /\ q.pc = "call"
    /\ \/ q.op.kind \in {"mkdir", "import", "direct", "download"} /\ q.stage = 3
       \/ q.op.kind \in {"rename", "move", "copy"} /\ q.stage = 4

Walks(q) == Working(q) /\ Stage(q) \in Resolving
Prefix(q) == SubSeq(Goal(q), 1, q.at)

\* The folder whose children a request has listed
ListedId(q) == IF Stage(q) = "list" THEN q.file.id ELSE q.cur.id


\* What the request has found on its way to a file or folder holds as long as nothing
\* has changed; on the way to the file, also if it only changed between two steps.
OnTheWay(q) == ~q.doubt /\ (~q.old \/ (Stage(q) = "file" /\ ~q.strayed /\ ~q.late))

Finds(t, q) ==
    /\ HasFile(q) /\ ~q.old /\ ~q.doubt => q.file.id \in IdsAt(t, q.op.path)
    /\ HasDir(q) /\ ~q.old /\ ~q.doubt => q.dir.id \in IdsAt(t, q.op.dir)
    /\ Walks(q) /\ OnTheWay(q) => q.cur.id \in IdsAt(t, Prefix(q))

\* Names are those of the path.
Named(q) == HasFile(q) /\ q.op.path # <<>> => q.file.name = Last(q.op.path)

\* What a listing shows, until the tree changes
Lists(t, q) ==
    /\ q.pc = "listed" /\ ~q.late => q.files = {EntryOf(t, i) : i \in Children(t, ListedId(q))}
    /\ q.pc = "folder" /\ ~q.late =>
         \A i \in Children(t, q.cur.id) : t[i].name # Goal(q)[q.at + 1]
    /\ Checked(q) /\ ~q.late => \A i \in Children(t, q.dir.id) : t[i].name # NewName(q)
    /\ q.pc \in {"listed", "folder"} \/ Checked(q) => (q.late => q.old)

\* The ids that op.path has had
Remembers(t, q) ==
    /\ q.pc = "session" \/ Working(q) => IdsAt(t, q.op.path) \subseteq q.named
    /\ HasFile(q) /\ ~q.doubt /\ ~q.strayed => q.file.id \in q.named
    /\ q.pc = "listed" /\ Stage(q) = "file" /\ ~q.doubt /\ ~q.strayed /\ q.at + 1 = Len(Goal(q)) =>
         \A f \in q.files : f.name = Goal(q)[q.at + 1] => f.id \in q.named

RequestOK(t, q) ==
    q \in Request /\ Placed(q) /\ Finds(t, q) /\ Named(q) /\ Lists(t, q) /\ Remembers(t, q)

CacheOK ==
    \A p \in Paths :
        cache[p].entry # NoEntry =>
            /\ cache[p].entry.id \in Ids /\ cache[p].entry.name = Last(p)
            /\ ~cache[p].taint /\ ~Dropping => cache[p].entry.id \in IdsAt(tree, p)

Unique(t) ==
    \A i, j \in Live(t) : t[i].parent = t[j].parent /\ t[i].name = t[j].name => i = j

DriveInv ==
    /\ tree \in [Ids -> File] /\ cache \in [Paths -> [entry : Entry, taint : BOOLEAN]]
    /\ asked \in 0 .. MaxRequests
    /\ doubled \in BOOLEAN
    /\ CacheOK
    /\ \A s \in Slots : RequestOK(tree, req[s])
    /\ ActsOnNamedFile
    /\ doubled \/ Unique(tree)

-----------------------------------------------------------------------------
(* Paths, and the ids that are under them *)

LEMMA PathFacts ==
    /\ \A p \in Paths : /\ p \in Seq(Names) /\ Len(p) \in 1 .. MaxDepth /\ p # <<>>
                        /\ p \in [1 .. Len(p) -> Names]
    /\ \A p \in AnyPath : p \in Seq(Names) /\ Len(p) \in 0 .. MaxDepth
    /\ \A p \in AnyPath : (p = <<>> <=> Len(p) = 0) /\ (p # <<>> => p \in Paths)
<1>1. ASSUME NEW p \in Paths
      PROVE  p \in Seq(Names) /\ Len(p) \in 1 .. MaxDepth /\ p \in [1 .. Len(p) -> Names]
  <2>1. PICK k \in 1 .. MaxDepth : p \in [1 .. k -> Names]
    BY DEF Paths
  <2>2. k \in Nat /\ p \in Seq(Names) /\ Len(p) = k
    BY <2>1, DriveAssumption, IsASeq
  <2>. QED
    BY <2>1, <2>2
<1>2. <<>> \in Seq(Names) /\ Len(<<>>) = 0 /\ 0 \in 0 .. MaxDepth
  BY DriveAssumption
<1>3. \A p \in Seq(Names) : p = <<>> <=> Len(p) = 0
  BY EmptySeq
<1>4. \A p \in Paths : p # <<>>
  BY <1>1, <1>2
<1>5. \A p \in AnyPath : p \in Seq(Names) /\ Len(p) \in 0 .. MaxDepth
  <2>. TAKE p \in AnyPath
  <2>1. CASE p \in Paths
    BY <1>1, <2>1, DriveAssumption
  <2>2. CASE p = <<>>
    BY <1>2, <2>2
  <2>. QED
    BY <2>1, <2>2 DEF AnyPath
<1>6. \A p \in AnyPath : (p = <<>> <=> Len(p) = 0) /\ (p # <<>> => p \in Paths)
  BY <1>3, <1>5 DEF AnyPath
<1>. QED
  BY <1>1, <1>4, <1>5, <1>6

LEMMA SequencesArePaths ==
    ASSUME NEW p \in Seq(Names), Len(p) \in 1 .. MaxDepth
    PROVE  p \in Paths
<1>1. p \in [1 .. Len(p) -> Names]
  BY LenProperties
<1>. QED
  BY <1>1 DEF Paths

\* The first names of a path are a path, and so is the path with its last name put back.
LEMMA PrefixFacts ==
    ASSUME NEW p \in AnyPath, NEW n \in 0 .. Len(p)
    PROVE  /\ SubSeq(p, 1, n) \in AnyPath /\ Len(SubSeq(p, 1, n)) = n
           /\ \A k \in 1 .. n : SubSeq(p, 1, n)[k] = p[k]
           /\ n = 0 <=> SubSeq(p, 1, n) = <<>>
           /\ n # 0 => SubSeq(p, 1, n) \in Paths
           /\ n = Len(p) => SubSeq(p, 1, n) = p
<1>1. p \in Seq(Names) /\ Len(p) \in 0 .. MaxDepth /\ n \in Nat /\ n <= Len(p)
  BY PathFacts
<1>2. \A k \in 1 .. n : p[k] \in Names
  BY <1>1, ElementOfSeq
<1>3. /\ SubSeq(p, 1, n) \in Seq(Names) /\ Len(SubSeq(p, 1, n)) = n
      /\ \A k \in 1 .. n : SubSeq(p, 1, n)[k] = p[k]
  <2>1. /\ SubSeq(p, 1, n) \in Seq(Names)
        /\ Len(SubSeq(p, 1, n)) = (IF 1 <= n THEN n - 1 + 1 ELSE 0)
        /\ \A i \in 1 .. n - 1 + 1 : SubSeq(p, 1, n)[i] = p[1 + i - 1]
    BY <1>1, <1>2, SubSeqProperties
  <2>. QED
    BY <1>1, <2>1
<1>4. n # 0 => SubSeq(p, 1, n) \in Paths
  <2>. HAVE n # 0
  <2>1. Len(SubSeq(p, 1, n)) \in 1 .. MaxDepth
    BY <1>1, <1>3, DriveAssumption
  <2>. QED
    BY <1>3, <2>1, SequencesArePaths
<1>5. n = 0 <=> SubSeq(p, 1, n) = <<>>
  BY <1>3, EmptySeq
<1>6. n = Len(p) => SubSeq(p, 1, n) = p
  BY <1>1, SubSeqFull
<1>. QED
  BY <1>3, <1>4, <1>5, <1>6 DEF AnyPath

LEMMA PrefixOfPrefix ==
    ASSUME NEW p \in AnyPath, NEW n \in 0 .. Len(p), NEW m \in 0 .. n
    PROVE  SubSeq(SubSeq(p, 1, n), 1, m) = SubSeq(p, 1, m)
<1>1. PICK s, a, b : s = SubSeq(p, 1, n) /\ a = SubSeq(s, 1, m) /\ b = SubSeq(p, 1, m)
  OBVIOUS
<1>0. Len(p) \in Nat
  BY PathFacts
<1>2. s \in AnyPath /\ Len(s) = n /\ \A k \in 1 .. n : s[k] = p[k]
  BY <1>1, PrefixFacts
<1>3. m \in 0 .. Len(s) /\ m \in 0 .. Len(p)
  BY <1>0, <1>2
<1>4. a \in AnyPath /\ Len(a) = m /\ \A k \in 1 .. m : a[k] = s[k]
  BY <1>1, <1>2, <1>3, PrefixFacts
<1>5. b \in AnyPath /\ Len(b) = m /\ \A k \in 1 .. m : b[k] = p[k]
  BY <1>1, <1>3, PrefixFacts
<1>6. \A k \in 1 .. m : a[k] = b[k]
  BY <1>2, <1>4, <1>5
<1>. QED
  BY <1>1, <1>4, <1>5, <1>6, PathFacts, SeqEqual

LEMMA PrefixAndName ==
    ASSUME NEW p \in AnyPath, NEW n \in 0 .. Len(p), n < Len(p)
    PROVE  Append(SubSeq(p, 1, n), p[n + 1]) = SubSeq(p, 1, n + 1)
<1>1. PICK s, b : s = SubSeq(p, 1, n) /\ b = SubSeq(p, 1, n + 1)
  OBVIOUS
<1>2. p \in Seq(Names) /\ Len(p) \in Nat /\ n + 1 \in 0 .. Len(p) /\ n \in Nat /\ p[n + 1] \in Names
  BY PathFacts, ElementOfSeq
<1>3. s \in Seq(Names) /\ Len(s) = n /\ \A k \in 1 .. n : s[k] = p[k]
  BY <1>1, PrefixFacts, PathFacts
<1>4. b \in Seq(Names) /\ Len(b) = n + 1 /\ \A k \in 1 .. n + 1 : b[k] = p[k]
  BY <1>1, <1>2, PrefixFacts, PathFacts, ZenonT(150)
<1>5. PICK a : a = Append(s, p[n + 1])
  OBVIOUS
<1>6. /\ a \in Seq(Names) /\ Len(a) = n + 1
      /\ \A k \in 1 .. n : a[k] = s[k]
      /\ a[n + 1] = p[n + 1]
  BY <1>2, <1>3, <1>5, AppendProperties
<1>7. \A k \in 1 .. n + 1 : a[k] = b[k]
  BY <1>2, <1>3, <1>4, <1>6, SMTT(60)
<1>8. a = b
  BY <1>4, <1>6, <1>7, SeqEqual
<1>. QED
  BY <1>1, <1>5, <1>8

LEMMA RootIsNoId == 0 \notin Ids /\ \A t : Live(t) \subseteq Ids
BY DriveAssumption DEF Live, Ids

LEMMA IdsAtRoot == \A t : IdsAt(t, <<>>) = {0}
BY DEF IdsAt, RootId

\* An id is under a path when its parent is under the path without the last name.
LEMMA IdsAtStep ==
    ASSUME NEW t, NEW p \in Paths, NEW i
    PROVE  i \in IdsAt(t, p)
           <=> /\ i \in Live(t) /\ t[i].name = p[Len(p)]
               /\ t[i].parent \in IdsAt(t, SubSeq(p, 1, Len(p) - 1))
<1>1. PICK n, m, f : n = Len(p) /\ m = n - 1 /\ f = SubSeq(p, 1, m)
  OBVIOUS
<1>2. n \in Nat /\ n >= 1 /\ p # <<>> /\ p \in AnyPath /\ m \in Nat /\ m \in 0 .. n /\ m < n /\ m + 1 = n
  BY <1>1, PathFacts DEF AnyPath
<1>3. f \in AnyPath /\ Len(f) = m /\ (m = 0 <=> f = <<>>) /\ \A k \in 1 .. m : f[k] = p[k]
  BY <1>1, <1>2, PrefixFacts
<1>4. i \in IdsAt(t, p) <=> i \in Live(t) /\ \E way \in [1 .. n -> Live(t)] : Way(t, way, p) /\ way[n] = i
  BY <1>1, <1>2 DEF IdsAt
<1>5. ASSUME NEW x
      PROVE  m # 0 => (x \in IdsAt(t, f) <=> x \in Live(t) /\ \E way \in [1 .. m -> Live(t)] :
                                              Way(t, way, f) /\ way[m] = x)
  BY <1>3 DEF IdsAt
<1>6. m = 0 => IdsAt(t, f) = {0}
  BY <1>3, IdsAtRoot
<1>7. ASSUME NEW way \in [1 .. n -> Live(t)], Way(t, way, p), way[n] = i
      PROVE  i \in Live(t) /\ t[i].name = p[n] /\ t[i].parent \in IdsAt(t, f)
  <2>1. i \in Live(t) /\ t[i].name = p[n] /\ t[i].parent = (IF n = 1 THEN 0 ELSE way[n - 1])
    BY <1>1, <1>2, <1>7 DEF Way, RootId
  <2>2. CASE m = 0
    BY <1>2, <1>6, <2>1, <2>2
  <2>3. CASE m # 0
    <3>1. PICK w : w = [k \in 1 .. m |-> way[k]]
      OBVIOUS
    <3>2. w \in [1 .. m -> Live(t)] /\ \A k \in 1 .. m : w[k] = way[k]
      BY <1>2, <3>1
    <3>3. Way(t, w, f)
      <4>. SUFFICES ASSUME NEW k \in 1 .. m
                    PROVE  /\ t[w[k]].parent = (IF k = 1 THEN 0 ELSE w[k - 1])
                           /\ t[w[k]].name = f[k]
        BY <1>3 DEF Way, RootId
      <4>1. k \in 1 .. Len(p) /\ w[k] = way[k] /\ f[k] = p[k] /\ (k # 1 => w[k - 1] = way[k - 1])
        BY <1>1, <1>2, <1>3, <3>2
      <4>2. /\ t[way[k]].parent = (IF k = 1 THEN 0 ELSE way[k - 1])
            /\ t[way[k]].name = p[k]
        BY <1>7, <4>1 DEF Way, RootId
      <4>. QED
        BY <4>1, <4>2
    <3>4. w[m] = way[m] /\ way[m] \in Live(t) /\ t[i].parent = way[m]
      BY <1>2, <2>1, <2>3, <3>2
    <3>. QED
      BY <1>5, <2>1, <2>3, <3>2, <3>3, <3>4
  <2>. QED
    BY <2>2, <2>3
<1>8. ASSUME i \in Live(t), t[i].name = p[n], t[i].parent \in IdsAt(t, f)
      PROVE  \E way \in [1 .. n -> Live(t)] : Way(t, way, p) /\ way[n] = i
  <2>1. CASE m = 0
    <3>1. PICK way : way = [k \in 1 .. n |-> i]
      OBVIOUS
    <3>2. n = 1 /\ way \in [1 .. n -> Live(t)] /\ \A k \in 1 .. n : way[k] = i
      BY <1>2, <1>8, <2>1, <3>1
    <3>3. t[i].parent = 0
      BY <1>6, <1>8, <2>1
    <3>4. Way(t, way, p)
      BY <1>1, <1>8, <3>2, <3>3 DEF Way, RootId
    <3>. QED
      BY <3>2, <3>4
  <2>2. CASE m # 0
    <3>1. PICK w \in [1 .. m -> Live(t)] : Way(t, w, f) /\ w[m] = t[i].parent
      BY <1>5, <1>8, <2>2
    <3>2. PICK way : way = [k \in 1 .. n |-> IF k = n THEN i ELSE w[k]]
      OBVIOUS
    <3>3. way \in [1 .. n -> Live(t)] /\ way[n] = i /\ \A k \in 1 .. m : way[k] = w[k]
      BY <1>2, <1>8, <3>1, <3>2
    <3>4. Way(t, way, p)
      <4>. SUFFICES ASSUME NEW k \in 1 .. n
                    PROVE  /\ t[way[k]].parent = (IF k = 1 THEN 0 ELSE way[k - 1])
                           /\ t[way[k]].name = p[k]
        BY <1>1 DEF Way, RootId
      <4>1. CASE k = n
        BY <1>2, <1>8, <2>2, <3>1, <3>3, <4>1
      <4>2. CASE k # n
        <5>1. k \in 1 .. m /\ k \in 1 .. Len(f) /\ (k # 1 => k - 1 \in 1 .. m)
          BY <1>2, <1>3, <4>2
        <5>2. /\ t[w[k]].parent = (IF k = 1 THEN 0 ELSE w[k - 1])
              /\ t[w[k]].name = f[k]
          BY <3>1, <5>1 DEF Way, RootId
        <5>. QED
          BY <1>3, <3>3, <5>1, <5>2
      <4>. QED
        BY <4>1, <4>2
    <3>. QED
      BY <3>3, <3>4
  <2>. QED
    BY <2>1, <2>2
<1>. QED
  BY <1>1, <1>4, <1>7, <1>8

LEMMA IdsAtIds == \A t : \A p \in AnyPath : IdsAt(t, p) \subseteq AnyId
BY RootIsNoId DEF IdsAt, AnyId, RootId

LEMMA IdsAtLive == \A t : \A p \in Paths : IdsAt(t, p) \subseteq Live(t)
BY IdsAtStep

\* When nothing but new files comes, every id stays where it was.
Grows(t, u) == \A i \in Live(t) : i \in Live(u) /\ u[i] = t[i]

LEMMA IdsAtGrows ==
    ASSUME NEW t, NEW u, Grows(t, u), NEW p
    PROVE  IdsAt(t, p) \subseteq IdsAt(u, p)
<1>1. CASE p = <<>>
  BY <1>1, IdsAtRoot
<1>2. CASE p # <<>>
  <2>. SUFFICES ASSUME NEW i \in IdsAt(t, p) PROVE i \in IdsAt(u, p)
    OBVIOUS
  <2>1. i \in Live(t)
    BY <1>2 DEF IdsAt
  <2>2. PICK way \in [1 .. Len(p) -> Live(t)] : Way(t, way, p) /\ way[Len(p)] = i
    BY <1>2 DEF IdsAt
  <2>3. way \in [1 .. Len(p) -> Live(u)]
    BY DEF Grows
  <2>4. Way(u, way, p)
    BY <2>2 DEF Grows, Way
  <2>. QED
    BY <1>2, <2>1, <2>2, <2>3, <2>4 DEF Grows, IdsAt
<1>. QED
  BY <1>1, <1>2

\* Without equal names in a folder a path has one id at most.
LEMMA IdsAtUnique ==
    ASSUME NEW t, Unique(t), NEW p \in AnyPath, NEW i \in IdsAt(t, p), NEW j \in IdsAt(t, p)
    PROVE  i = j
<1> DEFINE Bad == {n \in 0 .. Len(p) : \E x, y \in IdsAt(t, SubSeq(p, 1, n)) : x # y}
<1>0. Len(p) \in Nat
  BY PathFacts
<1>. SUFFICES ASSUME i # j PROVE FALSE
  OBVIOUS
<1>1. Len(p) \in Bad
  <2>1. SubSeq(p, 1, Len(p)) = p /\ Len(p) \in 0 .. Len(p)
    BY <1>0, PrefixFacts
  <2>2. i \in IdsAt(t, SubSeq(p, 1, Len(p))) /\ j \in IdsAt(t, SubSeq(p, 1, Len(p)))
    BY <2>1
  <2>. QED
    BY <2>1, <2>2
<1>2. PICK n \in Bad : \A m \in Bad : ~ (m < n)
  <2>1. PICK n \in Bad : \A m \in Bad : <<m, n>> \notin OpToRel(<, Nat)
    <3>1. Bad \subseteq Nat /\ Bad # {}
      BY <1>0, <1>1
    <3>. HIDE DEF Bad
    <3>. QED
      BY <3>1, NatLessThanWellFounded, WFMin
  <2>2. Bad \subseteq Nat
    BY <1>0
  <2>. QED
    BY <2>1, <2>2 DEF OpToRel
<1>3. PICK x \in IdsAt(t, SubSeq(p, 1, n)), y \in IdsAt(t, SubSeq(p, 1, n)) : x # y
  OBVIOUS
<1>4. PICK q : q = SubSeq(p, 1, n)
  OBVIOUS
<1>5. n \in 0 .. Len(p) /\ n \in Nat /\ n <= Len(p)
  BY <1>0
<1>6. n # 0
  <2>. SUFFICES ASSUME n = 0 PROVE FALSE
    OBVIOUS
  <2>1. SubSeq(p, 1, n) = <<>>
    BY <1>5, PrefixFacts
  <2>2. IdsAt(t, SubSeq(p, 1, n)) = {0}
    BY <2>1, IdsAtRoot
  <2>. QED
    BY <1>3, <2>2
<1>7. q \in Paths /\ Len(q) = n
  BY <1>4, <1>5, <1>6, PrefixFacts
<1>8. PICK m : m = n - 1 /\ m \in Nat /\ m \in 0 .. n /\ m \in 0 .. Len(p) /\ m < n
  BY <1>5, <1>6, <1>0
<1>9. SubSeq(q, 1, Len(q) - 1) = SubSeq(p, 1, m)
  BY <1>4, <1>5, <1>7, <1>8, PrefixOfPrefix
<1>10. /\ x \in Live(t) /\ t[x].name = q[n] /\ t[x].parent \in IdsAt(t, SubSeq(p, 1, m))
       /\ y \in Live(t) /\ t[y].name = q[n] /\ t[y].parent \in IdsAt(t, SubSeq(p, 1, m))
  <2>0. \A z \in IdsAt(t, q) : /\ z \in Live(t) /\ t[z].name = q[Len(q)]
                              /\ t[z].parent \in IdsAt(t, SubSeq(q, 1, Len(q) - 1))
    BY <1>7, IdsAtStep
  <2>1. \A z \in IdsAt(t, q) : z \in Live(t) /\ t[z].name = q[n] /\ t[z].parent \in IdsAt(t, SubSeq(p, 1, m))
    BY <1>7, <1>9, <2>0, Zenon
  <2>. QED
    BY <1>3, <1>4, <2>1
<1>11. t[x].parent # t[y].parent
  BY <1>3, <1>10 DEF Unique
<1>12. m \in Bad
  BY <1>8, <1>10, <1>11, SMTT(60)
<1>. QED
  BY <1>2, <1>8, <1>12

-----------------------------------------------------------------------------
(* Programs and requests *)

FileKinds == {"list", "rename", "move", "copy", "delete"}
DirKinds == {"mkdir", "import", "direct", "download"}
MoveKinds == {"rename", "move", "copy"}

LEMMA Programs ==
    ASSUME NEW op \in Op, NEW k \in Nat, k >= 1
    PROVE  /\ Len(Program(op)) \in Nat
           /\ k <= Len(Program(op)) =>
                /\ k <= 4
                /\ Program(op)[k] = "file" <=> k = 1 /\ op.kind \in FileKinds \cup {"stat"}
                /\ Program(op)[k] = "dir" <=> (k = 1 /\ op.kind = "mkdir") \/ (k = 2 /\ op.kind \in MoveKinds)
                /\ Program(op)[k] = "ensure" <=> k = 1 /\ op.kind \in {"import", "direct", "download"}
                /\ Program(op)[k] = "check" <=> (k = 2 /\ op.kind \in DirKinds) \/ (k = 3 /\ op.kind \in MoveKinds)
                /\ Program(op)[k] = "list" <=> k = 2 /\ op.kind = "list"
                /\ Program(op)[k] = "create" <=> k = 3 /\ op.kind = "mkdir"
                /\ Program(op)[k] = "upload" <=> k = 3 /\ op.kind \in {"import", "direct"}
                /\ Program(op)[k] = "offline" <=> k = 3 /\ op.kind = "download"
                /\ Program(op)[k] = "put" <=> k = 4 /\ op.kind = "import"
                /\ Program(op)[k] = "rename" <=> k = 4 /\ op.kind = "rename"
                /\ Program(op)[k] = "move" <=> k = 4 /\ op.kind = "move"
                /\ Program(op)[k] = "copy" <=> k = 4 /\ op.kind = "copy"
                /\ Program(op)[k] = "trash" <=> k = 2 /\ op.kind = "delete"
                /\ Program(op)[k] = "poll" <=> k = 1 /\ op.kind = "status"
           /\ op.kind = "list" => Len(Program(op)) = 2
           /\ op.kind = "stat" => Len(Program(op)) = 1
           /\ op.kind = "mkdir" => Len(Program(op)) = 3
           /\ op.kind \in MoveKinds => Len(Program(op)) = 4
           /\ op.kind = "delete" => Len(Program(op)) = 2
           /\ op.kind = "import" => Len(Program(op)) = 4
           /\ op.kind \in {"direct", "download"} => Len(Program(op)) = 3
           /\ op.kind = "complete" => Len(Program(op)) = 0
           /\ op.kind = "status" => Len(Program(op)) = 1
<1>1. op.kind \in {"list", "stat", "mkdir", "rename", "move", "copy", "delete", "import", "direct",
                   "complete", "download", "status"}
  BY DEF Op
<1>2. CASE op.kind = "list"
  BY <1>2 DEF Program, ListProgram, FileKinds, DirKinds, MoveKinds
<1>3. CASE op.kind = "stat"
  BY <1>3 DEF Program, StatProgram, FileKinds, DirKinds, MoveKinds
<1>4. CASE op.kind = "mkdir"
  BY <1>4 DEF Program, MkdirProgram, FileKinds, DirKinds, MoveKinds
<1>5. CASE op.kind = "rename"
  BY <1>5 DEF Program, RenameProgram, FileKinds, DirKinds, MoveKinds
<1>6. CASE op.kind = "move"
  BY <1>6 DEF Program, MoveOrCopyProgram, FileKinds, DirKinds, MoveKinds
<1>7. CASE op.kind = "copy"
  BY <1>7 DEF Program, MoveOrCopyProgram, FileKinds, DirKinds, MoveKinds
<1>8. CASE op.kind = "delete"
  BY <1>8 DEF Program, DeleteProgram, FileKinds, DirKinds, MoveKinds
<1>9. CASE op.kind = "import"
  BY <1>9 DEF Program, ImportProgram, FileKinds, DirKinds, MoveKinds
<1>10. CASE op.kind = "direct"
  BY <1>10 DEF Program, DirectProgram, FileKinds, DirKinds, MoveKinds
<1>11. CASE op.kind = "complete"
  BY <1>11 DEF Program, CompleteProgram, FileKinds, DirKinds, MoveKinds
<1>12. CASE op.kind = "download"
  BY <1>12 DEF Program, DownloadProgram, FileKinds, DirKinds, MoveKinds
<1>13. CASE op.kind = "status"
  BY <1>13 DEF Program, StatusProgram, FileKinds, DirKinds, MoveKinds
<1>. QED
  BY <1>1, <1>2, <1>3, <1>4, <1>5, <1>6, <1>7, <1>8, <1>9, <1>10, <1>11, <1>12, <1>13

LEMMA Entries == RootEntry \in Entry /\ NoEntry \in Entry /\ RootEntry # NoEntry /\ RootEntry.id = 0
BY DEF RootEntry, NoEntry, Entry, AnyId, AnyName, RootId

LEMMA IdleIsRequest == Idle \in Request /\ Idle.pc = "idle" /\ Idle.op = NoOp
<1>1. Idle.op = NoOp /\ Idle.pc = "idle"
  BY DEF NoOp, Idle
<1>2. /\ Idle.stage = 0 /\ Idle.at = 0 /\ Idle.cur = NoEntry /\ Idle.files = {} /\ Idle.file = NoEntry
      /\ Idle.dir = NoEntry /\ Idle.old = FALSE /\ Idle.late = FALSE /\ Idle.named = {} /\ Idle.doubt = FALSE
      /\ Idle.strayed = FALSE
  BY DEF Idle
<1>. QED
  BY <1>1, <1>2, Entries DEF Idle, Request

\* A request that has ended needs nothing, and one that waits for its session only
\* what it remembers.
LEMMA RestOK ==
    ASSUME NEW t, NEW q \in Request, q.pc \in {"idle", "drop"}
    PROVE  RequestOK(t, q)
BY DEF RequestOK, Placed, Finds, Named, Lists, Remembers, Working, HasFile, HasDir, Checked, Walks

LEMMA FinishOK ==
    ASSUME NEW t, NEW q
    PROVE  /\ Finish(q) \in Request /\ Finish(q).pc \in {"idle", "drop"}
           /\ Invalidates(q.op) => Finish(q).pc = "drop"
           /\ RequestOK(t, Finish(q)) /\ RequestOK(t, Idle)
<1>1. /\ [Idle EXCEPT !.pc = "drop"] \in Request /\ [Idle EXCEPT !.pc = "drop"].pc = "drop"
  BY IdleIsRequest DEF Request
<1>2. Finish(q) \in Request /\ Finish(q).pc \in {"idle", "drop"} /\ (Invalidates(q.op) => Finish(q).pc = "drop")
  BY <1>1, IdleIsRequest DEF Finish
<1>. QED
  BY <1>2, RestOK, IdleIsRequest

LEMMA AwaitOK ==
    ASSUME NEW t, NEW op \in Ops, NEW named \in SUBSET AnyId, IdsAt(t, op.path) \subseteq named
    PROVE  RequestOK(t, Await(op, named))
<1>1. PICK q : q = Await(op, named)
  OBVIOUS
<1>2. q \in Request /\ q.pc = "session" /\ q.op = op /\ q.named = named
  BY <1>1, IdleIsRequest, ZenonT(60) DEF Await, Request
<1>3. RequestOK(t, q)
  BY <1>2 DEF RequestOK, Placed, Finds, Named, Lists, Remembers, Working, HasFile, HasDir, Checked, Walks
<1>. QED
  BY <1>1, <1>3

\* What a request brings to its k-th stage
Carries(t, q, k) ==
    /\ IdsAt(t, q.op.path) \subseteq q.named
    /\ q.op.kind \in FileKinds /\ k > 1 =>
         /\ ~q.old /\ ~q.doubt => q.file.id \in IdsAt(t, q.op.path)
         /\ q.op.path # <<>> => q.file.name = Last(q.op.path)
         /\ ~q.doubt /\ ~q.strayed => q.file.id \in q.named
    /\ q.op.kind = "rename" /\ k > 2 /\ ~q.old /\ ~q.doubt => q.dir.id \in IdsAt(t, q.op.dir)

\* The stages at which it has just looked for the name
AfterCheck(q, k) == (q.op.kind \in DirKinds /\ k = 3) \/ (q.op.kind \in MoveKinds /\ k = 4)

LEMMA EnterOK ==
    ASSUME NEW t, NEW q \in Request, q.op \in Ops, NEW k \in Nat, k >= 1, Carries(t, q, k),
           AfterCheck(q, k) => /\ ~q.late
                               /\ \A i \in Children(t, q.dir.id) : t[i].name # NewName(q)
    PROVE  /\ RequestOK(t, Enter(q, k))
           /\ k > Len(Program(q.op)) => Enter(q, k) = Finish(q)
           /\ Enter(q, k).pc \in {"idle", "drop", "walk", "call"}
<1>1. CASE k > Len(Program(q.op))
  BY <1>1, FinishOK DEF Enter
<1>2. CASE ~ (k > Len(Program(q.op)))
  <2>. DEFINE prog == Program(q.op)
  <2>1. q.op \in Op /\ Len(prog) \in Nat /\ k \in 1 .. Len(prog) /\ k <= 4
    BY <1>2, Programs, DriveAssumption
  <2>2. PICK pc : pc = (IF prog[k] \in Resolving THEN "walk" ELSE "call")
    OBVIOUS
  <2>3. PICK e : e = [q EXCEPT !.stage = k, !.files = {}, !.at = 0, !.cur = RootEntry, !.pc = pc]
    OBVIOUS
  <2>4. Enter(q, k) = e
    BY <1>2, <2>2, <2>3 DEF Enter
  <2>5. /\ e \in Request /\ e.pc = pc /\ e.stage = k /\ e.files = {} /\ e.at = 0 /\ e.cur = RootEntry
        /\ e.op = q.op /\ e.file = q.file /\ e.dir = q.dir /\ e.old = q.old /\ e.late = q.late
        /\ e.named = q.named /\ e.doubt = q.doubt /\ e.strayed = q.strayed
    BY <2>2, <2>3, Entries, ZenonT(60) DEF Request
  <2>6. Stage(e) = prog[k] /\ Goal(e) \in AnyPath /\ NewName(e) = NewName(q)
    BY <2>1, <2>5 DEF Stage, Goal, Op, NewName
  <2>. HIDE DEF prog
  <2>7. Placed(e)
    <3>1. (Goal(e) = <<>> <=> Len(Goal(e)) = 0) /\ Len(Goal(e)) \in Nat
      BY <2>6, PathFacts
    <3>2. e.at < Len(Goal(e)) \/ (e.at = 0 /\ Goal(e) = <<>>)
      BY <2>5, <3>1
    <3>3. e.pc \in {"walk", "call"} /\ (e.pc = "walk" <=> Stage(e) \in Resolving)
      BY <2>2, <2>5, <2>6
    <3>. QED
      BY <2>1, <2>5, <3>2, <3>3, Entries DEF Placed, Working, prog, RootId
  <2>8. Finds(t, e)
    <3>1. Walks(e) => e.cur.id \in IdsAt(t, Prefix(e))
      <4>1. Prefix(e) = <<>>
        BY <2>5, <2>6, PrefixFacts, PathFacts DEF Prefix
      <4>. QED
        BY <2>5, <4>1, IdsAtRoot, Entries
    <3>. QED
      BY <2>5, <3>1 DEF Finds, HasFile, HasDir, Carries, FileKinds
  <2>9. Named(e)
    BY <2>5 DEF Named, HasFile, Carries, FileKinds
  <2>10. Lists(t, e)
    <3>1. e.pc \notin {"listed", "folder"}
      BY <2>2, <2>5
    <3>2. Checked(e) => AfterCheck(q, k)
      BY <2>5 DEF Checked, AfterCheck, DirKinds, MoveKinds
    <3>. QED
      BY <2>5, <2>6, <3>1, <3>2 DEF Lists
  <2>11. Remembers(t, e)
    BY <2>2, <2>5 DEF Remembers, HasFile, Carries, FileKinds
  <2>. QED
    BY <2>1, <2>2, <2>4, <2>5, <2>7, <2>8, <2>9, <2>10, <2>11, <1>2 DEF RequestOK, prog
<1>. QED
  BY <1>1, <1>2

LEMMA CarriesNow ==
    ASSUME NEW t, NEW q, RequestOK(t, q), Working(q)
    PROVE  Carries(t, q, q.stage)
BY DEF RequestOK, Carries, Finds, Named, Remembers, HasFile, HasDir, FileKinds

\* A path is resolved: to an entry that the path has, if nothing went by meanwhile.
Found(t, q, path, e) ==
    /\ ~q.old /\ ~q.doubt => e.id \in IdsAt(t, path)
    /\ path # <<>> => e.name = Last(path)

LEMMA ResolvedOK ==
    ASSUME NEW t, NEW q \in Request, q.op \in Ops, q.stage \in 1 .. Len(Program(q.op)),
           Stage(q) \in Resolving, Carries(t, q, q.stage), NEW e \in Entry,
           Found(t, q, Goal(q), e),
           Stage(q) = "file" /\ ~q.doubt /\ ~q.strayed => e.id \in q.named
    PROVE  RequestOK(t, Resolved(q, e)) /\ Resolved(q, e).pc \in {"idle", "drop", "walk", "call"}
<1>1. q.op \in Op /\ q.stage \in Nat /\ q.stage >= 1 /\ q.stage <= 4
  BY Programs, DriveAssumption DEF Request
<1>2. CASE Stage(q) = "file"
  <2>1. PICK p, k : p = [q EXCEPT !.file = e] /\ k = 2
    OBVIOUS
  <2>2. /\ p \in Request /\ p.op = q.op /\ p.stage = q.stage /\ p.file = e /\ p.named = q.named /\ p.old = q.old
        /\ p.doubt = q.doubt /\ p.strayed = q.strayed
    BY <2>1 DEF Request
  <2>3. q.stage = 1 /\ Goal(q) = q.op.path
    BY <1>1, <1>2, Programs DEF Stage, Goal
  <2>4. Carries(t, p, k) /\ ~AfterCheck(p, k) /\ k \in Nat /\ k >= 1 /\ k = q.stage + 1
    BY <1>2, <2>1, <2>2, <2>3 DEF Carries, Found, AfterCheck
  <2>5. RequestOK(t, Enter(p, k)) /\ Enter(p, k).pc \in {"idle", "drop", "walk", "call"}
    BY <2>2, <2>4, EnterOK
  <2>6. Resolved(q, e) = Enter(p, k)
    BY <1>2, <2>1, <2>4 DEF Resolved
  <2>. QED
    BY <2>5, <2>6
<1>3. CASE Stage(q) # "file" /\ e.kind = "folder"
  <2>1. PICK p, k : p = [q EXCEPT !.dir = e] /\ k = q.stage + 1
    OBVIOUS
  <2>2. /\ p \in Request /\ p.op = q.op /\ p.stage = q.stage /\ p.dir = e /\ p.file = q.file /\ p.named = q.named
        /\ p.old = q.old /\ p.doubt = q.doubt /\ p.strayed = q.strayed
    BY <2>1 DEF Request
  <2>3. \/ q.stage = 1 /\ q.op.kind \in {"mkdir", "import", "direct", "download"}
        \/ q.stage = 2 /\ q.op.kind \in MoveKinds
    BY <1>1, <1>3, Programs DEF Stage, Resolving
  <2>4. Goal(q) = q.op.dir
    BY <1>3 DEF Goal
  <2>5. Carries(t, p, k) /\ ~AfterCheck(p, k) /\ k \in Nat /\ k >= 1
    <3>1. CASE q.stage = 1
      BY <2>1, <2>2, <2>3, <3>1 DEF Carries, AfterCheck, FileKinds, MoveKinds
    <3>2. CASE q.stage = 2
      BY <2>1, <2>2, <2>3, <2>4, <3>2 DEF Carries, AfterCheck, FileKinds, MoveKinds, DirKinds, Found
    <3>. QED
      BY <2>3, <3>1, <3>2
  <2>6. RequestOK(t, Enter(p, k)) /\ Enter(p, k).pc \in {"idle", "drop", "walk", "call"}
    BY <2>2, <2>5, EnterOK
  <2>7. Resolved(q, e) = Enter(p, k)
    BY <1>3, <2>1, <2>2 DEF Resolved
  <2>. QED
    BY <2>6, <2>7
<1>4. CASE Stage(q) # "file" /\ e.kind # "folder"
  BY <1>4, FinishOK DEF Resolved
<1>. QED
  BY <1>2, <1>3, <1>4

-----------------------------------------------------------------------------
(* Steps: one request goes on, and the others learn that the tree has changed. *)

\* What a request has been told of a change
ToldOf(q, u) ==
    [q EXCEPT !.old = TRUE, !.late = TRUE, !.named = @ \cup IdsAt(u, q.op.path)]

LEMMA ToldOK ==
    ASSUME NEW t, NEW u, NEW q, RequestOK(t, q)
    PROVE  RequestOK(u, ToldOf(q, u)) /\ ToldOf(q, u).pc = q.pc
<1>1. PICK c, e : c = q.named \cup IdsAt(u, q.op.path)
                  /\ e = [q EXCEPT !.old = TRUE, !.late = TRUE, !.named = c]
  OBVIOUS
<1>2. ToldOf(q, u) = e
  BY <1>1 DEF ToldOf
<1>3. q \in Request /\ q.named \in SUBSET AnyId
  BY DEF RequestOK, Request
<1>4. q.op.path \in AnyPath
  <2>1. NoOp.path = <<>>
    BY DEF NoOp, Idle
  <2>. QED
    BY <1>3, <2>1, DriveAssumption DEF Request, Op, AnyPath
<1>5. c \in SUBSET AnyId /\ q.named \subseteq c /\ IdsAt(u, q.op.path) \subseteq c
  BY <1>1, <1>3, <1>4, IdsAtIds
<1>6. /\ e \in Request /\ e.pc = q.pc /\ e.op = q.op /\ e.stage = q.stage /\ e.at = q.at /\ e.cur = q.cur
      /\ e.files = q.files /\ e.file = q.file /\ e.dir = q.dir /\ e.old = TRUE /\ e.late = TRUE
      /\ e.named = c /\ e.doubt = q.doubt /\ e.strayed = q.strayed
  BY <1>1, <1>3, <1>5, ZenonT(60) DEF Request
<1>7. Stage(e) = Stage(q) /\ Goal(e) = Goal(q)
  BY <1>6 DEF Stage, Goal
<1>8. /\ Working(e) = Working(q) /\ HasFile(e) = HasFile(q) /\ HasDir(e) = HasDir(q)
  BY <1>6 DEF Working, HasFile, HasDir
<1>9. Placed(e) /\ Named(e)
  BY <1>6, <1>7, <1>8 DEF RequestOK, Placed, Named
<1>10. Finds(u, e) /\ Lists(u, e)
  BY <1>6 DEF Finds, Lists, OnTheWay
<1>11. Remembers(u, e)
  BY <1>5, <1>6, <1>7, <1>8 DEF RequestOK, Remembers
<1>. QED
  BY <1>2, <1>6, <1>9, <1>10, <1>11 DEF RequestOK

\* The request that has changed the tree sees the ids that its path has now.
Sees(q, u) == [q EXCEPT !.named = @ \cup IdsAt(u, q.op.path)]

LEMMA SeesFacts ==
    ASSUME NEW q \in Request, NEW u
    PROVE  /\ Sees(q, u) \in Request /\ Sees(q, u).pc = q.pc /\ Sees(q, u).op = q.op
           /\ Sees(q, u).stage = q.stage /\ Sees(q, u).at = q.at /\ Sees(q, u).cur = q.cur
           /\ Sees(q, u).files = q.files /\ Sees(q, u).file = q.file /\ Sees(q, u).dir = q.dir
           /\ Sees(q, u).old = q.old /\ Sees(q, u).late = q.late
           /\ Sees(q, u).doubt = q.doubt /\ Sees(q, u).strayed = q.strayed
           /\ q.named \subseteq Sees(q, u).named /\ IdsAt(u, q.op.path) \subseteq Sees(q, u).named
           /\ q.pc \in {"idle", "drop"} => RequestOK(u, Sees(q, u))
<1>1. PICK c, f : c = q.named \cup IdsAt(u, q.op.path) /\ f = [q EXCEPT !.named = c]
  OBVIOUS
<1>2. f = Sees(q, u)
  BY <1>1 DEF Sees
<1>3. q.op.path \in AnyPath
  <2>1. NoOp.path = <<>>
    BY DEF NoOp, Idle
  <2>. QED
    BY <2>1, DriveAssumption DEF Request, Op, AnyPath
<1>4. c \in SUBSET AnyId /\ q.named \subseteq c /\ IdsAt(u, q.op.path) \subseteq c
  BY <1>1, <1>3, IdsAtIds DEF Request
<1>5. /\ f \in Request /\ f.pc = q.pc /\ f.op = q.op /\ f.stage = q.stage /\ f.at = q.at /\ f.cur = q.cur
      /\ f.files = q.files /\ f.file = q.file /\ f.dir = q.dir /\ f.old = q.old /\ f.late = q.late
      /\ f.named = c /\ f.doubt = q.doubt /\ f.strayed = q.strayed
  BY <1>1, <1>4 DEF Request
<1>. QED
  BY <1>2, <1>4, <1>5, RestOK

\* Nobody else's program counter moves, and the tree stays or everybody is told.
LEMMA PutKeeps ==
    ASSUME AtWork, \A s \in Slots : RequestOK(tree, req[s]), NEW r \in Slots, NEW q, RequestOK(tree, q),
           Put(r, q), tree' = tree
    PROVE  /\ \A s \in Slots : RequestOK(tree', req'[s])
           /\ \A s \in Slots \ {r} : req'[s].pc = req[s].pc
           /\ req'[r].pc = q.pc
<1>1. \A s \in Slots : req'[s] = IF s = r THEN q ELSE req[s]
  BY DEF AtWork, Put
<1>. QED
  BY <1>1

LEMMA TellKeeps ==
    ASSUME AtWork, \A s \in Slots : RequestOK(tree, req[s]), NEW r \in Slots, NEW q \in Request, NEW u,
           RequestOK(u, Sees(q, u)), PutAndTell(r, q, u), tree' = u
    PROVE  /\ \A s \in Slots : RequestOK(tree', req'[s])
           /\ \A s \in Slots \ {r} : req'[s].pc = req[s].pc
           /\ req'[r].pc = q.pc
<1>1. RequestOK(u, req'[r]) /\ req'[r].pc = q.pc
  <2>1. PICK c : c = (r # r)
    BY SMTT(60)
  <2>2. req'[r] = IF q.pc = "idle" THEN q
                  ELSE [q EXCEPT !.old = @ \/ c, !.late = @ \/ c, !.named = @ \cup IdsAt(u, q.op.path)]
    BY <2>1 DEF PutAndTell
  <2>3. c = FALSE
    BY <2>1
  <2>4. CASE q.pc = "idle"
    BY <2>2, <2>4, RestOK
  <2>5. CASE q.pc # "idle"
    <3>1. PICK a, b, n : a = (q.old \/ c) /\ b = (q.late \/ c) /\ n = q.named \cup IdsAt(u, q.op.path)
      OBVIOUS
    <3>2. q \in Request /\ q.old \in BOOLEAN /\ q.late \in BOOLEAN
      BY DEF Request
    <3>3. a = q.old /\ b = q.late
      BY <2>3, <3>1, <3>2
    <3>4. req'[r] = [q EXCEPT !.old = a, !.late = b, !.named = n]
      BY <2>2, <2>5, <3>1
    <3>5. [q EXCEPT !.old = a, !.late = b, !.named = n] = [q EXCEPT !.named = n]
      BY <3>2, <3>3 DEF Request
    <3>6. [q EXCEPT !.named = n] = Sees(q, u)
      BY <3>1 DEF Sees
    <3>. QED
      BY <3>4, <3>5, <3>6, SeesFacts
  <2>. QED
    BY <2>4, <2>5
<1>2. ASSUME NEW s \in Slots \ {r}
      PROVE  RequestOK(u, req'[s]) /\ req'[s].pc = req[s].pc
  <2>1. PICK p : p = req[s] /\ RequestOK(tree, p)
    OBVIOUS
  <2>2. PICK c : c = (s # r)
    BY SMTT(60)
  <2>3. req'[s] = IF p.pc = "idle" THEN p
                  ELSE [p EXCEPT !.old = @ \/ c, !.late = @ \/ c, !.named = @ \cup IdsAt(u, p.op.path)]
    BY <2>1, <2>2 DEF PutAndTell
  <2>4. CASE p.pc = "idle"
    BY <2>1, <2>3, <2>4, RestOK DEF RequestOK
  <2>5. CASE p.pc # "idle"
    <3>1. PICK n : n = p.named \cup IdsAt(u, p.op.path)
      OBVIOUS
    <3>2. PICK a, b : a = (p.old \/ c) /\ b = (p.late \/ c)
      OBVIOUS
    <3>3. a = TRUE /\ b = TRUE
      BY <2>2, <3>2
    <3>4. req'[s] = [p EXCEPT !.old = a, !.late = b, !.named = n]
      BY <2>3, <2>5, <3>1, <3>2
    <3>5. req'[s] = ToldOf(p, u)
      BY <3>1, <3>3, <3>4 DEF ToldOf
    <3>. QED
      BY <2>1, <3>5, ToldOK
  <2>. QED
    BY <2>4, <2>5
<1>. QED
  BY <1>1, <1>2

\* The cache under a change of the tree
LEMMA CacheStays ==
    ASSUME CacheOK, cache' = cache, Grows(tree, tree'), Dropping => Dropping'
    PROVE  CacheOK'
BY IdsAtGrows DEF CacheOK

LEMMA CacheDropped ==
    ASSUME CacheOK, cache' = cache, Dropping'
    PROVE  CacheOK'
BY DEF CacheOK

LEMMA CacheCleared == cache' = NoCache => CacheOK' /\ cache' \in [Paths -> [entry : Entry, taint : BOOLEAN]]
BY Entries DEF CacheOK, NoCache

LEMMA GrowsItself == \A t : Grows(t, t)
BY DEF Grows

\* A step that leaves the tree, the cache and what has been acted on
LEMMA QuietStep ==
    ASSUME DriveInv, AtWork, NEW r \in Slots, NEW q, RequestOK(tree, q), Put(r, q),
           req[r].pc = "drop" => q.pc = "drop",
           UNCHANGED <<tree, cache, doubled, hit>>, asked' \in 0 .. MaxRequests
    PROVE  DriveInv'
<1>1. /\ \A s \in Slots : RequestOK(tree', req'[s])
      /\ \A s \in Slots \ {r} : req'[s].pc = req[s].pc
      /\ req'[r].pc = q.pc
  BY PutKeeps DEF DriveInv
<1>2. Dropping => Dropping'
  BY <1>1 DEF Dropping
<1>3. CacheOK'
  BY <1>2, CacheStays, GrowsItself DEF DriveInv
<1>. QED
  BY <1>1, <1>3 DEF DriveInv, ActsOnNamedFile

\* A step that leaves the tree and empties the cache
LEMMA ClearingStep ==
    ASSUME DriveInv, AtWork, NEW r \in Slots, NEW q, RequestOK(tree, q), Put(r, q),
           cache' = NoCache, UNCHANGED <<tree, doubled, asked>>, hit' = hit \/ hit' = NoHit
    PROVE  DriveInv'
<1>1. \A s \in Slots : RequestOK(tree', req'[s])
  BY PutKeeps DEF DriveInv
<1>2. ActsOnNamedFile'
  BY DEF DriveInv, ActsOnNamedFile, NoHit
<1>. QED
  BY <1>1, <1>2, CacheCleared DEF DriveInv

LEMMA ReachFacts ==
    ASSUME NEW goal \in AnyPath, NEW i \in 0 .. Len(goal)
    PROVE  /\ Reach(goal, i) \in i .. Len(goal)
           /\ Reach(goal, i) > i => IsCached(SubSeq(goal, 1, Reach(goal, i)))
<1>0. Len(goal) \in Nat /\ i \in Nat /\ i <= Len(goal)
  BY PathFacts
<1>1. CASE i = 0 /\ IsCached(goal)
  <2>1. SubSeq(goal, 1, Len(goal)) = goal
    BY <1>0, PrefixFacts
  <2>2. PICK j : j = Reach(goal, i) /\ j = Len(goal)
    BY <1>1 DEF Reach
  <2>3. IsCached(SubSeq(goal, 1, j))
    BY <1>1, <2>1, <2>2
  <2>. QED
    BY <1>0, <2>2, <2>3
<1>2. CASE ~ (i = 0 /\ IsCached(goal))
  <2>. DEFINE Good(j) == /\ \A k \in i + 1 .. j : IsCached(SubSeq(goal, 1, k))
                         /\ j < Len(goal) => ~IsCached(SubSeq(goal, 1, j + 1))
              Missing == {k \in i + 1 .. Len(goal) : ~IsCached(SubSeq(goal, 1, k))}
  <2>1. Reach(goal, i) = CHOOSE j \in i .. Len(goal) : Good(j)
    BY <1>2 DEF Reach
  <2>2. \E j \in i .. Len(goal) : Good(j)
    <3>1. CASE Missing = {}
      BY <1>0, <3>1
    <3>2. CASE Missing # {}
      <4>1. PICK k \in Missing : \A m \in Missing : ~ (m < k)
        <5>1. PICK k \in Missing : \A m \in Missing : <<m, k>> \notin OpToRel(<, Nat)
          <6>1. Missing \subseteq Nat
            BY <1>0
          <6>. HIDE DEF Missing
          <6>. QED
            BY <3>2, <6>1, NatLessThanWellFounded, WFMin
        <5>2. Missing \subseteq Nat
          BY <1>0
        <5>. QED
          BY <5>1, <5>2 DEF OpToRel
      <4>2. k - 1 \in i .. Len(goal) /\ k - 1 < Len(goal) /\ (k - 1) + 1 = k
        BY <1>0
      <4>3. Good(k - 1)
        BY <1>0, <4>1, <4>2
      <4>. QED
        BY <4>2, <4>3
    <3>. QED
      BY <3>1, <3>2
  <2>3. PICK j : j = Reach(goal, i)
    OBVIOUS
  <2>4. j \in i .. Len(goal) /\ Good(j)
    BY <2>1, <2>2, <2>3
  <2>. QED
    BY <1>0, <2>3, <2>4
<1>. QED
  BY <1>1, <1>2

-----------------------------------------------------------------------------
(* What each step keeps *)

LEMMA OpFacts ==
    /\ \A op \in Ops : op \in Op /\ op.path \in AnyPath /\ op.dir \in AnyPath /\ op.name \in Names
    /\ \A t, q : RequestOK(t, q) /\ Working(q) =>
          /\ q \in Request /\ q.op \in Ops /\ Goal(q) \in AnyPath
          /\ q.stage \in Nat /\ q.stage >= 1 /\ q.stage <= Len(Program(q.op))
<1>1. \A op \in Ops : op \in Op /\ op.path \in AnyPath /\ op.dir \in AnyPath /\ op.name \in Names
  BY DriveAssumption DEF Op
<1>2. ASSUME NEW t, NEW q, RequestOK(t, q), Working(q)
      PROVE  /\ q \in Request /\ q.op \in Ops /\ Goal(q) \in AnyPath
             /\ q.stage \in Nat /\ q.stage >= 1 /\ q.stage <= Len(Program(q.op))
  <2>1. q \in Request /\ q.op \in Ops /\ q.stage \in 1 .. Len(Program(q.op)) /\ q.stage \in Nat
    BY <1>2 DEF RequestOK, Placed, Working, Request
  <2>2. Len(Program(q.op)) \in Nat
    BY <2>1, Programs, DriveAssumption
  <2>. QED
    BY <1>1, <2>1, <2>2 DEF Goal
<1>. QED
  BY <1>1, <1>2

LEMMA BeginKeeps ==
    ASSUME DriveInv, AtWork, NEW r \in Slots, NEW op \in Ops, Begin(r, op)
    PROVE  DriveInv'
<1>1. op.path \in AnyPath /\ IdsAt(tree, op.path) \in SUBSET AnyId
  BY OpFacts, IdsAtIds
<1>2. PICK q : q = Await(op, IdsAt(tree, op.path))
  OBVIOUS
<1>3. RequestOK(tree, q)
  BY <1>1, <1>2, AwaitOK
<1>4. Put(r, q) /\ req[r].pc # "drop" /\ UNCHANGED <<tree, cache, doubled, hit>>
  BY <1>2 DEF Begin
<1>5. asked' \in 0 .. MaxRequests
  BY DriveAssumption DEF Begin, DriveInv
<1>. QED
  BY <1>3, <1>4, <1>5, QuietStep

LEMMA SessionKeeps ==
    ASSUME DriveInv, AtWork, NEW r \in Slots, Session(r)
    PROVE  DriveInv'
<1>1. PICK q : q = req[r] /\ RequestOK(tree, q) /\ q.pc = "session"
  BY DEF DriveInv, Session
<1>2. q \in Request /\ q.op \in Ops /\ IdsAt(tree, q.op.path) \subseteq q.named
  BY <1>1 DEF RequestOK, Placed, Remembers
<1>3. PICK e, one : e = [q EXCEPT !.old = FALSE] /\ one = 1
  OBVIOUS
<1>4. e \in Request /\ e.op = q.op /\ e.named = q.named
  BY <1>2, <1>3 DEF Request
<1>5. Carries(tree, e, one) /\ ~AfterCheck(e, one) /\ one \in Nat /\ one >= 1
  BY <1>2, <1>3, <1>4 DEF Carries, AfterCheck
<1>6. RequestOK(tree, Enter(e, one))
  BY <1>2, <1>4, <1>5, EnterOK
<1>7. PICK x : Put(r, x) /\ x \in {Enter(e, one), Idle, q}
  <2>1. req' = [req EXCEPT ![r] = CASE sess'[r].pc = "ready" -> Enter(e, one)
                                    [] sess'[r].pc = "failed" -> Idle
                                    [] OTHER -> q]
    BY <1>1, <1>3 DEF Session
  <2>. QED
    BY <2>1 DEF Put
<1>8. RequestOK(tree, x)
  BY <1>1, <1>6, <1>7, FinishOK
<1>9. UNCHANGED <<tree, cache, doubled, hit, asked>> /\ req[r].pc # "drop"
  BY <1>1 DEF Session
<1>. QED
  BY <1>7, <1>8, <1>9, QuietStep DEF DriveInv

\* fn runs once more, or a request ends.
LEMMA AgainKeeps ==
    ASSUME DriveInv, AtWork, NEW r \in Slots, TokenRefused(r) \/ CaptchaRefused(r) \/ PutObject(r) \/ Invalidate(r)
    PROVE  DriveInv'
<1>1. PICK q : q = req[r] /\ RequestOK(tree, q)
  BY DEF DriveInv
<1>2. UNCHANGED <<tree, asked, doubled>> /\ (hit' = hit \/ hit' = NoHit)
  BY DEF TokenRefused, CaptchaRefused, PutObject, Invalidate
<1>3. CASE Invalidate(r)
  BY <1>2, <1>3, FinishOK, ClearingStep DEF Invalidate
<1>4. CASE ~Invalidate(r)
  <2>1. Working(q) /\ q.pc # "drop" /\ hit' = hit
    BY <1>1, <1>4 DEF TokenRefused, CaptchaRefused, PutObject, Authorized, Calling, Working
  <2>2. q \in Request /\ q.op \in Ops /\ IdsAt(tree, q.op.path) \subseteq q.named /\ q.named \in SUBSET AnyId
    BY <1>1, <2>1, OpFacts DEF RequestOK, Remembers, Request
  <2>3. PICK op, named : op = q.op /\ named = q.named
    OBVIOUS
  <2>4. RequestOK(tree, Await(op, named)) /\ RequestOK(tree, Finish(q))
    BY <2>2, <2>3, AwaitOK, FinishOK
  <2>5. PICK x : Put(r, x) /\ (x = Await(op, named) \/ x = Finish(q))
    BY <1>1, <1>4, <2>3, Zenon DEF TokenRefused, CaptchaRefused, PutObject
  <2>6. cache' = cache \/ cache' = NoCache
    BY <1>4, Zenon DEF TokenRefused, CaptchaRefused, PutObject
  <2>7. RequestOK(tree, x)
    BY <2>4, <2>5
  <2>8. CASE cache' = cache
    BY <1>1, <1>2, <2>1, <2>5, <2>7, <2>8, QuietStep DEF DriveInv
  <2>9. CASE cache' = NoCache
    BY <1>2, <2>1, <2>5, <2>7, <2>9, ClearingStep
  <2>. QED
    BY <2>6, <2>8, <2>9
<1>. QED
  BY <1>3, <1>4

\* What the cache says of a path
LEMMA CachedFacts ==
    ASSUME DriveInv, NEW path \in AnyPath, IsCached(path)
    PROVE  /\ Cached(path) \in Entry
           /\ path # <<>> => Cached(path).name = Last(path)
           /\ ~Doubtful(path) => Cached(path).id \in IdsAt(tree, path)
           /\ path = <<>> => Cached(path).id \in IdsAt(tree, path)
<1>1. CASE path = <<>>
  BY <1>1, Entries, IdsAtRoot DEF Cached
<1>2. CASE path # <<>>
  <2>1. path \in Paths /\ Cached(path) = cache[path].entry /\ cache[path].entry # NoEntry
    BY <1>2, PathFacts DEF Cached, IsCached
  <2>2. cache[path].entry \in Entry /\ cache[path].entry.name = Last(path)
        /\ (~cache[path].taint /\ ~Dropping => cache[path].entry.id \in IdsAt(tree, path))
    BY <2>1 DEF DriveInv, CacheOK
  <2>. QED
    BY <1>2, <2>1, <2>2 DEF Doubtful
<1>. QED
  BY <1>1, <1>2

LEMMA WalkCachedKeeps ==
    ASSUME DriveInv, AtWork, NEW r \in Slots, WalkCached(r)
    PROVE  DriveInv'
<1>1. PICK q : q = req[r] /\ RequestOK(tree, q) /\ q.pc = "walk"
  BY DEF DriveInv, WalkCached
<1>2. Working(q) /\ Stage(q) \in Resolving
  BY <1>1 DEF Working, RequestOK, Placed
<1>3. /\ q \in Request /\ q.op \in Ops /\ Goal(q) \in AnyPath /\ q.stage \in 1 .. Len(Program(q.op))
      /\ q.at \in Nat /\ q.doubt \in BOOLEAN
  BY <1>1, <1>2, OpFacts DEF RequestOK, Request, Placed
<1>4. PICK goal : goal = Goal(q)
  OBVIOUS
<1>5. PICK j : j = Reach(goal, q.at)
  OBVIOUS
<1>6. Len(goal) \in Nat /\ (goal = <<>> <=> Len(goal) = 0)
      /\ (q.at < Len(goal) \/ (q.at = 0 /\ goal = <<>>)) /\ q.at \in 0 .. Len(goal)
  BY <1>1, <1>2, <1>3, <1>4, PathFacts DEF RequestOK, Placed
<1>7. j \in q.at .. Len(goal) /\ (j > q.at => IsCached(SubSeq(goal, 1, j))) /\ j \in 0 .. Len(goal) /\ j \in Nat
  BY <1>3, <1>4, <1>5, <1>6, ReachFacts, SMTT(60)
<1>8. PICK path : path = SubSeq(goal, 1, j)
  OBVIOUS
<1>9. PICK entry : entry = Cached(path)
  OBVIOUS
<1>10. PICK d \in BOOLEAN : d = (q.doubt \/ \E z \in {SubSeq(goal, 1, k) : k \in q.at + 1 .. j} : Doubtful(z))
  BY <1>3
<1>11. j > q.at \/ j = Len(goal)
  BY <1>1, <1>4, <1>5 DEF WalkCached
<1>12. path \in AnyPath /\ Len(path) = j /\ (j = 0 <=> path = <<>>) /\ (j = Len(goal) => path = goal)
  BY <1>3, <1>4, <1>7, <1>8, PrefixFacts
<1>13. IsCached(path)
  <2>1. CASE j > q.at
    BY <1>7, <1>8, <2>1
  <2>2. CASE ~ (j > q.at)
    <3>1. j = q.at /\ j = Len(goal)
      BY <1>6, <1>7, <1>11, <2>2
    <3>2. j = 0
      BY <1>6, <3>1
    <3>. QED
      BY <1>12, <3>2 DEF IsCached
  <2>. QED
    BY <2>1, <2>2
<1>14. /\ entry \in Entry /\ (path # <<>> => entry.name = Last(path))
       /\ ~d => entry.id \in IdsAt(tree, path)
       /\ j = 0 => entry.id = 0
  <2>1. entry \in Entry /\ (path # <<>> => entry.name = Last(path))
        /\ (~Doubtful(path) => entry.id \in IdsAt(tree, path))
        /\ (path = <<>> => entry.id \in IdsAt(tree, path))
    BY <1>9, <1>12, <1>13, CachedFacts
  <2>2. j = 0 => entry.id = 0
    BY <1>9, <1>12, Entries DEF Cached
  <2>3. ASSUME ~d PROVE entry.id \in IdsAt(tree, path)
    <3>1. CASE path = <<>>
      BY <2>1, <3>1
    <3>2. CASE path # <<>>
      <4>1. j > q.at
        <5>. SUFFICES ASSUME ~ (j > q.at) PROVE FALSE
          OBVIOUS
        <5>1. j = q.at /\ j = Len(goal)
          BY <1>6, <1>7, <1>11
        <5>2. j = 0
          BY <1>6, <5>1
        <5>. QED
          BY <1>12, <3>2, <5>2
      <4>2. j \in q.at + 1 .. j
        BY <1>3, <1>7, <4>1
      <4>3. ~Doubtful(path)
        BY <1>8, <1>10, <2>3, <4>2
      <4>. QED
        BY <2>1, <4>3
    <3>. QED
      BY <3>1, <3>2
  <2>. QED
    BY <2>1, <2>2, <2>3
<1>15. PICK p : p = [q EXCEPT !.at = j, !.cur = entry, !.late = FALSE, !.doubt = d]
  OBVIOUS
<1>16. /\ p \in Request /\ p.pc = q.pc /\ p.op = q.op /\ p.stage = q.stage /\ p.at = j /\ p.cur = entry
       /\ p.files = q.files /\ p.file = q.file /\ p.dir = q.dir /\ p.old = q.old /\ p.late = FALSE
       /\ p.named = q.named /\ p.doubt = d /\ p.strayed = q.strayed
  BY <1>3, <1>7, <1>14, <1>15 DEF Request
<1>17. Stage(p) = Stage(q) /\ Goal(p) = goal /\ (~d => ~q.doubt)
  BY <1>4, <1>10, <1>16 DEF Stage, Goal
<1>18. Put(r, IF j = Len(goal) THEN Resolved(p, entry) ELSE IF entry.kind # "folder" THEN Finish(p) ELSE p)
  <2>1. p = [q EXCEPT !.at = j, !.cur = entry, !.late = FALSE,
                      !.doubt = @ \/ \E z \in {SubSeq(goal, 1, k) : k \in q.at + 1 .. j} : Doubtful(z)]
    BY <1>10, <1>15
  <2>. QED
    BY <1>1, <1>4, <1>5, <1>8, <1>9, <2>1 DEF WalkCached
<1>19. RequestOK(tree, Resolved(p, entry)) \/ j # Len(goal)
  <2>. SUFFICES ASSUME j = Len(goal) PROVE RequestOK(tree, Resolved(p, entry))
    OBVIOUS
  <2>1. Carries(tree, q, q.stage)
    BY <1>1, <1>2, CarriesNow
  <2>2. Carries(tree, p, p.stage)
    BY <1>16, <1>17, <2>1 DEF Carries
  <2>3. Found(tree, p, goal, entry)
    BY <1>12, <1>14, <1>16 DEF Found
  <2>4. Stage(p) = "file" /\ ~p.doubt => entry.id \in p.named
    <3>. SUFFICES ASSUME Stage(p) = "file", ~p.doubt PROVE entry.id \in p.named
      OBVIOUS
    <3>1. goal = q.op.path
      BY <1>4, <1>17 DEF Goal
    <3>2. entry.id \in IdsAt(tree, q.op.path)
      BY <1>12, <1>14, <1>16, <3>1
    <3>. QED
      BY <1>16, <2>2, <3>2 DEF Carries
  <2>. QED
    BY <1>2, <1>3, <1>14, <1>16, <1>17, <2>2, <2>3, <2>4, ResolvedOK
<1>20. RequestOK(tree, p) \/ j = Len(goal)
  <2>. SUFFICES ASSUME j # Len(goal) PROVE RequestOK(tree, p)
    OBVIOUS
  <2>1. j < Len(goal) /\ j > q.at
    BY <1>6, <1>7, <1>11
  <2>2. Placed(p)
    BY <1>1, <1>2, <1>14, <1>16, <1>17, <2>1 DEF RequestOK, Placed, Working, RootId
  <2>3. Prefix(p) = path
    BY <1>8, <1>16, <1>17 DEF Prefix
  <2>4. Finds(tree, p)
    BY <1>1, <1>14, <1>16, <1>17, <2>3 DEF RequestOK, Finds, HasFile, HasDir, OnTheWay, Working
  <2>5. Named(p)
    BY <1>1, <1>16 DEF RequestOK, Named, HasFile, Working
  <2>6. Lists(tree, p)
    BY <1>1, <1>16 DEF Lists, Checked
  <2>7. Remembers(tree, p)
    BY <1>1, <1>16, <1>17 DEF RequestOK, Remembers, HasFile, Working
  <2>. QED
    BY <1>16, <2>2, <2>4, <2>5, <2>6, <2>7 DEF RequestOK
<1>21. PICK x : Put(r, x) /\ RequestOK(tree, x)
  <2>1. CASE j = Len(goal)
    BY <1>18, <1>19, <2>1
  <2>2. CASE j # Len(goal)
    BY <1>18, <1>20, <2>2, FinishOK
  <2>. QED
    BY <2>1, <2>2
<1>22. UNCHANGED <<tree, cache, asked, doubled, hit>>
  BY DEF WalkCached
<1>. QED
  BY <1>1, <1>21, <1>22, QuietStep DEF DriveInv

LEMMA AppendFacts ==
    ASSUME NEW p \in AnyPath, NEW x, Append(p, x) \in Paths
    PROVE  /\ Len(Append(p, x)) = Len(p) + 1 /\ Append(p, x)[Len(p) + 1] = x
           /\ SubSeq(Append(p, x), 1, Len(p)) = p
           /\ Last(Append(p, x)) = x
<1>1. PICK a, S : a = Append(p, x) /\ S = Names \cup {x}
  OBVIOUS
<1>2. p \in Seq(S) /\ x \in S /\ Len(p) \in Nat /\ p \in Seq(Names)
  BY <1>1, PathFacts
<1>3. Len(a) = Len(p) + 1 /\ (\A i \in 1 .. Len(p) : a[i] = p[i]) /\ a[Len(p) + 1] = x
  BY <1>1, <1>2, AppendProperties
<1>4. a \in AnyPath /\ Len(p) \in 0 .. Len(a)
  BY <1>1, <1>2, <1>3 DEF AnyPath
<1>5. PICK b : b = SubSeq(a, 1, Len(p))
  OBVIOUS
<1>6. b \in AnyPath /\ Len(b) = Len(p) /\ \A k \in 1 .. Len(p) : b[k] = a[k]
  BY <1>4, <1>5, PrefixFacts
<1>7. b = p
  BY <1>2, <1>3, <1>6, PathFacts, SeqEqual
<1>8. Last(a) = x
  BY <1>3 DEF Last
<1>. QED
  BY <1>1, <1>3, <1>5, <1>7, <1>8

\* A file that is listed in a folder has the folder's path and its name.
LEMMA ChildAt ==
    ASSUME NEW t, NEW p \in AnyPath, NEW id \in IdsAt(t, p), NEW i \in Children(t, id),
           Append(p, t[i].name) \in Paths
    PROVE  i \in IdsAt(t, Append(p, t[i].name))
<1>1. PICK a, x : x = t[i].name /\ a = Append(p, x)
  OBVIOUS
<1>2. a \in Paths /\ Len(a) = Len(p) + 1 /\ a[Len(p) + 1] = x /\ SubSeq(a, 1, Len(p)) = p
  BY <1>1, AppendFacts
<1>3. Len(p) \in Nat /\ Len(a) - 1 = Len(p)
  BY <1>2, PathFacts
<1>4. i \in Live(t) /\ t[i].parent = id
  BY DEF Children
<1>5. a[Len(a)] = x /\ SubSeq(a, 1, Len(a) - 1) = p
  BY <1>2, <1>3
<1>6. i \in IdsAt(t, a)
  BY <1>1, <1>2, <1>4, <1>5, IdsAtStep
<1>. QED
  BY <1>1, <1>6

\* Of files there is a first one and a last one.
LEMMA Extremes ==
    ASSUME NEW F \in SUBSET Listed, F # {}
    PROVE  /\ \E f \in F : \A g \in F : f.id <= g.id
           /\ \E f \in F : \A g \in F : f.id >= g.id
<1> DEFINE A == {f.id : f \in F}
           B == {MaxIds - f.id : f \in F}
<1>0. MaxIds \in Nat /\ \A f \in F : f.id \in Nat /\ f.id <= MaxIds
  BY DriveAssumption DEF Listed, Ids
<1>1. A \subseteq Nat /\ A # {} /\ B \subseteq Nat /\ B # {}
  BY <1>0
<1>2. PICK a \in A : \A b \in A : <<b, a>> \notin OpToRel(<, Nat)
  <2>. HIDE DEF A, B
  <2>. QED
    BY <1>1, NatLessThanWellFounded, WFMin
<1>3. PICK c \in B : \A b \in B : <<b, c>> \notin OpToRel(<, Nat)
  <2>. HIDE DEF A, B
  <2>. QED
    BY <1>1, NatLessThanWellFounded, WFMin
<1>4. \E f \in F : \A g \in F : f.id <= g.id
  <2>1. PICK f \in F : f.id = a
    OBVIOUS
  <2>2. ASSUME NEW g \in F PROVE f.id <= g.id
    <3>1. ~ (g.id < a)
      BY <1>0, <1>1, <1>2 DEF OpToRel
    <3>. QED
      BY <1>0, <2>1, <3>1
  <2>. QED
    BY <2>2
<1>5. \E f \in F : \A g \in F : f.id >= g.id
  <2>1. PICK f \in F : MaxIds - f.id = c
    OBVIOUS
  <2>2. ASSUME NEW g \in F PROVE f.id >= g.id
    <3>1. ~ (MaxIds - g.id < c)
      BY <1>0, <1>1, <1>3 DEF OpToRel
    <3>. QED
      BY <1>0, <2>1, <3>1
  <2>. QED
    BY <2>2
<1>. QED
  BY <1>4, <1>5

LEMMA PickFacts ==
    ASSUME NEW F \in SUBSET Listed, NEW name
    PROVE  \/ Pick(F, name) = NoEntry /\ \A f \in F : f.name # name
           \/ Pick(F, name) # NoEntry /\ Pick(F, name) \in F /\ Pick(F, name).name = name
<1>1. PICK found : found = {f \in F : f.name = name}
  OBVIOUS
<1>2. CASE found = {}
  BY <1>1, <1>2 DEF Pick
<1>3. CASE found # {}
  <2>1. \E f \in found : \A g \in found : f.id <= g.id
    BY <1>1, <1>3, Extremes
  <2>2. Pick(F, name) \in found
    BY <1>1, <1>3, <2>1 DEF Pick
  <2>3. NoEntry \notin F
    BY DEF NoEntry, Listed
  <2>. QED
    BY <1>1, <2>2, <2>3
<1>. QED
  BY <1>2, <1>3

\* The cache takes the children of a folder.
LEMMA CacheFills ==
    ASSUME DriveInv, NEW p \in AnyPath, NEW F \in SUBSET Listed, NEW doubt \in BOOLEAN,
           ~doubt => \A f \in F : Append(p, f.name) \in Paths => f.id \in IdsAt(tree, Append(p, f.name)),
           cache' = CacheChildren(p, F, doubt), tree' = tree, Dropping => Dropping'
    PROVE  CacheOK' /\ cache' \in [Paths -> [entry : Entry, taint : BOOLEAN]]
<1>1. ASSUME NEW path \in Paths
      PROVE  /\ cache'[path] \in [entry : Entry, taint : BOOLEAN]
             /\ cache'[path].entry # NoEntry =>
                  /\ cache'[path].entry.id \in Ids /\ cache'[path].entry.name = Last(path)
                  /\ ~cache'[path].taint /\ ~Dropping' => cache'[path].entry.id \in IdsAt(tree', path)
  <2>1. PICK found : found = {f \in F : path = Append(p, f.name)}
    OBVIOUS
  <2>2. cache'[path] = IF found = {} THEN cache[path]
                       ELSE [entry |-> CHOOSE f \in found : \A g \in found : f.id >= g.id, taint |-> doubt]
    BY <2>1 DEF CacheChildren
  <2>3. CASE found = {}
    BY <2>2, <2>3 DEF DriveInv, CacheOK
  <2>4. CASE found # {}
    <3>1. \E f \in found : \A g \in found : f.id >= g.id
      BY <2>1, <2>4, Extremes
    <3>2. PICK f \in found : cache'[path] = [entry |-> f, taint |-> doubt]
      BY <2>2, <2>4, <3>1
    <3>3. f \in Listed /\ f \in F /\ path = Append(p, f.name) /\ f.id \in Ids /\ f \in Entry
      BY <2>1 DEF Listed, Entry, AnyId
    <3>4. Last(path) = f.name
      BY <3>3, AppendFacts
    <3>. QED
      BY <3>2, <3>3, <3>4
  <2>. QED
    BY <2>3, <2>4
<1>2. DOMAIN cache' = Paths /\ cache' = [path \in Paths |-> cache'[path]]
  BY DEF CacheChildren
<1>3. CacheOK'
  BY <1>1 DEF CacheOK
<1>4. cache' \in [Paths -> [entry : Entry, taint : BOOLEAN]]
  BY <1>1, <1>2
<1>. QED
  BY <1>3, <1>4

\* Files that were listed without a change since
LEMMA ListingFacts ==
    ASSUME DriveInv, NEW q, RequestOK(tree, q), q.pc = "listed", ~q.late, NEW p \in AnyPath,
           ListedId(q) \in IdsAt(tree, p)
    PROVE  \A f \in q.files : Append(p, f.name) \in Paths => f.id \in IdsAt(tree, Append(p, f.name))
<1>. SUFFICES ASSUME NEW f \in q.files, Append(p, f.name) \in Paths
              PROVE  f.id \in IdsAt(tree, Append(p, f.name))
  OBVIOUS
<1>1. PICK i \in Children(tree, ListedId(q)) : f = EntryOf(tree, i)
  BY DEF RequestOK, Lists
<1>2. f.id = i /\ f.name = tree[i].name
  BY <1>1 DEF EntryOf
<1>3. PICK id : id = ListedId(q)
  OBVIOUS
<1>4. Append(p, tree[i].name) \in Paths /\ i \in Children(tree, id) /\ id \in IdsAt(tree, p)
  BY <1>1, <1>2, <1>3
<1>. QED
  BY <1>2, <1>4, ChildAt

LEMMA ListListedKeeps ==
    ASSUME DriveInv, AtWork, NEW r \in Slots, ListListed(r)
    PROVE  DriveInv'
<1>1. PICK q : q = req[r] /\ RequestOK(tree, q) /\ q.pc = "listed" /\ Stage(q) = "list"
  BY DEF DriveInv, ListListed
<1>2. Working(q)
  BY <1>1 DEF Working
<1>3. q \in Request /\ q.op \in Ops /\ q.op \in Op /\ q.op.path \in AnyPath
      /\ q.stage \in Nat /\ q.stage >= 1 /\ q.stage <= Len(Program(q.op))
  BY <1>1, <1>2, OpFacts
<1>4. q.stage = 2 /\ q.op.kind = "list" /\ Len(Program(q.op)) = 2
  BY <1>1, <1>3, Programs DEF Stage
<1>5. PICK x : x = Enter(q, q.stage + 1) /\ Put(r, x)
  BY <1>1 DEF ListListed
<1>6. x = Finish(q)
  BY <1>4, <1>5 DEF Enter
<1>7. RequestOK(tree, x)
  BY <1>6, FinishOK
<1>8. /\ \A s \in Slots : RequestOK(tree', req'[s])
      /\ \A s \in Slots \ {r} : req'[s].pc = req[s].pc
      /\ UNCHANGED <<tree, asked, doubled, hit>>
  BY <1>5, <1>7, PutKeeps DEF DriveInv, ListListed
<1>9. Dropping => Dropping'
  BY <1>1, <1>8 DEF Dropping
<1>10. PICK d \in BOOLEAN : d = (q.old \/ q.doubt)
  BY <1>3 DEF Request
<1>11. ~d => ~q.late /\ ListedId(q) \in IdsAt(tree, q.op.path)
  <2>. HAVE ~d
  <2>1. ~q.late
    BY <1>1, <1>10 DEF RequestOK, Lists
  <2>2. q.file.id \in IdsAt(tree, q.op.path)
    <3>1. ~q.old /\ ~q.doubt
      BY <1>10
    <3>2. HasFile(q)
      BY <1>2, <1>4 DEF HasFile
    <3>3. Finds(tree, q)
      BY <1>1 DEF RequestOK
    <3>. QED
      BY <3>1, <3>2, <3>3 DEF Finds
  <2>. QED
    BY <1>1, <2>1, <2>2 DEF ListedId
<1>12. ~d => \A f \in q.files : Append(q.op.path, f.name) \in Paths => f.id \in IdsAt(tree, Append(q.op.path, f.name))
  BY <1>1, <1>3, <1>11, ListingFacts
<1>13. PICK p \in AnyPath, F \in SUBSET Listed : p = q.op.path /\ F = q.files
  BY <1>3 DEF Request
<1>14. cache' = CacheChildren(p, F, d)
  BY <1>1, <1>10, <1>13 DEF ListListed
<1>15. CacheOK' /\ cache' \in [Paths -> [entry : Entry, taint : BOOLEAN]]
  BY <1>8, <1>9, <1>12, <1>13, <1>14, CacheFills
<1>. QED
  BY <1>8, <1>15 DEF DriveInv, ActsOnNamedFile

LEMMA ListFilesKeeps ==
    ASSUME DriveInv, AtWork, NEW r \in Slots, ListFiles(r)
    PROVE  DriveInv'
<1>1. PICK q : q = req[r] /\ RequestOK(tree, q)
  BY DEF DriveInv
<1>2. \/ q.pc = "walk" /\ q.at < Len(Goal(q))
      \/ q.pc = "call" /\ Stage(q) = "list"
  BY <1>1 DEF ListFiles, Authorized, Calling
<1>3. Working(q)
  BY <1>2 DEF Working
<1>4. /\ q \in Request /\ q.op \in Ops /\ Goal(q) \in AnyPath /\ q.at \in Nat
      /\ q.late \in BOOLEAN /\ q.strayed \in BOOLEAN
  BY <1>1, <1>3, OpFacts DEF Request
<1>5. PICK id : id = IF q.pc = "walk" THEN q.cur.id ELSE q.file.id
  OBVIOUS
<1>6. PICK F : F = {EntryOf(tree, i) : i \in Children(tree, id)}
  OBVIOUS
<1>7. F \in SUBSET Listed
  BY <1>6 DEF DriveInv, EntryOf, Children, Live, Listed, File
<1>8. PICK st \in BOOLEAN : st = (q.strayed \/ (q.late /\ q.at > 0 /\ Stage(q) = "file"))
  BY <1>4
<1>9. PICK p : p = [q EXCEPT !.pc = "listed", !.late = FALSE, !.strayed = st, !.files = F]
  OBVIOUS
<1>10. Put(r, IF q.pc = "call" /\ q.file.kind # "folder" THEN Finish(q) ELSE p)
  <2>1. p = [q EXCEPT !.pc = "listed", !.late = FALSE,
                      !.strayed = @ \/ (q.late /\ q.at > 0 /\ Stage(q) = "file"), !.files = F]
    BY <1>8, <1>9
  <2>. QED
    BY <1>1, <1>5, <1>6, <2>1 DEF ListFiles
<1>11. /\ p \in Request /\ p.pc = "listed" /\ p.op = q.op /\ p.stage = q.stage /\ p.at = q.at /\ p.cur = q.cur
       /\ p.files = F /\ p.file = q.file /\ p.dir = q.dir /\ p.old = q.old /\ p.late = FALSE
       /\ p.named = q.named /\ p.doubt = q.doubt /\ p.strayed = st
  BY <1>4, <1>7, <1>8, <1>9, ZenonT(60) DEF Request
<1>12. Stage(p) = Stage(q) /\ Goal(p) = Goal(q) /\ Prefix(p) = Prefix(q) /\ (~st => ~q.strayed)
  BY <1>8, <1>11 DEF Stage, Goal, Prefix
<1>13. Stage(q) \in Resolving \cup {"list"} /\ (q.pc = "walk" <=> Stage(q) \in Resolving)
  BY <1>1, <1>2, <1>3 DEF RequestOK, Placed, Resolving
<1>14. Placed(p)
  BY <1>1, <1>2, <1>3, <1>11, <1>12, <1>13 DEF RequestOK, Placed, Working
<1>15. Working(p) /\ HasFile(p) = HasFile(q) /\ HasDir(p) = HasDir(q) /\ Walks(p) = Walks(q) /\ ~Checked(p)
  BY <1>3, <1>11, <1>12 DEF Working, HasFile, HasDir, Walks, Checked
<1>16. Walks(q) /\ OnTheWay(p) => q.cur.id \in IdsAt(tree, Prefix(q))
  <2>. SUFFICES ASSUME Walks(q), OnTheWay(p) PROVE q.cur.id \in IdsAt(tree, Prefix(q))
    OBVIOUS
  <2>1. ~q.doubt /\ (~q.old \/ (Stage(q) = "file" /\ ~st))
    BY <1>11, <1>12 DEF OnTheWay
  <2>2. CASE OnTheWay(q)
    BY <1>1, <2>2 DEF RequestOK, Finds
  <2>3. CASE ~OnTheWay(q)
    <3>1. q.old /\ Stage(q) = "file" /\ ~st /\ q.late
      BY <1>12, <2>1, <2>3 DEF OnTheWay
    <3>2. ~ (q.at > 0)
      BY <1>8, <3>1
    <3>3. q.at = 0 /\ q.cur.id = 0
      BY <1>1, <1>3, <1>4, <3>2 DEF RequestOK, Placed, Walks, RootId
    <3>4. Prefix(q) = <<>>
      BY <1>4, <3>3, PrefixFacts, PathFacts DEF Prefix
    <3>. QED
      BY <3>3, <3>4, IdsAtRoot
  <2>. QED
    BY <2>2, <2>3
<1>17. Finds(tree, p)
  BY <1>1, <1>11, <1>12, <1>15, <1>16 DEF RequestOK, Finds
<1>18. Named(p)
  BY <1>1, <1>11, <1>15 DEF RequestOK, Named
<1>19. ListedId(p) = id
  BY <1>5, <1>11, <1>12, <1>13 DEF ListedId, Resolving
<1>20. Lists(tree, p)
  BY <1>6, <1>11, <1>15, <1>19 DEF Lists
<1>21. Remembers(tree, p)
  <2>1. IdsAt(tree, p.op.path) \subseteq p.named
    BY <1>1, <1>3, <1>11 DEF RequestOK, Remembers
  <2>2. HasFile(p) /\ ~p.doubt /\ ~p.strayed => p.file.id \in p.named
    BY <1>1, <1>11, <1>12, <1>15 DEF RequestOK, Remembers
  <2>3. ASSUME Stage(p) = "file", ~p.doubt, ~p.strayed, p.at + 1 = Len(Goal(p)),
               NEW f \in p.files, f.name = Goal(p)[p.at + 1]
        PROVE  f.id \in p.named
    <3>1. PICK i \in Children(tree, id) : f = EntryOf(tree, i)
      BY <1>6, <1>11, <2>3
    <3>2. f.id = i /\ f.name = tree[i].name
      BY <3>1 DEF EntryOf
    <3>3. OnTheWay(p) /\ Walks(q)
      BY <1>3, <1>11, <1>12, <2>3 DEF OnTheWay, Walks, Resolving
    <3>4. id = q.cur.id
      BY <1>5, <1>12, <1>13, <2>3 DEF Resolving
    <3>5. id \in IdsAt(tree, Prefix(q))
      BY <1>16, <3>3, <3>4
    <3>6. PICK goal, n, a : goal = Goal(q) /\ n = q.at /\ a = Prefix(q)
      OBVIOUS
    <3>7. goal \in AnyPath /\ n \in 0 .. Len(goal) /\ n < Len(goal) /\ n + 1 = Len(goal)
          /\ Len(goal) \in Nat /\ goal[n + 1] = tree[i].name /\ a = SubSeq(goal, 1, n)
      <4>1. goal \in AnyPath /\ Len(goal) \in Nat /\ n \in Nat /\ n + 1 = Len(goal)
        BY <1>4, <1>11, <1>12, <2>3, <3>6, PathFacts
      <4>2. goal[n + 1] = tree[i].name
        BY <1>11, <1>12, <2>3, <3>2, <3>6
      <4>3. a = SubSeq(goal, 1, n)
        BY <3>6 DEF Prefix
      <4>. QED
        BY <4>1, <4>2, <4>3
    <3>8. Append(a, tree[i].name) = SubSeq(goal, 1, n + 1)
      BY <3>7, PrefixAndName
    <3>9. Append(a, tree[i].name) = goal /\ goal \in Paths
      <4>1. PICK m \in 0 .. Len(goal) : m = n + 1 /\ m = Len(goal) /\ m # 0
        BY <3>7
      <4>2. SubSeq(goal, 1, m) = goal /\ SubSeq(goal, 1, m) \in Paths
        BY <3>7, <4>1, PrefixFacts
      <4>. QED
        BY <3>8, <4>1, <4>2
    <3>10. a \in AnyPath
      BY <3>7, PrefixFacts
    <3>11. i \in IdsAt(tree, goal)
      BY <3>1, <3>5, <3>6, <3>9, <3>10, ChildAt
    <3>12. goal = p.op.path
      BY <1>11, <1>12, <2>3, <3>6 DEF Goal
    <3>. QED
      BY <2>1, <3>2, <3>11, <3>12
  <2>. QED
    BY <1>11, <2>1, <2>2, <2>3 DEF Remembers
<1>22. RequestOK(tree, p)
  BY <1>11, <1>14, <1>17, <1>18, <1>20, <1>21 DEF RequestOK
<1>23. PICK x : Put(r, x) /\ RequestOK(tree, x)
  BY <1>10, <1>22, FinishOK
<1>24. UNCHANGED <<tree, cache, asked, doubled, hit>> /\ req[r].pc # "drop"
  BY <1>1, <1>2 DEF ListFiles
<1>. QED
  BY <1>23, <1>24, QuietStep DEF DriveInv

LEMMA CheckNameKeeps ==
    ASSUME DriveInv, AtWork, NEW r \in Slots, CheckName(r)
    PROVE  DriveInv'
<1>1. PICK q : q = req[r] /\ RequestOK(tree, q) /\ q.pc = "call" /\ Stage(q) = "check"
  BY DEF DriveInv, CheckName
<1>2. Working(q)
  BY <1>1 DEF Working
<1>3. q \in Request /\ q.op \in Ops /\ q.op \in Op /\ q.stage \in Nat /\ q.stage >= 1 /\ q.stage <= Len(Program(q.op))
  BY <1>1, <1>2, OpFacts
<1>4. (q.stage = 2 /\ q.op.kind \in DirKinds) \/ (q.stage = 3 /\ q.op.kind \in MoveKinds)
  BY <1>1, <1>3, Programs DEF Stage
<1>5. PICK p, k : p = [q EXCEPT !.late = FALSE] /\ k = q.stage + 1
  OBVIOUS
<1>6. /\ p \in Request /\ p.op = q.op /\ p.file = q.file /\ p.dir = q.dir /\ p.named = q.named
      /\ p.old = q.old /\ p.late = FALSE /\ p.doubt = q.doubt /\ p.strayed = q.strayed
  BY <1>3, <1>5 DEF Request
<1>7. k \in Nat /\ k >= 1
  BY <1>3, <1>5
<1>8. Carries(tree, p, k)
  <2>1. Carries(tree, q, q.stage)
    BY <1>1, <1>2, CarriesNow
  <2>2. CASE q.op.kind \in DirKinds
    BY <1>6, <2>1, <2>2 DEF Carries, DirKinds, FileKinds
  <2>3. CASE q.stage = 3
    BY <1>5, <1>6, <2>1, <2>3 DEF Carries
  <2>. QED
    BY <1>4, <2>2, <2>3
<1>9. PICK x : Put(r, x) /\ \/ x = Finish(q)
                            \/ x = Enter(p, k) /\ \A i \in Children(tree, q.dir.id) : tree[i].name # NewName(q)
  BY <1>1, <1>5 DEF CheckName
<1>10. RequestOK(tree, x)
  <2>1. CASE x = Finish(q)
    BY <2>1, FinishOK
  <2>2. CASE x # Finish(q)
    <3>1. NewName(p) = NewName(q)
      BY <1>6 DEF NewName
    <3>2. ~p.late /\ \A i \in Children(tree, p.dir.id) : tree[i].name # NewName(p)
      BY <1>6, <1>9, <2>2, <3>1
    <3>3. RequestOK(tree, Enter(p, k))
      BY <1>3, <1>6, <1>7, <1>8, <3>2, EnterOK
    <3>. QED
      BY <1>9, <2>2, <3>3
  <2>. QED
    BY <2>1, <2>2
<1>11. UNCHANGED <<tree, cache, asked, doubled, hit>> /\ req[r].pc # "drop"
  BY <1>1 DEF CheckName
<1>. QED
  BY <1>9, <1>10, <1>11, QuietStep DEF DriveInv

LEMMA WalkListedKeeps ==
    ASSUME DriveInv, AtWork, NEW r \in Slots, WalkListed(r)
    PROVE  DriveInv'
<1>1. PICK q : q = req[r] /\ RequestOK(tree, q) /\ q.pc = "listed" /\ Stage(q) \in Resolving
  BY DEF DriveInv, WalkListed
<1>2. Working(q) /\ Walks(q) /\ Placed(q)
  BY <1>1 DEF Working, Walks, RequestOK
<1>3. /\ q \in Request /\ q.op \in Ops /\ Goal(q) \in AnyPath /\ q.at \in Nat
      /\ q.stage \in 1 .. Len(Program(q.op)) /\ q.files \in SUBSET Listed
      /\ q.old \in BOOLEAN /\ q.doubt \in BOOLEAN
  BY <1>1, <1>2, OpFacts DEF Request, Placed
<1>4. PICK goal, n, m : goal = Goal(q) /\ n = q.at /\ m = n + 1
  OBVIOUS
<1>5. /\ goal \in AnyPath /\ Len(goal) \in Nat /\ n \in 0 .. Len(goal) /\ n < Len(goal)
      /\ m \in 0 .. Len(goal) /\ m # 0 /\ n \in Nat /\ m \in Nat
  BY <1>1, <1>2, <1>3, <1>4, PathFacts DEF Placed
<1>6. PICK name, parent, here : name = goal[m] /\ parent = SubSeq(goal, 1, n) /\ here = SubSeq(goal, 1, m)
  OBVIOUS
<1>7. /\ parent \in AnyPath /\ here \in Paths /\ parent = Prefix(q) /\ (m = Len(goal) => here = goal)
      /\ Append(parent, name) = here
  <2>1. parent \in AnyPath /\ here \in Paths /\ (m = Len(goal) => here = goal)
    BY <1>5, <1>6, PrefixFacts
  <2>2. parent = Prefix(q)
    BY <1>4, <1>6 DEF Prefix
  <2>3. Append(parent, name) = here
    BY <1>4, <1>5, <1>6, PrefixAndName
  <2>. QED
    BY <2>1, <2>2, <2>3
<1>8. PICK F \in SUBSET Listed : F = q.files
  BY <1>3
<1>9. PICK found : found = Pick(F, name)
  OBVIOUS
<1>10. \/ found = NoEntry /\ \A f \in F : f.name # name
       \/ found # NoEntry /\ found \in F /\ found.name = name
  BY <1>9, PickFacts
<1>11. PICK d \in BOOLEAN : d = (q.old \/ q.doubt)
  BY <1>3
<1>12. ListedId(q) = q.cur.id
  BY <1>1 DEF ListedId, Resolving
<1>13. OnTheWay(q) => ~q.late /\ q.cur.id \in IdsAt(tree, parent)
  BY <1>1, <1>2, <1>7 DEF RequestOK, Lists, Finds, OnTheWay
<1>14. OnTheWay(q) => \A f \in F : Append(parent, f.name) \in Paths => f.id \in IdsAt(tree, Append(parent, f.name))
  BY <1>1, <1>7, <1>8, <1>12, <1>13, ListingFacts
<1>15. found # NoEntry /\ OnTheWay(q) => found.id \in IdsAt(tree, here)
  BY <1>7, <1>10, <1>14
<1>16. PICK p : p = [q EXCEPT !.files = {}, !.at = m, !.cur = found]
  OBVIOUS
<1>17. PICK f, w : f = [q EXCEPT !.pc = "folder", !.files = {}] /\ w = [p EXCEPT !.pc = "walk"]
  OBVIOUS
<1>18. PICK x : /\ Put(r, x)
                /\ x = CASE found = NoEntry /\ Stage(q) = "ensure" -> f
                         [] found = NoEntry /\ Stage(q) # "ensure" -> Finish(q)
                         [] found # NoEntry /\ m = Len(goal) -> Resolved(p, found)
                         [] OTHER -> IF found.kind = "folder" THEN w ELSE Finish(p)
  <2>1. p = [q EXCEPT !.files = {}, !.at = @ + 1, !.cur = found]
    BY <1>4, <1>16
  <2>. QED
    BY <1>1, <1>4, <1>6, <1>8, <1>9, <1>17, <2>1, ZenonT(60) DEF WalkListed
<1>19. \/ found = NoEntry /\ Stage(q) = "ensure" /\ x = f
       \/ found # NoEntry /\ m = Len(goal) /\ x = Resolved(p, found)
       \/ found # NoEntry /\ m # Len(goal) /\ x = w
       \/ x = Finish(q) \/ x = Finish(p)
  BY <1>18
<1>20. ASSUME found = NoEntry, Stage(q) = "ensure" PROVE RequestOK(tree, f)
  <2>1. /\ f \in Request /\ f.pc = "folder" /\ f.op = q.op /\ f.stage = q.stage /\ f.at = q.at /\ f.cur = q.cur
        /\ f.file = q.file /\ f.dir = q.dir /\ f.old = q.old /\ f.late = q.late
        /\ f.named = q.named /\ f.doubt = q.doubt /\ f.strayed = q.strayed
    BY <1>3, <1>17 DEF Request
  <2>2. /\ Stage(f) = Stage(q) /\ Goal(f) = goal /\ Prefix(f) = parent /\ OnTheWay(f) = OnTheWay(q)
        /\ HasFile(f) = HasFile(q) /\ HasDir(f) = HasDir(q) /\ ~Checked(f)
    BY <1>2, <1>4, <1>6, <2>1 DEF Stage, Goal, Prefix, OnTheWay, HasFile, HasDir, Checked, Working
  <2>3. Placed(f)
    BY <1>1, <1>2, <1>4, <1>5, <1>20, <2>1, <2>2 DEF Placed, Working
  <2>4. Finds(tree, f)
    BY <1>1, <1>13, <2>1, <2>2 DEF RequestOK, Finds
  <2>5. Named(f)
    BY <1>1, <2>1, <2>2 DEF RequestOK, Named
  <2>6. Lists(tree, f)
    <3>1. f.late => f.old
      BY <1>1, <2>1 DEF RequestOK, Lists
    <3>2. ASSUME ~f.late, NEW i \in Children(tree, f.cur.id) PROVE tree[i].name # Goal(f)[f.at + 1]
      <4>1. EntryOf(tree, i) \in F
        BY <1>1, <1>8, <1>12, <2>1, <3>2 DEF RequestOK, Lists
      <4>2. EntryOf(tree, i).name # name
        BY <1>10, <1>20, <4>1
      <4>. QED
        BY <1>4, <1>6, <2>1, <2>2, <4>2 DEF EntryOf
    <3>. QED
      BY <2>1, <2>2, <3>1, <3>2 DEF Lists
  <2>7. Remembers(tree, f)
    BY <1>1, <1>2, <2>1, <2>2 DEF RequestOK, Remembers
  <2>. QED
    BY <2>1, <2>3, <2>4, <2>5, <2>6, <2>7 DEF RequestOK
<1>21. ASSUME found # NoEntry
       PROVE  /\ p \in Request /\ p.op = q.op /\ p.stage = q.stage /\ p.at = m /\ p.cur = found
              /\ p.file = q.file /\ p.dir = q.dir /\ p.old = q.old /\ p.late = q.late
              /\ p.named = q.named /\ p.doubt = q.doubt /\ p.strayed = q.strayed
              /\ Stage(p) = Stage(q) /\ Goal(p) = goal /\ found \in Entry
  <2>1. found \in Entry
    BY <1>10, <1>21 DEF Listed, Entry, AnyId
  <2>2. /\ p \in Request /\ p.op = q.op /\ p.stage = q.stage /\ p.at = m /\ p.cur = found
        /\ p.file = q.file /\ p.dir = q.dir /\ p.old = q.old /\ p.late = q.late
        /\ p.named = q.named /\ p.doubt = q.doubt /\ p.strayed = q.strayed
    BY <1>3, <1>5, <1>16, <2>1 DEF Request
  <2>. QED
    BY <1>4, <2>1, <2>2 DEF Stage, Goal
<1>22. ASSUME found # NoEntry, m = Len(goal) PROVE RequestOK(tree, Resolved(p, found))
  <2>1. Carries(tree, q, q.stage)
    BY <1>1, <1>2, CarriesNow
  <2>2. Carries(tree, p, p.stage)
    BY <1>21, <1>22, <2>1 DEF Carries
  <2>3. Last(goal) = name
    BY <1>6, <1>22 DEF Last
  <2>4. Found(tree, p, goal, found)
    BY <1>7, <1>10, <1>15, <1>21, <1>22, <2>3 DEF Found, OnTheWay
  <2>5. Stage(p) = "file" /\ ~p.doubt /\ ~p.strayed => found.id \in p.named
    BY <1>1, <1>4, <1>6, <1>8, <1>10, <1>21, <1>22 DEF RequestOK, Remembers
  <2>6. p \in Request /\ p.op \in Ops /\ p.stage \in 1 .. Len(Program(p.op)) /\ Stage(p) \in Resolving
        /\ found \in Entry /\ Found(tree, p, Goal(p), found)
    BY <1>1, <1>3, <1>21, <1>22, <2>4
  <2>. QED
    BY <2>2, <2>5, <2>6, ResolvedOK
<1>23. ASSUME found # NoEntry, m # Len(goal) PROVE RequestOK(tree, w)
  <2>1. /\ w \in Request /\ w.pc = "walk" /\ w.op = q.op /\ w.stage = q.stage /\ w.at = m /\ w.cur = found
        /\ w.file = q.file /\ w.dir = q.dir /\ w.old = q.old /\ w.late = q.late
        /\ w.named = q.named /\ w.doubt = q.doubt /\ w.strayed = q.strayed
    BY <1>17, <1>21, <1>23 DEF Request
  <2>2. /\ Stage(w) = Stage(q) /\ Goal(w) = goal /\ Prefix(w) = here /\ OnTheWay(w) = OnTheWay(q)
        /\ HasFile(w) = HasFile(q) /\ HasDir(w) = HasDir(q) /\ ~Checked(w)
    BY <1>2, <1>4, <1>6, <2>1 DEF Stage, Goal, Prefix, OnTheWay, HasFile, HasDir, Checked, Working
  <2>3. Placed(w)
    BY <1>1, <1>2, <1>4, <1>5, <1>23, <2>1, <2>2 DEF Placed, Working
  <2>4. Finds(tree, w)
    BY <1>1, <1>15, <1>23, <2>1, <2>2 DEF RequestOK, Finds
  <2>5. Named(w)
    BY <1>1, <2>1, <2>2 DEF RequestOK, Named
  <2>6. Lists(tree, w)
    BY <2>1, <2>2 DEF Lists
  <2>7. Remembers(tree, w)
    BY <1>1, <1>2, <2>1, <2>2 DEF RequestOK, Remembers
  <2>. QED
    BY <2>1, <2>3, <2>4, <2>5, <2>6, <2>7 DEF RequestOK
<1>24. RequestOK(tree, x)
  BY <1>19, <1>20, <1>22, <1>23, FinishOK, SMTT(60)
<1>25. /\ \A s \in Slots : RequestOK(tree', req'[s])
       /\ \A s \in Slots \ {r} : req'[s].pc = req[s].pc
       /\ UNCHANGED <<tree, asked, doubled, hit>>
  BY <1>18, <1>24, PutKeeps DEF DriveInv, WalkListed
<1>26. Dropping => Dropping'
  BY <1>1, <1>25, SMTT(60) DEF Dropping
<1>27. cache' = CacheChildren(parent, F, d)
  BY <1>1, <1>4, <1>6, <1>8, <1>11 DEF WalkListed
<1>28. ~d => OnTheWay(q)
  BY <1>11 DEF OnTheWay
<1>29. CacheOK' /\ cache' \in [Paths -> [entry : Entry, taint : BOOLEAN]]
  BY <1>7, <1>14, <1>25, <1>26, <1>27, <1>28, CacheFills
<1>. QED
  BY <1>25, <1>29, SMTT(60) DEF DriveInv, ActsOnNamedFile

-----------------------------------------------------------------------------
(* What the calls make of the tree *)

\* A new file changes nothing of those that are there, and is the only one of its name
\* if the folder had none.
LEMMA AddFacts ==
    ASSUME NEW t \in [Ids -> File], NEW parent \in AnyId, NEW name \in AnyName, NEW kind \in {"file", "folder"}
    PROVE  /\ Add(t, parent, name, kind) \in [Ids -> File] /\ Grows(t, Add(t, parent, name, kind))
           /\ Unique(t) /\ (\A i \in Children(t, parent) : t[i].name # name)
                => Unique(Add(t, parent, name, kind))
           /\ Fresh(t) # {} =>
                \E i : /\ i = (CHOOSE j \in Fresh(t) : TRUE)
                       /\ i \in Live(Add(t, parent, name, kind)) /\ i \in Ids
                       /\ Add(t, parent, name, kind)[i] = [parent |-> parent, name |-> name, kind |-> kind]
<1>1. PICK u : u = Add(t, parent, name, kind)
  OBVIOUS
<1>2. CASE Fresh(t) = {}
  <2>1. u = t
    BY <1>1, <1>2 DEF Add
  <2>. QED
    BY <1>1, <1>2, <2>1, GrowsItself
<1>3. CASE Fresh(t) # {}
  <2>1. PICK i : i = CHOOSE j \in Fresh(t) : TRUE
    OBVIOUS
  <2>2. i \in Fresh(t)
    BY <1>3, <2>1
  <2>3. i \in Ids /\ t[i].kind = "none"
    BY <2>2 DEF Fresh
  <2>4. PICK file : file = [parent |-> parent, name |-> name, kind |-> kind]
    OBVIOUS
  <2>5. file \in File /\ file.parent = parent /\ file.name = name /\ file.kind \in {"file", "folder"}
    BY <2>4 DEF File
  <2>6. u = [t EXCEPT ![i] = file]
    BY <1>1, <1>3, <2>1, <2>4 DEF Add
  <2>7. u \in [Ids -> File] /\ u[i] = file /\ \A j \in Ids : j # i => u[j] = t[j]
    BY <2>3, <2>5, <2>6
  <2>8. i \in Live(u) /\ i \notin Live(t) /\ \A j : j \in Live(u) <=> j = i \/ j \in Live(t)
    BY <2>3, <2>5, <2>7 DEF Live
  <2>9. Grows(t, u)
    BY <2>7, <2>8 DEF Grows, Live
  <2>10. ASSUME Unique(t), \A j \in Children(t, parent) : t[j].name # name
         PROVE  Unique(u)
    <3>. SUFFICES ASSUME NEW j \in Live(u), NEW k \in Live(u), u[j].parent = u[k].parent, u[j].name = u[k].name
                  PROVE  j = k
      BY DEF Unique
    <3>1. CASE j = i /\ k # i
      <4>1. k \in Live(t) /\ u[k] = t[k]
        BY <2>7, <2>8, <3>1 DEF Live
      <4>2. k \in Children(t, parent) /\ t[k].name = name
        BY <2>5, <2>7, <3>1, <4>1 DEF Children
      <4>. QED
        BY <2>10, <4>2
    <3>2. CASE j # i /\ k = i
      <4>1. j \in Live(t) /\ u[j] = t[j]
        BY <2>7, <2>8, <3>2 DEF Live
      <4>2. j \in Children(t, parent) /\ t[j].name = name
        BY <2>5, <2>7, <3>2, <4>1 DEF Children
      <4>. QED
        BY <2>10, <4>2
    <3>3. CASE j # i /\ k # i
      <4>1. j \in Live(t) /\ u[j] = t[j] /\ k \in Live(t) /\ u[k] = t[k]
        BY <2>7, <2>8, <3>3 DEF Live
      <4>. QED
        BY <2>10, <4>1 DEF Unique
    <3>. QED
      BY <3>1, <3>2, <3>3
  <2>. QED
    BY <1>1, <2>1, <2>3, <2>4, <2>7, <2>8, <2>9, <2>10
<1>. QED
  BY <1>2, <1>3

\* A folder is created on the way to another one.
LEMMA CreateFolderKeeps ==
    ASSUME DriveInv, AtWork, NEW r \in Slots, CreateFolder(r)
    PROVE  DriveInv'
<1>1. PICK q : q = req[r] /\ RequestOK(tree, q) /\ q.pc = "folder" /\ Stage(q) = "ensure"
  BY DEF DriveInv, CreateFolder, RequestOK, Placed
<1>2. Working(q) /\ Walks(q) /\ Placed(q)
  BY <1>1 DEF Working, Walks, RequestOK, Resolving
<1>3. /\ q \in Request /\ q.op \in Ops /\ q.op \in Op /\ Goal(q) \in AnyPath /\ q.at \in Nat
      /\ q.stage \in Nat /\ q.stage >= 1 /\ q.stage <= Len(Program(q.op))
      /\ q.old \in BOOLEAN /\ q.late \in BOOLEAN /\ q.doubt \in BOOLEAN /\ q.cur.id \in AnyId
  BY <1>1, <1>2, OpFacts DEF Request, Entry
<1>4. q.stage = 1 /\ q.op.kind \in {"import", "direct", "download"}
  BY <1>1, <1>3, Programs DEF Stage
<1>5. PICK goal, n, m : goal = Goal(q) /\ n = q.at /\ m = n + 1
  OBVIOUS
<1>6. /\ goal \in AnyPath /\ Len(goal) \in Nat /\ n \in 0 .. Len(goal) /\ n < Len(goal)
      /\ m \in 0 .. Len(goal) /\ m # 0 /\ n \in Nat /\ m \in Nat
  BY <1>1, <1>2, <1>3, <1>5, PathFacts, SMTT(60) DEF Placed
<1>7. PICK name, parent, here : name = goal[m] /\ parent = SubSeq(goal, 1, n) /\ here = SubSeq(goal, 1, m)
  OBVIOUS
<1>8. /\ parent \in AnyPath /\ here \in Paths /\ parent = Prefix(q) /\ (m = Len(goal) => here = goal)
      /\ Append(parent, name) = here /\ Last(here) = name /\ name \in AnyName
  <2>1. parent \in AnyPath /\ here \in Paths /\ (m = Len(goal) => here = goal) /\ Len(here) = m /\ here[m] = goal[m]
    BY <1>6, <1>7, PrefixFacts
  <2>2. parent = Prefix(q)
    BY <1>5, <1>7 DEF Prefix
  <2>3. Append(parent, name) = here
    BY <1>5, <1>6, <1>7, PrefixAndName
  <2>4. Last(here) = name
    BY <1>7, <2>1 DEF Last
  <2>5. name \in AnyName
    BY <1>6, <1>7, PathFacts, ElementOfSeq DEF AnyName
  <2>. QED
    BY <2>1, <2>2, <2>3, <2>4, <2>5
<1>9. PICK u, id, kind : /\ u = Add(tree, q.cur.id, name, "folder") /\ id = q.cur.id
                         /\ kind = "folder"
  OBVIOUS
<1>10. PICK i : i = CHOOSE j \in Fresh(tree) : TRUE
  BY SMTT(60)
<1>11. tree \in [Ids -> File] /\ Fresh(tree) # {} /\ tree' = u /\ u = Add(tree, id, name, kind)
  BY <1>1, <1>5, <1>7, <1>9 DEF CreateFolder, DriveInv
<1>12. /\ u \in [Ids -> File] /\ Grows(tree, u) /\ i \in Live(u) /\ i \in Ids
       /\ u[i].parent = id /\ u[i].name = name
       /\ Unique(tree) /\ (\A j \in Children(tree, id) : tree[j].name # name) => Unique(u)
  <2>1. kind \in {"file", "folder"} /\ id \in AnyId
    BY <1>3, <1>9
  <2>2. \E j : /\ j = (CHOOSE k \in Fresh(tree) : TRUE)
               /\ j \in Live(Add(tree, id, name, kind)) /\ j \in Ids
               /\ Add(tree, id, name, kind)[j] = [parent |-> id, name |-> name, kind |-> kind]
    BY <1>8, <1>11, <2>1, AddFacts, ZenonT(150)
  <2>3. i \in Live(u) /\ i \in Ids /\ u[i] = [parent |-> id, name |-> name, kind |-> kind]
    BY <1>10, <1>11, <2>2
  <2>5. u \in [Ids -> File] /\ Grows(tree, u)
    BY <1>8, <1>11, <2>1, AddFacts
  <2>4. Unique(tree) /\ (\A j \in Children(tree, id) : tree[j].name # name) => Unique(u)
    BY <1>8, <1>11, <2>1, AddFacts
  <2>. QED
    BY <2>3, <2>4, <2>5
<1>13. OnTheWay(q) => i \in IdsAt(u, here)
  <2>. HAVE OnTheWay(q)
  <2>1. id \in IdsAt(tree, parent)
    BY <1>1, <1>2, <1>8, <1>9 DEF RequestOK, Finds
  <2>2. id \in IdsAt(u, parent)
    BY <1>12, <2>1, IdsAtGrows
  <2>3. i \in Children(u, id)
    BY <1>12 DEF Children
  <2>4. Append(parent, u[i].name) = here
    BY <1>8, <1>12
  <2>5. i \in IdsAt(u, Append(parent, u[i].name))
    BY <1>8, <2>2, <2>3, <2>4, ChildAt
  <2>. QED
    BY <2>4, <2>5
<1>14. PICK made : made = [id |-> i, kind |-> "folder", name |-> name]
  OBVIOUS
<1>15. made \in Entry /\ made.id = i /\ made.kind = "folder" /\ made.name = name
  BY <1>8, <1>12, <1>14 DEF Entry, AnyId
<1>16. PICK p : p = [q EXCEPT !.at = m, !.cur = made, !.pc = "walk"]
  BY SMTT(60)
<1>17. PICK x : PutAndTell(r, x, u) /\ x = IF m = Len(goal) THEN Resolved(p, made) ELSE p
  <2>1. p = [q EXCEPT !.at = @ + 1, !.cur = made, !.pc = "walk"]
    BY <1>5, <1>16
  <2>. QED
    BY <1>1, <1>5, <1>7, <1>10, <1>11, <1>14, <2>1, ZenonT(60) DEF CreateFolder
<1>18. /\ p \in Request /\ p.pc = "walk" /\ p.op = q.op /\ p.stage = q.stage /\ p.at = m /\ p.cur = made
       /\ p.file = q.file /\ p.dir = q.dir /\ p.old = q.old /\ p.late = q.late
       /\ p.named = q.named /\ p.doubt = q.doubt /\ p.strayed = q.strayed
       /\ Stage(p) = Stage(q) /\ Goal(p) = goal
  BY <1>3, <1>5, <1>6, <1>15, <1>16, ZenonT(60) DEF Request, Stage, Goal
<1>19. ASSUME m # Len(goal) PROVE p \in Request /\ RequestOK(u, Sees(p, u))
  <2>1. PICK e : e = Sees(p, u)
    OBVIOUS
  <2>2. /\ e \in Request /\ e.pc = "walk" /\ e.op = q.op /\ e.stage = q.stage /\ e.at = m /\ e.cur = made
        /\ e.file = q.file /\ e.dir = q.dir /\ e.old = q.old /\ e.late = q.late
        /\ e.doubt = q.doubt /\ e.strayed = q.strayed
        /\ IdsAt(u, e.op.path) \subseteq e.named
    BY <1>18, <2>1, SeesFacts
  <2>3. /\ Stage(e) = Stage(q) /\ Goal(e) = goal /\ Prefix(e) = here /\ OnTheWay(e) = OnTheWay(q)
        /\ ~HasFile(e) /\ ~HasDir(e) /\ ~Checked(e)
    BY <1>4, <1>5, <1>7, <2>2 DEF Stage, Goal, Prefix, OnTheWay, HasFile, HasDir, Checked
  <2>4. Placed(e)
    BY <1>1, <1>2, <1>6, <1>19, <2>2, <2>3 DEF Placed, Working
  <2>5. Finds(u, e)
    BY <1>13, <1>15, <2>2, <2>3 DEF Finds
  <2>6. Named(e) /\ Lists(u, e)
    BY <2>2, <2>3 DEF Named, Lists
  <2>7. Remembers(u, e)
    BY <2>2, <2>3 DEF Remembers
  <2>. QED
    BY <1>18, <2>1, <2>2, <2>4, <2>5, <2>6, <2>7 DEF RequestOK
<1>20. ASSUME m = Len(goal) PROVE Resolved(p, made) \in Request /\ RequestOK(u, Sees(Resolved(p, made), u))
  <2>1. PICK c, k, two : c = [p EXCEPT !.dir = made] /\ k = p.stage + 1 /\ two = 2
    OBVIOUS
  <2>2. Resolved(p, made) = Enter(c, k) /\ k = two
    BY <1>1, <1>4, <1>15, <1>18, <2>1 DEF Resolved
  <2>3. c \in Request /\ c.op = q.op
    BY <1>15, <1>18, <2>1 DEF Request
  <2>4. Program(q.op)[two] = "check" /\ two \in Nat /\ two <= Len(Program(q.op)) /\ two = 2
    <3>1. two \in Nat /\ two >= 1 /\ two = 2
      BY <2>1
    <3>2. PICK len : len = Len(Program(q.op))
      OBVIOUS
    <3>3. two <= len
      <4>1. len = 3 \/ len = 4
        BY <1>3, <1>4, <3>1, <3>2, Programs, Zenon
      <4>. QED
        BY <3>1, <4>1
    <3>4. Program(q.op)[two] = "check" <=> (two = 2 /\ q.op.kind \in DirKinds) \/ (two = 3 /\ q.op.kind \in MoveKinds)
      BY <1>3, <3>1, <3>2, <3>3, Programs
    <3>. QED
      BY <1>4, <3>1, <3>2, <3>3, <3>4 DEF DirKinds
  <2>5. PICK b : b = [c EXCEPT !.stage = two, !.files = {}, !.at = 0, !.cur = RootEntry, !.pc = "call"]
    OBVIOUS
  <2>6. Resolved(p, made) = b
    BY <2>2, <2>3, <2>4, <2>5 DEF Enter, Resolving
  <2>7. b \in Request /\ b.pc = "call" /\ b.op = q.op /\ b.stage = two
    BY <2>3, <2>4, <2>5, Entries, ZenonT(60) DEF Request
  <2>8. PICK e : e = Sees(b, u)
    OBVIOUS
  <2>9. e \in Request /\ e.pc = "call" /\ e.op = q.op /\ e.stage = two /\ IdsAt(u, e.op.path) \subseteq e.named
    BY <2>7, <2>8, SeesFacts
  <2>10. Stage(e) = "check" /\ ~HasFile(e) /\ ~HasDir(e) /\ ~Checked(e) /\ ~Walks(e)
    BY <1>4, <2>4, <2>9 DEF Stage, HasFile, HasDir, Checked, Walks, Resolving
  <2>11. Placed(e)
    BY <1>3, <2>4, <2>9, <2>10 DEF Placed, Working, Resolving
  <2>12. Finds(u, e) /\ Named(e) /\ Lists(u, e) /\ Remembers(u, e)
    BY <2>9, <2>10 DEF Finds, Named, Lists, Remembers
  <2>. QED
    BY <2>6, <2>7, <2>8, <2>9, <2>11, <2>12 DEF RequestOK
<1>21. x \in Request /\ RequestOK(u, Sees(x, u))
  BY <1>17, <1>19, <1>20, SMTT(60)
<1>22. /\ \A s \in Slots : RequestOK(tree', req'[s])
       /\ \A s \in Slots \ {r} : req'[s].pc = req[s].pc
       /\ UNCHANGED <<asked, hit>>
  BY <1>11, <1>17, <1>21, TellKeeps DEF DriveInv, CreateFolder
<1>23. Dropping => Dropping'
  BY <1>1, <1>22 DEF Dropping
<1>24. PICK d \in BOOLEAN : d = (q.old \/ q.doubt)
  BY <1>3, SMTT(60)
<1>25. cache' = [cache EXCEPT ![here] = [entry |-> made, taint |-> d]]
  BY <1>1, <1>5, <1>7, <1>10, <1>14, <1>24 DEF CreateFolder
<1>26. cache \in [Paths -> [entry : Entry, taint : BOOLEAN]] /\ CacheOK
  BY DEF DriveInv
<1>27. cache' \in [Paths -> [entry : Entry, taint : BOOLEAN]]
  BY <1>8, <1>15, <1>25, <1>26
<1>28. CacheOK'
  <2>. SUFFICES ASSUME NEW path \in Paths, cache'[path].entry # NoEntry
                PROVE  /\ cache'[path].entry.id \in Ids /\ cache'[path].entry.name = Last(path)
                       /\ ~cache'[path].taint /\ ~Dropping' => cache'[path].entry.id \in IdsAt(tree', path)
    BY DEF CacheOK
  <2>1. CASE path = here
    <3>1. cache'[path].entry = made /\ cache'[path].taint = d
      BY <1>8, <1>25, <1>26, <2>1
    <3>2. ~d => OnTheWay(q)
      BY <1>24 DEF OnTheWay
    <3>. QED
      BY <1>8, <1>11, <1>12, <1>13, <1>15, <2>1, <3>1, <3>2
  <2>2. CASE path # here
    <3>1. cache'[path] = cache[path]
      BY <1>25, <1>26, <2>2
    <3>. QED
      BY <1>11, <1>12, <1>23, <1>26, <3>1, IdsAtGrows DEF CacheOK
  <2>. QED
    BY <2>1, <2>2
<1>29. doubled' \in BOOLEAN /\ (doubled' \/ Unique(tree'))
  <2>1. doubled \in BOOLEAN /\ (doubled \/ Unique(tree)) /\ doubled' = (doubled \/ q.late \/ q.doubt)
    BY <1>1 DEF DriveInv, CreateFolder
  <2>2. ASSUME ~doubled, ~q.late PROVE Unique(u)
    <3>1. \A j \in Children(tree, id) : tree[j].name # name
      BY <1>1, <1>5, <1>7, <1>9, <2>2 DEF RequestOK, Lists
    <3>. QED
      BY <1>12, <2>1, <2>2, <3>1
  <2>. QED
    BY <1>3, <1>11, <2>1, <2>2, SMTT(60)
<1>. QED
  BY <1>11, <1>12, <1>22, <1>27, <1>28, <1>29 DEF DriveInv, ActsOnNamedFile

\* A file that is put elsewhere or gets another name is the only one there if the folder
\* had none of that name.
LEMMA ReplacedFacts ==
    ASSUME NEW t \in [Ids -> File], NEW i \in Live(t), NEW file \in File, file.kind \in {"file", "folder"}
    PROVE  /\ [t EXCEPT ![i] = file] \in [Ids -> File]
           /\ Unique(t) /\ (\A j \in Children(t, file.parent) : t[j].name # file.name)
                => Unique([t EXCEPT ![i] = file])
<1>1. PICK u : u = [t EXCEPT ![i] = file]
  OBVIOUS
<1>2. i \in Ids
  BY DEF Live
<1>3. u \in [Ids -> File] /\ u[i] = file /\ \A j \in Ids : j # i => u[j] = t[j]
  BY <1>1, <1>2
<1>4. \A j : j \in Live(u) => j \in Live(t)
  BY <1>3 DEF Live
<1>5. ASSUME Unique(t), \A j \in Children(t, file.parent) : t[j].name # file.name
      PROVE  Unique(u)
  <2>. SUFFICES ASSUME NEW j \in Live(u), NEW k \in Live(u), u[j].parent = u[k].parent, u[j].name = u[k].name
                PROVE  j = k
    BY DEF Unique
  <2>1. CASE j = i /\ k # i
    <3>1. k \in Live(t) /\ u[k] = t[k]
      BY <1>3, <1>4, <2>1 DEF Live
    <3>2. k \in Children(t, file.parent) /\ t[k].name = file.name
      BY <1>3, <2>1, <3>1 DEF Children
    <3>. QED
      BY <1>5, <3>2
  <2>2. CASE j # i /\ k = i
    <3>1. j \in Live(t) /\ u[j] = t[j]
      BY <1>3, <1>4, <2>2 DEF Live
    <3>2. j \in Children(t, file.parent) /\ t[j].name = file.name
      BY <1>3, <2>2, <3>1 DEF Children
    <3>. QED
      BY <1>5, <3>2
  <2>3. CASE j # i /\ k # i
    <3>1. j \in Live(t) /\ u[j] = t[j] /\ k \in Live(t) /\ u[k] = t[k]
      BY <1>3, <1>4, <2>3 DEF Live
    <3>. QED
      BY <1>5, <3>1 DEF Unique
  <2>. QED
    BY <2>1, <2>2, <2>3
<1>. QED
  BY <1>1, <1>3, <1>5

\* The calls, by the operation they are for
LEMMA CallStages ==
    ASSUME NEW t, NEW q, RequestOK(t, q), q.pc = "call", Stage(q) \notin {"list", "check", "put"}
    PROVE  /\ \/ Stage(q) \in {"create", "upload", "offline"} /\ q.op.kind \in DirKinds /\ q.stage = 3
              \/ Stage(q) \in {"rename", "move", "copy"} /\ q.op.kind = Stage(q) /\ q.stage = 4
              \/ Stage(q) = "trash" /\ q.op.kind = "delete" /\ q.stage = 2
              \/ Stage(q) = "poll" /\ q.op.kind = "status" /\ q.stage = 1
           /\ Stage(q) = "upload" <=> q.op.kind \in {"import", "direct"}
<1>1. Working(q) /\ Stage(q) \notin Resolving
  BY DEF Working, RequestOK, Placed
<1>2. q \in Request /\ q.op \in Ops /\ q.op \in Op /\ q.stage \in Nat /\ q.stage >= 1 /\ q.stage <= Len(Program(q.op))
  BY <1>1, OpFacts
<1>3. PICK op, k, st : op = q.op /\ k = q.stage /\ st = Program(op)[k]
  OBVIOUS
<1>4. op \in Op /\ k \in Nat /\ k >= 1 /\ k <= Len(Program(op))
  BY <1>2, <1>3
<1>5. /\ k <= 4
      /\ st = "file" <=> k = 1 /\ op.kind \in FileKinds \cup {"stat"}
      /\ st = "dir" <=> (k = 1 /\ op.kind = "mkdir") \/ (k = 2 /\ op.kind \in MoveKinds)
      /\ st = "ensure" <=> k = 1 /\ op.kind \in {"import", "direct", "download"}
      /\ st = "check" <=> (k = 2 /\ op.kind \in DirKinds) \/ (k = 3 /\ op.kind \in MoveKinds)
      /\ st = "list" <=> k = 2 /\ op.kind = "list"
      /\ st = "create" <=> k = 3 /\ op.kind = "mkdir"
      /\ st = "upload" <=> k = 3 /\ op.kind \in {"import", "direct"}
      /\ st = "offline" <=> k = 3 /\ op.kind = "download"
      /\ st = "put" <=> k = 4 /\ op.kind = "import"
      /\ st = "rename" <=> k = 4 /\ op.kind = "rename"
      /\ st = "move" <=> k = 4 /\ op.kind = "move"
      /\ st = "copy" <=> k = 4 /\ op.kind = "copy"
      /\ st = "trash" <=> k = 2 /\ op.kind = "delete"
      /\ st = "poll" <=> k = 1 /\ op.kind = "status"
  BY <1>3, <1>4, Programs, SMTT(60)
<1>6. PICK len : len = Len(Program(op))
  OBVIOUS
<1>7. /\ op.kind = "list" => len = 2
      /\ op.kind = "stat" => len = 1
      /\ op.kind = "mkdir" => len = 3
      /\ op.kind = "delete" => len = 2
      /\ op.kind \in {"direct", "download"} => len = 3
      /\ op.kind = "complete" => len = 0
      /\ op.kind = "status" => len = 1
  BY <1>4, <1>6, Programs, ZenonT(60)
<1>8. op.kind \in {"list", "stat", "mkdir", "rename", "move", "copy", "delete", "import", "direct",
                   "complete", "download", "status"}
  BY <1>4 DEF Op
<1>9. st = Stage(q) /\ st \notin {"file", "dir", "ensure", "list", "check", "put"}
  BY <1>1, <1>3 DEF Stage, Resolving
<1>10. k <= len
  BY <1>4, <1>6
<1>11. /\ \/ st \in {"create", "upload", "offline"} /\ op.kind \in DirKinds /\ k = 3
          \/ st \in {"rename", "move", "copy"} /\ op.kind = st /\ k = 4
          \/ st = "trash" /\ op.kind = "delete" /\ k = 2
          \/ st = "poll" /\ op.kind = "status" /\ k = 1
       /\ st = "upload" <=> op.kind \in {"import", "direct"}
  <2>1. k = 1 \/ k = 2 \/ k = 3 \/ k = 4
    BY <1>4, <1>5
  <2>2. CASE k = 1
    BY <1>5, <1>7, <1>8, <1>9, <1>10, <2>2 DEF FileKinds, DirKinds, MoveKinds
  <2>3. CASE k = 2
    BY <1>5, <1>7, <1>8, <1>9, <1>10, <2>3 DEF FileKinds, DirKinds, MoveKinds
  <2>4. CASE k = 3
    BY <1>5, <1>7, <1>8, <1>9, <1>10, <2>4 DEF FileKinds, DirKinds, MoveKinds
  <2>5. CASE k = 4
    BY <1>5, <1>7, <1>8, <1>9, <1>10, <2>5 DEF FileKinds, DirKinds, MoveKinds
  <2>. QED
    BY <2>1, <2>2, <2>3, <2>4, <2>5
<1>. QED
  BY <1>3, <1>9, <1>11

\* What a call makes of the tree, and when it leaves all names different
LEMMA EffectFacts ==
    ASSUME NEW t \in [Ids -> File], NEW q \in Request, q.op.name \in AnyName
    PROVE  /\ Effect(t, q) \in [Ids -> File]
           /\ Stage(q) \in Creates \cup {"poll"} => Grows(t, Effect(t, q))
<1>1. PICK st, parent, name, id : st = Stage(q) /\ parent = q.dir.id /\ name = q.op.name /\ id = q.file.id
  OBVIOUS
<1>2. parent \in AnyId /\ name \in AnyName /\ id \in AnyId
  BY <1>1 DEF Request, Entry
<1>3. PICK u : u = Effect(t, q)
  BY SMTT(60)
<1>4. \/ st = "create" /\ u = Add(t, parent, name, "folder")
      \/ st \in {"upload", "offline"} /\ u = Add(t, parent, name, "file")
      \/ st = "copy" /\ id \in Live(t) /\ u = Add(t, parent, t[id].name, t[id].kind)
      \/ st = "rename" /\ id \in Live(t) /\ u = [t EXCEPT ![id].name = name]
      \/ st = "move" /\ id \in Live(t) /\ u = [t EXCEPT ![id].parent = parent]
      \/ st = "trash" /\ u = [i \in Ids |-> IF i = id \/ (i \in Live(t) /\ t[i].parent = id) THEN Gone ELSE t[i]]
      \/ u = t
  BY <1>1, <1>3 DEF Effect
<1>5. PICK file, folder : file = "file" /\ folder = "folder"
  OBVIOUS
<1>6. file \in {"file", "folder"} /\ folder \in {"file", "folder"}
  BY <1>5
<1>7. CASE st = "create" /\ u = Add(t, parent, name, "folder")
  <2>1. u = Add(t, parent, name, folder)
    BY <1>5, <1>7
  <2>2. Add(t, parent, name, folder) \in [Ids -> File] /\ Grows(t, Add(t, parent, name, folder))
    BY <1>2, <1>6, AddFacts
  <2>. QED
    BY <1>3, <2>1, <2>2
<1>8. CASE st \in {"upload", "offline"} /\ u = Add(t, parent, name, "file")
  <2>1. u = Add(t, parent, name, file)
    BY <1>5, <1>8
  <2>2. Add(t, parent, name, file) \in [Ids -> File] /\ Grows(t, Add(t, parent, name, file))
    BY <1>2, <1>6, AddFacts
  <2>. QED
    BY <1>3, <2>1, <2>2
<1>9. CASE st = "copy" /\ id \in Live(t) /\ u = Add(t, parent, t[id].name, t[id].kind)
  <2>1. PICK n, k : n = t[id].name /\ k = t[id].kind
    OBVIOUS
  <2>2. n \in AnyName /\ k \in {"file", "folder"}
    BY <1>9, <2>1 DEF Live, File
  <2>3. u = Add(t, parent, n, k)
    BY <1>9, <2>1
  <2>4. Add(t, parent, n, k) \in [Ids -> File] /\ Grows(t, Add(t, parent, n, k))
    BY <1>2, <2>2, AddFacts
  <2>. QED
    BY <1>3, <2>3, <2>4
<1>10. CASE st = "rename" /\ id \in Live(t) /\ u = [t EXCEPT ![id].name = name]
  <2>1. u \in [Ids -> File]
    BY <1>2, <1>10 DEF Live, File
  <2>. QED
    BY <1>1, <1>3, <1>10, <2>1 DEF Creates
<1>11. CASE st = "move" /\ id \in Live(t) /\ u = [t EXCEPT ![id].parent = parent]
  <2>1. u \in [Ids -> File]
    BY <1>2, <1>11 DEF Live, File
  <2>. QED
    BY <1>1, <1>3, <1>11, <2>1 DEF Creates
<1>12. CASE /\ st = "trash"
            /\ u = [i \in Ids |-> IF i = id \/ (i \in Live(t) /\ t[i].parent = id) THEN Gone ELSE t[i]]
  <2>1. Gone \in File
    BY DEF Gone, Absent, File, AnyId, AnyName, RootId
  <2>2. u \in [Ids -> File]
    BY <1>12, <2>1
  <2>. QED
    BY <1>1, <1>3, <1>12, <2>2 DEF Creates
<1>13. CASE u = t
  BY <1>3, <1>13, GrowsItself
<1>. QED
  BY <1>4, <1>7, <1>8, <1>9, <1>10, <1>11, <1>12, <1>13

LEMMA EffectUnique ==
    ASSUME NEW t \in [Ids -> File], Unique(t), NEW q, RequestOK(t, q), q.pc = "call",
           Stage(q) \notin {"list", "check", "put"}, ~Outdated(q) \/ Stage(q) \in {"trash", "poll"}
    PROVE  Unique(Effect(t, q))
<1>1. /\ \/ Stage(q) \in {"create", "upload", "offline"} /\ q.op.kind \in DirKinds /\ q.stage = 3
         \/ Stage(q) \in {"rename", "move", "copy"} /\ q.op.kind = Stage(q) /\ q.stage = 4
         \/ Stage(q) = "trash" /\ q.op.kind = "delete" /\ q.stage = 2
         \/ Stage(q) = "poll" /\ q.op.kind = "status" /\ q.stage = 1
  BY CallStages
<1>2. Working(q) /\ q \in Request /\ q.op \in Ops
  BY OpFacts DEF Working
<1>3. q.op.path \in AnyPath /\ q.op.dir \in AnyPath /\ q.op.name \in AnyName
  BY <1>2, OpFacts DEF AnyName
<1>4. PICK st, parent, name, id : st = Stage(q) /\ parent = q.dir.id /\ name = q.op.name /\ id = q.file.id
  OBVIOUS
<1>5. parent \in AnyId /\ name \in AnyName /\ id \in AnyId
  BY <1>2, <1>3, <1>4 DEF Request, Entry
<1>6. PICK u : u = Effect(t, q)
  OBVIOUS
<1>7. PICK file, folder : file = "file" /\ folder = "folder"
  OBVIOUS
<1>8. file \in {"file", "folder"} /\ folder \in {"file", "folder"}
  BY <1>7
<1>9. CASE st \in {"create", "upload", "offline"}
  <2>1. ~q.late
    BY <1>4, <1>9 DEF Outdated
  <2>2. Checked(q) /\ NewName(q) = name
    BY <1>1, <1>4, <1>9 DEF Checked, NewName, DirKinds
  <2>3. \A i \in Children(t, parent) : t[i].name # name
    BY <1>4, <2>1, <2>2, SMTT(60) DEF RequestOK, Lists
  <2>4. u = Add(t, parent, name, folder) \/ u = Add(t, parent, name, file)
    BY <1>4, <1>6, <1>7, <1>9 DEF Effect
  <2>5. Unique(Add(t, parent, name, folder)) /\ Unique(Add(t, parent, name, file))
    BY <1>5, <1>8, <2>3, AddFacts
  <2>. QED
    BY <1>6, <2>4, <2>5
<1>10. CASE st \in {"rename", "move", "copy"} /\ id \in Live(t)
  <2>1. ~q.doubt /\ ~q.old
    BY <1>4, <1>10 DEF Outdated
  <2>2. Checked(q) /\ HasFile(q) /\ (q.op.kind = "rename" => HasDir(q))
    BY <1>1, <1>2, <1>4, <1>10 DEF Checked, HasFile, HasDir
  <2>3. ~q.late
    BY <2>1, <2>2 DEF RequestOK, Lists
  <2>4. \A i \in Children(t, parent) : t[i].name # NewName(q)
    BY <1>4, <2>2, <2>3 DEF RequestOK, Lists
  <2>5. id \in IdsAt(t, q.op.path)
    BY <1>4, <2>1, <2>2 DEF RequestOK, Finds
  <2>6. q.op.path # <<>>
    BY <1>10, <2>5, IdsAtRoot, RootIsNoId
  <2>7. q.op.path \in Paths
    BY <1>3, <2>6 DEF AnyPath
  <2>8. t[id].name = q.op.path[Len(q.op.path)] /\ t[id].parent \in IdsAt(t, Front(q.op.path))
    BY <2>5, <2>7, IdsAtStep DEF Front
  <2>9. t[id].name = q.file.name
    BY <2>2, <2>6, <2>8 DEF RequestOK, Named, Last
  <2>10. t[id] \in File /\ t[id].kind \in {"file", "folder"} /\ id \in Ids
    BY <1>10 DEF Live
  <2>11. CASE st = "copy"
    <3>1. PICK n, k : n = t[id].name /\ k = t[id].kind
      OBVIOUS
    <3>2. n \in AnyName /\ k \in {"file", "folder"}
      BY <2>10, <3>1 DEF File
    <3>3. n = NewName(q)
      BY <1>1, <1>4, <2>9, <2>11, <3>1 DEF NewName
    <3>4. Unique(Add(t, parent, n, k))
      BY <1>5, <2>4, <3>2, <3>3, AddFacts
    <3>5. u = Add(t, parent, n, k)
      BY <1>4, <1>6, <1>10, <2>11, <3>1 DEF Effect
    <3>. QED
      BY <1>6, <3>4, <3>5
  <2>12. CASE st = "move"
    <3>1. PICK f : f = [t[id] EXCEPT !.parent = parent]
      OBVIOUS
    <3>2. f \in File /\ f.parent = parent /\ f.name = t[id].name /\ f.kind = t[id].kind
      BY <1>5, <2>10, <3>1 DEF File
    <3>3. NewName(q) = f.name
      BY <1>1, <1>4, <2>9, <2>12, <3>2 DEF NewName
    <3>4. Unique([t EXCEPT ![id] = f])
      BY <1>10, <2>4, <2>10, <3>2, <3>3, ReplacedFacts
    <3>5. u = [t EXCEPT ![id].parent = parent]
      BY <1>4, <1>6, <1>10, <2>12 DEF Effect
    <3>6. u = [t EXCEPT ![id] = f]
      BY <2>10, <3>1, <3>5
    <3>. QED
      BY <1>6, <3>4, <3>6
  <2>13. CASE st = "rename"
    <3>1. PICK f : f = [t[id] EXCEPT !.name = name]
      OBVIOUS
    <3>2. f \in File /\ f.parent = t[id].parent /\ f.name = name /\ f.kind = t[id].kind
      BY <1>5, <2>10, <3>1 DEF File
    <3>3. q.op.kind = "rename" /\ NewName(q) = name
      BY <1>1, <1>4, <2>13 DEF NewName
    <3>4. q.op.dir = Front(q.op.path)
      BY <1>2, <3>3, DriveAssumption
    <3>5. parent \in IdsAt(t, q.op.dir)
      BY <1>4, <2>1, <2>2, <3>3 DEF RequestOK, Finds
    <3>6. parent = t[id].parent
      BY <1>3, <2>8, <3>4, <3>5, IdsAtUnique
    <3>7. Unique([t EXCEPT ![id] = f])
      BY <1>10, <2>4, <2>10, <3>2, <3>3, <3>6, ReplacedFacts, ZenonT(60)
    <3>8. u = [t EXCEPT ![id].name = name]
      BY <1>4, <1>6, <1>10, <2>13 DEF Effect
    <3>9. u = [t EXCEPT ![id] = f]
      BY <2>10, <3>1, <3>8
    <3>. QED
      BY <1>6, <3>7, <3>9
  <2>. QED
    BY <1>10, <2>11, <2>12, <2>13
<1>11. CASE st \in {"rename", "move", "copy"} /\ id \notin Live(t)
  BY <1>4, <1>11 DEF Effect
<1>12. CASE st = "poll"
  BY <1>4, <1>12 DEF Effect
<1>13. CASE st = "trash"
  <2>1. u = [i \in Ids |-> IF i = id \/ (i \in Live(t) /\ t[i].parent = id) THEN Gone ELSE t[i]]
    BY <1>4, <1>6, <1>13 DEF Effect
  <2>2. ASSUME NEW i \in Live(u) PROVE i \in Live(t) /\ u[i] = t[i]
    BY <2>1, <2>2 DEF Live, Gone, Absent
  <2>. QED
    BY <1>6, <2>2 DEF Unique
<1>. QED
  BY <1>1, <1>4, <1>9, <1>10, <1>11, <1>12, <1>13

\* After its call a request ends and drops the cache, unless it only uploads: an import
\* then goes on to the store, a direct upload leaves the cache.
LEMMA AfterCall ==
    ASSUME NEW t, NEW q, RequestOK(t, q), q.pc = "call", Stage(q) \notin {"list", "check", "put"},
           NEW u, NEW x, x = Finish(q) \/ x = Enter(q, q.stage + 1)
    PROVE  x \in Request /\ RequestOK(u, Sees(x, u)) /\ (x.pc = "drop" \/ Stage(q) = "upload")
<1>1. Working(q) /\ q \in Request /\ q.op \in Ops /\ q.op \in Op
  BY OpFacts DEF Working
<1>2. /\ \/ Stage(q) \in {"create", "upload", "offline"} /\ q.op.kind \in DirKinds /\ q.stage = 3
         \/ Stage(q) \in {"rename", "move", "copy"} /\ q.op.kind = Stage(q) /\ q.stage = 4
         \/ Stage(q) = "trash" /\ q.op.kind = "delete" /\ q.stage = 2
         \/ Stage(q) = "poll" /\ q.op.kind = "status" /\ q.stage = 1
      /\ Stage(q) = "upload" <=> q.op.kind \in {"import", "direct"}
  BY CallStages
<1>3. CASE x = Finish(q)
  <2>1. x \in Request /\ x.pc \in {"idle", "drop"} /\ (Invalidates(q.op) => x.pc = "drop")
    BY <1>3, FinishOK
  <2>2. RequestOK(u, Sees(x, u))
    BY <2>1, SeesFacts
  <2>3. Stage(q) = "upload" \/ Invalidates(q.op)
    BY <1>2 DEF Invalidates, DirKinds
  <2>. QED
    BY <2>1, <2>2, <2>3
<1>4. CASE x # Finish(q)
  <2>1. PICK k, len : k = q.stage + 1 /\ len = Len(Program(q.op))
    OBVIOUS
  <2>2. x = Enter(q, k) /\ k \in Nat /\ k >= 1
    BY <1>1, <1>4, <2>1 DEF Request
  <2>3. len \in Nat /\ k <= len
    <3>1. len \in Nat
      BY <1>1, <2>1, <2>2, Programs
    <3>2. ~ (k > len)
      BY <1>4, <2>1, <2>2 DEF Enter
    <3>. QED
      BY <2>2, <3>1, <3>2
  <2>4. k = 4 /\ q.op.kind = "import"
    <3>1. /\ q.op.kind = "mkdir" => len = 3
          /\ q.op.kind \in MoveKinds => len = 4
          /\ q.op.kind = "delete" => len = 2
          /\ q.op.kind \in {"direct", "download"} => len = 3
          /\ q.op.kind = "status" => len = 1
      BY <1>1, <2>1, <2>2, Programs, ZenonT(60)
    <3>2. k = q.stage + 1 /\ k <= len /\ len \in Nat
      BY <2>1, <2>3
    <3>. QED
      BY <1>2, <3>1, <3>2 DEF DirKinds, MoveKinds
  <2>5. Program(q.op)[k] = "put"
    BY <1>1, <2>1, <2>2, <2>3, <2>4, Programs
  <2>6. PICK b : b = [q EXCEPT !.stage = k, !.files = {}, !.at = 0, !.cur = RootEntry, !.pc = "call"]
    OBVIOUS
  <2>7. x = b
    BY <2>1, <2>2, <2>3, <2>5, <2>6 DEF Enter, Resolving
  <2>8. b \in Request /\ b.pc = "call" /\ b.op = q.op /\ b.stage = k
    BY <1>1, <2>2, <2>6, Entries, ZenonT(60) DEF Request
  <2>9. PICK e : e = Sees(b, u)
    OBVIOUS
  <2>10. e \in Request /\ e.pc = "call" /\ e.op = q.op /\ e.stage = k /\ IdsAt(u, e.op.path) \subseteq e.named
    BY <2>8, <2>9, SeesFacts
  <2>11. Stage(e) = "put" /\ ~HasFile(e) /\ ~HasDir(e) /\ ~Checked(e) /\ ~Walks(e)
    BY <2>4, <2>5, <2>10 DEF Stage, HasFile, HasDir, Checked, Walks, Resolving
  <2>12. Placed(e)
    BY <1>1, <2>1, <2>2, <2>3, <2>10, <2>11 DEF Placed, Working, Resolving
  <2>13. Finds(u, e) /\ Named(e) /\ Lists(u, e) /\ Remembers(u, e)
    BY <2>10, <2>11 DEF Finds, Named, Lists, Remembers
  <2>14. Stage(q) = "upload"
    BY <1>2, <2>4
  <2>. QED
    BY <2>7, <2>8, <2>9, <2>10, <2>12, <2>13, <2>14 DEF RequestOK
<1>. QED
  BY <1>3, <1>4

LEMMA CallKeeps ==
    ASSUME DriveInv, AtWork, NEW r \in Slots, Call(r)
    PROVE  DriveInv'
<1>1. PICK q : q = req[r] /\ RequestOK(tree, q) /\ q.pc = "call" /\ Stage(q) \notin {"list", "check", "put"}
  BY DEF DriveInv, Call
<1>2. Working(q) /\ q \in Request /\ q.op \in Ops /\ q.op.name \in AnyName
  BY <1>1, OpFacts DEF Working, AnyName
<1>3. PICK once, twice : once = Effect(tree, q) /\ twice = Effect(once, q)
  OBVIOUS
<1>4. /\ tree \in [Ids -> File] /\ once \in [Ids -> File] /\ twice \in [Ids -> File]
      /\ Stage(q) \in Creates \cup {"poll"} => Grows(tree, once) /\ Grows(once, twice)
  BY <1>2, <1>3, EffectFacts DEF DriveInv
<1>5. PICK done \in BOOLEAN, outdated \in BOOLEAN, x \in {Finish(q), Enter(q, q.stage + 1)} :
         /\ outdated <=> Outdated(q)
         /\ PutAndTell(r, x, tree')
         /\ \/ tree' = once /\ doubled' = (doubled \/ (outdated /\ Stage(q) \notin {"trash", "poll"}))
            \/ Stage(q) \in Creates /\ tree' = twice /\ doubled' = TRUE
            \/ tree' = (IF done THEN once ELSE tree) /\ doubled' = (doubled \/ (done /\ outdated))
  <2>1. PICK o \in BOOLEAN : o = Outdated(q)
    BY <1>2 DEF Outdated, Request
  <2>2. \/ /\ tree' = once
           /\ doubled' = (doubled \/ (Outdated(q) /\ Stage(q) \notin {"trash", "poll"}))
           /\ PutAndTell(r, Enter(q, q.stage + 1), once)
        \/ /\ Stage(q) \in Creates
           /\ tree' = twice
           /\ doubled' = TRUE
           /\ PutAndTell(r, Enter(q, q.stage + 1), tree')
        \/ \E done \in BOOLEAN :
              /\ tree' = IF done THEN once ELSE tree
              /\ doubled' = (doubled \/ (done /\ Outdated(q)))
              /\ PutAndTell(r, Finish(q), tree')
    BY <1>1, <1>3 DEF Call
  <2>3. CASE /\ tree' = once
             /\ doubled' = (doubled \/ (Outdated(q) /\ Stage(q) \notin {"trash", "poll"}))
             /\ PutAndTell(r, Enter(q, q.stage + 1), once)
    BY <2>1, <2>3
  <2>4. CASE /\ Stage(q) \in Creates
             /\ tree' = twice
             /\ doubled' = TRUE
             /\ PutAndTell(r, Enter(q, q.stage + 1), tree')
    BY <2>1, <2>4
  <2>5. ASSUME NEW done \in BOOLEAN, tree' = IF done THEN once ELSE tree,
               doubled' = (doubled \/ (done /\ Outdated(q))), PutAndTell(r, Finish(q), tree')
        PROVE  \E d \in BOOLEAN, y \in {Finish(q)} :
                  /\ PutAndTell(r, y, tree')
                  /\ tree' = (IF d THEN once ELSE tree) /\ doubled' = (doubled \/ (d /\ o))
    BY <2>1, <2>5
  <2>. QED
    BY <2>1, <2>2, <2>3, <2>4, <2>5
<1>6. PICK u : u = tree'
  OBVIOUS
<1>7. u \in [Ids -> File] /\ (Stage(q) = "upload" => Grows(tree, u))
  <2>1. u \in {tree, once, twice}
    BY <1>5, <1>6
  <2>2. ASSUME Stage(q) = "upload" PROVE Grows(tree, once) /\ Grows(tree, twice) /\ Grows(tree, tree)
    <3>1. Grows(tree, once) /\ Grows(once, twice)
      BY <1>4, <2>2 DEF Creates
    <3>. QED
      BY <3>1 DEF Grows
  <2>. QED
    BY <1>4, <2>1, <2>2
<1>8. x \in Request /\ RequestOK(u, Sees(x, u)) /\ (x.pc = "drop" \/ Stage(q) = "upload")
  BY <1>1, <1>5, AfterCall
<1>9. PutAndTell(r, x, u)
  BY <1>5, <1>6
<1>10. /\ \A s \in Slots : RequestOK(tree', req'[s])
       /\ \A s \in Slots \ {r} : req'[s].pc = req[s].pc
       /\ req'[r].pc = x.pc
  BY <1>6, <1>8, <1>9, TellKeeps DEF DriveInv
<1>11. cache' = cache /\ asked' = asked
  BY DEF Call
<1>12. CacheOK'
  <2>1. CASE x.pc = "drop"
    <3>1. Dropping'
      BY <1>10, <2>1 DEF Dropping
    <3>. QED
      BY <1>11, <3>1, CacheDropped DEF DriveInv
  <2>2. CASE Stage(q) = "upload"
    <3>1. Dropping => Dropping'
      BY <1>1, <1>10 DEF Dropping
    <3>2. Grows(tree, tree')
      BY <1>6, <1>7, <2>2
    <3>. QED
      BY <1>11, <3>1, <3>2, CacheStays DEF DriveInv
  <2>. QED
    BY <1>8, <2>1, <2>2
<1>13. ActsOnNamedFile'
  <2>1. hit' = IF Stage(q) \in {"rename", "move", "copy", "trash"}
               THEN [id |-> q.file.id, named |-> q.named, doubt |-> q.doubt \/ q.strayed] ELSE hit
    BY <1>1 DEF Call
  <2>2. CASE Stage(q) \notin {"rename", "move", "copy", "trash"}
    BY <2>1, <2>2 DEF DriveInv, ActsOnNamedFile
  <2>3. CASE Stage(q) \in {"rename", "move", "copy", "trash"}
    <3>1. q.stage > 1 /\ q.op.kind \in {"rename", "move", "copy", "delete"}
      BY <1>1, <2>3, CallStages
    <3>2. HasFile(q)
      BY <1>2, <3>1 DEF HasFile
    <3>3. ~q.doubt /\ ~q.strayed => q.file.id \in q.named
      BY <1>1, <3>2 DEF RequestOK, Remembers
    <3>4. PICK d \in BOOLEAN : d = (q.doubt \/ q.strayed)
      BY <1>2 DEF Request
    <3>5. hit' = [id |-> q.file.id, named |-> q.named, doubt |-> d]
      BY <2>1, <2>3, <3>4
    <3>. QED
      BY <3>3, <3>4, <3>5 DEF ActsOnNamedFile
  <2>. QED
    BY <2>2, <2>3
<1>14. doubled' \in BOOLEAN /\ (doubled' \/ Unique(tree'))
  <2>1. doubled \in BOOLEAN /\ (doubled \/ Unique(tree))
    BY DEF DriveInv
  <2>2. ASSUME ~doubled, ~outdated \/ Stage(q) \in {"trash", "poll"} PROVE Unique(once)
    <3>1. Unique(tree) /\ (~Outdated(q) \/ Stage(q) \in {"trash", "poll"})
      BY <1>5, <2>1, <2>2
    <3>. QED
      BY <1>1, <1>3, <1>4, <3>1, EffectUnique
  <2>3. CASE tree' = once /\ doubled' = (doubled \/ (outdated /\ Stage(q) \notin {"trash", "poll"}))
    BY <2>1, <2>2, <2>3
  <2>4. CASE doubled' = TRUE
    BY <2>4
  <2>5. CASE tree' = (IF done THEN once ELSE tree) /\ doubled' = (doubled \/ (done /\ outdated))
    <3>1. CASE done
      BY <2>1, <2>2, <2>5, <3>1
    <3>2. CASE ~done
      BY <2>1, <2>5, <3>2
    <3>. QED
      BY <3>1, <3>2
  <2>. QED
    BY <1>5, <2>3, <2>4, <2>5
<1>. QED
  BY <1>6, <1>7, <1>10, <1>11, <1>12, <1>13, <1>14 DEF DriveInv

-----------------------------------------------------------------------------
(* The world *)

LEMMA ExpireEntryKeeps ==
    ASSUME DriveInv, NEW path \in Paths, ExpireEntry(path)
    PROVE  DriveInv'
<1>1. PICK none : none = [entry |-> NoEntry, taint |-> FALSE]
  OBVIOUS
<1>2. none \in [entry : Entry, taint : BOOLEAN] /\ none.entry = NoEntry
  BY <1>1, Entries
<1>3. NoCache[path] = none
  BY <1>1 DEF NoCache
<1>4. cache' = [cache EXCEPT ![path] = none] /\ UNCHANGED <<tree, req, asked, doubled, hit>>
  BY <1>3 DEF ExpireEntry
<1>5. cache \in [Paths -> [entry : Entry, taint : BOOLEAN]] /\ CacheOK
  BY DEF DriveInv
<1>6. cache' \in [Paths -> [entry : Entry, taint : BOOLEAN]]
  BY <1>2, <1>4, <1>5
<1>7. Dropping' <=> Dropping
  BY <1>4 DEF Dropping
<1>8. CacheOK'
  <2>. SUFFICES ASSUME NEW p \in Paths, cache'[p].entry # NoEntry
                PROVE  /\ cache'[p].entry.id \in Ids /\ cache'[p].entry.name = Last(p)
                       /\ ~cache'[p].taint /\ ~Dropping' => cache'[p].entry.id \in IdsAt(tree', p)
    BY DEF CacheOK
  <2>1. p # path
    BY <1>2, <1>4, <1>5
  <2>2. cache'[p] = cache[p]
    BY <1>4, <1>5, <2>1
  <2>. QED
    BY <1>4, <1>5, <1>7, <2>2 DEF CacheOK
<1>9. \A s \in Slots : RequestOK(tree', req'[s])
  BY <1>4 DEF DriveInv
<1>10. ActsOnNamedFile' /\ (doubled' \/ Unique(tree'))
  BY <1>4 DEF DriveInv, ActsOnNamedFile
<1>. QED
  BY <1>4, <1>6, <1>8, <1>9, <1>10 DEF DriveInv

\* All that is cached may be wrong now, and every request is told.
LEMMA OutsideKeeps ==
    ASSUME DriveInv, AtWork, Outside
    PROVE  DriveInv'
<1>1. PICK i \in Live(tree), n \in Names : tree' = [tree EXCEPT ![i].name = n]
  BY DEF Outside
<1>2. PICK u : u = tree'
  OBVIOUS
<1>3. u \in [Ids -> File]
  BY <1>1, <1>2 DEF DriveInv, File, AnyName, Live
<1>4. ASSUME NEW s \in Slots
      PROVE  RequestOK(u, req'[s]) /\ req'[s].pc = req[s].pc
  <2>1. PICK q : q = req[s] /\ RequestOK(tree, q)
    BY DEF DriveInv
  <2>2. req'[s] = IF q.pc = "idle" THEN q ELSE ToldOf(q, u)
    BY <1>2, <2>1 DEF Outside, ToldOf
  <2>3. CASE q.pc = "idle"
    BY <2>1, <2>2, <2>3, RestOK DEF RequestOK
  <2>4. CASE q.pc # "idle"
    BY <2>1, <2>2, <2>4, ToldOK
  <2>. QED
    BY <2>3, <2>4
<1>5. cache' = [p \in Paths |-> [cache[p] EXCEPT !.taint = (cache[p].entry # NoEntry)]]
  BY DEF Outside
<1>6. ASSUME NEW p \in Paths
      PROVE  /\ cache'[p] \in [entry : Entry, taint : BOOLEAN] /\ cache'[p].entry = cache[p].entry
             /\ cache[p].entry # NoEntry => cache'[p].taint = TRUE
  <2>1. PICK c : c = cache[p] /\ c \in [entry : Entry, taint : BOOLEAN]
    BY DEF DriveInv
  <2>2. PICK b \in BOOLEAN : b = (c.entry # NoEntry)
    OBVIOUS
  <2>3. cache'[p] = [c EXCEPT !.taint = b]
    BY <1>5, <2>1, <2>2
  <2>. QED
    BY <2>1, <2>2, <2>3
<1>7. cache' \in [Paths -> [entry : Entry, taint : BOOLEAN]]
  BY <1>5, <1>6
<1>8. CacheOK'
  <2>. SUFFICES ASSUME NEW p \in Paths, cache'[p].entry # NoEntry
                PROVE  /\ cache'[p].entry.id \in Ids /\ cache'[p].entry.name = Last(p)
                       /\ ~cache'[p].taint /\ ~Dropping' => cache'[p].entry.id \in IdsAt(tree', p)
    BY DEF CacheOK
  <2>1. PICK c : c = cache'[p] /\ c.entry = cache[p].entry /\ c.taint = TRUE
    BY <1>6
  <2>2. c.entry.id \in Ids /\ c.entry.name = Last(p)
    BY <2>1 DEF DriveInv, CacheOK
  <2>. QED
    BY <2>1, <2>2
<1>9. doubled' = TRUE /\ asked' = asked /\ hit' = hit
  BY DEF Outside
<1>. QED
  BY <1>2, <1>3, <1>4, <1>7, <1>8, <1>9, SMTT(60) DEF DriveInv, ActsOnNamedFile

LEMMA CrashKeeps ==
    ASSUME DriveInv, Crash
    PROVE  DriveInv'
<1>1. \A s \in Slots : req'[s] = Idle
  BY DEF Crash
<1>2. \A t : RequestOK(t, Idle)
  BY FinishOK
<1>3. \A s \in Slots : RequestOK(tree', req'[s])
  BY <1>1, <1>2
<1>4. CacheOK' /\ cache' \in [Paths -> [entry : Entry, taint : BOOLEAN]]
  BY CacheCleared DEF Crash
<1>5. UNCHANGED <<tree, asked, doubled, hit>>
  BY DEF Crash
<1>. QED
  BY <1>3, <1>4, <1>5 DEF DriveInv, ActsOnNamedFile

LEMMA NothingMoves ==
    ASSUME DriveInv, UNCHANGED driveVars
    PROVE  DriveInv'
<1>1. UNCHANGED <<tree, cache, req, asked, doubled, hit>>
  BY DEF driveVars
<1>2. (Dropping' <=> Dropping) /\ (CacheOK' <=> CacheOK)
  BY <1>1 DEF Dropping, CacheOK
<1>. QED
  BY <1>1, <1>2 DEF DriveInv, ActsOnNamedFile

-----------------------------------------------------------------------------
(* The theorems *)

LEMMA DriveInit == Init => DriveInv
<1>. SUFFICES ASSUME Init PROVE DriveInv
  OBVIOUS
<1>1. PICK folder, file : /\ folder = [parent |-> 0, name |-> "a", kind |-> "folder"]
                          /\ file = [parent |-> 1, name |-> "b", kind |-> "file"]
  OBVIOUS
<1>2. \A i \in Ids : /\ i = 1 => tree[i] = folder
                     /\ i = 2 => tree[i] = file
                     /\ i # 1 /\ i # 2 => tree[i] = Absent
  BY <1>1 DEF Init
<1>3. Absent \in File /\ Absent.kind = "none" /\ folder \in File /\ (2 \in Ids => file \in File)
  BY <1>1, DriveAssumption DEF Absent, File, AnyName, AnyId, RootId, Ids
<1>4. DOMAIN tree = Ids /\ tree = [i \in Ids |-> tree[i]]
  BY DEF Init
<1>5. tree \in [Ids -> File]
  BY <1>2, <1>3, <1>4
<1>6. Unique(tree)
  BY <1>1, <1>2, <1>3 DEF Unique, Live
<1>7. cache = NoCache /\ \A s \in Slots : req[s] = Idle
  BY DEF Init
<1>8. cache \in [Paths -> [entry : Entry, taint : BOOLEAN]] /\ CacheOK
  BY <1>7, Entries DEF NoCache, CacheOK
<1>9. \A s \in Slots : RequestOK(tree, req[s])
  <2>1. RequestOK(tree, Idle)
    BY FinishOK
  <2>. QED
    BY <1>7, <2>1
<1>10. asked \in 0 .. MaxRequests /\ doubled \in BOOLEAN /\ ActsOnNamedFile
  <2>1. asked = 0 /\ doubled = FALSE /\ hit = NoHit
    BY DEF Init
  <2>2. asked \in 0 .. MaxRequests
    BY <2>1, DriveAssumption
  <2>3. ActsOnNamedFile
    BY <2>1 DEF ActsOnNamedFile, NoHit
  <2>. QED
    BY <2>1, <2>2, <2>3
<1>. QED
  BY <1>5, <1>6, <1>8, <1>9, <1>10 DEF DriveInv

LEMMA DriveInvStep == DriveInv /\ AtWork /\ [Next]_vars => DriveInv'
<1>. SUFFICES ASSUME DriveInv, AtWork, [Next]_vars PROVE DriveInv'
  OBVIOUS
<1>1. CASE \E r \in Slots :
              \/ \E op \in Ops : Begin(r, op)
              \/ Session(r) \/ WalkCached(r) \/ TokenRefused(r) \/ CaptchaRefused(r) \/ ListFiles(r)
              \/ WalkListed(r) \/ ListListed(r) \/ CheckName(r) \/ CreateFolder(r) \/ Call(r)
              \/ PutObject(r) \/ Invalidate(r)
  <2>1. PICK r \in Slots :
              \/ \E op \in Ops : Begin(r, op)
              \/ Session(r) \/ WalkCached(r) \/ TokenRefused(r) \/ CaptchaRefused(r) \/ ListFiles(r)
              \/ WalkListed(r) \/ ListListed(r) \/ CheckName(r) \/ CreateFolder(r) \/ Call(r)
              \/ PutObject(r) \/ Invalidate(r)
    BY <1>1
  <2>2. CASE \E op \in Ops : Begin(r, op)
    BY <2>2, BeginKeeps
  <2>3. CASE Session(r)
    BY <2>3, SessionKeeps
  <2>4. CASE WalkCached(r)
    BY <2>4, WalkCachedKeeps
  <2>5. CASE TokenRefused(r) \/ CaptchaRefused(r) \/ PutObject(r) \/ Invalidate(r)
    BY <2>5, AgainKeeps
  <2>6. CASE ListFiles(r)
    BY <2>6, ListFilesKeeps
  <2>7. CASE WalkListed(r)
    BY <2>7, WalkListedKeeps
  <2>8. CASE ListListed(r)
    BY <2>8, ListListedKeeps
  <2>9. CASE CheckName(r)
    BY <2>9, CheckNameKeeps
  <2>10. CASE CreateFolder(r)
    BY <2>10, CreateFolderKeeps
  <2>11. CASE Call(r)
    BY <2>11, CallKeeps
  <2>. QED
    BY <2>1, <2>2, <2>3, <2>4, <2>5, <2>6, <2>7, <2>8, <2>9, <2>10, <2>11
<1>2. CASE \E path \in Paths : ExpireEntry(path)
  BY <1>2, ExpireEntryKeeps
<1>3. CASE Outside
  BY <1>3, OutsideKeeps
<1>4. CASE Crash
  BY <1>4, CrashKeeps
<1>5. CASE (Expire \/ Revoke \/ EditSource) /\ UNCHANGED driveVars
  BY <1>5, NothingMoves
<1>6. CASE UNCHANGED vars
  BY <1>6, NothingMoves DEF vars
<1>. QED
  BY <1>1, <1>2, <1>3, <1>4, <1>5, <1>6 DEF Next

LEMMA DriveTyped == DriveInv /\ TokenInv => TypeOK
<1>. SUFFICES ASSUME DriveInv, TokenInv PROVE TypeOK
  OBVIOUS
<1>1. \A i \in Ids : tree[i].kind \in {"none", "file", "folder", "gone"} /\ tree[i].parent \in Ids \cup {RootId}
  BY DEF DriveInv, File, AnyId
<1>2. \A p \in Paths : cache[p].entry = NoEntry \/ cache[p].entry.id \in Ids
  BY DEF DriveInv, CacheOK
<1>3. \A r \in Slots : req[r].pc \in {"idle", "session", "walk", "listed", "folder", "call", "drop"}
  BY DEF DriveInv, RequestOK, Request
<1>. QED
  BY <1>1, <1>2, <1>3 DEF TypeOK, TokenInv, DriveInv

\* The path cache tells the truth whenever no change of the tree is still to be followed
\* by its invalidation: an entry that no request put there across a change, and that no
\* change from outside has touched, has the id of a file that the provider has at that
\* path.  For every number of requests, paths, files and faults.
THEOREM CacheTellsTruth == Spec => []CacheAgrees
<1>1. DriveInv /\ TokenInv => CacheAgrees
  BY DriveTyped DEF CacheAgrees, DriveInv, CacheOK
<1>2. TokenInv => AtWork
  BY DEF TokenInv
<1>. QED
  BY <1>1, <1>2, TokenInit, TokenStep, DriveInit, DriveInvStep, PTL DEF Spec

\* A request renames, moves, copies or deletes only a file that had the path it was given
\* at some moment since it began, unless it went by a doubtful cache entry or the tree
\* changed between its finding a folder on the way and listing it.
THEOREM NamedFilesAreActedOn == Spec => []ActsOnNamedFile
<1>1. DriveInv => ActsOnNamedFile
  BY DEF DriveInv
<1>2. TokenInv => AtWork
  BY DEF TokenInv
<1>. QED
  BY <1>1, <1>2, TokenInit, TokenStep, DriveInit, DriveInvStep, PTL DEF Spec

\* Two files of one name in one folder have one of the reasons that the history variable
\* records: an answer lost, a change between a look and the call that relied on it, a
\* doubtful cache entry, or a change from outside.
THEOREM DuplicatesHaveReason == Spec => []DuplicatesExplained
<1>1. DriveInv => DuplicatesExplained
  BY DEF DriveInv, DuplicatesExplained, Unique
<1>2. TokenInv => AtWork
  BY DEF TokenInv
<1>. QED
  BY <1>1, <1>2, TokenInit, TokenStep, DriveInit, DriveInvStep, PTL DEF Spec
=============================================================================
