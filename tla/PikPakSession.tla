---------------------------- MODULE PikPakSession ----------------------------
(***************************************************************************)
(* The session of one PikPak source (pikpak_session.go) with the token     *)
(* calls of pikpak_client.go and the writer of the source row (main.go).   *)
(* Requests share the session in memory; it is only locked while it is     *)
(* read or set, not over the calls to the provider.  A refresh token works *)
(* once: the provider answers with the next one, and the source row must   *)
(* get it for the session to survive a restart.                            *)
(*                                                                         *)
(* Tokens are numbers in the order of issue, 0 is "".  One number stands   *)
(* for the access and the refresh token of one answer.  The captcha token  *)
(* and the device id travel with them and are left out, except that a      *)
(* captcha that has expired costs a request a second run.                  *)
(***************************************************************************)
EXTENDS Integers, FiniteSets

CONSTANTS
    Slots,        \* requests that can be under way at once
    Passwords,    \* are username and password configured? (TRUE, FALSE or both)
    MaxTokens,    \* how many tokens are issued (bound)
    FaultKinds,   \* "db", "net", "lost", "captcha", "expire", "revoke", "edit", "crash", "outside", "ttl"
    MaxFaults     \* how many of these in a behaviour (bound)

ASSUME SessionAssumption ==
    /\ Passwords \subseteq BOOLEAN
    /\ MaxTokens \in Nat \ {0} /\ MaxFaults \in Nat

VARIABLES
    session,    \* the pikPakSessionState: its access and refresh token
    stored,     \* the refresh token in the source row
    accepts,    \* the provider: the access tokens that it accepts
    renews,     \* the provider: the refresh tokens that it accepts
    issued,     \* the provider: the last token issued
    password,   \* are username and password in the row?
    sess,       \* what each request is doing about the session
    torn,       \* history: a failure or a late write has put the row behind the session
    lapsed,     \* history: the provider or a crash has made the session's token worthless
    edited,     \* history: an administrator has edited the source
    faults      \* faults left

sessionVars == <<session, stored, password, accepts, renews, issued, sess, torn, lapsed, edited, faults>>

Tokens == 0 .. MaxTokens

\* copy: cfg.RefreshToken; new: the provider's answer; raw: the configuration to
\* write; tok: the access token of the PikPakSession; again: fn runs a second time
Sess == [pc : {"out", "auth", "login", "apply", "save", "ready", "failed"},
         copy : Tokens, new : Tokens, raw : Tokens, tok : Tokens, again : BOOLEAN]
Out == [pc |-> "out", copy |-> 0, new |-> 0, raw |-> 0, tok |-> 0, again |-> FALSE]
Failed == [Out EXCEPT !.pc = "failed"]
NoSession == [access |-> 0, refresh |-> 0]

SessionTypeOK ==
    /\ session \in [access : Tokens, refresh : Tokens]
    /\ stored \in Tokens /\ password \in BOOLEAN
    /\ accepts \in SUBSET Tokens /\ renews \in SUBSET Tokens
    /\ issued \in Tokens
    /\ sess \in [Slots -> Sess]
    /\ torn \in BOOLEAN /\ lapsed \in BOOLEAN
    /\ edited \in BOOLEAN
    /\ faults \in 0 .. MaxFaults

SessionInit ==
    /\ session = NoSession
    /\ password \in Passwords
    /\ stored = 1 /\ accepts = {1} /\ renews = {1} /\ issued = 1
    /\ sess = [r \in Slots |-> Out]
    /\ torn = FALSE /\ lapsed = FALSE /\ edited = FALSE /\ faults = MaxFaults

Fault(kind) == kind \in FaultKinds /\ faults > 0 /\ faults' = faults - 1

Set(r, q) == sess' = [sess EXCEPT ![r] = q]

\* m.states[key], made from the configuration when there is none
State == IF session = NoSession THEN [access |-> 0, refresh |-> stored] ELSE session

-----------------------------------------------------------------------------
(* A request's way to a session *)

\* Is a request done with the session, and at its own work?
AtRest(r) == sess[r].pc \in {"out", "ready", "failed"}

\* ensureSession: an access token is taken as it is, and the row written again.
EnsureSession(r) ==
    /\ AtRest(r)
    /\ session' = State
    /\ Set(r, IF State.access # 0
              THEN [Out EXCEPT !.pc = "save", !.raw = State.refresh, !.tok = State.access]
              ELSE [Out EXCEPT !.pc = "auth", !.copy = State.refresh])
    /\ UNCHANGED <<password, stored, accepts, renews, issued, torn, lapsed, edited, faults>>

Issue ==
    /\ issued < MaxTokens
    /\ issued' = issued + 1
    /\ accepts' = accepts \cup {issued + 1}

\* authenticate, first half: the refresh token is exchanged.
RefreshToken(r) ==
    LET q == sess[r]
    IN  /\ q.pc = "auth"
        /\ \/ /\ q.copy \in renews
              /\ Issue
              /\ renews' = (renews \ {q.copy}) \cup {issued + 1}
              /\ Set(r, [q EXCEPT !.pc = "apply", !.copy = 0, !.new = issued + 1])
              /\ UNCHANGED <<lapsed, faults>>
           \/ \* The answer is lost.  The client's own retry is refused.
              /\ q.copy \in renews
              /\ Fault("lost")
              /\ Issue
              /\ renews' = (renews \ {q.copy}) \cup {issued + 1}
              /\ Set(r, [q EXCEPT !.pc = "login", !.copy = 0])
              /\ lapsed' = TRUE
           \/ /\ q.copy \notin renews
              /\ Set(r, [q EXCEPT !.pc = "login", !.copy = 0])
              /\ UNCHANGED <<accepts, renews, issued, lapsed, faults>>
           \/ /\ Fault("net")
              /\ Set(r, Failed)
              /\ UNCHANGED <<accepts, renews, issued, lapsed>>
        /\ UNCHANGED <<password, session, stored, torn, edited>>

\* authenticate, second half
Login(r) ==
    LET q == sess[r]
    IN  /\ q.pc = "login"
        /\ \/ /\ password
              /\ Issue
              /\ renews' = renews \cup {issued + 1}
              /\ Set(r, [q EXCEPT !.pc = "apply", !.copy = 0, !.new = issued + 1])
              /\ UNCHANGED faults
           \/ /\ ~password
              /\ Set(r, Failed)
              /\ UNCHANGED <<accepts, renews, issued, faults>>
           \/ /\ password
              /\ Fault("net")
              /\ Set(r, Failed)
              /\ UNCHANGED <<accepts, renews, issued>>
        /\ UNCHANGED <<password, session, stored, torn, lapsed, edited>>

\* Mutant: the session takes the access token only.
MutantApplyAuthToken(token) == [access |-> token, refresh |-> State.refresh]

ApplyAuthToken(token) == [access |-> token, refresh |-> token]

\* applyAuthToken, then the captcha is refreshed: when that fails the request ends
\* and the row is not written.
Apply(r) ==
    LET q == sess[r]
    IN  /\ q.pc = "apply"
        /\ lapsed' = (q.new \notin renews)
        /\ session' = ApplyAuthToken(q.new)
        /\ \/ /\ Set(r, [q EXCEPT !.pc = "save", !.new = 0, !.raw = session'.refresh, !.tok = 0])
              /\ UNCHANGED <<torn, faults>>
           \/ /\ Fault("net")
              /\ Set(r, Failed)
              /\ torn' = TRUE
        /\ UNCHANGED <<password, stored, accepts, renews, issued, edited>>

\* writeBackRuntimeConfig: what was marshalled is written, whatever has happened to
\* the session since.  A request that authenticated then reads the access token.
Save(r) ==
    LET q == sess[r]
    IN  /\ q.pc = "save"
        /\ \/ /\ stored' = q.raw
              /\ torn' = (q.raw # State.refresh)
              /\ Set(r, [q EXCEPT !.pc = "ready", !.raw = 0, !.tok = IF q.tok # 0 THEN q.tok ELSE session.access])
              /\ UNCHANGED faults
           \/ /\ Fault("db")
              /\ torn' = TRUE
              /\ Set(r, Failed)
              /\ UNCHANGED stored
        /\ UNCHANGED <<password, session, accepts, renews, issued, lapsed, edited>>

\* withSession after ErrCloudTokenInvalid (refreshAccess), and after
\* ErrCloudCaptchaExpired (refreshDriveCaptcha)
RefreshAccess(r) ==
    /\ session' = [State EXCEPT !.access = 0]
    /\ Set(r, [Out EXCEPT !.pc = "auth", !.copy = State.refresh, !.again = TRUE])

RefreshDriveCaptcha(r) ==
    /\ session' = State
    /\ Set(r, [Out EXCEPT !.pc = "save", !.raw = State.refresh, !.tok = State.access, !.again = TRUE])

SessionStep(r) == RefreshToken(r) \/ Login(r) \/ Apply(r) \/ Save(r)

-----------------------------------------------------------------------------
(* The world *)

\* Access tokens expire.
Expire ==
    /\ Fault("expire")
    /\ accepts' = {}
    /\ UNCHANGED <<password, session, stored, renews, issued, sess, torn, lapsed, edited>>

\* The provider ends the account's sessions.
Revoke ==
    /\ Fault("revoke")
    /\ accepts' = {} /\ renews' = {}
    /\ lapsed' = TRUE
    /\ UNCHANGED <<password, session, stored, issued, sess, torn, edited>>

\* An administrator edits the source (SourceService.Update), with a refresh token of
\* his own or without.  The configuration is tested with a session of its own, which
\* exchanges the token, and what the row gets is the new one; the session in memory
\* stays as it is.
EditSource ==
    /\ Fault("edit")
    /\ Issue
    /\ \/ /\ stored \in renews
          /\ renews' = (renews \ {stored}) \cup {issued + 1}
       \/ renews' = renews \cup {issued + 1}
    /\ stored' = issued + 1
    /\ edited' = TRUE
    /\ UNCHANGED <<password, session, sess, torn, lapsed>>

\* The process is started again.  A token that was not yet written is gone.
SessionCrash ==
    /\ Fault("crash")
    /\ session' = NoSession
    /\ sess' = [r \in Slots |-> Out]
    /\ lapsed' = (lapsed \/ State.refresh # stored \/ \E r \in Slots : sess[r].pc = "apply")
    /\ torn' = FALSE
    /\ UNCHANGED <<password, stored, accepts, renews, issued, edited>>

-----------------------------------------------------------------------------
\* When no request is at work on the session, the source row holds a refresh token that the provider still
\* accepts, so that the session survives a restart (API_CONTRACT.md: the newest
\* refresh token can be used after a restart).  Failures, an unlucky moment for a
\* crash, and a row written with what was marshalled before another request's
\* refresh are the only ways out, apart from an edit of the source.
StoredTokenLives ==
    (\A r \in Slots : AtRest(r)) /\ ~torn /\ ~lapsed /\ ~edited => stored \in renews
=============================================================================
