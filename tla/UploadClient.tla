---------------------------- MODULE UploadClient ----------------------------
(***************************************************************************)
(* The web client's upload of one file (UploadModal.tsx) against the       *)
(* upload handlers: init, then the missing chunks over transport.          *)
(* concurrency parallel requests, then finish; the user starts over after  *)
(* an error.  Reqs are the client's connections.                           *)
(***************************************************************************)
EXTENDS UploadSession

CONSTANTS
    Content,      \* the version of the file on the user's disk
    Lanes         \* what transport.concurrency may be; the code has 3

ASSUME ClientAssumption ==
    /\ Content \in Contents \cap Hashes
    /\ Lanes \subseteq Nat \ {0}

VARIABLES
    client,   \* [status, id: the session, todo: chunks not yet sent]
    sent,     \* what the client awaits on each connection
    lanes,    \* transport.concurrency
    upset     \* history: a call timed out or the process died

cvars == <<vars, client, sent, lanes, upset>>

Awaits == {"nothing", "init", "chunk", "finish"}

ClientTypeOK ==
    /\ TypeOK
    /\ client \in [status : {"pending", "uploading", "sending", "success", "error"},
                   id : Sessions \cup {NoSession}, todo : SUBSET Idx]
    /\ sent \in [Reqs -> Awaits]
    /\ lanes \in Lanes
    /\ upset \in BOOLEAN

ClientInit ==
    /\ Init
    /\ client = [status |-> "pending", id |-> NoSession, todo |-> {}]
    /\ sent = [r \in Reqs |-> "nothing"]
    /\ lanes \in Lanes
    /\ upset = FALSE

Ready(r) == Free(r) /\ sent[r] = "nothing"
Answered(r, what) == Free(r) /\ sent[r] = what
Heard(r) == sent' = [sent EXCEPT ![r] = "nothing"]
Awaited(what) == \E r \in Reqs : sent[r] = what

\* uploadApi.init
SendInit(r) ==
    /\ client.status = "pending" /\ Ready(r)
    /\ InitStat(r, Content)
    /\ client' = [client EXCEPT !.status = "uploading"]
    /\ sent' = [sent EXCEPT ![r] = "init"]

\* The chunks that the session view does not list are to be sent.
HearInit(r) ==
    /\ Answered(r, "init")
    /\ Heard(r)
    /\ client' = CASE req[r].pc = "fast" -> [client EXCEPT !.status = "success"]
                   [] req[r].pc = "ok"   -> [status |-> "sending", id |-> req[r].id,
                                             todo |-> Idx \ req[r].uploaded]
                   [] OTHER              -> [client EXCEPT !.status = "error"]
    /\ UNCHANGED vars

\* A worker of runWithConcurrency takes the next chunk, in order; the other
\* workers go on after one has failed.
SendChunk(r) ==
    /\ client.status \in {"sending", "error"} /\ Ready(r)
    /\ Cardinality({q \in Reqs : sent[q] = "chunk"}) < lanes
    /\ \E i \in client.todo :
         /\ \A j \in client.todo : i <= j
         /\ ChunkFind(r, client.id, i, Content)
         /\ client' = [client EXCEPT !.todo = @ \ {i}]
    /\ sent' = [sent EXCEPT ![r] = "chunk"]

HearChunk(r) ==
    /\ Answered(r, "chunk")
    /\ Heard(r)
    /\ client' = IF req[r].pc = "ok" THEN client ELSE [client EXCEPT !.status = "error"]
    /\ UNCHANGED vars

\* uploadApi.finish, once Promise.all has resolved
SendFinish(r) ==
    /\ client.status = "sending" /\ Ready(r)
    /\ client.todo = {} /\ ~ Awaited("chunk")
    /\ FinishFind(r, client.id)
    /\ client' = [client EXCEPT !.status = "uploading"]
    /\ sent' = [sent EXCEPT ![r] = "finish"]

HearFinish(r) ==
    /\ Answered(r, "finish")
    /\ Heard(r)
    /\ client' = [client EXCEPT !.status = IF req[r].pc = "ok" THEN "success" ELSE "error"]
    /\ UNCHANGED vars

\* axios gives up after 30 s; the handler knows nothing of it.
Timeout(r) ==
    /\ sent[r] # "nothing" /\ ~ Free(r)
    /\ Fault("timeout")
    /\ Heard(r)
    /\ client' = [client EXCEPT !.status = "error"]
    /\ upset' = TRUE
    /\ UNCHANGED <<row, disk, node, journal, req, committed, driver, lanes>>

\* The user adds the file again once the failed attempt has come to rest.
Retry ==
    /\ client.status = "error" /\ client.todo = {}
    /\ \A r \in Reqs : sent[r] = "nothing"
    /\ client' = [status |-> "pending", id |-> NoSession, todo |-> {}]
    /\ UNCHANGED <<vars, sent, lanes, upset>>

ClientStep(r) ==
    /\ \/ SendInit(r) \/ HearInit(r) \/ SendChunk(r) \/ HearChunk(r)
       \/ SendFinish(r) \/ HearFinish(r)
    /\ UNCHANGED <<driver, lanes, upset>>

Serve(r) == Continue(r) /\ UNCHANGED <<driver, client, sent, lanes, upset>>

Finished == client.status = "success" /\ UNCHANGED cvars

ClientNext ==
    \/ \E r \in Reqs : ClientStep(r) \/ Serve(r) \/ Timeout(r)
    \/ Retry
    \/ Crash /\ upset' = TRUE /\ UNCHANGED <<driver, client, sent, lanes>>
    \/ Finished

(***************************************************************************)
(* Handlers run to their end (goroutines are scheduled fairly), the client *)
(* sends what it has and handles each answer, and the user tries again.    *)
(***************************************************************************)
ClientSpec ==
    /\ ClientInit /\ [][ClientNext]_cvars
    /\ \A r \in Reqs : WF_cvars(Serve(r)) /\ WF_cvars(ClientStep(r))
    /\ WF_cvars(Retry)

-----------------------------------------------------------------------------

\* When the client shows an upload as done, by finish or by fast upload, the
\* file is committed under its checksum and the source holds exactly it,
\* whatever timed out, failed or restarted on the way.
SuccessIsCommitted ==
    /\ ClientTypeOK
    /\ client.status = "success" =>
        /\ node = Content
        /\ target.exists /\ \A k \in Idx : target.data[k] = Content

\* A target that was written completely and verified, but whose metadata
\* commit failed, has its journal entry (at rest, without a crash).
UncommittedFileJournalled ==
    /\ ~upset
    /\ target.exists /\ \A k \in Idx : target.data[k] = Content
    /\ node = NoNode
    /\ \A r \in Reqs : Free(r)
    => journal # {}

\* A user who follows the documented sequence (init, every chunk, finish) and
\* starts over after an error ends up with the file: sessions are resumable.
UploadCompletes == <>(client.status = "success")

\* The same of a client that sends one chunk at a time: calls that fail in the
\* database or on the disk do not stop it.  A metadata commit that fails is in the
\* journal; a lost connection and a restart are excepted.
SequentialCompletes ==
    [](lanes = 1 /\ ~upset /\ journal = {}) => <>(client.status = "success")
=============================================================================
