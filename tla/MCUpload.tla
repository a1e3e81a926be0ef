----------------------------- MODULE MCUpload -----------------------------
(* Small instances of UploadSession for TLC. *)
EXTENDS UploadSession, TLC

\* Handlers that may not serve Finish are interchangeable, and so are sessions.
Symmetry == Permutations(Reqs \ Finishers) \cup Permutations(Sessions)
=============================================================================
