------------------------------- MODULE MCRSS -------------------------------
(* Small instances of RSS for TLC. *)
EXTENDS RSS
CONSTANTS u1, u2
ConstDocuments == {[urls |-> {u1, u2}, subsOf |-> {u2}], [urls |-> {}, subsOf |-> {u1, u2}]}
=============================================================================
