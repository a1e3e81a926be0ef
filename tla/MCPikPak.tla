------------------------------ MODULE MCPikPak ------------------------------
(* A small instance of PikPakDrive for TLC: the requests that are made. *)
EXTENDS PikPakDrive

MCOp(kind, path, dir, name) == [kind |-> kind, path |-> path, dir |-> dir, name |-> name]

MCOps == {
    MCOp("list", <<"a">>, <<>>, "a"),
    MCOp("stat", <<"a", "b">>, <<>>, "a"),
    MCOp("mkdir", <<>>, <<>>, "b"),
    MCOp("rename", <<"a">>, <<>>, "b"),
    MCOp("rename", <<"a", "b">>, <<"a">>, "a"),
    MCOp("move", <<"a", "b">>, <<>>, "a"),
    MCOp("copy", <<"a", "b">>, <<>>, "a"),
    MCOp("delete", <<"a", "b">>, <<>>, "a"),
    MCOp("import", <<>>, <<"b">>, "a"),
    MCOp("direct", <<>>, <<"a">>, "a"),
    MCOp("complete", <<>>, <<>>, "a"),
    MCOp("status", <<>>, <<>>, "a"),
    MCOp("download", <<>>, <<"b">>, "b")}

MCSymmetry == Permutations(Slots)
=============================================================================
