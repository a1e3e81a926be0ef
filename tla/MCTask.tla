------------------------------ MODULE MCTask ------------------------------
(* Small instances of DownloadTask for TLC. *)
EXTENDS DownloadTask, TLC

\* Every downloader, and every way a file gets to its target.
MCRoutes == ({"aria2"} \X {"rename", "copy", "import"})
            \cup {<<"qbittorrent", "rename">>, <<"native", "native">>}
MCRoutesAria2 == {<<"aria2", "rename">>}

\* Actors other than the worker are interchangeable, and so are tasks.
Symmetry == Permutations(Actors \ {Worker}) \cup Permutations(Tasks)
=============================================================================
