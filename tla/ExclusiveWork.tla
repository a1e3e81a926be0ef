--------------------------- MODULE ExclusiveWork ---------------------------
(***************************************************************************)
(* What a lease on the operation journal is for: a unit of work is run by  *)
(* one worker at a time, and work that is done is not run again.           *)
(***************************************************************************)
CONSTANTS Ops, Workers

VARIABLES
    runs,   \* the workers that are running each unit of work
    done    \* the units recorded as done

Init ==
    /\ runs = [o \in Ops |-> {}]
    /\ done = {}

Start(o, w) ==
    /\ runs[o] = {} /\ o \notin done
    /\ runs' = [runs EXCEPT ![o] = {w}]
    /\ UNCHANGED done

\* The attempt ends: done, failed, or its worker died.
End(o, w) ==
    /\ runs[o] = {w}
    /\ runs' = [runs EXCEPT ![o] = {}]
    /\ done' \in {done, done \cup {o}}

Next == \E o \in Ops : \E w \in Workers : Start(o, w) \/ End(o, w)

Spec == Init /\ [][Next]_<<runs, done>>
=============================================================================
