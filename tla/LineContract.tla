------------------------------- MODULE LineContract -------------------------------
(***********************************************************************************)
(* What a command line promises whoever started it: processes run on its behalf    *)
(* only while it is open; it is over in one step, with none of them left, and a     *)
(* line that is over starts nothing again.  docs/architecture.md asks this of the   *)
(* process handle of Runtime.exec and the shell's `&` of a job's pid.               *)
(***********************************************************************************)
CONSTANTS Line, Pid

VARIABLES
    phase,      \* "idle", "open" or "over"
    live        \* the processes running on behalf of each line

Init == phase = [l \in Line |-> "idle"] /\ live = [l \in Line |-> {}]

Open(l) ==
    /\ phase[l] = "idle"
    /\ phase' = [phase EXCEPT ![l] = "open"]
    /\ UNCHANGED live

\* Processes of an open line start and end.
Work(l, S) ==
    /\ phase[l] = "open"
    /\ live' = [live EXCEPT ![l] = S]
    /\ UNCHANGED phase

Close(l) ==
    /\ phase[l] = "open"
    /\ phase' = [phase EXCEPT ![l] = "over"]
    /\ live' = [live EXCEPT ![l] = {}]

Next ==
    \E l \in Line :
        \/ Open(l) \/ Close(l)
        \/ \E S \in SUBSET Pid : Work(l, S)

Spec == Init /\ [][Next]_<<phase, live>>
===================================================================================
