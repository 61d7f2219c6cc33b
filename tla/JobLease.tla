------------------------------ MODULE JobLease ------------------------------
(***************************************************************************)
(* What the job queue promises to the rest of the system: a submitted job  *)
(* is run by at most one worker at a time, a worker runs one job at a      *)
(* time, only the worker that runs a job decides its outcome, and the      *)
(* outcome is final.  A worker may drop a job; the job then waits for      *)
(* another one.                                                            *)
(***************************************************************************)
CONSTANTS Jobs, Workers, NoWorker

VARIABLES outcome, runner

leaseVars == <<outcome, runner>>

Init ==
    /\ outcome = [j \in Jobs |-> "none"]
    /\ runner = [j \in Jobs |-> NoWorker]

Submit(j) ==
    /\ outcome[j] = "none"
    /\ outcome' = [outcome EXCEPT ![j] = "undecided"]
    /\ UNCHANGED runner

Start(w, j) ==
    /\ outcome[j] = "undecided"
    /\ runner[j] = NoWorker
    /\ \A k \in Jobs : runner[k] # w
    /\ runner' = [runner EXCEPT ![j] = w]
    /\ UNCHANGED outcome

Decide(w, j) ==
    /\ runner[j] = w
    /\ \E o \in {"succeeded", "failed"} : outcome' = [outcome EXCEPT ![j] = o]
    /\ runner' = [runner EXCEPT ![j] = NoWorker]

Drop(w, j) ==
    /\ runner[j] = w
    /\ runner' = [runner EXCEPT ![j] = NoWorker]
    /\ UNCHANGED outcome

Next ==
    \/ \E j \in Jobs : Submit(j)
    \/ \E w \in Workers, j \in Jobs : Start(w, j) \/ Decide(w, j) \/ Drop(w, j)

Spec == Init /\ [][Next]_leaseVars

=============================================================================
