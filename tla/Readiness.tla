----------------------------- MODULE Readiness -----------------------------
(***************************************************************************)
(* How the API knows of its worker: the loop of cmd/ultraworker/main.go    *)
(* renews a row of worker_heartbeats, and handleReady of                   *)
(* internal/api/server.go compares the age of that row with heartbeat_ttl. *)
(*                                                                         *)
(* The heartbeat is written once per tick of a ticker and then the queue   *)
(* is drained, however long that takes.  Time is counted in units in which *)
(* a worker that only waits acts at once.                                  *)
(***************************************************************************)
EXTENDS Integers

CONSTANTS
    Workers,    \* processes under the worker name the API asks for
    Interval,   \* worker.poll_interval
    TTL         \* worker.heartbeat_ttl

ASSUME TimesAssumption == Interval \in Nat \ {0} /\ TTL \in Nat /\ Interval <= TTL

VARIABLES
    loop,       \* a process: "down", in its "select", or "draining" the queue
    due,        \* a tick waits in the ticker's channel, which holds one
    timer,      \* time since the last tick
    age,        \* age of last_seen_at, TTL + 1 if older or there is no row
    missed,     \* history: time since a heartbeat could not be written
    dbUp, dockerUp,
    answer      \* what the last GET /readyz found wrong

vars == <<loop, due, timer, age, missed, dbUp, dockerUp, answer>>

Unasked == {"nothing asked"}

Init ==
    /\ loop = [w \in Workers |-> "down"]
    /\ due = [w \in Workers |-> FALSE]
    /\ timer = [w \in Workers |-> 0]
    /\ age = TTL + 1
    /\ missed = Interval
    /\ dbUp = TRUE /\ dockerUp = TRUE
    /\ answer = Unasked

-----------------------------------------------------------------------------
(* The worker.                                                             *)

(* The first heartbeat is written before the ticker is made; a process     *)
(* that cannot write it ends.                                              *)
Start(w) ==
    /\ loop[w] = "down" /\ dbUp
    /\ loop' = [loop EXCEPT ![w] = "select"]
    /\ due' = [due EXCEPT ![w] = FALSE]
    /\ timer' = [timer EXCEPT ![w] = 0]
    /\ age' = 0
    /\ UNCHANGED <<missed, dbUp, dockerUp, answer>>

(* Mutant: the heartbeat is not written when the database is there.        *)
NoUpsert ==
    \/ dbUp /\ UNCHANGED <<age, missed>>
    \/ ~dbUp /\ missed' = 0 /\ UNCHANGED age

(* UpsertWorkerHeartbeat; an error is logged and the loop goes on.         *)
UpsertWorkerHeartbeat ==
    \/ dbUp /\ age' = 0 /\ UNCHANGED missed
    \/ ~dbUp /\ missed' = 0 /\ UNCHANGED age

(* A tick is received: heartbeat, then the queue is drained.               *)
Beat(w) ==
    /\ loop[w] = "select" /\ due[w]
    /\ due' = [due EXCEPT ![w] = FALSE]
    /\ UpsertWorkerHeartbeat
    /\ loop' = [loop EXCEPT ![w] = "draining"]
    /\ UNCHANGED <<timer, dbUp, dockerUp, answer>>

(* Mutant: the "break" leaves the outer loop too.                          *)
EndLoop(w) ==
    /\ loop[w] = "draining"
    /\ loop' = [loop EXCEPT ![w] = "ended"]
    /\ UNCHANGED <<due, timer, age, missed, dbUp, dockerUp, answer>>

(* ProcessOnce found no job, or returned an error.                         *)
EndDrain(w) ==
    /\ loop[w] = "draining"
    /\ loop' = [loop EXCEPT ![w] = "select"]
    /\ UNCHANGED <<due, timer, age, missed, dbUp, dockerUp, answer>>

(* The process stops or dies.                                              *)
Stop(w) ==
    /\ loop[w] # "down"
    /\ loop' = [loop EXCEPT ![w] = "down"]
    /\ UNCHANGED <<due, timer, age, missed, dbUp, dockerUp, answer>>

(* Time passes.  A ticker whose channel is full drops the tick.            *)
Elapse ==
    /\ \A w \in Workers : ~(loop[w] = "select" /\ due[w])
    /\ timer' = [w \in Workers |-> IF timer[w] + 1 = Interval THEN 0 ELSE timer[w] + 1]
    /\ due' = [w \in Workers |-> due[w] \/ timer[w] + 1 = Interval]
    /\ age' = IF age <= TTL THEN age + 1 ELSE age
    /\ missed' = IF missed < Interval THEN missed + 1 ELSE missed
    /\ UNCHANGED <<loop, dbUp, dockerUp, answer>>

-----------------------------------------------------------------------------
(* The database and the Docker daemon come and go.                         *)
Fail ==
    \/ dbUp' = ~dbUp /\ UNCHANGED dockerUp
    \/ dockerUp' = ~dockerUp /\ UNCHANGED dbUp

Outage == Fail /\ UNCHANGED <<loop, due, timer, age, missed, answer>>

(* Mutant: a row counts whatever its age.                                  *)
StaleIfUnread == ~dbUp

(* Mutant: heartbeats expire with the tick that is to renew them.          *)
StaleBetweenTicks == ~dbUp \/ age >= Interval - 1

(* The row cannot be read, is not there, or time.Since(lastSeen) > TTL.    *)
WorkerStale == ~dbUp \/ age > TTL

(* GET /readyz: 503 if any of the checks finds something.  They are read   *)
(* one after the other and answered one by one, so one instant will do.    *)
HandleReady ==
    /\ answer' = {check \in {"database", "docker", "worker"} :
                     \/ check = "database" /\ ~dbUp
                     \/ check = "docker" /\ ~dockerUp
                     \/ check = "worker" /\ WorkerStale}
    /\ UNCHANGED <<loop, due, timer, age, missed, dbUp, dockerUp>>

-----------------------------------------------------------------------------
WorkerStep(w) == Start(w) \/ Beat(w) \/ EndDrain(w) \/ Stop(w)

Next ==
    \/ \E w \in Workers : WorkerStep(w)
    \/ Elapse \/ Outage \/ HandleReady

Spec == Init /\ [][Next]_vars

(* Somebody keeps asking, time passes, and a process in its select takes   *)
(* a tick.  Nothing makes a process start or a queue run empty.            *)
Fairness ==
    /\ WF_vars(HandleReady) /\ WF_vars(Elapse)
    /\ \A w \in Workers : WF_vars(Beat(w))

FairSpec == Spec /\ Fairness

-----------------------------------------------------------------------------
(* Properties.                                                             *)

(* Every variable has its type.                                            *)
TypeOK ==
    /\ loop \in [Workers -> {"down", "select", "draining"}]
    /\ due \in [Workers -> BOOLEAN]
    /\ timer \in [Workers -> 0 .. Interval - 1]
    /\ age \in 0 .. TTL + 1
    /\ missed \in 0 .. Interval
    /\ dbUp \in BOOLEAN /\ dockerUp \in BOOLEAN
    /\ answer \in (SUBSET {"database", "docker", "worker"}) \cup {Unasked}

Waits(w) == loop[w] = "select" /\ ~due[w]

(* A process that waits in its select and has taken its tick renewed the   *)
(* row after that tick, or failed to: also one that comes from draining    *)
(* the queue for ever so long.                                             *)
RenewedSinceTick ==
    \A w \in Workers : Waits(w) => age <= timer[w] \/ missed <= timer[w]

(* No false alarm: while a process waits for its tick, no heartbeat was    *)
(* lost within an interval and the database answers, GET /readyz does not  *)
(* call the worker stale.                                                  *)
NoFalseAlarm ==
    (\E w \in Workers : Waits(w)) /\ missed = Interval /\ dbUp => ~WorkerStale

(* When the last process is gone for good, /readyz says so in the end and  *)
(* keeps saying it.                                                        *)
DeathIsNoticed ==
    <>[](\A w \in Workers : loop[w] = "down") => <>[]("worker" \in answer)

(* A worker with no job to run, on a database that is up, is ready in the  *)
(* end and stays so.  A worker that runs one job after another need not    *)
(* be: its row expires although it does all it should.                     *)
IdleWorkerIsReady ==
    /\ <>[](dbUp /\ dockerUp)
    /\ \E w \in Workers : <>[](loop[w] # "down") /\ []<>(loop[w] = "select")
    /\ <>[](\A w \in Workers : loop[w] = "draining" => ~due[w])
    => <>[](answer = {})

=============================================================================
