-------------------------- MODULE Readiness_proofs --------------------------
(* What is proved of Readiness.                                            *)
EXTENDS Readiness, TLAPS

LEMMA Times == /\ Interval \in Nat /\ Interval >= 1 /\ TTL \in Nat /\ Interval <= TTL
               /\ 0 \in 0 .. Interval - 1 /\ 0 \in 0 .. TTL + 1
               /\ TTL + 1 \in 0 .. TTL + 1
               /\ 0 \in 0 .. Interval /\ Interval \in 0 .. Interval
BY TimesAssumption

LEMMA InitTyped == Init => TypeOK
<1> SUFFICES ASSUME Init PROVE TypeOK
    OBVIOUS
<1>1. timer \in [Workers -> 0 .. Interval - 1]
    BY Times DEF Init
<1>2. loop \in [Workers -> {"down", "select", "draining"}] /\ due \in [Workers -> BOOLEAN]
    BY DEF Init
<1>3. age \in 0 .. TTL + 1 /\ missed \in 0 .. Interval
    BY Times DEF Init
<1>4. answer = Unasked
    BY DEF Init
<1> QED BY <1>1, <1>2, <1>3, <1>4 DEF Init, TypeOK

(* Every step keeps the types.                                             *)
LEMMA TypeKept == TypeOK /\ [Next]_vars => TypeOK'
<1> SUFFICES ASSUME TypeOK, [Next]_vars PROVE TypeOK'
    OBVIOUS
<1> USE DEF TypeOK
<1>1. CASE UNCHANGED vars
    BY <1>1 DEF vars
<1>2. ASSUME NEW w \in Workers, WorkerStep(w) PROVE TypeOK'
    <2>1. CASE Start(w)
        <3>1. timer' \in [Workers -> 0 .. Interval - 1] /\ age' \in 0 .. TTL + 1
            BY <2>1, Times DEF Start
        <3>2. loop' \in [Workers -> {"down", "select", "draining"}] /\ due' \in [Workers -> BOOLEAN]
            BY <2>1 DEF Start
        <3> QED BY <2>1, <3>1, <3>2 DEF Start
    <2>2. CASE Beat(w)
        <3>1. age' \in 0 .. TTL + 1 /\ missed' \in 0 .. Interval
            BY <2>2, Times DEF Beat, UpsertWorkerHeartbeat
        <3>2. loop' \in [Workers -> {"down", "select", "draining"}] /\ due' \in [Workers -> BOOLEAN]
            BY <2>2 DEF Beat
        <3> QED BY <2>2, <3>1, <3>2 DEF Beat
    <2>3. CASE EndDrain(w)
        BY <2>3 DEF EndDrain
    <2>4. CASE Stop(w)
        BY <2>4 DEF Stop
    <2> QED BY <1>2, <2>1, <2>2, <2>3, <2>4 DEF WorkerStep
<1>3. CASE Elapse
    <2>1. ASSUME NEW w \in Workers
          PROVE (IF timer[w] + 1 = Interval THEN 0 ELSE timer[w] + 1) \in 0 .. Interval - 1
        <3>1. timer[w] \in 0 .. Interval - 1
            BY <2>1
        <3> QED BY <3>1, Times
    <2>2. timer' \in [Workers -> 0 .. Interval - 1]
        BY <1>3, <2>1 DEF Elapse
    <2>3. due' \in [Workers -> BOOLEAN]
        BY <1>3 DEF Elapse
    <2>4. age' \in 0 .. TTL + 1
        BY <1>3, Times DEF Elapse
    <2>5. missed' \in 0 .. Interval
        BY <1>3, Times DEF Elapse
    <2> QED BY <1>3, <2>2, <2>3, <2>4, <2>5 DEF Elapse
<1>4. CASE Outage
    BY <1>4 DEF Outage, Fail
<1>5. CASE HandleReady
    <2>1. answer' \in SUBSET {"database", "docker", "worker"}
        BY <1>5 DEF HandleReady
    <2> QED BY <1>5, <2>1 DEF HandleReady
<1> QED BY <1>1, <1>2, <1>3, <1>4, <1>5 DEF Next

(* Every variable of the worker loop and of /readyz has its type.          *)
THEOREM TypeCorrect == Spec => []TypeOK
BY InitTyped, TypeKept, PTL DEF Spec

-----------------------------------------------------------------------------
(* The invariant that is inductive: also while it drains the queue, a      *)
(* process that has no tick to take renewed the row after the last one.    *)
Renewed ==
    \A w \in Workers :
        loop[w] # "down" /\ ~due[w] => age <= timer[w] \/ missed <= timer[w]

(* A row becomes older only with the ticker, and a tick asks for renewal.  *)
LEMMA RenewalKept == TypeOK /\ Renewed /\ [Next]_vars => Renewed'
<1> SUFFICES ASSUME TypeOK, Renewed, [Next]_vars,
                    NEW v \in Workers, (loop[v] # "down" /\ ~due[v])'
             PROVE (age <= timer[v] \/ missed <= timer[v])'
    BY DEF Renewed
<1> USE TimesAssumption DEF TypeOK, Renewed
<1>1. CASE UNCHANGED vars
    BY <1>1 DEF vars
<1>2. ASSUME NEW w \in Workers, WorkerStep(w)
      PROVE (age <= timer[v] \/ missed <= timer[v])'
    <2>1. CASE Start(w)
        BY <2>1 DEF Start
    <2>2. CASE Beat(w)
        BY <2>2 DEF Beat, UpsertWorkerHeartbeat
    <2>3. CASE EndDrain(w)
        BY <2>3 DEF EndDrain
    <2>4. CASE Stop(w)
        BY <2>4 DEF Stop
    <2> QED BY <1>2, <2>1, <2>2, <2>3, <2>4 DEF WorkerStep
<1>3. CASE Elapse
    <2>1. timer[v] + 1 # Interval /\ ~due[v] /\ timer'[v] = timer[v] + 1
        BY <1>3 DEF Elapse
    <2>2. age' <= age + 1 /\ missed' <= missed + 1
        BY <1>3 DEF Elapse
    <2>3. age <= timer[v] \/ missed <= timer[v]
        BY <1>3, <2>1 DEF Elapse
    <2>4. age' \in Nat /\ missed' \in Nat
        BY <1>3 DEF Elapse
    <2> QED BY <2>1, <2>2, <2>3, <2>4
<1>4. CASE Outage
    BY <1>4 DEF Outage
<1>5. CASE HandleReady
    BY <1>5 DEF HandleReady
<1> QED BY <1>1, <1>2, <1>3, <1>4, <1>5 DEF Next

LEMMA AlwaysRenewed == Spec => [](TypeOK /\ Renewed)
<1>1. Init => Renewed
    BY DEF Init, Renewed
<1> QED BY <1>1, InitTyped, TypeKept, RenewalKept, PTL DEF Spec

(* A waiting process renewed the row after its last tick, or could not:    *)
(* for any interval, TTL and number of processes under the name.           *)
THEOREM RenewedCorrect == Spec => []RenewedSinceTick
<1>1. Renewed => RenewedSinceTick
    BY DEF Renewed, RenewedSinceTick, Waits
<1> QED BY <1>1, AlwaysRenewed, PTL

(* No false alarm, whenever the interval is not above the TTL.             *)
THEOREM AlarmCorrect == Spec => []NoFalseAlarm
<1>1. TypeOK /\ Renewed => NoFalseAlarm
    BY TimesAssumption DEF TypeOK, Renewed, NoFalseAlarm, Waits, WorkerStale
<1> QED BY <1>1, AlwaysRenewed, PTL

=============================================================================
