--------------------------- MODULE RouteSemaphore ---------------------------
(***************************************************************************)
(* What a model route promises to the requests of one physical backend: a *)
(* counting semaphore whose capacity every newcomer may change.  It says   *)
(* nothing of counters, condition variables or watcher goroutines; module  *)
(* RouteScheduler implements it.                                           *)
(***************************************************************************)
EXTENDS Integers, FiniteSets

CONSTANTS Requests,     \* the calls of Acquire, each made once
          Limits        \* the limits a policy may give to a call

VARIABLES capacity,     \* the limit named last, 0 before the first arrival
          phase,        \* where each request stands
          cancelled     \* requests whose context is done

semVars == <<capacity, phase, cancelled>>

Phases == {"out", "waiting", "inside", "gone"}

Inside == {c \in Requests : phase[c] = "inside"}

SemTypeOK == /\ capacity \in Nat
             /\ phase \in [Requests -> Phases]
             /\ cancelled \subseteq Requests

SemInit == /\ capacity = 0
           /\ phase = [c \in Requests |-> "out"]
           /\ cancelled = {}

\* A newcomer names the capacity it wants and queues; requests already inside
\* stay inside, even if there are now more of them than the capacity.
Arrive(c, l) == /\ phase[c] = "out"
                /\ l > 0
                /\ capacity' = l
                /\ phase' = [phase EXCEPT ![c] = "waiting"]
                /\ UNCHANGED cancelled

\* A request enters only while fewer than capacity requests are inside.
Grant(c) == /\ phase[c] = "waiting"
            /\ Cardinality(Inside) < capacity
            /\ phase' = [phase EXCEPT ![c] = "inside"]
            /\ UNCHANGED <<capacity, cancelled>>

\* Only a request whose context is done leaves the queue without entering.
Withdraw(c) == /\ phase[c] = "waiting"
               /\ c \in cancelled
               /\ phase' = [phase EXCEPT ![c] = "gone"]
               /\ UNCHANGED <<capacity, cancelled>>

Leave(c) == /\ phase[c] = "inside"
            /\ phase' = [phase EXCEPT ![c] = "gone"]
            /\ UNCHANGED <<capacity, cancelled>>

ContextDone(c) == /\ cancelled' = cancelled \union {c}
                  /\ UNCHANGED <<capacity, phase>>

SemNext == \E c \in Requests : \/ \E l \in Limits : Arrive(c, l)
                               \/ Grant(c)
                               \/ Withdraw(c)
                               \/ Leave(c)
                               \/ ContextDone(c)

SemSpec == SemInit /\ [][SemNext]_semVars
=============================================================================
