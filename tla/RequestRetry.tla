---------------------------- MODULE RequestRetry ----------------------------
(***************************************************************************)
(* Agent.completeModelTurn (agent.go) and its twin for a given client,     *)
(* completeModelTurnWithClient (parallel_edit_workers.go): a turn's        *)
(* request is attempted under a context of its own, again after an error   *)
(* that may pass, and by completeModelTurnOnceWithModelRoutes on the       *)
(* fallback models after an error that will not.  Every attempt is a       *)
(* request of ModelRequest at the limiter of the turn's route; an attempt  *)
(* that was given up leaves its goroutines and perhaps its permit behind,  *)
(* and the next one queues beside them.                                    *)
(*                                                                         *)
(* A fallback model has a limiter of its own (its key names the model): an *)
(* attempt there is its outcome.                                           *)
(***************************************************************************)
EXTENDS ModelRequest, Sequences

CONSTANTS Turns,        \* calls of completeModelTurn
          Plans,        \* the attempts each of them may come to: its configured number
          Fallbacks     \* turns whose configuration has fallback models

ASSUME PlansAssumption ==
  /\ Fallbacks \subseteq Turns
  /\ \A p \in Plans : /\ DOMAIN p \subseteq Turns
                      /\ \A t \in DOMAIN p : p[t] \in Seq(Requests) /\ p[t] # << >>
                      /\ \A t, u \in DOMAIN p : \A i \in DOMAIN p[t], j \in DOMAIN p[u] :
                           p[t][i] = p[u][j] => t = u /\ i = j

VARIABLES plan,         \* the attempts of this run, fixed from the start
          turn,         \* where completeModelTurn is
          attempt,      \* its attempt
          ended         \* the turn's context has ended

turnVars == <<plan, turn, attempt, ended>>
retryVars == <<allVars, turnVars>>

RetryInit == /\ RequestInit
             /\ plan \in Plans
             /\ turn = [t \in Turns |-> "idle"]
             /\ attempt = [t \in Turns |-> 0]
             /\ ended = [t \in Turns |-> FALSE]

Current(t) == plan[t][attempt[t]]
OnTheWay(t) == turn[t] \in {"trying", "elsewhere"}

\* The top of the loop: nothing is attempted for a turn that is over.
Try(t) == /\ t \in DOMAIN plan /\ turn[t] \in {"idle", "delaying"}
          /\ UNCHANGED <<allVars, plan, ended>>
          /\ IF ended[t] THEN turn' = [turn EXCEPT ![t] = "returned"] /\ UNCHANGED attempt
             ELSE /\ turn' = [turn EXCEPT ![t] = "trying"]
                  /\ attempt' = [attempt EXCEPT ![t] = @ + 1]

\* The goroutines of the attempts; an attempt asks for its permit when its turn
\* has come to it.  The provider answers when it likes.
AttemptStep(c) == /\ \/ /\ pc[c] = "new" => \E t \in Turns : turn[t] = "trying" /\ c = Current(t)
                        /\ AcquireStep(c)
                     \/ GoStep(c)
                  /\ UNCHANGED turnVars
Answered(c) == CompleteReturns(c) /\ UNCHANGED turnVars

\* The timeout of an attempt, which its fallbacks share.
AttemptTimesOut(t) == /\ OnTheWay(t) /\ ContextEnds(Current(t))
                      /\ UNCHANGED turnVars

\* The turn's context ends, and with it the context of its attempt.
TurnIsCanceled(t) == /\ t \in DOMAIN plan /\ turn[t] # "returned" /\ ~ended[t]
                     /\ ended' = [ended EXCEPT ![t] = TRUE]
                     /\ IF OnTheWay(t) /\ ~cancelled[Current(t)] THEN ContextEnds(Current(t))
                        ELSE UNCHANGED allVars
                     /\ UNCHANGED <<plan, turn, attempt>>

\* cancel(), and what the error means: one that may pass is tried again, after a
\* delay, while attempts are left.
Over(t, outcome) ==
  /\ IF cancelled[Current(t)] THEN UNCHANGED allVars ELSE ContextEnds(Current(t))
  /\ turn' = [turn EXCEPT ![t] =
                IF /\ outcome \in {"transient", "timeout"}
                   /\ ~ended[t] /\ attempt[t] < Len(plan[t])
                THEN "delaying" ELSE "returned"]
  /\ UNCHANGED <<plan, attempt, ended>>

\* What the attempt returned: the provider's answer or its error, the end of its
\* context, or its failure to get a permit before that.
Outcomes(c) == CASE caller[c] = "answered" -> {"answer", "transient", "terminal"}
                 [] caller[c] \in {"timedout", "refused"} -> {"timeout"}
                 [] OTHER -> {}

\* A refusal and an error that will not pass go to the fallback models.
FallsBack(t, outcome) == outcome = "terminal" /\ t \in Fallbacks /\ ~cancelled[Current(t)]

Settle(t) == /\ turn[t] = "trying"
             /\ \E outcome \in Outcomes(Current(t)) :
                  IF FallsBack(t, outcome)
                  THEN turn' = [turn EXCEPT ![t] = "elsewhere"] /\ UNCHANGED <<allVars, plan, attempt, ended>>
                  ELSE Over(t, outcome)

\* The fallback models in their order, until one answers or errs for a while.
FallBackOutcome(t) == {"answer", "transient", "terminal"}
                        \cup (IF cancelled[Current(t)] THEN {"timeout"} ELSE {})
Elsewhere(t) == /\ turn[t] = "elsewhere"
                /\ \E outcome \in FallBackOutcome(t) : Over(t, outcome)

TurnStep(t) == Try(t) \/ Settle(t) \/ Elsewhere(t)

\* What goes on without anybody's doing: goroutines that can run do, and every
\* attempt is under context.WithTimeout, the ones on a fallback model too.
Progress == \/ \E c \in Requests : AttemptStep(c)
            \/ \E t \in Turns : TurnStep(t) \/ AttemptTimesOut(t)

RetryNext == \/ Progress
             \/ \E c \in Requests : Answered(c)
             \/ \E t \in Turns : TurnIsCanceled(t)
             \/ Abandon /\ UNCHANGED turnVars

RetrySpec == RetryInit /\ [][RetryNext]_retryVars

\* Nothing is assumed of the provider, and nobody has to abandon or to cancel a
\* turn.  A request does a finite number of steps, so that fairness of them all
\* together lets none be left out.
FairRetrySpec == RetrySpec /\ WF_retryVars(Progress)
-----------------------------------------------------------------------------
\* A turn's request comes back, through all its attempts and with a provider
\* that never answers: an attempt that queues behind the permit of one that was
\* given up gets it or times out itself (agent.go:6971-7006).
TurnsReturn == <>(\A t \in DOMAIN plan : turn[t] = "returned")
=============================================================================
