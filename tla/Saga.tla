------------------------------- MODULE Saga --------------------------------
(* The saga coordinator of bookings/saga.py: Saga.run performs the steps of a    *)
(* saga in order and, when one raises, compensates the completed ones in reverse *)
(* order, going on when a compensation raises too.  Each run keeps its progress  *)
(* in local variables of one process, so a process that dies forgets it.         *)
(* What the steps do happens at other services: a call may raise and have taken  *)
(* effect all the same.  Every run may be of a saga of its own.                  *)
EXTENDS Integers

CONSTANTS
    Runs,         \* executions of sagas
    N,            \* how many steps each has
    Compensable   \* its steps that have a compensation

ASSUME StepsAssumption ==
    \A r \in Runs : N[r] \in Nat \ {0} /\ Compensable[r] \subseteq 1..N[r]

VARIABLES
    at,        \* what each run is doing
    step,      \* the step it performs or compensates next
    standing,  \* steps whose effect stands at the other services
    faults     \* history: what the coordinator cannot make up for in each run, and at which step

vars == <<at, step, standing, faults>>

\* A step raised and took effect; a compensation raised; the process died.
Faults == {"step", "compensation", "death"} \X Nat

Phases == {"forward", "compensate", "completed", "failed", "dead"}

Init ==
    /\ at = [r \in Runs |-> "forward"]
    /\ step = [r \in Runs |-> 1]
    /\ standing = [r \in Runs |-> {}]
    /\ faults = [r \in Runs |-> {}]

\* Mutant of StepSucceeds: the loop does not end with the last step.
StepSucceedsAgain(r) ==
    /\ at[r] = "forward"
    /\ standing' = [standing EXCEPT ![r] = @ \cup {step[r]}]
    /\ step' = [step EXCEPT ![r] = @ + 1]
    /\ UNCHANGED <<at, faults>>

\* step.action returns: the step is completed, and after the last one run returns.
StepSucceeds(r) ==
    /\ at[r] = "forward"
    /\ standing' = [standing EXCEPT ![r] = @ \cup {step[r]}]
    /\ step' = [step EXCEPT ![r] = @ + 1]
    /\ at' = [at EXCEPT ![r] = IF step[r] = N[r] THEN "completed" ELSE "forward"]
    /\ UNCHANGED faults

\* Mutants of StepFails: nothing is compensated; the last completed step is missed.
StepFailsForGood(r) ==
    /\ at[r] = "forward"
    /\ at' = [at EXCEPT ![r] = "failed"]
    /\ UNCHANGED <<step, standing, faults>>

StepFailsOffByOne(r) ==
    /\ at[r] = "forward"
    /\ standing' = [standing EXCEPT ![r] = @ \cup {step[r]}]
    /\ faults' = [faults EXCEPT ![r] = @ \cup {<<"step", step[r]>>}]
    /\ step' = [step EXCEPT ![r] = IF @ > 2 THEN @ - 2 ELSE 0]
    /\ at' = [at EXCEPT ![r] = IF step[r] <= 2 THEN "failed" ELSE "compensate"]

\* step.action raises: the steps completed before it are compensated from the last one on.
StepFails(r) ==
    /\ at[r] = "forward"
    /\ \/ UNCHANGED <<standing, faults>>
       \/ /\ standing' = [standing EXCEPT ![r] = @ \cup {step[r]}]
          /\ faults' = [faults EXCEPT ![r] = @ \cup {<<"step", step[r]>>}]
    /\ step' = [step EXCEPT ![r] = @ - 1]
    /\ at' = [at EXCEPT ![r] = IF step[r] = 1 THEN "failed" ELSE "compensate"]

\* The next completed step in reverse order is dealt with; after the first, SagaError.
Back(r) ==
    /\ at[r] = "compensate"
    /\ step' = [step EXCEPT ![r] = @ - 1]
    /\ at' = [at EXCEPT ![r] = IF step[r] = 1 THEN "failed" ELSE "compensate"]

\* Mutant of Compensate: the completed steps are compensated in the order they were made.
CompensateForward(r) ==
    /\ Back(r)
    /\ \E i \in standing[r] \cap Compensable[r] :
          /\ \A j \in standing[r] \cap Compensable[r] : i <= j
          /\ standing' = [standing EXCEPT ![r] = @ \ {i}]
    /\ UNCHANGED faults

\* step.compensation returns.
Compensate(r) ==
    /\ Back(r)
    /\ step[r] \in Compensable[r]
    /\ standing' = [standing EXCEPT ![r] = @ \ {step[r]}]
    /\ UNCHANGED faults

\* Mutant of CompensationFails: what the compensation raised ends the loop.
CompensationFailsForGood(r) ==
    /\ at[r] = "compensate" /\ step[r] \in Compensable[r]
    /\ at' = [at EXCEPT ![r] = "failed"]
    /\ faults' = [faults EXCEPT ![r] = @ \cup {<<"compensation", step[r]>>}]
    /\ UNCHANGED <<step, standing>>

\* step.compensation raises, done or not: it is logged and the loop goes on.
CompensationFails(r) ==
    /\ Back(r)
    /\ step[r] \in Compensable[r]
    /\ standing' \in {standing, [standing EXCEPT ![r] = @ \ {step[r]}]}
    /\ faults' = [faults EXCEPT ![r] = @ \cup {<<"compensation", step[r]>>}]

\* A step without a compensation is passed over.
SkipStep(r) ==
    /\ Back(r)
    /\ step[r] \notin Compensable[r]
    /\ UNCHANGED <<standing, faults>>

\* The process dies, or is told to exit: nothing is left that would compensate.
Die(r) ==
    /\ at[r] \in {"forward", "compensate"}
    /\ at' = [at EXCEPT ![r] = "dead"]
    /\ faults' = [faults EXCEPT ![r] = @ \cup {<<"death", step[r]>>}]
    /\ UNCHANGED <<step, standing>>

Run(r) ==
    StepSucceeds(r) \/ StepFails(r) \/ Compensate(r) \/ CompensationFails(r) \/ SkipStep(r)

Next == \E r \in Runs : Run(r) \/ Die(r)

Spec == Init /\ [][Next]_vars

----------------------------------------------------------------------------

\* Every variable keeps its type.
TypeOK ==
    /\ at \in [Runs -> Phases]
    /\ step \in [Runs -> Nat] /\ \A r \in Runs : step[r] <= N[r] + 1
    /\ standing \in [Runs -> SUBSET Nat] /\ \A r \in Runs : standing[r] \subseteq 1..N[r]
    /\ faults \in [Runs -> SUBSET Faults]

Sound(r) == faults[r] = {}

\* A run without faults leaves all effects in place, or none that can be undone.
AllOrNothing ==
    \A r \in Runs :
        Sound(r) => /\ at[r] = "completed" => standing[r] = 1..N[r]
                    /\ at[r] = "failed" => standing[r] \cap Compensable[r] = {}

\* Also in between, nothing is undone while something built on it still stands: effects are
\* taken back in reverse order.
UndoneInReverse ==
    \A r \in Runs : Sound(r) =>
        \A i \in standing[r] \cap Compensable[r] : \A j \in Compensable[r] : j < i => j \in standing[r]

\* The step took effect and raised all the same, or its compensation raised.
Raised(r, i) == <<"step", i>> \in faults[r] \/ <<"compensation", i>> \in faults[r]

\* Whatever goes wrong with one step stays with it: when SagaError is raised, each effect that could
\* have been undone and stands is that of a step that raised itself, or whose own compensation raised.
\* A completed payment does not stay because the ticket raised late, or because another step
\* could not be undone.
OnlyWhatRaisedStays ==
    \A r \in Runs : at[r] = "failed" => \A i \in standing[r] \cap Compensable[r] : Raised(r, i)
=============================================================================
