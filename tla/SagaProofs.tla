----------------------------- MODULE SagaProofs ----------------------------
(* Proofs about Saga, for any number of runs and steps and any choice of the      *)
(* steps that have a compensation; and about the saga of a booking.               *)
EXTENDS BookingSaga, TLAPS

USE StepsAssumption

\* What stands of a run without faults: exactly the completed steps, and on the way back the
\* compensable ones up to the step that is dealt with next.
StandingOf(r) ==
    /\ at[r] = "forward" => step[r] \in 1..N[r] /\ (Sound(r) => standing[r] = 1..(step[r] - 1))
    /\ at[r] = "compensate" =>
          /\ step[r] \in 1..(N[r] - 1)
          /\ Sound(r) => standing[r] \cap Compensable[r] = (1..step[r]) \cap Compensable[r]
    /\ at[r] = "completed" /\ Sound(r) => standing[r] = 1..N[r]
    /\ at[r] = "failed" /\ Sound(r) => standing[r] \cap Compensable[r] = {}
    /\ at[r] = "dead" => ~Sound(r)

\* Going forward nothing has gone wrong, and a run that turned back has not made its last step, unless
\* that raised late.  On the way back, what stands is still to be compensated, or has raised.
LeftoverOf(r) ==
    /\ at[r] \in {"forward", "completed"} => Sound(r)
    /\ at[r] \in {"compensate", "failed"} /\ Sound(r) => N[r] \notin standing[r]
    /\ at[r] = "compensate" => \A i \in standing[r] \cap Compensable[r] : i \in 1..step[r] \/ Raised(r, i)
    /\ at[r] = "failed" => \A i \in standing[r] \cap Compensable[r] : Raised(r, i)

\* TypeOK for one run.
TypeOf(r) ==
    /\ at[r] \in Phases /\ step[r] \in 0..(N[r] + 1)
    /\ standing[r] \subseteq 1..N[r] /\ faults[r] \subseteq Faults

RunInv(r) == TypeOf(r) /\ StandingOf(r) /\ LeftoverOf(r)

\* The inductive invariant: every run for itself.
IInv ==
    /\ at \in [Runs -> Phases] /\ step \in [Runs -> Nat]
    /\ standing \in [Runs -> SUBSET Nat] /\ faults \in [Runs -> SUBSET Faults]
    /\ \A r \in Runs : RunInv(r)

\* The invariant holds at the start.
LEMMA InitIInv == Init => IInv
BY DEF Init, IInv, RunInv, TypeOf, StandingOf, LeftoverOf, Phases, Faults, Sound, Raised

\* A step changes one run at most.
OneRun(r) ==
    /\ at' = [at EXCEPT ![r] = at'[r]] /\ step' = [step EXCEPT ![r] = step'[r]]
    /\ standing' = [standing EXCEPT ![r] = standing'[r]] /\ faults' = [faults EXCEPT ![r] = faults'[r]]

\* So it is enough to look at that one.
LEMMA OneRunIsEnough ==
    ASSUME IInv, NEW r \in Runs, OneRun(r), RunInv(r)'
    PROVE  IInv'
<1>1. /\ at'[r] \in Phases /\ step'[r] \in Nat /\ standing'[r] \in SUBSET Nat
      /\ faults'[r] \in SUBSET Faults
  BY DEF RunInv, TypeOf
<1>2. /\ at' \in [Runs -> Phases] /\ step' \in [Runs -> Nat]
      /\ standing' \in [Runs -> SUBSET Nat] /\ faults' \in [Runs -> SUBSET Faults]
  BY <1>1 DEF IInv, OneRun
<1>3. ASSUME NEW x \in Runs, x # r PROVE RunInv(x)'
  <2>1. at'[x] = at[x] /\ step'[x] = step[x] /\ standing'[x] = standing[x] /\ faults'[x] = faults[x]
    BY <1>3 DEF IInv, OneRun
  <2>2. RunInv(x)
    BY DEF IInv
  <2>3. QED
    BY <2>1, <2>2 DEF RunInv, TypeOf, StandingOf, LeftoverOf, Sound, Raised
<1>4. QED
  BY <1>2, <1>3 DEF IInv

\* Going forward adds the next step.
LEMMA SucceedsIInv == ASSUME IInv, NEW r \in Runs, StepSucceeds(r) PROVE IInv'
<1>1. /\ at[r] = "forward" /\ at'[r] = IF step[r] = N[r] THEN "completed" ELSE "forward"
      /\ step'[r] = step[r] + 1 /\ standing'[r] = standing[r] \cup {step[r]} /\ faults'[r] = faults[r]
  BY DEF IInv, StepSucceeds
<1>2. OneRun(r)
  BY <1>1 DEF IInv, StepSucceeds, OneRun
<1>3. /\ step[r] \in 1..N[r] /\ standing[r] = 1..(step[r] - 1) /\ faults[r] = {}
  BY <1>1 DEF IInv, RunInv, StandingOf, LeftoverOf, Sound
<1>4. standing'[r] = 1..step[r] /\ N[r] \in Nat \ {0}
  BY <1>1, <1>3
<1>5. TypeOf(r)'
  BY <1>1, <1>3, <1>4 DEF TypeOf, Phases
<1>6. StandingOf(r)' /\ LeftoverOf(r)'
  BY <1>1, <1>3, <1>4 DEF StandingOf, LeftoverOf, Sound
<1>7. QED
  BY <1>2, <1>5, <1>6, OneRunIsEnough DEF RunInv

\* A step that raises turns the run back; if it took effect, it is recorded as having raised.
LEMMA FailsIInv == ASSUME IInv, NEW r \in Runs, StepFails(r) PROVE IInv'
<1>1. /\ at[r] = "forward" /\ at'[r] = IF step[r] = 1 THEN "failed" ELSE "compensate"
      /\ step'[r] = step[r] - 1
      /\ \/ standing'[r] = standing[r] /\ faults'[r] = faults[r]
         \/ standing'[r] = standing[r] \cup {step[r]} /\ faults'[r] = faults[r] \cup {<<"step", step[r]>>}
  BY DEF IInv, StepFails
<1>2. OneRun(r)
  BY DEF IInv, StepFails, OneRun
<1>3. step[r] \in 1..N[r] /\ standing[r] = 1..(step[r] - 1) /\ faults[r] = {} /\ N[r] \in Nat \ {0}
  BY <1>1 DEF IInv, RunInv, StandingOf, LeftoverOf, Sound
<1>4. <<"step", step[r]>> \in Faults
  BY <1>3 DEF Faults
<1>5. /\ step'[r] \in 0..(N[r] - 1) /\ at'[r] \in {"compensate", "failed"}
      /\ at'[r] = "compensate" => step'[r] \in 1..(N[r] - 1)
      /\ at'[r] = "failed" => 1..step'[r] = {}
  BY <1>1, <1>3
<1>6. CASE standing'[r] = standing[r] /\ faults'[r] = faults[r]
  <2>1. standing'[r] = 1..step'[r] /\ faults'[r] = {}
    BY <1>1, <1>3, <1>6
  <2>2. N[r] \notin 1..step'[r] /\ 1..step'[r] \subseteq 1..N[r] /\ step'[r] \in 0..(N[r] + 1)
    BY <1>3, <1>5
  <2>3. TypeOf(r)'
    BY <1>5, <2>1, <2>2 DEF TypeOf, Phases
  <2>4. StandingOf(r)' /\ LeftoverOf(r)'
    BY <1>5, <2>1, <2>2 DEF StandingOf, LeftoverOf, Sound
  <2>5. QED
    BY <1>2, <2>3, <2>4, OneRunIsEnough DEF RunInv
<1>7. CASE standing'[r] = standing[r] \cup {step[r]} /\ faults'[r] = faults[r] \cup {<<"step", step[r]>>}
  <2>1. standing'[r] = 1..step'[r] \cup {step[r]} /\ standing'[r] \subseteq 1..N[r]
    BY <1>1, <1>3, <1>7
  <2>2. <<"step", step[r]>> \in faults'[r] /\ faults'[r] \subseteq Faults
    BY <1>3, <1>4, <1>7
  <2>3. ~Sound(r)' /\ \A i : i = step[r] => Raised(r, i)'
    BY <2>2 DEF Sound, Raised
  <2>4. TypeOf(r)'
    <3>1. step'[r] \in 0..(N[r] + 1)
      BY <1>3, <1>5
    <3>2. QED
      BY <1>5, <2>1, <2>2, <3>1 DEF TypeOf, Phases
  <2>5. StandingOf(r)'
    BY <1>5, <2>3 DEF StandingOf
  <2>6. \A i \in standing'[r] : i \in 1..step'[r] \/ Raised(r, i)'
    BY <2>1, <2>3
  <2>7. LeftoverOf(r)'
    BY <1>5, <2>3, <2>6 DEF LeftoverOf
  <2>8. QED
    BY <1>2, <2>4, <2>5, <2>7, OneRunIsEnough DEF RunInv
<1>8. QED
  BY <1>1, <1>6, <1>7

\* Going back takes the next effect away, has nothing to take away, or records that it failed to.
LEMMA BackIInv ==
    ASSUME IInv, NEW r \in Runs, Compensate(r) \/ CompensationFails(r) \/ SkipStep(r)
    PROVE  IInv'
<1>1. /\ at[r] = "compensate" /\ at'[r] = IF step[r] = 1 THEN "failed" ELSE "compensate"
      /\ step'[r] = step[r] - 1
      /\ standing'[r] \in {standing[r], standing[r] \ {step[r]}}
      /\ faults'[r] \in {faults[r], faults[r] \cup {<<"compensation", step[r]>>}}
      /\ \/ step[r] \notin standing'[r] \cap Compensable[r]
         \/ <<"compensation", step[r]>> \in faults'[r]
  <2>1. CASE Compensate(r)
    BY <2>1 DEF IInv, Compensate, Back
  <2>2. CASE CompensationFails(r)
    <3>1. /\ at[r] = "compensate" /\ at'[r] = IF step[r] = 1 THEN "failed" ELSE "compensate"
          /\ step'[r] = step[r] - 1
      BY <2>2 DEF IInv, CompensationFails, Back
    <3>2. standing'[r] \in {standing[r], standing[r] \ {step[r]}}
      BY <2>2 DEF IInv, CompensationFails
    <3>3. faults'[r] = faults[r] \cup {<<"compensation", step[r]>>}
      BY <2>2 DEF IInv, CompensationFails
    <3>4. QED
      BY <3>1, <3>2, <3>3
  <2>3. CASE SkipStep(r)
    BY <2>3 DEF IInv, SkipStep, Back
  <2>4. QED
    BY <2>1, <2>2, <2>3
<1>2. OneRun(r)
  <2>1. CASE Compensate(r) \/ SkipStep(r)
    BY <2>1 DEF IInv, Compensate, SkipStep, Back, OneRun
  <2>2. CASE CompensationFails(r)
    BY <2>2 DEF IInv, CompensationFails, Back, OneRun
  <2>3. QED
    BY <2>1, <2>2
<1>3. RunInv(r) /\ N[r] \in Nat \ {0} /\ step[r] \in 1..(N[r] - 1)
  BY <1>1 DEF IInv, RunInv, StandingOf
<1>4. <<"compensation", step[r]>> \in Faults
  BY <1>3 DEF Faults
<1>5. /\ step'[r] \in 0..(N[r] - 1) /\ at'[r] \in {"compensate", "failed"}
      /\ at'[r] = "compensate" => step'[r] \in 1..(N[r] - 1)
      /\ at'[r] = "failed" => 1..step'[r] = {}
      /\ 1..step[r] = 1..step'[r] \cup {step[r]} /\ step[r] \notin 1..step'[r]
  BY <1>1, <1>3
<1>6. standing'[r] \subseteq standing[r] /\ faults[r] \subseteq faults'[r] /\ (Sound(r)' => Sound(r))
  BY <1>1 DEF Sound
<1>7. TypeOf(r)'
  <2>1. standing'[r] \subseteq 1..N[r]
    BY <1>3, <1>6 DEF RunInv, TypeOf
  <2>2. faults'[r] \subseteq Faults
    BY <1>1, <1>3, <1>4 DEF RunInv, TypeOf
  <2>3. QED
    BY <1>3, <1>5, <2>1, <2>2 DEF TypeOf, Phases
<1>8. Sound(r)' => standing'[r] \cap Compensable[r] = (1..step'[r]) \cap Compensable[r]
  <2> SUFFICES ASSUME Sound(r)' PROVE standing'[r] \cap Compensable[r] = (1..step'[r]) \cap Compensable[r]
    OBVIOUS
  <2>1. standing[r] \cap Compensable[r] = (1..step[r]) \cap Compensable[r]
    BY <1>1, <1>3, <1>6 DEF RunInv, StandingOf
  <2>2. step[r] \notin standing'[r] \cap Compensable[r]
    BY <1>1 DEF Sound
  <2>3. QED
    BY <1>1, <1>5, <2>1, <2>2
<1>9. StandingOf(r)'
  BY <1>5, <1>8 DEF StandingOf
<1>10. ASSUME NEW i \in standing'[r] \cap Compensable[r] PROVE i \in 1..step'[r] \/ Raised(r, i)'
  <2>1. i \in 1..step[r] \/ Raised(r, i)
    BY <1>1, <1>3, <1>6 DEF RunInv, LeftoverOf
  <2>2. CASE Raised(r, i)
    BY <1>6, <2>2 DEF Raised
  <2>3. CASE i = step[r]
    BY <1>1, <2>3 DEF Raised
  <2>4. QED
    BY <1>5, <2>1, <2>2, <2>3
<1>11. Sound(r)' => N[r] \notin standing'[r]
  BY <1>1, <1>3, <1>6 DEF RunInv, LeftoverOf
<1>12. LeftoverOf(r)'
  BY <1>5, <1>10, <1>11 DEF LeftoverOf
<1>13. QED
  BY <1>2, <1>7, <1>9, <1>12, OneRunIsEnough DEF RunInv

\* A death is recorded, and nothing else is said of the dead.
LEMMA DieIInv == ASSUME IInv, NEW r \in Runs, Die(r) PROVE IInv'
<1>1. /\ at[r] \in {"forward", "compensate"} /\ at'[r] = "dead" /\ step'[r] = step[r]
      /\ standing'[r] = standing[r] /\ faults'[r] = faults[r] \cup {<<"death", step[r]>>}
  BY DEF IInv, Die
<1>2. OneRun(r)
  BY DEF IInv, Die, OneRun
<1>3. TypeOf(r) /\ N[r] \in Nat /\ step[r] \in Nat
  BY DEF IInv, RunInv
<1>4. <<"death", step[r]>> \in Faults
  BY <1>3 DEF Faults
<1>5. faults'[r] \subseteq Faults /\ ~Sound(r)'
  BY <1>1, <1>3, <1>4 DEF TypeOf, Sound
<1>6. TypeOf(r)'
  BY <1>1, <1>3, <1>5 DEF TypeOf, Phases
<1>7. StandingOf(r)' /\ LeftoverOf(r)'
  BY <1>1, <1>5 DEF StandingOf, LeftoverOf
<1>8. QED
  BY <1>2, <1>6, <1>7, OneRunIsEnough DEF RunInv

\* IInv is inductive.
LEMMA StepIInv == ASSUME IInv, [Next]_vars PROVE IInv'
<1>1. ASSUME NEW r \in Runs, Run(r) \/ Die(r) PROVE IInv'
  BY <1>1, SucceedsIInv, FailsIInv, BackIInv, DieIInv DEF Run
<1>2. CASE UNCHANGED vars
  BY <1>2 DEF vars, IInv, RunInv, TypeOf, StandingOf, LeftoverOf, Sound, Raised
<1>3. QED
  BY <1>1, <1>2 DEF Next

\* IInv holds of every reachable state.
THEOREM Inductive == Spec => []IInv
<1>1. IInv /\ [Next]_vars => IInv'
  BY StepIInv
<1>2. QED
  BY InitIInv, <1>1, PTL DEF Spec

\* Every variable keeps its type.
THEOREM TypeCorrect == Spec => []TypeOK
<1>1. IInv => TypeOK
  <2> SUFFICES ASSUME IInv PROVE TypeOK
    OBVIOUS
  <2>1. \A r \in Runs : step[r] <= N[r] + 1 /\ standing[r] \subseteq 1..N[r]
    <3> TAKE r \in Runs
    <3>1. TypeOf(r) /\ N[r] \in Nat
      BY DEF IInv, RunInv
    <3>2. QED
      BY <3>1 DEF TypeOf
  <2>2. QED
    BY <2>1 DEF IInv, TypeOK
<1>2. QED
  BY Inductive, <1>1, PTL

\* For sagas of any length: without faults a run leaves everything, or nothing that can be undone.
THEOREM RunsAreAtomic == Spec => []AllOrNothing
<1>1. IInv => AllOrNothing
  BY DEF IInv, RunInv, StandingOf, AllOrNothing
<1>2. QED
  BY Inductive, <1>1, PTL

\* For sagas of any length: effects are taken back in the reverse of the order they were made.
THEOREM UndoIsReverse == Spec => []UndoneInReverse
<1>1. IInv => UndoneInReverse
  <2> SUFFICES ASSUME IInv, NEW r \in Runs, Sound(r), NEW i \in standing[r] \cap Compensable[r],
                      NEW j \in Compensable[r], j < i
               PROVE  j \in standing[r]
    BY DEF UndoneInReverse
  <2>1. i \in 1..N[r] /\ j \in 1..N[r] /\ N[r] \in Nat /\ TypeOf(r) /\ StandingOf(r)
    BY DEF IInv, RunInv, TypeOf
  <2>2. CASE at[r] = "forward"
    BY <2>1, <2>2 DEF StandingOf
  <2>3. CASE at[r] = "compensate"
    BY <2>1, <2>3 DEF StandingOf
  <2>4. CASE at[r] \in {"completed", "failed", "dead"}
    BY <2>1, <2>4 DEF StandingOf
  <2>5. QED
    BY <2>1, <2>2, <2>3, <2>4 DEF TypeOf, Phases
<1>2. QED
  BY Inductive, <1>1, PTL

\* For sagas of any length, whatever raises and however often: an effect that could be undone and is
\* left behind belongs to a step that raised itself or whose compensation did.
THEOREM FaultsStayApart == Spec => []OnlyWhatRaisedStays
<1>1. IInv => OnlyWhatRaisedStays
  BY DEF IInv, RunInv, LeftoverOf, OnlyWhatRaisedStays
<1>2. QED
  BY Inductive, <1>1, PTL

\* The booking saga: without a fault a customer has paid and has a reservation exactly when the ticket
\* is issued.
THEOREM NoTicketNoPayment == Spec => []PaidOnlyForTicket
<1>1. IInv => PaidOnlyForTicket
  <2> SUFFICES ASSUME IInv, NEW r \in Bookings, Sound(r), at[r] \in {"completed", "failed"}
               PROVE  /\ reserve \in standing[r] <=> ticket \in standing[r]
                      /\ pay \in standing[r] <=> ticket \in standing[r]
    BY DEF PaidOnlyForTicket
  <2>1. r \in Runs /\ N[r] = 3 /\ Compensable[r] = {1, 2}
    BY BookingsAssumption DEF ticket, reserve, pay
  <2>2. CASE at[r] = "completed"
    <3>1. standing[r] = 1..3
      BY <2>1, <2>2 DEF IInv, RunInv, StandingOf
    <3>2. QED
      BY <3>1 DEF ticket, reserve, pay
  <2>3. CASE at[r] = "failed"
    <3>1. standing[r] \cap {1, 2} = {} /\ 3 \notin standing[r]
      BY <2>1, <2>3 DEF IInv, RunInv, StandingOf, LeftoverOf
    <3>2. QED
      BY <3>1 DEF ticket, reserve, pay
  <2>4. QED
    BY <2>2, <2>3
<1>2. QED
  BY <1>1, Inductive, PTL
=============================================================================
