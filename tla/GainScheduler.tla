---------------------------- MODULE GainScheduler ----------------------------
(***************************************************************************)
(* The gain of one route of the spatial bridge (crates/openjoc-scene,      *)
(* GainScheduler): a gain moves to its target in equal steps, one per      *)
(* quantum of Quantum samples (Q32 = 32), with linear interpolation in     *)
(* between.  Gains are integers here; the division that makes a step       *)
(* rounds, as the floating-point one does, and the end of a ramp makes up  *)
(* for it.                                                                 *)
(***************************************************************************)
EXTENDS Integers

CONSTANTS
  Quantum,  \* Q32
  Eps       \* EPS_DELTA: a smaller change is no ramp

ASSUME SchedulerAssumption ==
  Quantum \in Nat \ {0} /\ Quantum % 2 = 0 /\ Eps \in Nat \ {0}

\* GainScheduler::new
Silent == [current |-> 0, target |-> 0, delta |-> 0, remaining |-> 0, phase |-> 0]

\* A ramp of d samples in quanta, to the nearest and halves down.
Quanta(d) == (d + Quantum \div 2 - 1) \div Quantum

Distance(m, n) == IF m > n THEN m - n ELSE n - m

SetTargetKeepingRamp(s, target, d) ==  \* mutant: a jump leaves the old ramp running
  IF Distance(target, s.current) >= Eps /\ Quanta(d) > 0
  THEN [current |-> s.current, target |-> target,
        delta |-> (target - s.current) \div Quanta(d), remaining |-> Quanta(d), phase |-> 0]
  ELSE [s EXCEPT !.target = target, !.current = target]

\* set_target at an event: a ramp from where the gain is, or a jump.
SetTarget(s, target, d) ==
  IF Distance(target, s.current) >= Eps /\ Quanta(d) > 0
  THEN [current |-> s.current, target |-> target,
        delta |-> (target - s.current) \div Quanta(d), remaining |-> Quanta(d), phase |-> 0]
  ELSE [current |-> target, target |-> target, delta |-> 0, remaining |-> 0, phase |-> 0]

NextSampleLate(s) ==  \* mutant: a quantum has one sample too many
  CASE s.remaining = 0 -> [s EXCEPT !.current = s.target]
    [] s.remaining > 0 /\ s.phase = Quantum ->
         [s EXCEPT !.current = @ + s.delta, !.remaining = @ - 1, !.phase = 0]
    [] OTHER -> [s EXCEPT !.phase = @ + 1]

\* next_sample: the state it leaves.
NextSample(s) ==
  CASE s.remaining = 0 -> [s EXCEPT !.current = s.target]
    [] s.remaining > 0 /\ s.phase + 1 = Quantum ->
         [s EXCEPT !.current = @ + s.delta, !.remaining = @ - 1, !.phase = 0]
    [] OTHER -> [s EXCEPT !.phase = @ + 1]

\* The state after n samples.
Advance(s, n) ==
  LET after[i \in 0 .. n] == IF i = 0 THEN s ELSE NextSample(after[i - 1])
  IN  after[n]
=============================================================================
