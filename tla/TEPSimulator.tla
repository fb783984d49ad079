---------------------------- MODULE TEPSimulator ----------------------------
(***************************************************************************)
(* The steppable plant simulator (TEPSimulator in src/icab/tep/            *)
(* simulator.py) around an external, deterministic kernel.                 *)
(*                                                                         *)
(* Time is counted in native control intervals.  The kernel's state, and   *)
(* so every measurement, is a function of the seed and of the disturbance  *)
(* vectors applied in each interval since the reset: the model keeps       *)
(* exactly that history and calls it the measured value.                   *)
(***************************************************************************)
EXTENDS Naturals, Sequences

CONSTANTS
    Disturbances,      \* the kernel's disturbance names
    Seeds,
    DayLength,         \* native control intervals in 24 hours
    Trips(_, _)        \* Trips(seed, history): the kernel has shut down

ASSUME SimulatorAssumption ==
    /\ Seeds \subseteq Nat
    /\ DayLength \in Nat \ {0}
    /\ \A s \in Seeds : ~Trips(s, <<>>)

VARIABLES
    seed,
    disturbances,      \* the vector in force; 0 is "off"
    history            \* the vectors applied since the last reset

simulatorVars == <<seed, disturbances, history>>

Vector == [Disturbances -> Nat]
AllOff == [d \in Disturbances |-> 0]

SimulatorTypeOK ==
    /\ seed \in Seeds
    /\ disturbances \in Vector
    /\ history \in Seq(Vector)

SimulatorInit ==
    /\ seed \in Seeds
    /\ disturbances = AllOff
    /\ history = <<>>

Time == Len(history)
Terminated == Trips(seed, history)
Measured == [seed |-> seed, history |-> history]

(* The epoch of a scenario is the reference date plus seed days            *)
(* (ScenarioRunner._epoch_for), so a timestamp is:                         *)
Timestamp(s, t) == s * DayLength + t

Reset(s) ==
    /\ seed' = s
    /\ disturbances' = AllOff
    /\ history' = <<>>

(* step(duration): native intervals under the vector in force, until the   *)
(* duration is over or the plant has tripped.  A tripped plant does not    *)
(* move and its clock stands still.                                        *)
After(n) == history \o [i \in 1..n |-> disturbances]

StepPlant(duration) ==
    /\ \E n \in 0..duration :
          /\ history' = After(n)
          /\ \A k \in 0..(n - 1) : ~Trips(seed, After(k))
          /\ n = duration \/ Trips(seed, After(n))
    /\ UNCHANGED <<seed, disturbances>>

InjectFault(d, magnitude) ==
    /\ disturbances' = [disturbances EXCEPT ![d] = magnitude]
    /\ UNCHANGED <<seed, history>>
=============================================================================
