--------------------------- MODULE MCScenarioRunner ---------------------------
(***************************************************************************)
(* Instances of ScenarioRunner.  The plant trips once disturbance "b" has  *)
(* acted for two intervals, so timelines with and without a trip occur.    *)
(***************************************************************************)
EXTENDS ScenarioRunner

MCDisturbances == {"a", "b"}

MCTrips(s, h) == Cardinality({i \in DOMAIN h : h[i]["b"] > 0}) >= 2

Flt(d, at, dur, mag) ==
    [disturbance |-> d, activateAt |-> at, duration |-> dur, magnitude |-> mag]

Scn(sd, warm, dur, sync, faults) ==
    [seed |-> sd, warmup |-> warm, duration |-> dur, sync |-> sync,
     faults |-> faults]

(* A permanent fault in mid-timeline.                                      *)
Permanent == Scn(1, 1, 3, 1, <<Flt("a", 2, 0, 1)>>)
(* A fault between two snapshots, a trip before the end, a short last step. *)
Tripping == Scn(2, 0, 5, 2, <<Flt("a", 1, 1, 1), Flt("b", 1, 0, 1)>>)
(* A fault that is over when the warmup ends; one cleared at the end.      *)
Expired == Scn(3, 3, 3, 2, <<Flt("a", 5, 1, 2), Flt("b", 1, 2, 1)>>)
(* A temporary fault whose activation and clear fall between snapshots.    *)
Temporary == Scn(4, 0, 5, 2, <<Flt("a", 1, 2, 1)>>)
Quiet == Scn(5, 1, 1, 1, <<>>)

DistinctSeeds == {Permanent, Tripping, Expired, Temporary, Quiet}

(* One seed for all scenarios, as --seeds 1 makes it.                      *)
SharedSeed == {Permanent, [Temporary EXCEPT !.seed = 1]}

(* Two faults of one disturbance: a permanent one and a shorter one.       *)
Overlapping ==
    {Quiet, Scn(1, 0, 4, 1, <<Flt("a", 0, 0, 1), Flt("a", 1, 1, 2)>>)}
=============================================================================
