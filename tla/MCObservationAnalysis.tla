----------------------- MODULE MCObservationAnalysis -----------------------
(***************************************************************************)
(* Instance of ObservationAnalysis for TLC: three images, one of which     *)
(* cannot be read and one not be scaled down, two workers of the first     *)
(* start of the Core and one of the second.                                *)
(***************************************************************************)
EXTENDS ObservationAnalysis

CONSTANTS w1, w2, w3, good, bad, big

GenerationMC == [w \in Workers |-> IF w = w3 THEN 2 ELSE 1]

RaisesMC == [o \in Observations |-> CASE o = bad -> "read"
                                      [] o = big -> "write"
                                      [] OTHER -> "never"]
=============================================================================
