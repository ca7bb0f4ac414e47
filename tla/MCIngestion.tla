---------------------------- MODULE MCIngestion -----------------------------
(* A small instance of Ingestion: two items, and minutes of two ticks, 1   *)
(* to 2, 3 to 4.                                                           *)
EXTENDS Ingestion

MCFloor == [t \in 0..MaxTime |-> IF t = 0 THEN 0 ELSE t - ((t + 1) % 2)]
=============================================================================
