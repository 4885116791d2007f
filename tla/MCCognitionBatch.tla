-------------------------- MODULE MCCognitionBatch ---------------------------
(* Four questions, three of them funded, two calls in flight, one retry and *)
(* one repair each.                                                         *)
EXTENDS CognitionBatch

MCFunded == {1, 2, 4}
=============================================================================
