------------------------- MODULE MCRecordPublication -------------------------
(* Two calls for one record and one for a record of another group, in each  *)
(* of the three stores, with up to two foreign files.                       *)
EXTENDS RecordPublication, TLC

CONSTANTS p1, p2, p3, k1, k2, k3, k4

MCKeyOf == p1 :> k1 @@ p2 :> k1 @@ p3 :> k2

MCGroupOf == k1 :> "g1" @@ k2 :> "g2" @@ k3 :> "g1" @@ k4 :> "g1"

MCStores == {"registry", "cities", "cache"}
=============================================================================
