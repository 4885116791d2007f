----------------------------- MODULE MCWorkbench -----------------------------
(* A bounded job on the first of two revisions, two checks, a credential    *)
(* write and two keys.                                                      *)
EXTENDS Workbench

CONSTANTS r1

MCOwner == Jobs \cup Checks \cup Writes

MCOthers == Checks \cup Writes

MCRoute == [j \in Jobs |-> "bounded"]

MCFunded == [j \in Jobs |-> 1]

MCRevisionOf == [j \in Jobs |-> r1]
=============================================================================
