----------------------------- MODULE RunArchive ------------------------------
(***************************************************************************)
(* What the directory of finished runs promises: an id is claimed by one   *)
(* saver, only that saver may publish under it, once, and a claim that was *)
(* never published stays in the way until somebody removes the directory.  *)
(***************************************************************************)
CONSTANTS Runs, Savers, Nobody

VARIABLES maker,      \* who claimed the id
          publisher   \* whose manifest was published under it

archive == <<maker, publisher>>

Init ==
  /\ maker = [id \in Runs |-> Nobody]
  /\ publisher = [id \in Runs |-> Nobody]

Claim(id, s) ==
  /\ maker[id] = Nobody
  /\ maker' = [maker EXCEPT ![id] = s]
  /\ UNCHANGED publisher

Publish(id) ==
  /\ maker[id] # Nobody
  /\ publisher[id] = Nobody
  /\ publisher' = [publisher EXCEPT ![id] = maker[id]]
  /\ UNCHANGED maker

Discard(id) ==
  /\ maker' = [maker EXCEPT ![id] = Nobody]
  /\ publisher' = [publisher EXCEPT ![id] = Nobody]

Next ==
  \E id \in Runs :
    \/ \E s \in Savers : Claim(id, s)
    \/ Publish(id)
    \/ Discard(id)

Spec == Init /\ [][Next]_archive
=============================================================================
