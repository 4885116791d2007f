--------------------------- MODULE RunPublication ----------------------------
(***************************************************************************)
(* CityRunStore: a run is a directory of sidecar documents and, last, the  *)
(* manifest run.json.  `save` claims the directory, writes and reads back  *)
(* every sidecar, then links the verified manifest; `load` accepts nothing *)
(* but the whole set of one run.  The other user of these files is the     *)
(* filesystem's: a run may be replaced by another one, damaged or removed. *)
(*                                                                         *)
(* File 0 is the manifest and files 1 .. Docs are the sidecars in the      *)
(* order they are written.  A file's content is the run it was made from.  *)
(* Its stamp stands for its identity, size and times, which any later      *)
(* change moves.                                                           *)
(***************************************************************************)
EXTENDS Naturals

CONSTANTS Runs,      \* run ids
          Savers,    \* calls of save, each with a prepared run of its own
          RunOf,     \* the id each of them saves under
          Pinned,    \* the savers of version 10 runs, whose sidecars are pinned
          Readers,   \* the requests that read runs
          Nobody,    \* no saver
          Docs,      \* number of sidecars
          MaxEdits   \* bound on the changes made from outside

ASSUME PublicationAssumption ==
  /\ RunOf \in [Savers -> Runs]
  /\ Pinned \subseteq Savers
  /\ Savers \cap {Nobody, "absent", "damaged"} = {}
  /\ Docs \in Nat \ {0}
  /\ MaxEdits \in Nat

Files == 0 .. Docs
Sidecars == 1 .. Docs
Content == Savers \cup {"absent", "damaged"}

VARIABLES disk,       \* the files under each id
          maker,      \* who created the directory, Nobody while there is none
          publisher,  \* history: who linked the manifest
          edits,      \* the changes made from outside
          saver,      \* where each save stands
          intact,     \* history: savers whose sidecars were all their own at the link
          load,       \* where each load stands
          settled     \* history: loads whose run was whole when its last sidecar was read

files == <<disk, maker, publisher>>
publicationVars == <<files, edits, saver, intact, load, settled>>

NoFiles == [f \in Files |-> [is |-> "absent", stamp |-> 0]]

Made(id) == maker[id] # Nobody

Whole(id, s) == \A f \in Files : disk[id][f].is = s

Unsaved == [at |-> "idle", next |-> 0, held |-> [f \in Files |-> 0]]

Unread == [id |-> Nobody, at |-> "idle", next |-> 0, author |-> Nobody,
           held |-> [f \in Files |-> 0]]

PublicationInit ==
  /\ disk = [id \in Runs |-> NoFiles]
  /\ maker = [id \in Runs |-> Nobody]
  /\ publisher = [id \in Runs |-> Nobody]
  /\ edits = 0
  /\ saver = [s \in Savers |-> Unsaved]
  /\ intact = {}
  /\ load = [r \in Readers |-> Unread]
  /\ settled = {}

Put(id, f, s) == disk' = [disk EXCEPT ![id][f] = [is |-> s, stamp |-> edits]]

Held(id, held, fs) == \A f \in fs : disk[id][f].stamp = held[f] /\ disk[id][f].is # "absent"

-----------------------------------------------------------------------------
(* save                                                                    *)

Ended == {"refused", "failed", "saved"}

SaverAt(s, at) ==
  saver' = [saver EXCEPT ![s] = IF at \in Ended THEN [Unsaved EXCEPT !.at = at]
                                ELSE [@ EXCEPT !.at = at]]

(* ensure_available, the early check of publish *)
Ensure(s) ==
  /\ saver[s].at = "idle"
  /\ SaverAt(s, IF Made(RunOf[s]) THEN "refused" ELSE "free")
  /\ UNCHANGED <<files, edits, intact, load, settled>>

(* A slip: a directory that is there already will do. *)
Reserve_Reused(s) ==
  /\ saver[s].at = "free"
  /\ maker' = [maker EXCEPT ![RunOf[s]] = s]
  /\ saver' = [saver EXCEPT ![s].at = "writing", ![s].next = 1]
  /\ UNCHANGED <<disk, publisher, edits, intact, load, settled>>

(* directory.mkdir() decides between savers that all found the id free. *)
Reserve(s) ==
  /\ saver[s].at = "free"
  /\ IF Made(RunOf[s])
     THEN SaverAt(s, "refused") /\ UNCHANGED maker
     ELSE /\ maker' = [maker EXCEPT ![RunOf[s]] = s]
          /\ saver' = [saver EXCEPT ![s].at = "writing", ![s].next = 1]
  /\ UNCHANGED <<disk, publisher, edits, intact, load, settled>>

(* A sidecar is created exclusively. *)
WriteDoc(s) ==
  LET id == RunOf[s]
      f == saver[s].next
  IN /\ saver[s].at = "writing"
     /\ IF disk[id][f].is # "absent"
        THEN SaverAt(s, "failed") /\ UNCHANGED disk
        ELSE Put(id, f, s) /\ SaverAt(s, "written")
     /\ UNCHANGED <<maker, publisher, edits, intact, load, settled>>

(* It is held open from here on by a version 10 save, and read back. *)
ReadBack(s) ==
  LET f == saver[s].next
      file == disk[RunOf[s]][f]
  IN /\ saver[s].at = "written"
     /\ IF file.is # s
        THEN SaverAt(s, "failed")
        ELSE saver' = [saver EXCEPT ![s].at = IF f < Docs THEN "writing"
                                              ELSE IF s \in Pinned THEN "staged" ELSE "verified",
                                    ![s].next = f + 1,
                                    ![s].held[f] = IF s \in Pinned THEN file.stamp ELSE 0]
     /\ UNCHANGED <<files, edits, intact, load, settled>>

(* verify_held_evidence: no sidecar has moved since it was read back. *)
Evidence(s) ==
  /\ saver[s].at = "staged"
  /\ SaverAt(s, IF Held(RunOf[s], saver[s].held, Sidecars) THEN "verified" ELSE "failed")
  /\ UNCHANGED <<files, edits, intact, load, settled>>

(* The staged manifest is linked exclusively. *)
Link(s) ==
  LET id == RunOf[s]
  IN /\ saver[s].at = "verified"
     /\ IF disk[id][0].is # "absent"
        THEN SaverAt(s, "failed") /\ UNCHANGED <<files, intact>>
        ELSE /\ Put(id, 0, s)
             /\ publisher' = [publisher EXCEPT ![id] = s]
             /\ SaverAt(s, "linked")
             /\ intact' = IF \A f \in Sidecars : disk[id][f].is = s
                          THEN intact \cup {s} ELSE intact
             /\ UNCHANGED maker
     /\ UNCHANGED <<edits, load, settled>>

CheckManifest(s) ==
  /\ saver[s].at = "linked"
  /\ SaverAt(s, IF disk[RunOf[s]][0].is # s THEN "failed"
                ELSE IF s \in Pinned THEN "closing" ELSE "saved")
  /\ UNCHANGED <<files, edits, intact, load, settled>>

(* A slip: the sidecars are closed and not looked at again. *)
Release_Unchecked(s) ==
  /\ saver[s].at = "closing"
  /\ SaverAt(s, "saved")
  /\ UNCHANGED <<files, edits, intact, load, settled>>

(* Closing a held sidecar compares it once more with what was opened. *)
Release(s) ==
  /\ saver[s].at = "closing"
  /\ SaverAt(s, IF Held(RunOf[s], saver[s].held, Sidecars) THEN "saved" ELSE "failed")
  /\ UNCHANGED <<files, edits, intact, load, settled>>

Saving == {"writing", "written", "staged", "verified", "linked", "closing"}

(* An I/O error or the end of the process; what was written stays behind. *)
Fails(s) ==
  /\ saver[s].at \in Saving
  /\ SaverAt(s, "failed")
  /\ UNCHANGED <<files, edits, intact, load, settled>>

SaveStep(s) ==
  \/ Ensure(s) \/ Reserve(s) \/ WriteDoc(s) \/ ReadBack(s) \/ Evidence(s)
  \/ Link(s) \/ CheckManifest(s) \/ Release(s)

-----------------------------------------------------------------------------
(* load                                                                    *)

NoneHeld == [f \in Files |-> 0]

Ends(r, at) == load' = [load EXCEPT ![r].at = at, ![r].next = 0, ![r].held = NoneHeld]

Refuses(r) == Ends(r, "refused")

LoadBegins(r, id) == load' = [load EXCEPT ![r] = [Unread EXCEPT !.id = id, !.at = "manifest"]]

ReadManifest(r) ==
  LET l == load[r]
      s == disk[l.id][0].is
  IN /\ l.at = "manifest"
     /\ IF s \notin Savers
        THEN Refuses(r)
        ELSE load' = [load EXCEPT ![r].at = IF s \in Pinned THEN "pinning" ELSE "reading",
                                  ![r].next = 1, ![r].author = s]
     /\ UNCHANGED <<files, edits, saver, intact, settled>>

(* Every sidecar and the manifest are held open and the manifest is read    *)
(* again; one step, as a change between two openings is one after a first. *)
Pin(r) ==
  LET l == load[r]
  IN /\ l.at = "pinning"
     /\ IF \E f \in Files : disk[l.id][f].is = "absent" \/ (f = 0 /\ disk[l.id][f].is # l.author)
        THEN Refuses(r)
        ELSE load' = [load EXCEPT ![r].held = [f \in Files |-> disk[l.id][f].stamp],
                                  ![r].at = "reading"]
     /\ UNCHANGED <<files, edits, saver, intact, settled>>

(* Each sidecar must be the one reconstructed from the frozen inputs. *)
ReadDoc(r) ==
  LET l == load[r]
      last == l.next = Docs
  IN /\ l.at = "reading"
     /\ IF disk[l.id][l.next].is # l.author THEN Refuses(r)
        ELSE IF ~ last THEN load' = [load EXCEPT ![r].next = l.next + 1]
        ELSE IF l.author \in Pinned THEN load' = [load EXCEPT ![r].at = "closing"]
        ELSE Ends(r, "loaded")
     /\ settled' = IF last /\ Whole(l.id, l.author) THEN settled \cup {r} ELSE settled
     /\ UNCHANGED <<files, edits, saver, intact>>

(* A slip: the files are closed and not looked at again. *)
Close_Unchecked(r) ==
  /\ load[r].at = "closing"
  /\ Ends(r, "loaded")
  /\ UNCHANGED <<files, edits, saver, intact, settled>>

Close(r) ==
  /\ load[r].at = "closing"
  /\ IF Held(load[r].id, load[r].held, Files)
     THEN Ends(r, "loaded")
     ELSE Refuses(r)
  /\ UNCHANGED <<files, edits, saver, intact, settled>>

LoadStep(r) == ReadManifest(r) \/ Pin(r) \/ ReadDoc(r) \/ Close(r)

-----------------------------------------------------------------------------
(* What happens to the files from outside.                                 *)

Rewrite(id, fs, c) ==
  /\ edits < MaxEdits
  /\ edits' = edits + 1
  /\ disk' = [disk EXCEPT ![id] =
                [f \in Files |-> IF f \in fs THEN [is |-> c, stamp |-> edits + 1]
                                 ELSE disk[id][f]]]

(* Another run of the same id takes the place of a published one. *)
Replace(id) ==
  /\ publisher[id] # Nobody
  /\ \E s \in Savers : RunOf[s] = id /\ Rewrite(id, Files, s)
  /\ UNCHANGED <<maker, publisher, saver, intact, load, settled>>

Damage(id) ==
  /\ \E f \in Files : disk[id][f].is \in Savers /\ Rewrite(id, {f}, "damaged")
  /\ UNCHANGED <<maker, publisher, saver, intact, load, settled>>

(* Nobody removes a run that is being saved. *)
Remove(id) ==
  /\ Made(id)
  /\ \A s \in Savers : RunOf[s] = id => saver[s].at \notin Saving
  /\ Rewrite(id, Files, "absent")
  /\ maker' = [maker EXCEPT ![id] = Nobody]
  /\ publisher' = [publisher EXCEPT ![id] = Nobody]
  /\ UNCHANGED <<saver, intact, load, settled>>

Outside == \E id \in Runs : Replace(id) \/ Damage(id) \/ Remove(id)

=============================================================================
