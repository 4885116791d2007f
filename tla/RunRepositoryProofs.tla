------------------------- MODULE RunRepositoryProofs -------------------------
(***************************************************************************)
(* What a caller may rely on of the archive of finished runs and of its    *)
(* caches, for every number of saves, requests and outside changes.        *)
(*                                                                         *)
(* Everything rests on one fact about a file: whoever comes back to a      *)
(* stamp that he has seen before finds what he found then, as every change *)
(* to a file that is there moves its stamp forward.  So a comparison made  *)
(* later says something about all the time in between.                     *)
(***************************************************************************)
EXTENDS RunRepository, TLAPS

File == [is : Content, stamp : Nat]

Saver == [at : {"idle", "free"} \cup Saving \cup Ended, next : Nat, held : [Files -> Nat]]

Reads == {"manifest", "pinning", "reading", "closing"}

Reading == [id : Runs \cup {Nobody}, at : {"idle", "loaded", "refused"} \cup Reads, next : Nat,
            author : Savers \cup {Nobody}, held : [Files -> Nat]]

Visited == {"recalling", "loading", "loaded", "again", "remembering"}

Visiting == [at : {"idle", "scanning", "forgetting", "choosing", "observing", "done"} \cup Visited,
             todo : SUBSET Runs, id : Runs \cup {Nobody}, next : Nat, seen : [Files -> File],
             observed : BOOLEAN, since : Nat, found : Savers \cup {Nobody},
             served : Savers \cup {Nobody}]

Entry == [files : [Files -> File], summary : Savers \cup {Nobody}, born : Nat]

FilesTyped ==
  /\ disk \in [Runs -> [Files -> File]]
  /\ maker \in [Runs -> Savers \cup {Nobody}]
  /\ publisher \in [Runs -> Savers \cup {Nobody}]
  /\ edits \in Nat
  /\ \A id \in Runs, f \in Files : disk[id][f].stamp <= edits

(* A directory with a save under way is that save's; without a directory   *)
(* there is no file, and what was published has some manifest.             *)
ArchiveInOrder ==
  /\ \A s \in Savers : saver[s].at \in Saving => maker[RunOf[s]] = s
  /\ \A id \in Runs : ~ Made(id) => \A f \in Files : disk[id][f].is = "absent"
  /\ \A id \in Runs : publisher[id] # Nobody => Made(id) /\ disk[id][0].is # "absent"

-----------------------------------------------------------------------------
(* A save holds the stamps of the sidecars it has read back; one that was  *)
(* not its own when the manifest was linked has moved on since.            *)

ReadBackBy(s) == IF saver[s].at \in {"writing", "written"} THEN 1 .. (saver[s].next - 1)
                 ELSE Sidecars

SaverInOrder(s) ==
  LET held == saver[s].held
      run == disk[RunOf[s]]
  IN /\ saver[s].at \in {"writing", "written"} => saver[s].next \in Sidecars
     /\ s \in Pinned /\ saver[s].at \in Saving =>
          \A f \in ReadBackBy(s) :
            held[f] <= run[f].stamp /\ (run[f].stamp = held[f] => run[f].is = s)
     /\ s \in Pinned /\ saver[s].at \in {"linked", "closing"} =>
          s \in intact \/ \E f \in Sidecars : held[f] < run[f].stamp
     /\ saver[s].at = "closing" => s \in Pinned
     /\ s \in Pinned /\ saver[s].at = "saved" => s \in intact

SaversInOrder ==
  /\ saver \in [Savers -> Saver]
  /\ intact \subseteq Savers
  /\ \A s \in Savers : SaverInOrder(s)

-----------------------------------------------------------------------------
(* A load knows of each file it has read whose it was, and of a pinned one *)
(* the stamp it had before.                                                *)

ReadBy(l) == IF l.at \in {"manifest", "idle", "refused"} THEN {}
             ELSE IF l.at \in {"pinning", "reading"} THEN 0 .. (l.next - 1)
             ELSE Files

LoadInOrder(r) ==
  LET l == load[r]
      run == disk[l.id]
  IN /\ l.at \in Reads => l.id \in Runs
     /\ l.at \in {"pinning", "reading"} => l.next \in Sidecars
     /\ l.at \in {"pinning", "reading", "closing", "loaded"} => l.author \in Savers
     /\ l.at = "pinning" => l.next = 1
     /\ l.at \in {"pinning", "closing"} => l.author \in Pinned
     /\ l.at \in {"reading", "closing"} /\ l.author \in Pinned =>
          \A f \in Files :
            /\ l.held[f] <= run[f].stamp
            /\ run[f].stamp = l.held[f] => run[f].is # "absent"
            /\ run[f].stamp = l.held[f] /\ f \in ReadBy(l) => run[f].is = l.author
     /\ l.at = "closing" => r \in settled \/ \E f \in Files : l.held[f] < run[f].stamp
     /\ l.at = "loaded" /\ l.author \in Pinned => r \in settled

LoadsInOrder ==
  /\ load \in [Readers -> Reading]
  /\ settled \subseteq Readers
  /\ \A r \in Readers : LoadInOrder(r)

-----------------------------------------------------------------------------
(* What `c` was of a file says of the file as it is now, `d`. *)
Since(c, d) == c.stamp <= d.stamp /\ (c.is # "absent" /\ d.stamp = c.stamp => d = c)

(* A file seen before the load that is still the same was the author's. *)
Confirmed(r, fs, author) ==
  \A f \in Files : f \in fs /\ disk[visit[r].id][f] = visit[r].seen[f]
                   => visit[r].seen[f].is = author

VisitInOrder(r) ==
  LET v == visit[r]
  IN /\ v.at = "observing" =>
          /\ v.id \in Runs /\ v.next \in Files
          /\ \A f \in 0 .. (v.next - 1) : Since(v.seen[f], disk[v.id][f])
     /\ v.at \in Visited =>
          v.id \in Runs /\ (v.observed => \A f \in Files : Since(v.seen[f], disk[v.id][f]))
     /\ v.at = "loaded" =>
          load[r].id = v.id /\ (v.observed => Confirmed(r, ReadBy(load[r]), load[r].author))
     /\ v.at \in {"again", "remembering"} => v.observed /\ v.found \in Savers
     /\ v.at = "again" =>
          /\ v.next \in Files /\ Confirmed(r, Files, v.found)
          /\ \A f \in 0 .. (v.next - 1) : v.seen[f].is = v.found
     /\ v.at = "remembering" => \A f \in Files : v.seen[f].is = v.found
     /\ v.served # Nobody =>
          v.at \in {"choosing", "done"} /\ \A f \in Files : v.seen[f].is = v.served

(* The entries a listing may evict describe files that are gone. *)
ListingInOrder(r) ==
  /\ visit[r].at \in {"scanning", "forgetting"} => visit[r].since \in 0 .. generation
  /\ visit[r].at = "forgetting" =>
       \A id \in Runs \ visit[r].todo :
         memo[id].summary # Nobody /\ memo[id].born <= visit[r].since =>
           \A f \in Files : memo[id].files[f].stamp < disk[id][f].stamp

VisitsInOrder ==
  /\ scenario \in Scenarios
  /\ visit \in [Readers -> Visiting]
  /\ \A r \in Readers : VisitInOrder(r)

(* A cached verdict is about the bytes kept with it, and those are as old  *)
(* as the files or older.                                                  *)
CachesInOrder ==
  /\ memo \in [Runs -> Entry]
  /\ stories \in [Runs -> Entry]
  /\ generation \in Nat
  /\ \A id \in Runs : memo[id].summary # Nobody =>
       \A f \in Files : /\ memo[id].files[f].is = memo[id].summary
                        /\ Since(memo[id].files[f], disk[id][f])
  /\ \A id \in Runs : stories[id].summary # Nobody =>
       \A f \in Files : stories[id].files[f].is = stories[id].summary
  /\ \A r \in Readers : ListingInOrder(r)

RepositoryInOrder ==
  FilesTyped /\ ArchiveInOrder /\ SaversInOrder /\ LoadsInOrder /\ VisitsInOrder /\ CachesInOrder

-----------------------------------------------------------------------------
(* One file from one state to the next: left alone, put where there was    *)
(* none, or moved forward.                                                 *)
Moved(d, e) ==
  \/ e = d
  \/ d.is = "absent" /\ e.is # "absent" /\ d.stamp <= e.stamp
  \/ d.stamp < e.stamp

LEMMA SinceMoved ==
  ASSUME NEW c \in File, NEW d \in File, NEW e \in File, Since(c, d), Moved(d, e)
  PROVE  Since(c, e) /\ (e = c => d = c)
BY DEF Since, Moved, File

LEMMA HeldMoved ==
  ASSUME NEW h \in Nat, NEW d \in File, NEW e \in File, h <= d.stamp, Moved(d, e),
         d.stamp = h => d.is # "absent"
  PROVE  h <= e.stamp /\ (e.stamp = h => e = d)
BY DEF Moved, File

LEMMA FileFacts ==
  /\ 0 \in Files /\ Sidecars \subseteq Files /\ Docs \in Sidecars
  /\ Files = {0} \cup Sidecars
  /\ \A n \in Files : n = Docs \/ n + 1 \in Sidecars
  /\ NoFiles \in [Files -> File]
BY PublicationAssumption DEF Files, Sidecars, NoFiles, File, Content

-----------------------------------------------------------------------------
(* The files.  Three kinds of step: somebody puts a file, somebody outside *)
(* rewrites some, and everything else.                                     *)

FilesMoved ==
  /\ FilesTyped'
  /\ \A id \in Runs, f \in Files : Moved(disk[id][f], disk'[id][f])

LEMMA FilesStay ==
  ASSUME FilesTyped, UNCHANGED <<files, edits>>
  PROVE  FilesMoved
BY DEF FilesMoved, FilesTyped, files, Moved

LEMMA PutMoves ==
  ASSUME FilesTyped, NEW s \in Savers, NEW id \in Runs, NEW f \in Files, Put(id, f, s),
         disk[id][f].is = "absent", UNCHANGED <<maker, edits>>,
         publisher' = publisher \/ publisher' = [publisher EXCEPT ![id] = s]
  PROVE  FilesMoved
<1> DEFINE file == [is |-> s, stamp |-> edits]
<1> USE DEF FilesTyped
<1>1. file \in File /\ file.is # "absent" /\ file.stamp = edits
  BY PublicationAssumption DEF File, Content
<1>2. disk' = [disk EXCEPT ![id][f] = file]
  BY DEF Put
<1> HIDE DEF file
<1>3. [disk[id] EXCEPT ![f] = file] \in [Files -> File]
  BY <1>1
<1>4. disk' \in [Runs -> [Files -> File]]
  BY <1>2, <1>3
<1>5. \A i \in Runs, g \in Files :
        disk'[i][g] = IF i = id /\ g = f THEN file ELSE disk[i][g]
  BY <1>2
<1>6. \A i \in Runs, g \in Files : Moved(disk[i][g], disk'[i][g])
  BY <1>1, <1>5 DEF Moved
<1>7. \A i \in Runs, g \in Files : disk'[i][g].stamp <= edits
  BY <1>1, <1>5
<1>8. publisher' \in [Runs -> Savers \cup {Nobody}]
  OBVIOUS
<1> QED
  BY <1>4, <1>6, <1>7, <1>8 DEF FilesMoved

LEMMA RewriteMoves ==
  ASSUME FilesTyped, NEW id \in Runs, NEW fs \in SUBSET Files, NEW c \in Content,
         Rewrite(id, fs, c),
         maker' \in [Runs -> Savers \cup {Nobody}], publisher' \in [Runs -> Savers \cup {Nobody}]
  PROVE  /\ FilesMoved
         /\ \A i \in Runs, f \in Files :
              /\ i # id \/ f \notin fs => disk'[i][f] = disk[i][f]
              /\ i = id /\ f \in fs => disk'[i][f].is = c
<1> DEFINE file == [is |-> c, stamp |-> edits + 1]
           run == [f \in Files |-> IF f \in fs THEN file ELSE disk[id][f]]
<1> USE DEF FilesTyped
<1>1. file \in File /\ file.is = c /\ file.stamp = edits + 1
  BY DEF File
<1>2. disk' = [disk EXCEPT ![id] = run] /\ edits' = edits + 1
  BY DEF Rewrite
<1> HIDE DEF file
<1>3. run \in [Files -> File]
  BY <1>1
<1>4. disk' \in [Runs -> [Files -> File]]
  BY <1>2, <1>3
<1>5. \A i \in Runs, f \in Files :
        disk'[i][f] = IF i = id /\ f \in fs THEN file ELSE disk[i][f]
  BY <1>2
<1>6. \A i \in Runs, f \in Files : disk[i][f].stamp \in Nat /\ disk[i][f].stamp <= edits
  BY DEF File
<1>7. \A i \in Runs, f \in Files : Moved(disk[i][f], disk'[i][f])
  BY <1>1, <1>5, <1>6 DEF Moved
<1>8. \A i \in Runs, f \in Files : disk'[i][f].stamp <= edits'
  BY <1>1, <1>2, <1>5, <1>6
<1> QED
  BY <1>1, <1>2, <1>4, <1>5, <1>7, <1>8 DEF FilesMoved

LEMMA OutsideMoves ==
  ASSUME FilesTyped, Outside
  PROVE  FilesMoved /\ UNCHANGED <<saver, intact, load, settled>>
<1>1. PICK id \in Runs : Replace(id) \/ Damage(id) \/ Remove(id)
  BY DEF Outside
<1>2. "damaged" \in Content /\ "absent" \in Content /\ Savers \subseteq Content
  BY DEF Content
<1>3. CASE Replace(id)
  <2>1. PICK s \in Savers : Rewrite(id, Files, s)
    BY <1>3 DEF Replace
  <2> QED
    BY <1>2, <1>3, <2>1, RewriteMoves DEF Replace, FilesTyped
<1>4. CASE Damage(id)
  <2>1. PICK f \in Files : Rewrite(id, {f}, "damaged")
    BY <1>4 DEF Damage
  <2>2. {f} \in SUBSET Files
    OBVIOUS
  <2> QED
    BY <1>2, <1>4, <2>1, <2>2, RewriteMoves DEF Damage, FilesTyped
<1>5. CASE Remove(id)
  <2>1. /\ maker' \in [Runs -> Savers \cup {Nobody}]
        /\ publisher' \in [Runs -> Savers \cup {Nobody}]
    BY <1>5 DEF Remove, FilesTyped
  <2> QED
    BY <1>2, <1>5, <2>1, RewriteMoves DEF Remove
<1> QED
  BY <1>1, <1>3, <1>4, <1>5

-----------------------------------------------------------------------------
(* Saves. *)

LEMMA SaverWatches ==
  ASSUME FilesTyped, SaversInOrder, FilesMoved, NEW s \in Savers, saver'[s] = saver[s],
         s \in intact => s \in intact'
  PROVE  SaverInOrder(s)'
<1> DEFINE run == disk[RunOf[s]]
           now == disk'[RunOf[s]]
<1> USE FileFacts
<1>1. RunOf[s] \in Runs /\ saver[s] \in Saver /\ SaverInOrder(s)
  BY PublicationAssumption DEF SaversInOrder
<1>2. /\ saver[s].held \in [Files -> Nat] /\ saver[s].next \in Nat
      /\ \A f \in Files : run[f] \in File /\ now[f] \in File /\ Moved(run[f], now[f])
  BY <1>1 DEF Saver, FilesTyped, FilesMoved
<1>3. saver[s].at \in {"writing", "written"} => ReadBackBy(s) \subseteq Files
  BY <1>1, <1>2 DEF ReadBackBy, SaverInOrder, Files, Sidecars
<1>4. ReadBackBy(s)' = ReadBackBy(s) /\ ReadBackBy(s) \subseteq Files
  BY <1>3 DEF ReadBackBy
<1>5. ASSUME s \in Pinned, saver[s].at \in Saving, NEW f \in ReadBackBy(s)
      PROVE  saver[s].held[f] <= now[f].stamp /\ (now[f].stamp = saver[s].held[f] => now[f].is = s)
  <2>1. saver[s].held[f] <= run[f].stamp /\ (run[f].stamp = saver[s].held[f] => run[f].is = s)
    BY <1>1, <1>5 DEF SaverInOrder
  <2>2. s # "absent"
    BY PublicationAssumption
  <2> QED
    BY <1>2, <1>4, <1>5, <2>1, <2>2, HeldMoved
<1>6. \A f \in Files : saver[s].held[f] < run[f].stamp => saver[s].held[f] < now[f].stamp
  BY <1>2 DEF Moved, File
<1> QED
  BY <1>1, <1>4, <1>5, <1>6 DEF SaverInOrder

(* One save goes on, the others watch. *)
LEMMA SaverMoves ==
  ASSUME FilesTyped, SaversInOrder, FilesMoved, NEW s \in Savers, NEW on \in Saver,
         saver' = [saver EXCEPT ![s] = on], intact \subseteq intact', intact' \subseteq Savers,
         SaverInOrder(s)'
  PROVE  SaversInOrder'
<1>1. saver' \in [Savers -> Saver] /\ \A q \in Savers \ {s} : saver'[q] = saver[q]
  BY DEF SaversInOrder
<1>2. \A q \in Savers \ {s} : SaverInOrder(q)'
  BY <1>1, SaverWatches
<1> QED
  BY <1>1, <1>2 DEF SaversInOrder

LEMMA SaversWatch ==
  ASSUME FilesTyped, SaversInOrder, FilesMoved, UNCHANGED <<saver, intact>>
  PROVE  SaversInOrder'
BY SaverWatches DEF SaversInOrder

(* A save that is refused, that fails, or that is saved and may say so. *)
LEMMA SaverEnds ==
  ASSUME FilesTyped, SaversInOrder, FilesMoved, NEW s \in Savers, NEW at \in Ended \cup {"free"},
         SaverAt(s, at), at = "free" => saver[s].at = "idle", UNCHANGED intact,
         at = "saved" /\ s \in Pinned => s \in intact
  PROVE  /\ SaversInOrder'
         /\ \A q \in Savers : saver'[q].at \in Saving => saver[q].at \in Saving
<1> DEFINE on == IF at \in Ended THEN [Unsaved EXCEPT !.at = at] ELSE [saver[s] EXCEPT !.at = at]
<1>1. saver \in [Savers -> Saver] /\ saver[s] \in Saver
  BY DEF SaversInOrder
<1>2. on \in Saver /\ on.at = at
  BY <1>1 DEF Saver, Unsaved, Ended, Saving
<1>3. saver' = [saver EXCEPT ![s] = on]
  BY <1>1 DEF SaverAt
<1> HIDE DEF on
<1>4. saver'[s] = on /\ at \notin Saving \cup {"idle"}
  BY <1>1, <1>3 DEF Ended, Saving
<1>5. SaverInOrder(s)'
  BY <1>2, <1>4 DEF SaverInOrder, Saving, Ended
<1> QED
  BY <1>1, <1>2, <1>3, <1>4, <1>5, SaverMoves DEF SaversInOrder

LEMMA ReserveKeepsSavers ==
  ASSUME FilesTyped, SaversInOrder, FilesMoved, NEW s \in Savers, Reserve(s), ~ Made(RunOf[s])
  PROVE  /\ SaversInOrder'
         /\ \A q \in Savers \ {s} : saver'[q] = saver[q]
<1> DEFINE on == [saver[s] EXCEPT !.at = "writing", !.next = 1]
<1>1. saver \in [Savers -> Saver] /\ saver[s] \in Saver
  BY DEF SaversInOrder
<1>2. on \in Saver /\ on.at = "writing" /\ on.next = 1
  BY <1>1 DEF Saver, Saving
<1>3. saver' = [saver EXCEPT ![s] = on] /\ intact' = intact
  BY <1>1 DEF Reserve
<1> HIDE DEF on
<1>4. saver'[s] = on
  BY <1>1, <1>3
<1>5. SaverInOrder(s)'
  <2>1. 1 \in Sidecars /\ 1 .. (1 - 1) = {}
    BY PublicationAssumption DEF Sidecars
  <2>2. ReadBackBy(s)' = {}
    BY <1>2, <1>4, <2>1 DEF ReadBackBy
  <2> QED
    BY <1>2, <1>4, <2>1, <2>2 DEF SaverInOrder, Saving
<1> QED
  BY <1>1, <1>2, <1>3, <1>5, SaverMoves DEF SaversInOrder

(* A step on the way of a save that holds what it held. *)
LEMMA SaverGoesOn ==
  ASSUME FilesTyped, SaversInOrder, FilesMoved, NEW s \in Savers, NEW at \in Saving,
         saver[s].at \in Saving, SaverAt(s, at),
         \/ at = "written" /\ saver[s].at = "writing"
         \/ {at, saver[s].at} \cap {"writing", "written"} = {},
         intact \subseteq intact', intact' \subseteq Savers,
         at = "closing" => s \in Pinned,
         s \in Pinned /\ at \in {"linked", "closing"} =>
           s \in intact' \/ \E f \in Sidecars : saver[s].held[f] < disk'[RunOf[s]][f].stamp
  PROVE  SaversInOrder'
<1> DEFINE on == [saver[s] EXCEPT !.at = at]
           now == disk'[RunOf[s]]
<1>1. saver \in [Savers -> Saver] /\ saver[s] \in Saver /\ SaverInOrder(s)
  BY DEF SaversInOrder
<1>2. on \in Saver /\ on.at = at /\ on.next = saver[s].next /\ on.held = saver[s].held
  BY <1>1 DEF Saver
<1>3. saver' = [saver EXCEPT ![s] = on]
  BY <1>1 DEF SaverAt, Ended, Saving
<1> HIDE DEF on
<1>4. saver'[s] = on
  BY <1>1, <1>3
<1>5. ReadBackBy(s)' = ReadBackBy(s)
  BY <1>2, <1>4 DEF ReadBackBy
<1>6. s \in Pinned =>
        \A f \in ReadBackBy(s) :
          saver[s].held[f] <= now[f].stamp /\ (now[f].stamp = saver[s].held[f] => now[f].is = s)
  <2> SUFFICES ASSUME s \in Pinned, NEW f \in ReadBackBy(s)
               PROVE  /\ saver[s].held[f] <= now[f].stamp
                      /\ now[f].stamp = saver[s].held[f] => now[f].is = s
    OBVIOUS
  <2>1. f \in Files
    BY <1>1, FileFacts DEF ReadBackBy, SaverInOrder, Files, Sidecars, Saver
  <2>2. /\ saver[s].held[f] <= disk[RunOf[s]][f].stamp
        /\ disk[RunOf[s]][f].stamp = saver[s].held[f] => disk[RunOf[s]][f].is = s
    BY <1>1 DEF SaverInOrder
  <2>3. /\ saver[s].held[f] \in Nat /\ RunOf[s] \in Runs
        /\ disk[RunOf[s]][f] \in File /\ now[f] \in File
        /\ Moved(disk[RunOf[s]][f], now[f])
    BY <1>1, <2>1, PublicationAssumption DEF Saver, FilesTyped, FilesMoved
  <2>4. s # "absent"
    BY PublicationAssumption
  <2> QED
    BY <2>2, <2>3, <2>4, HeldMoved
<1>7. SaverInOrder(s)'
  BY <1>1, <1>2, <1>4, <1>5, <1>6 DEF SaverInOrder, Saving
<1> QED
  BY <1>2, <1>3, <1>7, SaverMoves

-----------------------------------------------------------------------------
(* The directories, and what the archive makes of each step. *)

LEMMA ArchiveStays ==
  ASSUME ArchiveInOrder, UNCHANGED files,
         \A s \in Savers : saver'[s].at \in Saving => saver[s].at \in Saving
  PROVE  ArchiveInOrder' /\ [Archive!Next]_Archive!archive
BY DEF ArchiveInOrder, files, Made, Archive!archive

LEMMA EndKeeps ==
  ASSUME FilesTyped, ArchiveInOrder, SaversInOrder, NEW s \in Savers,
         UNCHANGED <<files, edits, intact>>,
         NEW at \in Ended \cup {"free"}, SaverAt(s, at), at = "free" => saver[s].at = "idle",
         at = "saved" /\ s \in Pinned => s \in intact
  PROVE  FilesMoved /\ ArchiveInOrder' /\ SaversInOrder' /\ [Archive!Next]_Archive!archive
BY FilesStay, SaverEnds, ArchiveStays

LEMMA EnsureKeeps ==
  ASSUME FilesTyped, ArchiveInOrder, SaversInOrder, NEW s \in Savers, Ensure(s)
  PROVE  FilesMoved /\ ArchiveInOrder' /\ SaversInOrder' /\ [Archive!Next]_Archive!archive
BY EndKeeps DEF Ensure, Ended

LEMMA ReserveKeeps ==
  ASSUME FilesTyped, ArchiveInOrder, SaversInOrder, NEW s \in Savers, Reserve(s)
  PROVE  FilesMoved /\ ArchiveInOrder' /\ SaversInOrder' /\ [Archive!Next]_Archive!archive
<1> DEFINE id == RunOf[s]
<1>1. CASE Made(id)
  BY <1>1, EndKeeps DEF Reserve, Ended, files
<1>2. CASE ~ Made(id)
  <2>1. /\ id \in Runs /\ maker[id] = Nobody /\ maker' = [maker EXCEPT ![id] = s]
        /\ UNCHANGED <<disk, publisher, edits>> /\ s # Nobody
    BY <1>2, PublicationAssumption DEF Reserve, Made
  <2>2. /\ maker' \in [Runs -> Savers \cup {Nobody}]
        /\ \A i \in Runs : maker'[i] = IF i = id THEN s ELSE maker[i]
    BY <2>1 DEF FilesTyped
  <2>3. FilesMoved
    BY <2>1, <2>2 DEF FilesMoved, FilesTyped, Moved
  <2>4. SaversInOrder' /\ \A q \in Savers \ {s} : saver'[q] = saver[q]
    BY <1>2, <2>3, ReserveKeepsSavers
  <2>5. ArchiveInOrder'
    <3>1. \A q \in Savers : saver'[q].at \in Saving => maker'[RunOf[q]] = q
      BY <2>1, <2>2, <2>4, PublicationAssumption DEF ArchiveInOrder
    <3>2. \A i \in Runs : ~ Made(i)' => ~ Made(i)
      BY <2>1, <2>2 DEF Made
    <3>3. \A i \in Runs : Made(i) => Made(i)'
      BY <2>1, <2>2 DEF Made
    <3> QED
      BY <2>1, <3>1, <3>2, <3>3 DEF ArchiveInOrder
  <2>6. Archive!Claim(id, s)
    BY <2>1 DEF Archive!Claim
  <2> QED
    BY <2>1, <2>3, <2>4, <2>5, <2>6 DEF Archive!Next
<1> QED
  BY <1>1, <1>2

LEMMA WriteDocKeeps ==
  ASSUME FilesTyped, ArchiveInOrder, SaversInOrder, NEW s \in Savers, WriteDoc(s)
  PROVE  FilesMoved /\ ArchiveInOrder' /\ SaversInOrder' /\ [Archive!Next]_Archive!archive
<1> DEFINE id == RunOf[s]
           f == saver[s].next
<1>1. /\ saver[s].at = "writing" /\ "writing" \in Saving
      /\ id \in Runs /\ f \in Sidecars /\ f \in Files
  BY PublicationAssumption, FileFacts DEF WriteDoc, Saving, SaversInOrder, SaverInOrder
<1>2. CASE disk[id][f].is # "absent"
  BY <1>2, EndKeeps DEF WriteDoc, Ended, files
<1>3. CASE disk[id][f].is = "absent"
  <2>1. Put(id, f, s) /\ SaverAt(s, "written") /\ UNCHANGED <<maker, publisher, edits, intact>>
    BY <1>3 DEF WriteDoc
  <2>2. FilesMoved
    BY <1>1, <1>3, <2>1, PutMoves
  <2>3. SaversInOrder'
    BY <1>1, <2>1, <2>2, SaverGoesOn DEF Saving, SaversInOrder
  <2>4. ArchiveInOrder'
    <3>1. \A q \in Savers : saver'[q].at \in Saving => saver[q].at \in Saving
      BY <1>1, <2>1 DEF SaverAt, SaversInOrder
    <3>2. \A i \in Runs, g \in Files : disk'[i][g] = disk[i][g] \/ (i = id /\ disk'[i][g].is = s)
      BY <1>1, <2>1 DEF Put, FilesTyped
    <3>3. maker[id] = s /\ s # Nobody /\ s # "absent"
      BY <1>1, PublicationAssumption DEF ArchiveInOrder
    <3> QED
      BY <2>1, <3>1, <3>2, <3>3, FileFacts DEF ArchiveInOrder, Made
  <2> QED
    BY <2>1, <2>2, <2>3, <2>4 DEF Archive!archive
<1> QED
  BY <1>2, <1>3

LEMMA ReadBackKeeps ==
  ASSUME FilesTyped, ArchiveInOrder, SaversInOrder, NEW s \in Savers, ReadBack(s)
  PROVE  FilesMoved /\ ArchiveInOrder' /\ SaversInOrder' /\ [Archive!Next]_Archive!archive
<1> DEFINE f == saver[s].next
           file == disk[RunOf[s]][f]
           at == IF f < Docs THEN "writing" ELSE IF s \in Pinned THEN "staged" ELSE "verified"
           stamp == IF s \in Pinned THEN file.stamp ELSE 0
           on == [saver[s] EXCEPT !.at = at, !.next = f + 1, !.held[f] = stamp]
<1>1. /\ saver[s].at = "written" /\ "written" \in Saving /\ UNCHANGED <<files, edits, intact>>
      /\ saver \in [Savers -> Saver] /\ saver[s] \in Saver /\ SaverInOrder(s)
      /\ RunOf[s] \in Runs /\ f \in Sidecars /\ f \in Files
  BY PublicationAssumption, FileFacts DEF ReadBack, Saving, SaversInOrder, SaverInOrder
<1>2. CASE file.is # s
  BY <1>1, <1>2, EndKeeps DEF ReadBack, Ended
<1>3. CASE file.is = s
  <2>1. file \in File /\ stamp \in Nat /\ f \in Nat
    BY <1>1, PublicationAssumption DEF FilesTyped, File, Sidecars
  <2>2. saver' = [saver EXCEPT ![s] = on]
    BY <1>1, <1>3 DEF ReadBack
  <2> DEFINE held == [saver[s].held EXCEPT ![f] = stamp]
  <2>3. held \in [Files -> Nat] /\ saver[s].held \in [Files -> Nat]
    BY <1>1, <2>1 DEF Saver
  <2>4. on = [saver[s] EXCEPT !.at = at, !.next = f + 1, !.held = held] /\ at \in Saving
    BY <1>1 DEF Saver, Saving
  <2> HIDE DEF on, held
  <2>5. on \in Saver /\ on.at = at /\ on.next = f + 1 /\ at \in Saving /\ on.held = held
    <3>1. f + 1 \in Nat /\ saver[s] \in Saver /\ at \in {"idle", "free"} \cup Saving \cup Ended
      BY <1>1, <2>1, <2>4
    <3> HIDE DEF at, f
    <3> QED
      BY <2>3, <2>4, <3>1 DEF Saver
  <2>6. FilesMoved
    BY <1>1, FilesStay
  <2>7. saver'[s] = on /\ \A q \in Savers : saver'[q].at \in Saving => saver[q].at \in Saving
    BY <1>1, <2>2, <2>5
  <2>8. ReadBackBy(s)' \subseteq ReadBackBy(s) \cup {f} /\ ReadBackBy(s) \cup {f} \subseteq Files
    BY <1>1, <2>1, <2>5, <2>7, FileFacts, PublicationAssumption DEF ReadBackBy, Sidecars, Files
  <2>9. at = "writing" => f + 1 \in Sidecars
    BY <1>1, PublicationAssumption DEF Sidecars
  <2>10. UNCHANGED <<disk, intact>>
    BY <1>1 DEF files
  <2>11. s \in Pinned => \A g \in ReadBackBy(s)' :
           /\ on.held[g] <= disk[RunOf[s]][g].stamp
           /\ disk[RunOf[s]][g].stamp = on.held[g] => disk[RunOf[s]][g].is = s
    <3> SUFFICES ASSUME s \in Pinned, NEW g \in ReadBackBy(s)'
                 PROVE  /\ on.held[g] <= disk[RunOf[s]][g].stamp
                        /\ disk[RunOf[s]][g].stamp = on.held[g] => disk[RunOf[s]][g].is = s
      OBVIOUS
    <3>1. CASE g = f
      BY <1>1, <1>3, <2>1, <2>5, <2>3, <3>1 DEF File, held
    <3>2. CASE g # f
      <4>1. g \in ReadBackBy(s) /\ on.held[g] = saver[s].held[g]
        BY <2>5, <2>8, <2>3, <3>2 DEF held
      <4> QED
        BY <1>1, <4>1 DEF SaverInOrder
    <3> QED
      BY <3>1, <3>2
  <2>12. SaverInOrder(s)'
    BY <2>5, <2>7, <2>9, <2>10, <2>11 DEF SaverInOrder
  <2> QED
    BY <1>1, <2>2, <2>5, <2>6, <2>7, <2>10, <2>12, SaverMoves, ArchiveStays DEF SaversInOrder
<1> QED
  BY <1>2, <1>3

(* What the stamps say when they are all still the same. *)
LEMMA HeldMeansOwn ==
  ASSUME FilesTyped, SaversInOrder, NEW s \in Pinned,
         saver[s].at \in {"staged", "verified", "linked", "closing"}
  PROVE  /\ s \in Savers /\ saver[s].held \in [Files -> Nat]
         /\ \A f \in Sidecars :
              /\ disk[RunOf[s]][f].is # s => saver[s].held[f] < disk[RunOf[s]][f].stamp
              /\ disk[RunOf[s]][f].stamp \in Nat
<1>1. s \in Savers /\ saver[s] \in Saver /\ RunOf[s] \in Runs /\ SaverInOrder(s)
  BY PublicationAssumption DEF SaversInOrder
<1>2. /\ ReadBackBy(s) = Sidecars /\ saver[s].held \in [Files -> Nat] /\ saver[s].at \in Saving
      /\ \A f \in Sidecars : f \in Files /\ disk[RunOf[s]][f].stamp \in Nat
  BY <1>1, FileFacts DEF ReadBackBy, Saver, FilesTyped, File, Saving
<1> QED
  BY <1>1, <1>2 DEF SaverInOrder

LEMMA ChecksKeep ==
  ASSUME FilesTyped, ArchiveInOrder, SaversInOrder, NEW s \in Savers,
         Evidence(s) \/ CheckManifest(s) \/ Release(s)
  PROVE  FilesMoved /\ ArchiveInOrder' /\ SaversInOrder' /\ [Archive!Next]_Archive!archive
<1>1. /\ UNCHANGED <<files, edits, intact>> /\ saver \in [Savers -> Saver] /\ SaverInOrder(s)
      /\ saver[s].at \in {"staged", "linked", "closing"} /\ intact \subseteq Savers
  BY DEF Evidence, CheckManifest, Release, SaversInOrder
<1>2. FilesMoved /\ UNCHANGED <<disk, intact>>
  BY <1>1, FilesStay DEF files
<1>3. CASE SaverAt(s, "failed")
  BY <1>1, <1>3, EndKeeps DEF Ended
<1>4. CASE Evidence(s) /\ ~ SaverAt(s, "failed")
  <2>1. SaverAt(s, "verified") /\ saver[s].at = "staged"
    BY <1>4 DEF Evidence
  <2>2. SaversInOrder'
    BY <1>1, <1>2, <2>1, SaverGoesOn DEF Saving
  <2>3. \A q \in Savers : saver'[q].at \in Saving => saver[q].at \in Saving
    BY <1>1, <2>1 DEF SaverAt, Saving
  <2> QED
    BY <1>1, <1>2, <2>2, <2>3, ArchiveStays
<1>5. CASE CheckManifest(s) /\ SaverAt(s, "closing") /\ s \in Pinned
  <2>1. saver[s].at = "linked"
    BY <1>5 DEF CheckManifest
  <2>2. SaversInOrder'
    BY <1>1, <1>2, <1>5, <2>1, SaverGoesOn DEF Saving, SaverInOrder
  <2>3. \A q \in Savers : saver'[q].at \in Saving => saver[q].at \in Saving
    BY <1>1, <1>5, <2>1 DEF SaverAt, Saving
  <2> QED
    BY <1>1, <1>2, <2>2, <2>3, ArchiveStays
<1>6. CASE CheckManifest(s) /\ SaverAt(s, "saved") /\ s \notin Pinned
  BY <1>1, <1>6, EndKeeps DEF Ended
<1>7. CASE Release(s) /\ ~ SaverAt(s, "failed")
  <2>1. SaverAt(s, "saved") /\ saver[s].at = "closing" /\ Held(RunOf[s], saver[s].held, Sidecars)
    BY <1>7 DEF Release
  <2>2. /\ s \in Pinned
        /\ (s \in intact \/ \E f \in Sidecars : saver[s].held[f] < disk[RunOf[s]][f].stamp)
    BY <1>1, <2>1 DEF SaverInOrder
  <2>3. s \in intact
    BY <2>1, <2>2, HeldMeansOwn, FileFacts DEF Held
  <2> QED
    BY <1>1, <2>1, <2>3, EndKeeps DEF Ended
<1> QED
  BY <1>3, <1>4, <1>5, <1>6, <1>7 DEF CheckManifest

(* The step that publishes. *)
LEMMA LinkKeeps ==
  ASSUME FilesTyped, ArchiveInOrder, SaversInOrder, NEW s \in Savers, Link(s)
  PROVE  FilesMoved /\ ArchiveInOrder' /\ SaversInOrder' /\ [Archive!Next]_Archive!archive
<1> DEFINE id == RunOf[s]
<1>1. /\ saver[s].at = "verified" /\ "verified" \in Saving /\ id \in Runs /\ UNCHANGED edits
      /\ intact \subseteq Savers /\ 0 \in Files /\ saver \in [Savers -> Saver]
  BY PublicationAssumption, FileFacts DEF Link, Saving, SaversInOrder
<1>2. CASE disk[id][0].is # "absent"
  BY <1>1, <1>2, EndKeeps DEF Link, Ended
<1>3. CASE disk[id][0].is = "absent"
  <2>1. /\ Put(id, 0, s) /\ SaverAt(s, "linked") /\ UNCHANGED <<maker, edits>>
        /\ publisher' = [publisher EXCEPT ![id] = s]
        /\ intact' = IF \A f \in Sidecars : disk[id][f].is = s THEN intact \cup {s} ELSE intact
    BY <1>3 DEF Link
  <2>2. FilesMoved
    BY <1>1, <1>3, <2>1, PutMoves
  <2>3. \A i \in Runs, g \in Files :
          /\ i # id \/ g # 0 => disk'[i][g] = disk[i][g]
          /\ i = id /\ g = 0 => disk'[i][g].is = s
    BY <1>1, <2>1 DEF Put, FilesTyped
  <2>4. \A f \in Sidecars : f \in Files /\ disk'[id][f] = disk[id][f]
    BY <1>1, <2>3, FileFacts DEF Sidecars
  <2>5. s \in Pinned => s \in intact' \/ \E f \in Sidecars : saver[s].held[f] < disk'[id][f].stamp
    BY <1>1, <2>1, <2>4, HeldMeansOwn
  <2>6. SaversInOrder'
    BY <1>1, <2>1, <2>2, <2>5, SaverGoesOn DEF Saving
  <2>7. maker[id] = s /\ s # Nobody /\ s # "absent" /\ publisher[id] = Nobody
    BY <1>1, <1>3, PublicationAssumption DEF ArchiveInOrder
  <2>8. ArchiveInOrder'
    <3>1. \A q \in Savers : saver'[q].at \in Saving => saver[q].at \in Saving
      BY <1>1, <2>1 DEF SaverAt
    <3>2. \A i \in Runs : i # id => publisher'[i] = publisher[i]
      BY <2>1 DEF FilesTyped
    <3> QED
      BY <1>1, <2>1, <2>3, <2>7, <3>1, <3>2 DEF ArchiveInOrder, Made
  <2>9. Archive!Publish(id)
    BY <2>1, <2>7 DEF Archive!Publish
  <2> QED
    BY <1>1, <2>2, <2>6, <2>8, <2>9 DEF Archive!Next
<1> QED
  BY <1>2, <1>3

LEMMA SaveKeeps ==
  ASSUME FilesTyped, ArchiveInOrder, SaversInOrder, NEW s \in Savers, SaveStep(s) \/ Fails(s)
  PROVE  /\ FilesMoved /\ ArchiveInOrder' /\ SaversInOrder' /\ [Archive!Next]_Archive!archive
         /\ UNCHANGED <<load, settled>>
<1>1. UNCHANGED <<load, settled>>
  BY DEF SaveStep, Fails, Ensure, Reserve, WriteDoc, ReadBack, Evidence, Link,
     CheckManifest, Release
<1>2. CASE Fails(s)
  BY <1>1, <1>2, EndKeeps DEF Fails, Ended
<1> QED
  BY <1>1, <1>2, EnsureKeeps, ReserveKeeps, WriteDocKeeps, ReadBackKeeps, ChecksKeep, LinkKeeps
     DEF SaveStep

LEMMA OutsideKeeps ==
  ASSUME FilesTyped, ArchiveInOrder, SaversInOrder, Outside
  PROVE  FilesMoved /\ ArchiveInOrder' /\ SaversInOrder' /\ [Archive!Next]_Archive!archive
<1>1. FilesMoved /\ UNCHANGED <<saver, intact>>
  BY OutsideMoves
<1>2. SaversInOrder'
  BY <1>1, SaversWatch
<1>3. PICK id \in Runs : Replace(id) \/ Damage(id) \/ Remove(id)
  BY DEF Outside
<1>4. "damaged" \in Content /\ "absent" \in Content /\ Savers \subseteq Content
  BY DEF Content
<1>5. maker \in [Runs -> Savers \cup {Nobody}] /\ publisher \in [Runs -> Savers \cup {Nobody}]
  BY DEF FilesTyped
<1>6. CASE Replace(id)
  <2>1. PICK s \in Savers : Rewrite(id, Files, s)
    BY <1>6 DEF Replace
  <2>2. UNCHANGED <<maker, publisher>> /\ publisher[id] # Nobody
    BY <1>6 DEF Replace
  <2>3. \A i \in Runs, f \in Files : /\ i # id => disk'[i][f] = disk[i][f]
                                     /\ i = id => disk'[i][f].is = s
    <3>1. Files \in SUBSET Files /\ s \in Content
      BY <1>4
    <3> QED
      BY <1>5, <2>1, <2>2, <3>1, RewriteMoves
  <2>4. Made(id) /\ s # "absent"
    BY <2>2, PublicationAssumption DEF ArchiveInOrder
  <2> QED
    BY <1>1, <1>2, <2>2, <2>3, <2>4, FileFacts DEF ArchiveInOrder, Made, Archive!archive
<1>7. CASE Damage(id)
  <2>1. PICK f \in Files : disk[id][f].is \in Savers /\ Rewrite(id, {f}, "damaged")
    BY <1>7 DEF Damage
  <2>2. UNCHANGED <<maker, publisher>>
    BY <1>7 DEF Damage
  <2>3. \A i \in Runs, g \in Files : /\ i # id \/ g # f => disk'[i][g] = disk[i][g]
                                     /\ i = id /\ g = f => disk'[i][g].is = "damaged"
    BY <1>4, <1>5, <2>1, <2>2, RewriteMoves
  <2>4. Made(id)
    BY <2>1, PublicationAssumption DEF ArchiveInOrder
  <2> QED
    BY <1>1, <1>2, <2>2, <2>3, <2>4, FileFacts DEF ArchiveInOrder, Made, Archive!archive
<1>8. CASE Remove(id)
  <2>1. /\ Rewrite(id, Files, "absent")
        /\ maker' = [maker EXCEPT ![id] = Nobody] /\ publisher' = [publisher EXCEPT ![id] = Nobody]
        /\ \A s \in Savers : RunOf[s] = id => saver[s].at \notin Saving
    BY <1>8 DEF Remove
  <2>2. \A i \in Runs : /\ maker'[i] = IF i = id THEN Nobody ELSE maker[i]
                        /\ publisher'[i] = IF i = id THEN Nobody ELSE publisher[i]
    BY <1>5, <2>1
  <2>3. \A i \in Runs, f \in Files : /\ i # id => disk'[i][f] = disk[i][f]
                                     /\ i = id => disk'[i][f].is = "absent"
    <3>1. /\ Files \in SUBSET Files
          /\ maker' \in [Runs -> Savers \cup {Nobody}]
          /\ publisher' \in [Runs -> Savers \cup {Nobody}]
      BY <1>5, <2>1
    <3> QED
      BY <1>4, <2>1, <3>1, RewriteMoves
  <2>4. ArchiveInOrder'
    BY <1>1, <2>1, <2>2, <2>3, PublicationAssumption, FileFacts DEF ArchiveInOrder, Made
  <2>5. Archive!Discard(id)
    BY <2>1 DEF Archive!Discard
  <2> QED
    BY <1>1, <1>2, <2>4, <2>5 DEF Archive!Next
<1> QED
  BY <1>3, <1>6, <1>7, <1>8

-----------------------------------------------------------------------------
(* Loads. *)

LEMMA LoadWatches ==
  ASSUME FilesTyped, LoadsInOrder, FilesMoved, NEW r \in Readers, load'[r] = load[r],
         r \in settled => r \in settled'
  PROVE  LoadInOrder(r)'
<1> DEFINE run == disk[load[r].id]
           now == disk'[load[r].id]
           held == load[r].held
<1>1. load[r] \in Reading /\ LoadInOrder(r) /\ held \in [Files -> Nat]
  BY DEF LoadsInOrder, Reading
<1>2. ReadBy(load'[r]) = ReadBy(load[r])
  OBVIOUS
<1>3. CASE load[r].at \in Reads
  <2>1. \A f \in Files : run[f] \in File /\ now[f] \in File /\ Moved(run[f], now[f])
    BY <1>1, <1>3 DEF FilesTyped, FilesMoved, LoadInOrder
  <2>2. ASSUME load[r].at \in {"reading", "closing"}, load[r].author \in Pinned, NEW f \in Files
        PROVE  held[f] <= now[f].stamp /\ (now[f].stamp = held[f] => now[f] = run[f])
    BY <1>1, <2>1, <2>2, HeldMoved DEF LoadInOrder
  <2>3. \A f \in Files : held[f] < run[f].stamp => held[f] < now[f].stamp
    BY <1>1, <2>1 DEF Moved, File
  <2> HIDE DEF run, now, held
  <2>4. \A f \in Files : /\ disk[load[r].id][f] = run[f] /\ disk'[load[r].id][f] = now[f]
                         /\ load[r].held[f] = held[f]
    BY DEF run, now, held
  <2> QED
    BY <1>1, <1>2, <2>2, <2>3, <2>4 DEF LoadInOrder
<1>4. CASE load[r].at \notin Reads
  BY <1>1, <1>4 DEF LoadInOrder, Reads
<1> QED
  BY <1>3, <1>4

LEMMA LoadsWatch ==
  ASSUME FilesTyped, LoadsInOrder, FilesMoved, UNCHANGED <<load, settled>>
  PROVE  LoadsInOrder'
BY LoadWatches DEF LoadsInOrder

(* One load goes on, the others watch. *)
LEMMA LoadMoves ==
  ASSUME FilesTyped, LoadsInOrder, FilesMoved, NEW r \in Readers, NEW on \in Reading,
         load' = [load EXCEPT ![r] = on], settled' \subseteq Readers,
         settled \ {r} \subseteq settled', LoadInOrder(r)'
  PROVE  LoadsInOrder'
<1>1. load' \in [Readers -> Reading] /\ \A q \in Readers \ {r} : load'[q] = load[q]
  BY DEF LoadsInOrder
<1>2. \A q \in Readers \ {r} : LoadInOrder(q)'
  BY <1>1, LoadWatches
<1> QED
  BY <1>1, <1>2 DEF LoadsInOrder

LEMMA LoadBeginKeeps ==
  ASSUME FilesTyped, LoadsInOrder, NEW r \in Readers, NEW id \in Runs, LoadBegins(r, id),
         UNCHANGED <<files, edits, settled>>
  PROVE  LoadsInOrder' /\ load'[r].id = id /\ ReadBy(load'[r]) = {} /\ load'[r].at = "manifest"
<1> DEFINE on == [Unread EXCEPT !.id = id, !.at = "manifest"]
<1>1. on \in Reading /\ on.at = "manifest" /\ on.id = id
  BY DEF Reading, Unread, Reads
<1>2. load' = [load EXCEPT ![r] = on] /\ load \in [Readers -> Reading] /\ FilesMoved
  BY FilesStay DEF LoadBegins, LoadsInOrder
<1> HIDE DEF on
<1>3. load'[r] = on
  BY <1>2
<1>4. LoadInOrder(r)'
  BY <1>1, <1>3 DEF LoadInOrder
<1> QED
  BY <1>1, <1>2, <1>3, <1>4, LoadMoves DEF LoadsInOrder, ReadBy

LEMMA LoadForgottenKeeps ==
  ASSUME FilesTyped, LoadsInOrder, NEW r \in Readers, load' = [load EXCEPT ![r] = Unread],
         settled' = settled \ {r}, UNCHANGED <<files, edits>>
  PROVE  LoadsInOrder'
<1>1. Unread \in Reading /\ Unread.at = "idle"
  BY DEF Reading, Unread
<1>2. load'[r] = Unread /\ FilesMoved
  BY FilesStay DEF LoadsInOrder
<1>3. LoadInOrder(r)'
  BY <1>1, <1>2 DEF LoadInOrder, Reads
<1> QED
  BY <1>1, <1>2, <1>3, LoadMoves DEF LoadsInOrder

(* What a step of a load reads, it finds to be the author's. *)
LoadReads(r) ==
  /\ load'[r].id = load[r].id
  /\ load'[r].at # "idle"
  /\ \A f \in ReadBy(load'[r]) :
       \/ f \in ReadBy(load[r]) /\ load'[r].author = load[r].author
       \/ f \in Files /\ disk[load[r].id][f].is = load'[r].author

LEMMA LoadEndKeeps ==
  ASSUME FilesTyped, LoadsInOrder, NEW r \in Readers, NEW at \in {"loaded", "refused"},
         Ends(r, at), UNCHANGED <<files, edits>>,
         settled \subseteq settled', settled' \subseteq Readers,
         at = "loaded" => load[r].author \in Savers,
         at = "loaded" /\ load[r].author \in Pinned => r \in settled',
         at = "loaded" =>
           \A f \in Files : f \in ReadBy(load[r]) \/ disk[load[r].id][f].is = load[r].author
  PROVE  LoadsInOrder' /\ LoadReads(r)
<1> DEFINE on == [load[r] EXCEPT !.at = at, !.next = 0, !.held = NoneHeld]
<1>1. load[r] \in Reading /\ load \in [Readers -> Reading] /\ NoneHeld \in [Files -> Nat]
  BY DEF LoadsInOrder, NoneHeld
<1>2. on \in Reading /\ on.at = at /\ on.id = load[r].id /\ on.author = load[r].author
  BY <1>1 DEF Reading
<1>3. load' = [load EXCEPT ![r] = on] /\ FilesMoved
  BY <1>1, FilesStay DEF Ends
<1> HIDE DEF on
<1>4. load'[r] = on
  BY <1>1, <1>3
<1>5. LoadInOrder(r)'
  BY <1>2, <1>4 DEF LoadInOrder, Reads
<1>6. LoadsInOrder'
  BY <1>2, <1>3, <1>5, LoadMoves
<1>7. ReadBy(load'[r]) = IF at = "loaded" THEN Files ELSE {}
  BY <1>2, <1>4 DEF ReadBy
<1> QED
  BY <1>2, <1>4, <1>6, <1>7 DEF LoadReads

LEMMA ReadManifestKeeps ==
  ASSUME FilesTyped, LoadsInOrder, NEW r \in Readers, ReadManifest(r)
  PROVE  LoadsInOrder' /\ LoadReads(r)
<1> DEFINE l == load[r]
           s == disk[l.id][0].is
           at == IF s \in Pinned THEN "pinning" ELSE "reading"
           on == [load[r] EXCEPT !.at = at, !.next = 1, !.author = s]
<1>1. /\ l.at = "manifest" /\ UNCHANGED <<files, edits, settled>> /\ LoadInOrder(r)
      /\ l \in Reading /\ load \in [Readers -> Reading] /\ settled \subseteq Readers
  BY DEF ReadManifest, LoadsInOrder
<1>2. CASE s \notin Savers
  BY <1>1, <1>2, LoadEndKeeps DEF ReadManifest, Refuses
<1>3. CASE s \in Savers
  <2>1. /\ on \in Reading
        /\ on.at = at /\ on.id = l.id /\ on.author = s /\ on.next = 1 /\ on.held = l.held
    BY <1>1, <1>3 DEF Reading, Reads
  <2>2. load' = [load EXCEPT ![r] = on]
    BY <1>1, <1>3 DEF ReadManifest
  <2> HIDE DEF on
  <2>3. load'[r] = on /\ FilesMoved
    BY <1>1, <2>2, FilesStay
  <2>4. 1 \in Sidecars /\ l.id \in Runs
    BY <1>1, PublicationAssumption DEF Sidecars, LoadInOrder, Reads
  <2>5. LoadInOrder(r)'
    BY <1>1, <1>3, <2>1, <2>3, <2>4 DEF LoadInOrder
  <2>6. ReadBy(on) = {0}
    BY <2>1 DEF ReadBy
  <2>7. LoadReads(r)
    BY <2>1, <2>3, <2>6, FileFacts DEF LoadReads
  <2> QED
    BY <1>1, <2>1, <2>2, <2>3, <2>5, <2>7, LoadMoves
<1> QED
  BY <1>2, <1>3

LEMMA PinKeeps ==
  ASSUME FilesTyped, LoadsInOrder, NEW r \in Readers, Pin(r)
  PROVE  LoadsInOrder' /\ LoadReads(r)
<1> DEFINE l == load[r]
           run == disk[l.id]
           held == [f \in Files |-> run[f].stamp]
           on == [load[r] EXCEPT !.held = held, !.at = "reading"]
           bad == \E f \in Files : run[f].is = "absent" \/ (f = 0 /\ run[f].is # l.author)
<1>1. /\ l.at = "pinning" /\ UNCHANGED <<files, edits, settled>> /\ LoadInOrder(r)
      /\ l \in Reading /\ load \in [Readers -> Reading] /\ settled \subseteq Readers
      /\ l.id \in Runs
  BY DEF Pin, LoadsInOrder, LoadInOrder, Reads
<1>2. CASE bad
  BY <1>1, <1>2, LoadEndKeeps DEF Pin, Refuses
<1>3. CASE ~ bad
  <2>1. held \in [Files -> Nat] /\ \A f \in Files : held[f] = run[f].stamp /\ held[f] <= held[f]
    BY <1>1 DEF FilesTyped, File
  <2>2. load' = [load EXCEPT ![r] = on]
    BY <1>1, <1>3 DEF Pin
  <2> HIDE DEF held
  <2>3. /\ on \in Reading /\ on.at = "reading" /\ on.id = l.id /\ on.author = l.author
        /\ on.next = l.next /\ on.held = held
    BY <1>1, <2>1 DEF Reading, Reads
  <2> HIDE DEF on
  <2>4. load'[r] = on /\ FilesMoved /\ disk' = disk
    BY <1>1, <2>2, FilesStay DEF files
  <2>5. ReadBy(on) = {0} /\ ReadBy(l) = {0}
    BY <1>1, <2>3 DEF ReadBy, LoadInOrder
  <2>6. LoadInOrder(r)'
    BY <1>1, <1>3, <2>1, <2>3, <2>4, <2>5, FileFacts DEF LoadInOrder
  <2>7. LoadReads(r)
    BY <2>3, <2>4, <2>5 DEF LoadReads
  <2> QED
    BY <1>1, <2>2, <2>3, <2>4, <2>6, <2>7, LoadMoves
<1> QED
  BY <1>2, <1>3

LEMMA ReadDocKeeps ==
  ASSUME FilesTyped, LoadsInOrder, NEW r \in Readers, ReadDoc(r)
  PROVE  LoadsInOrder' /\ LoadReads(r)
<1> DEFINE l == load[r]
           run == disk[l.id]
           last == l.next = Docs
<1>1. /\ l.at = "reading" /\ UNCHANGED <<files, edits>> /\ LoadInOrder(r) /\ disk' = disk
      /\ l \in Reading /\ load \in [Readers -> Reading] /\ settled \subseteq Readers
      /\ l.id \in Runs /\ l.next \in Sidecars /\ l.author \in Savers
      /\ settled' = IF last /\ Whole(l.id, l.author) THEN settled \cup {r} ELSE settled
  BY DEF ReadDoc, LoadsInOrder, LoadInOrder, Reads, files
<1>2. /\ settled \subseteq settled' /\ settled' \subseteq Readers /\ FilesMoved
      /\ settled \ {r} \subseteq settled'
  BY <1>1, FilesStay
<1>3. ReadBy(l) = 0 .. (l.next - 1) /\ (last => ReadBy(l) \cup {l.next} = Files) /\ l.next \in Files
  BY <1>1, FileFacts, PublicationAssumption DEF ReadBy, Sidecars, Files
<1>4. CASE run[l.next].is # l.author
  BY <1>1, <1>2, <1>4, LoadEndKeeps DEF ReadDoc, Refuses
<1>5. CASE run[l.next].is = l.author /\ ~ last
  <2> DEFINE on == [load[r] EXCEPT !.next = l.next + 1]
  <2>1. /\ l.next + 1 \in Sidecars /\ l.next + 1 \in Nat
        /\ 0 .. (l.next + 1 - 1) = ReadBy(l) \cup {l.next}
    BY <1>1, <1>3, <1>5, PublicationAssumption DEF Sidecars
  <2>2. /\ on \in Reading /\ on.at = "reading" /\ on.id = l.id /\ on.author = l.author
        /\ on.next = l.next + 1 /\ on.held = l.held
    BY <1>1, <2>1 DEF Reading
  <2>3. load' = [load EXCEPT ![r] = on]
    BY <1>1, <1>5 DEF ReadDoc
  <2> HIDE DEF on
  <2>4. load'[r] = on /\ ReadBy(on) = ReadBy(l) \cup {l.next}
    BY <1>1, <2>1, <2>2, <2>3 DEF ReadBy
  <2>5. LoadInOrder(r)'
    BY <1>1, <1>5, <2>1, <2>2, <2>4 DEF LoadInOrder
  <2>6. LoadReads(r)
    BY <1>3, <1>5, <2>2, <2>4 DEF LoadReads
  <2> QED
    BY <1>2, <2>2, <2>3, <2>5, <2>6, LoadMoves
<1>6. CASE run[l.next].is = l.author /\ last /\ l.author \in Pinned
  <2> DEFINE on == [load[r] EXCEPT !.at = "closing"]
  <2>1. /\ on \in Reading /\ on.at = "closing" /\ on.id = l.id /\ on.author = l.author
        /\ on.next = l.next /\ on.held = l.held
    BY <1>1 DEF Reading, Reads
  <2>2. load' = [load EXCEPT ![r] = on]
    BY <1>1, <1>6 DEF ReadDoc
  <2> HIDE DEF on
  <2>3. load'[r] = on /\ ReadBy(on) = Files
    BY <1>1, <2>1, <2>2 DEF ReadBy
  <2>4. r \in settled' \/ \E f \in Files : l.held[f] < run[f].stamp
    <3>1. CASE Whole(l.id, l.author)
      BY <1>1, <1>6, <3>1
    <3>2. CASE ~ Whole(l.id, l.author)
      <4>1. PICK f \in Files : run[f].is # l.author
        BY <3>2 DEF Whole
      <4>2. f \in ReadBy(l)
        BY <1>3, <1>6, <4>1
      <4>3. l.held[f] \in Nat /\ run[f].stamp \in Nat
        BY <1>1 DEF Reading, FilesTyped, File
      <4> QED
        BY <1>1, <1>6, <4>1, <4>2, <4>3 DEF LoadInOrder
    <3> QED
      BY <3>1, <3>2
  <2>5. \A f \in Files : f \in ReadBy(l) \/ run[f].is = l.author
    BY <1>3, <1>6
  <2>6. LoadInOrder(r)'
    BY <1>1, <1>6, <2>1, <2>3, <2>4, <2>5 DEF LoadInOrder
  <2>7. LoadReads(r)
    BY <1>3, <1>6, <2>1, <2>3, <2>5 DEF LoadReads
  <2> QED
    BY <1>2, <2>1, <2>2, <2>6, <2>7, LoadMoves
<1>7. CASE run[l.next].is = l.author /\ last /\ l.author \notin Pinned
  <2>1. \A f \in Files : f \in ReadBy(l) \/ run[f].is = l.author
    BY <1>3, <1>7
  <2> QED
    BY <1>1, <1>2, <1>7, <2>1, LoadEndKeeps DEF ReadDoc
<1> QED
  BY <1>4, <1>5, <1>6, <1>7

LEMMA CloseKeeps ==
  ASSUME FilesTyped, LoadsInOrder, NEW r \in Readers, Close(r)
  PROVE  LoadsInOrder' /\ LoadReads(r)
<1> DEFINE l == load[r]
           run == disk[l.id]
<1>1. /\ l.at = "closing" /\ UNCHANGED <<files, edits, settled>> /\ LoadInOrder(r)
      /\ l \in Reading /\ settled \subseteq Readers /\ l.author \in Savers
      /\ l.id \in Runs
  BY DEF Close, LoadsInOrder, LoadInOrder, Reads
<1>2. CASE ~ Held(l.id, l.held, Files)
  BY <1>1, <1>2, LoadEndKeeps DEF Close, Refuses
<1>3. CASE Held(l.id, l.held, Files)
  <2>1. \A f \in Files : run[f].stamp = l.held[f] /\ l.held[f] \in Nat
    BY <1>1, <1>3 DEF Held, Reading
  <2>2. r \in settled
    BY <1>1, <2>1 DEF LoadInOrder
  <2>3. ReadBy(l) = Files
    BY <1>1 DEF ReadBy
  <2> QED
    BY <1>1, <1>3, <2>2, <2>3, LoadEndKeeps DEF Close
<1> QED
  BY <1>2, <1>3

LEMMA LoadStepKeeps ==
  ASSUME FilesTyped, LoadsInOrder, NEW r \in Readers, LoadStep(r)
  PROVE  /\ LoadsInOrder' /\ LoadReads(r) /\ UNCHANGED <<files, edits, saver, intact>>
         /\ \A q \in Readers \ {r} : load'[q] = load[q]
<1>1. UNCHANGED <<files, edits, saver, intact>>
  BY DEF LoadStep, ReadManifest, Pin, ReadDoc, Close
<1>2. \A q \in Readers \ {r} : load'[q] = load[q]
  BY DEF LoadStep, ReadManifest, Pin, ReadDoc, Close, Refuses, Ends, LoadsInOrder
<1> QED
  BY <1>1, <1>2, ReadManifestKeeps, PinKeeps, ReadDocKeeps, CloseKeeps DEF LoadStep

-----------------------------------------------------------------------------
(* Requests. *)

LEMMA VisitWatches ==
  ASSUME FilesTyped, VisitsInOrder, FilesMoved, NEW r \in Readers, visit'[r] = visit[r],
         visit[r].at = "loaded" => load'[r] = load[r]
  PROVE  VisitInOrder(r)'
<1> DEFINE v == visit[r]
           run == disk[v.id]
           now == disk'[v.id]
<1>1. v \in Visiting /\ VisitInOrder(r) /\ v.seen \in [Files -> File] /\ v.next \in Nat
  BY DEF VisitsInOrder, Visiting
<1>2. CASE v.at \in {"observing"} \cup Visited
  <2>1. \A f \in Files : /\ v.seen[f] \in File /\ run[f] \in File /\ now[f] \in File
                         /\ Moved(run[f], now[f])
    BY <1>1, <1>2 DEF FilesTyped, FilesMoved, VisitInOrder
  <2>2. \A f \in Files : Since(v.seen[f], run[f]) =>
          Since(v.seen[f], now[f]) /\ (now[f] = v.seen[f] => run[f] = v.seen[f])
    BY <2>1, SinceMoved
  <2>3. v.at \in {"observing", "again"} => 0 .. (v.next - 1) \subseteq Files
    BY <1>1, PublicationAssumption DEF VisitInOrder, Files
  <2>4. v.at = "loaded" => ReadBy(load'[r]) = ReadBy(load[r])
    OBVIOUS
  <2> QED
    BY <1>1, <1>2, <2>2, <2>3, <2>4 DEF VisitInOrder, Confirmed, Visited
<1>3. CASE v.at \notin {"observing"} \cup Visited
  BY <1>1, <1>3 DEF VisitInOrder, Visited
<1> QED
  BY <1>2, <1>3

LEMMA VisitsWatch ==
  ASSUME FilesTyped, VisitsInOrder, FilesMoved, UNCHANGED <<requests, load>>
  PROVE  VisitsInOrder'
BY VisitWatches DEF VisitsInOrder, requests

(* One request goes on, the others watch. *)
LEMMA VisitMoves ==
  ASSUME FilesTyped, VisitsInOrder, UNCHANGED <<files, edits, scenario>>, NEW r \in Readers,
         NEW on \in Visiting, visit' = [visit EXCEPT ![r] = on],
         \A q \in Readers \ {r} : load'[q] = load[q], VisitInOrder(r)'
  PROVE  VisitsInOrder' /\ \A q \in Readers \ {r} : visit'[q] = visit[q]
<1>1. visit' \in [Readers -> Visiting] /\ \A q \in Readers \ {r} : visit'[q] = visit[q]
  BY DEF VisitsInOrder
<1>2. \A q \in Readers \ {r} : VisitInOrder(q)'
  BY <1>1, VisitWatches, FilesStay
<1> QED
  BY <1>1, <1>2 DEF VisitsInOrder

(* The caches.  What is put into them is younger than every listing. *)
LEMMA CachesMove ==
  ASSUME FilesTyped, CachesInOrder, FilesMoved,
         memo' \in [Runs -> Entry], stories' \in [Runs -> Entry],
         generation' \in Nat, generation <= generation',
         \A id \in Runs :
           \/ memo'[id] = memo[id]
           \/ memo'[id].summary = Nobody
           \/ /\ memo'[id].born = generation + 1
              /\ \A f \in Files : /\ memo'[id].files[f].is = memo'[id].summary
                                  /\ Since(memo'[id].files[f], disk'[id][f]),
         \A id \in Runs :
           \/ stories'[id] = stories[id]
           \/ stories'[id].summary = Nobody
           \/ \A f \in Files : stories'[id].files[f].is = stories'[id].summary,
         \A r \in Readers : \/ visit'[r] = visit[r]
                            \/ visit'[r].at \notin {"scanning", "forgetting"}
                            \/ ListingInOrder(r)'
  PROVE  CachesInOrder'
<1>1. /\ memo \in [Runs -> Entry] /\ generation \in Nat
      /\ \A id \in Runs, f \in Files :
           memo[id].files[f] \in File /\ disk[id][f] \in File /\ disk'[id][f] \in File
           /\ Moved(disk[id][f], disk'[id][f])
  BY DEF CachesInOrder, FilesTyped, FilesMoved, Entry
<1>2. \A id \in Runs, f \in Files :
        /\ Since(memo[id].files[f], disk[id][f]) => Since(memo[id].files[f], disk'[id][f])
        /\ memo[id].files[f].stamp < disk[id][f].stamp
              => memo[id].files[f].stamp < disk'[id][f].stamp
  <2> TAKE id \in Runs, f \in Files
  <2>1. /\ memo[id].files[f].stamp \in Nat
        /\ disk[id][f].stamp \in Nat /\ disk'[id][f].stamp \in Nat
        /\ disk[id][f].stamp <= disk'[id][f].stamp
    BY <1>1 DEF File, Moved
  <2> QED
    BY <1>1, <2>1, SinceMoved
<1>3. \A id \in Runs : memo'[id].summary # Nobody =>
        \A f \in Files : /\ memo'[id].files[f].is = memo'[id].summary
                         /\ Since(memo'[id].files[f], disk'[id][f])
  BY <1>2 DEF CachesInOrder
<1>4. \A id \in Runs : stories'[id].summary # Nobody =>
        \A f \in Files : stories'[id].files[f].is = stories'[id].summary
  BY DEF CachesInOrder
<1>5. ASSUME NEW r \in Readers PROVE ListingInOrder(r)'
  <2>1. CASE visit'[r] = visit[r]
    <3>1. visit[r].at \in {"scanning", "forgetting"} => visit[r].since \in 0 .. generation
      BY DEF CachesInOrder, ListingInOrder
    <3>2. ASSUME visit[r].at = "forgetting", NEW id \in Runs \ visit[r].todo,
                 memo'[id].summary # Nobody, memo'[id].born <= visit[r].since, NEW f \in Files
          PROVE  memo'[id].files[f].stamp < disk'[id][f].stamp
      <4>1. memo'[id] = memo[id]
        <5>1. memo'[id].born <= generation
          BY <1>1, <3>1, <3>2 DEF Entry
        <5> QED
          BY <1>1, <3>2, <5>1
      <4> QED
        BY <1>2, <3>2, <4>1 DEF CachesInOrder, ListingInOrder
    <3>3. visit[r].at \in {"scanning", "forgetting"} => visit[r].since \in 0 .. generation'
      BY <1>1, <3>1
    <3> QED
      BY <2>1, <3>2, <3>3 DEF ListingInOrder
  <2>2. CASE visit'[r].at \notin {"scanning", "forgetting"}
    BY <2>2 DEF ListingInOrder
  <2> QED
    BY <2>1, <2>2
<1> QED
  BY <1>3, <1>4, <1>5 DEF CachesInOrder

LEMMA CachesWatch ==
  ASSUME FilesTyped, CachesInOrder, FilesMoved, UNCHANGED caches,
         \A r \in Readers : \/ visit'[r] = visit[r]
                            \/ visit'[r].at \notin {"scanning", "forgetting"}
                            \/ ListingInOrder(r)'
  PROVE  CachesInOrder'
<1>1. UNCHANGED <<memo, generation, stories>>
  BY DEF caches
<1>2. memo \in [Runs -> Entry] /\ stories \in [Runs -> Entry] /\ generation \in Nat
  BY DEF CachesInOrder
<1> QED
  BY <1>1, <1>2, CachesMove

(* A step of one request that leaves files, loads and caches alone. *)
LEMMA RequestMoves ==
  ASSUME FilesTyped, VisitsInOrder, CachesInOrder, NEW r \in Readers, NEW on \in Visiting,
         UNCHANGED <<publicationVars, scenario, caches>>, visit' = [visit EXCEPT ![r] = on],
         VisitInOrder(r)', on.at \notin {"scanning", "forgetting"} \/ ListingInOrder(r)'
  PROVE  VisitsInOrder' /\ CachesInOrder'
<1>1. UNCHANGED <<files, edits, scenario, load>>
  BY DEF publicationVars
<1>2. VisitsInOrder' /\ \A q \in Readers \ {r} : visit'[q] = visit[q]
  BY <1>1, VisitMoves
<1>3. visit'[r] = on
  BY DEF VisitsInOrder
<1> QED
  BY <1>1, <1>2, <1>3, FilesStay, CachesWatch

LEMMA RequestOneKeeps ==
  ASSUME FilesTyped, VisitsInOrder, CachesInOrder, NEW r \in Readers, RequestOne(r)
  PROVE  VisitsInOrder' /\ CachesInOrder'
<1>1. PICK id \in Runs : visit' = [visit EXCEPT ![r].at = "observing", ![r].id = id, ![r].next = 0]
  BY DEF RequestOne
<1> DEFINE on == [visit[r] EXCEPT !.at = "observing", !.id = id, !.next = 0]
<1>2. /\ visit \in [Readers -> Visiting] /\ visit[r] \in Visiting /\ VisitInOrder(r)
      /\ visit[r].at = "idle" /\ UNCHANGED <<publicationVars, scenario, caches>>
  BY DEF VisitsInOrder, RequestOne
<1>3. /\ on \in Visiting /\ on.at = "observing" /\ on.id = id /\ on.next = 0
      /\ on.served = visit[r].served
  BY <1>2 DEF Visiting
<1>4. visit' = [visit EXCEPT ![r] = on]
  BY <1>1, <1>2
<1> HIDE DEF on
<1>5. visit'[r] = on
  BY <1>2, <1>4
<1>6. VisitInOrder(r)'
  <2>1. 0 .. (0 - 1) = {}
    OBVIOUS
  <2> QED
    BY <1>2, <1>3, <1>5, <2>1, FileFacts DEF VisitInOrder, Visited
<1> QED
  BY <1>2, <1>3, <1>4, <1>6, RequestMoves

LEMMA RequestListKeeps ==
  ASSUME FilesTyped, VisitsInOrder, CachesInOrder, NEW r \in Readers, RequestList(r)
  PROVE  VisitsInOrder' /\ CachesInOrder'
<1> DEFINE on == [visit[r] EXCEPT !.at = "scanning", !.since = generation]
<1>1. /\ visit \in [Readers -> Visiting] /\ visit[r] \in Visiting /\ VisitInOrder(r)
      /\ visit[r].at = "idle" /\ UNCHANGED <<publicationVars, scenario, caches>>
      /\ generation \in Nat /\ UNCHANGED generation
  BY DEF VisitsInOrder, RequestList, CachesInOrder, caches
<1>2. on \in Visiting /\ on.at = "scanning" /\ on.since = generation /\ on.served = visit[r].served
  BY <1>1 DEF Visiting
<1>3. visit' = [visit EXCEPT ![r] = on]
  BY <1>1 DEF RequestList
<1> HIDE DEF on
<1>4. visit'[r] = on
  BY <1>1, <1>3
<1>5. VisitInOrder(r)' /\ ListingInOrder(r)'
  BY <1>1, <1>2, <1>4 DEF VisitInOrder, Visited, ListingInOrder
<1> QED
  BY <1>1, <1>2, <1>3, <1>5, RequestMoves

(* What the directory does not list has no file, so every entry about it   *)
(* is older than its files are.                                            *)
LEMMA ScanKeeps ==
  ASSUME FilesTyped, ArchiveInOrder, VisitsInOrder, CachesInOrder, NEW r \in Readers, Scan(r)
  PROVE  VisitsInOrder' /\ CachesInOrder'
<1> DEFINE listed == {id \in Runs : Made(id)}
           on == [visit[r] EXCEPT !.at = "forgetting", !.todo = listed]
<1>1. /\ visit \in [Readers -> Visiting] /\ visit[r] \in Visiting /\ VisitInOrder(r)
      /\ visit[r].at = "scanning" /\ UNCHANGED <<publicationVars, scenario, caches>>
      /\ UNCHANGED <<disk, memo, generation>> /\ ListingInOrder(r)
  BY DEF VisitsInOrder, Scan, CachesInOrder, caches, publicationVars, files
<1>2. /\ on \in Visiting /\ on.at = "forgetting" /\ on.since = visit[r].since /\ on.todo = listed
      /\ on.served = visit[r].served
  BY <1>1 DEF Visiting
<1>3. visit' = [visit EXCEPT ![r] = on]
  BY <1>1 DEF Scan
<1>4. \A id \in Runs \ listed, f \in Files :
        memo[id].summary # Nobody => memo[id].files[f].stamp < disk[id][f].stamp
  <2> TAKE id \in Runs \ listed, f \in Files
  <2> HAVE memo[id].summary # Nobody
  <2>1. disk[id][f].is = "absent" /\ disk[id][f] \in File
    BY DEF ArchiveInOrder, FilesTyped
  <2>2. /\ memo[id].files[f].is = memo[id].summary /\ Since(memo[id].files[f], disk[id][f])
        /\ memo[id].files[f] \in File /\ memo[id].summary \in Savers
    BY DEF CachesInOrder, Entry
  <2> QED
    BY <2>1, <2>2, PublicationAssumption DEF Since, File
<1> HIDE DEF on, listed
<1>5. visit'[r] = on
  BY <1>1, <1>3
<1>6. VisitInOrder(r)'
  BY <1>1, <1>2, <1>5 DEF VisitInOrder, Visited
<1>7. ListingInOrder(r)'
  BY <1>1, <1>2, <1>4, <1>5 DEF ListingInOrder
<1> QED
  BY <1>1, <1>2, <1>3, <1>6, <1>7, RequestMoves

LEMMA ForgetKeeps ==
  ASSUME FilesTyped, VisitsInOrder, CachesInOrder, NEW r \in Readers, Forget(r)
  PROVE  VisitsInOrder' /\ CachesInOrder'
<1> DEFINE on == [visit[r] EXCEPT !.at = "choosing"]
<1>1. /\ visit \in [Readers -> Visiting] /\ visit[r] \in Visiting /\ VisitInOrder(r)
      /\ visit[r].at = "forgetting" /\ UNCHANGED <<files, edits, load, scenario>>
      /\ UNCHANGED <<generation, stories>>
  BY DEF VisitsInOrder, Forget, publicationVars
<1>2. on \in Visiting /\ on.at = "choosing" /\ on.served = visit[r].served
  BY <1>1 DEF Visiting
<1>3. visit' = [visit EXCEPT ![r] = on]
  BY <1>1 DEF Forget, Goes
<1> HIDE DEF on
<1>4. visit'[r] = on
  BY <1>1, <1>3
<1>5. VisitInOrder(r)'
  BY <1>1, <1>2, <1>4 DEF VisitInOrder, Visited
<1>6. VisitsInOrder' /\ \A q \in Readers \ {r} : visit'[q] = visit[q]
  BY <1>1, <1>2, <1>3, <1>5, VisitMoves
<1>7. NoEntry \in Entry /\ NoEntry.summary = Nobody
  BY FileFacts DEF NoEntry, Entry
<1>8. /\ memo' \in [Runs -> Entry] /\ stories \in [Runs -> Entry] /\ generation \in Nat
      /\ \A id \in Runs : memo'[id] = memo[id] \/ memo'[id].summary = Nobody
  BY <1>7 DEF CachesInOrder, Forget
<1> QED
  BY <1>1, <1>2, <1>4, <1>6, <1>8, FilesStay, CachesMove

LEMMA NextCandidateKeeps ==
  ASSUME FilesTyped, VisitsInOrder, CachesInOrder, NEW r \in Readers, NextCandidate(r)
  PROVE  VisitsInOrder' /\ CachesInOrder'
<1>1. /\ visit \in [Readers -> Visiting] /\ visit[r] \in Visiting
      /\ visit[r].at = "choosing" /\ UNCHANGED <<publicationVars, scenario, caches>>
  BY DEF VisitsInOrder, NextCandidate
<1>2. CASE visit[r].todo = {}
  <2> DEFINE on == [Resting EXCEPT !.at = "done"]
  <2>1. on \in Visiting /\ on.at = "done" /\ on.served = Nobody
    BY FileFacts DEF Visiting, Resting
  <2>2. visit' = [visit EXCEPT ![r] = on]
    BY <1>2 DEF NextCandidate
  <2> HIDE DEF on
  <2>3. visit'[r] = on
    BY <1>1, <2>2
  <2>4. VisitInOrder(r)'
    BY <2>1, <2>3 DEF VisitInOrder, Visited
  <2> QED
    BY <1>1, <2>1, <2>2, <2>4, RequestMoves
<1>3. CASE visit[r].todo # {}
  <2>1. PICK id \in visit[r].todo :
          visit' = [visit EXCEPT ![r].at = "observing", ![r].todo = @ \ {id},
                                 ![r].id = id, ![r].next = 0, ![r].served = Nobody]
    BY <1>3 DEF NextCandidate
  <2> DEFINE on == [visit[r] EXCEPT !.at = "observing", !.todo = @ \ {id},
                                    !.id = id, !.next = 0, !.served = Nobody]
  <2>2. /\ on \in Visiting /\ on.at = "observing" /\ on.id = id /\ on.next = 0 /\ on.served = Nobody
        /\ id \in Runs
    BY <1>1 DEF Visiting
  <2>3. visit' = [visit EXCEPT ![r] = on]
    BY <1>1, <2>1
  <2> HIDE DEF on
  <2>4. visit'[r] = on
    BY <1>1, <2>3
  <2>5. VisitInOrder(r)'
    <3>1. 0 .. (0 - 1) = {}
      OBVIOUS
    <3> QED
      BY <2>2, <2>4, <3>1, FileFacts DEF VisitInOrder, Visited
  <2> QED
    BY <1>1, <2>2, <2>3, <2>5, RequestMoves
<1> QED
  BY <1>2, <1>3

LEMMA ObserveKeeps ==
  ASSUME FilesTyped, VisitsInOrder, CachesInOrder, NEW r \in Readers, Observe(r)
  PROVE  VisitsInOrder' /\ CachesInOrder'
<1> DEFINE v == visit[r]
           at == IF Kind(r) = "verify" THEN "loading" ELSE "recalling"
           to == IF v.next < Docs THEN "observing" ELSE at
           file == disk[v.id][v.next]
           seen == [v.seen EXCEPT ![v.next] = file]
           gone == [visit[r] EXCEPT !.at = at, !.observed = FALSE]
           on == [visit[r] EXCEPT !.seen = seen, !.next = v.next + 1, !.observed = TRUE, !.at = to]
<1>1. /\ visit \in [Readers -> Visiting] /\ v \in Visiting /\ VisitInOrder(r)
      /\ v.at = "observing" /\ v.id \in Runs /\ v.next \in Files /\ v.served = Nobody
      /\ UNCHANGED <<publicationVars, scenario, caches>> /\ disk' = disk
  BY DEF VisitsInOrder, Observe, VisitInOrder, publicationVars, files
<1>2. at \in {"loading", "recalling"}
  OBVIOUS
<1>3. CASE ~ Made(v.id)
  <2>1. visit' = [visit EXCEPT ![r] = gone]
    BY <1>1, <1>3 DEF Observe
  <2> HIDE DEF at
  <2>2. /\ gone \in Visiting /\ gone.at = at /\ gone.observed = FALSE /\ gone.id = v.id
        /\ gone.served = Nobody
    BY <1>1, <1>2 DEF Visiting, Visited
  <2> HIDE DEF gone
  <2>3. visit'[r] = gone
    BY <1>1, <2>1
  <2>4. VisitInOrder(r)'
    BY <1>1, <1>2, <2>2, <2>3 DEF VisitInOrder, Visited
  <2> QED
    BY <1>1, <1>2, <2>1, <2>2, <2>4, RequestMoves
<1>4. CASE Made(v.id)
  <2>1. visit' = [visit EXCEPT ![r] = on]
    BY <1>1, <1>4 DEF Observe, Visiting
  <2>2. /\ file \in File /\ v.seen \in [Files -> File] /\ v.next \in Nat /\ v.next + 1 \in Nat
        /\ to = "observing" => v.next + 1 \in Files
        /\ to # "observing" => Files \subseteq 0 .. v.next
        /\ to \in {"observing", "loading", "recalling"}
    BY <1>1, <1>2, PublicationAssumption DEF FilesTyped, Visiting, Files
  <2> HIDE DEF at, to, file
  <2>3. /\ seen \in [Files -> File]
        /\ \A f \in Files : seen[f] = IF f = v.next THEN file ELSE v.seen[f]
    BY <2>2
  <2> HIDE DEF seen
  <2>4. /\ on \in Visiting
        /\ on.at = to /\ on.observed = TRUE /\ on.id = v.id /\ on.next = v.next + 1
        /\ on.seen = seen /\ on.served = Nobody
    BY <1>1, <2>2, <2>3 DEF Visiting, Visited
  <2> HIDE DEF on
  <2>5. visit'[r] = on
    BY <1>1, <2>1
  <2>6. \A f \in 0 .. v.next : f \in Files /\ Since(seen[f], disk[v.id][f])
    <3> TAKE f \in 0 .. v.next
    <3>1. f \in Files /\ (f = v.next \/ f \in 0 .. (v.next - 1))
      BY <1>1, <2>2, PublicationAssumption DEF Files
    <3>2. CASE f = v.next
      BY <1>1, <2>2, <2>3, <3>1, <3>2 DEF Since, File, file
    <3>3. CASE f # v.next
      BY <1>1, <2>3, <3>1, <3>3 DEF VisitInOrder
    <3> QED
      BY <3>1, <3>2, <3>3
  <2>7. 0 .. (v.next + 1 - 1) = 0 .. v.next
    BY <2>2
  <2>8. VisitInOrder(r)'
    BY <1>1, <2>2, <2>4, <2>5, <2>6, <2>7 DEF VisitInOrder, Visited
  <2> QED
    BY <1>1, <2>1, <2>2, <2>4, <2>8, RequestMoves
<1> QED
  BY <1>3, <1>4

(* The candidate is settled, with the verdict on what has been seen or     *)
(* with none.                                                              *)
LEMMA SettleKeeps ==
  ASSUME FilesTyped, VisitsInOrder, UNCHANGED <<files, edits, scenario>>, NEW r \in Readers,
         \A q \in Readers \ {r} : load'[q] = load[q],
         NEW summary \in Savers \cup {Nobody}, Settles(r, summary),
         summary # Nobody => \A f \in Files : visit[r].seen[f].is = summary
  PROVE  /\ VisitsInOrder' /\ visit'[r].at \in {"choosing", "done"}
         /\ \A q \in Readers \ {r} : visit'[q] = visit[q]
<1> DEFINE at == IF Kind(r) = "list" THEN "choosing" ELSE "done"
           seen == IF summary = Nobody THEN NoFiles ELSE visit[r].seen
           on == [visit[r] EXCEPT !.at = at, !.next = 0, !.observed = FALSE, !.found = Nobody,
                                  !.served = summary, !.seen = seen]
<1>1. visit \in [Readers -> Visiting] /\ visit[r] \in Visiting /\ visit[r].seen \in [Files -> File]
  BY DEF VisitsInOrder, Visiting
<1>2. visit' = [visit EXCEPT ![r] = on]
  BY <1>1 DEF Settles
<1>3. at \in {"choosing", "done"} /\ seen \in [Files -> File]
  BY <1>1, FileFacts
<1>4. summary # Nobody => seen = visit[r].seen
  OBVIOUS
<1> HIDE DEF at, seen
<1>5. on \in Visiting /\ on.at = at /\ on.served = summary /\ on.seen = seen
  BY <1>1, <1>3 DEF Visiting
<1> HIDE DEF on
<1>6. visit'[r] = on
  BY <1>1, <1>2
<1>7. VisitInOrder(r)'
  BY <1>3, <1>4, <1>5, <1>6 DEF VisitInOrder, Visited
<1> QED
  BY <1>2, <1>3, <1>5, <1>6, <1>7, VisitMoves

(* A request that goes on to load without anything from its cache. *)
LEMMA MissKeeps ==
  ASSUME FilesTyped, VisitsInOrder, UNCHANGED <<files, edits, scenario, load>>, NEW r \in Readers,
         visit[r].at = "recalling", Goes(r, "loading")
  PROVE  /\ VisitsInOrder' /\ visit'[r].at = "loading"
         /\ \A q \in Readers \ {r} : visit'[q] = visit[q]
<1> DEFINE on == [visit[r] EXCEPT !.at = "loading"]
<1>1. visit \in [Readers -> Visiting] /\ visit[r] \in Visiting /\ VisitInOrder(r)
  BY DEF VisitsInOrder
<1>2. /\ on \in Visiting
      /\ on.at = "loading" /\ on.id = visit[r].id /\ on.observed = visit[r].observed
      /\ on.seen = visit[r].seen /\ on.served = visit[r].served
  BY <1>1 DEF Visiting, Visited
<1>3. visit' = [visit EXCEPT ![r] = on] /\ disk' = disk
  BY <1>1 DEF Goes, files
<1> HIDE DEF on
<1>4. visit'[r] = on
  BY <1>1, <1>3
<1>5. VisitInOrder(r)'
  BY <1>1, <1>2, <1>3, <1>4 DEF VisitInOrder, Visited
<1> QED
  BY <1>2, <1>3, <1>4, <1>5, VisitMoves

LEMMA RecallKeeps ==
  ASSUME FilesTyped, VisitsInOrder, CachesInOrder, NEW r \in Readers, Recall(r)
  PROVE  VisitsInOrder' /\ CachesInOrder'
<1> DEFINE v == visit[r]
           entry == memo[v.id]
           hit == entry.summary # Nobody /\ v.observed /\ SameBytes(v.seen, entry)
<1>1. /\ UNCHANGED <<files, edits, load, scenario, generation, stories>> /\ v.at = "recalling"
      /\ v.id \in Runs /\ FilesMoved /\ memo \in [Runs -> Entry] /\ generation \in Nat
      /\ stories \in [Runs -> Entry]
  BY FilesStay DEF Recall, publicationVars, VisitsInOrder, VisitInOrder, Visited, CachesInOrder
<1>2. CASE hit
  <2>1. Settles(r, entry.summary) /\ UNCHANGED caches
    BY <1>1, <1>2 DEF Recall, caches
  <2>2. entry.summary \in Savers \cup {Nobody} /\ \A f \in Files : v.seen[f].is = entry.summary
    BY <1>1, <1>2 DEF CachesInOrder, Entry, SameBytes
  <2> QED
    BY <1>1, <2>1, <2>2, SettleKeeps, CachesWatch
<1>3. CASE ~ hit
  <2>1. Goes(r, "loading") /\ memo' = [memo EXCEPT ![v.id] = NoEntry]
    BY <1>3 DEF Recall
  <2>2. NoEntry \in Entry /\ NoEntry.summary = Nobody
    BY FileFacts DEF NoEntry, Entry
  <2>3. /\ memo' \in [Runs -> Entry]
        /\ \A id \in Runs : memo'[id] = memo[id] \/ memo'[id].summary = Nobody
    BY <1>1, <2>1, <2>2
  <2>4. /\ VisitsInOrder' /\ visit'[r].at = "loading"
        /\ \A q \in Readers \ {r} : visit'[q] = visit[q]
    BY <1>1, <2>1, MissKeeps
  <2>5. generation' \in Nat /\ generation <= generation' /\ stories' = stories
    BY <1>1
  <2> QED
    BY <1>1, <2>3, <2>4, <2>5, CachesMove
<1> QED
  BY <1>2, <1>3

LEMMA RecallStoryKeeps ==
  ASSUME FilesTyped, VisitsInOrder, CachesInOrder, NEW r \in Readers, RecallStory(r)
  PROVE  VisitsInOrder' /\ CachesInOrder'
<1> DEFINE v == visit[r]
           entry == stories[v.id]
           hit == entry.summary # Nobody /\ v.observed /\ v.seen = entry.files
<1>1. /\ UNCHANGED <<files, edits, load, scenario, generation, memo>> /\ v.at = "recalling"
      /\ v.id \in Runs /\ FilesMoved /\ memo \in [Runs -> Entry] /\ generation \in Nat
      /\ stories \in [Runs -> Entry]
  BY FilesStay DEF RecallStory, publicationVars, VisitsInOrder, VisitInOrder, Visited, CachesInOrder
<1>2. CASE hit
  <2>1. Settles(r, entry.summary) /\ UNCHANGED caches
    BY <1>1, <1>2 DEF RecallStory, caches
  <2>2. entry.summary \in Savers \cup {Nobody} /\ \A f \in Files : v.seen[f].is = entry.summary
    BY <1>1, <1>2 DEF CachesInOrder, Entry
  <2> QED
    BY <1>1, <2>1, <2>2, SettleKeeps, CachesWatch
<1>3. CASE ~ hit
  <2>1. Goes(r, "loading") /\ stories' = [stories EXCEPT ![v.id] = NoEntry]
    BY <1>3 DEF RecallStory
  <2>2. NoEntry \in Entry /\ NoEntry.summary = Nobody
    BY FileFacts DEF NoEntry, Entry
  <2>3. /\ stories' \in [Runs -> Entry]
        /\ \A id \in Runs : stories'[id] = stories[id] \/ stories'[id].summary = Nobody
    BY <1>1, <2>1, <2>2
  <2>4. /\ VisitsInOrder' /\ visit'[r].at = "loading"
        /\ \A q \in Readers \ {r} : visit'[q] = visit[q]
    BY <1>1, <2>1, MissKeeps
  <2>5. generation' \in Nat /\ generation <= generation' /\ memo' = memo
    BY <1>1
  <2> QED
    BY <1>1, <2>3, <2>4, <2>5, CachesMove
<1> QED
  BY <1>2, <1>3

LEMMA LoadKeeps ==
  ASSUME FilesTyped, LoadsInOrder, VisitsInOrder, CachesInOrder, NEW r \in Readers, Load(r)
  PROVE  LoadsInOrder' /\ VisitsInOrder' /\ CachesInOrder'
<1> DEFINE on == [visit[r] EXCEPT !.at = "loaded"]
<1>1. /\ visit \in [Readers -> Visiting] /\ visit[r] \in Visiting /\ VisitInOrder(r)
      /\ visit[r].at = "loading" /\ visit[r].id \in Runs /\ FilesMoved
      /\ UNCHANGED <<files, edits, settled, scenario, caches>> /\ LoadBegins(r, visit[r].id)
  BY FilesStay DEF VisitsInOrder, VisitInOrder, Visited, Load
<1>2. /\ LoadsInOrder' /\ load'[r].id = visit[r].id
      /\ ReadBy(load'[r]) = {} /\ load'[r].at = "manifest"
  BY <1>1, LoadBeginKeeps
<1>3. \A q \in Readers \ {r} : load'[q] = load[q]
  BY <1>1 DEF LoadBegins, LoadsInOrder
<1>4. /\ on \in Visiting
      /\ on.at = "loaded" /\ on.id = visit[r].id /\ on.observed = visit[r].observed
      /\ on.seen = visit[r].seen /\ on.served = visit[r].served
  BY <1>1 DEF Visiting, Visited
<1>5. visit' = [visit EXCEPT ![r] = on] /\ disk' = disk
  BY <1>1 DEF Load, Goes, files
<1> HIDE DEF on
<1>6. visit'[r] = on
  BY <1>1, <1>5
<1>7. VisitInOrder(r)'
  BY <1>1, <1>2, <1>4, <1>5, <1>6 DEF VisitInOrder, Visited, Confirmed
<1>8. VisitsInOrder' /\ \A q \in Readers \ {r} : visit'[q] = visit[q]
  BY <1>1, <1>3, <1>4, <1>5, <1>7, VisitMoves
<1> QED
  BY <1>1, <1>2, <1>4, <1>6, <1>8, CachesWatch

LEMMA LoadingKeeps ==
  ASSUME FilesTyped, LoadsInOrder, VisitsInOrder, CachesInOrder, NEW r \in Readers, Loading(r)
  PROVE  LoadsInOrder' /\ VisitsInOrder' /\ CachesInOrder'
<1>1. /\ LoadsInOrder' /\ LoadReads(r) /\ UNCHANGED <<files, edits, disk>>
      /\ \A q \in Readers \ {r} : load'[q] = load[q]
  BY LoadStepKeeps DEF Loading, files
<1>2. /\ UNCHANGED <<visit, scenario, caches>> /\ visit[r].at = "loaded" /\ FilesMoved
      /\ VisitInOrder(r)
  BY <1>1, FilesStay DEF Loading, requests, VisitsInOrder
<1>3. VisitInOrder(r)'
  <2>1. visit[r].observed => Confirmed(r, ReadBy(load'[r]), load'[r].author)
    BY <1>1, <1>2 DEF VisitInOrder, Confirmed, LoadReads
  <2> QED
    BY <1>1, <1>2, <2>1 DEF VisitInOrder, Visited, Confirmed, LoadReads
<1>4. VisitsInOrder'
  BY <1>1, <1>2, <1>3, VisitWatches DEF VisitsInOrder
<1> QED
  BY <1>1, <1>2, <1>4, CachesWatch

LEMMA LoadedKeeps ==
  ASSUME FilesTyped, LoadsInOrder, VisitsInOrder, CachesInOrder, NEW r \in Readers, Loaded(r)
  PROVE  LoadsInOrder' /\ VisitsInOrder' /\ CachesInOrder'
<1>1. /\ visit \in [Readers -> Visiting] /\ visit[r] \in Visiting /\ VisitInOrder(r)
      /\ visit[r].at = "loaded" /\ FilesMoved /\ disk' = disk
      /\ UNCHANGED <<files, edits, scenario, caches>> /\ load' = [load EXCEPT ![r] = Unread]
      /\ settled' = settled \ {r} /\ LoadInOrder(r)
  BY FilesStay DEF VisitsInOrder, Loaded, files, LoadsInOrder
<1>2. LoadsInOrder' /\ \A q \in Readers \ {r} : load'[q] = load[q]
  BY <1>1, LoadForgottenKeeps DEF LoadsInOrder
<1>3. CASE Settles(r, Nobody)
  <2>1. /\ VisitsInOrder' /\ visit'[r].at \in {"choosing", "done"}
        /\ \A q \in Readers \ {r} : visit'[q] = visit[q]
    BY <1>1, <1>2, <1>3, SettleKeeps
  <2> QED
    BY <1>1, <1>2, <2>1, CachesWatch
<1>4. CASE load[r].at = "loaded" /\ visit[r].observed
  <2> DEFINE on == [visit[r] EXCEPT !.next = 0, !.at = "again", !.found = load[r].author]
  <2>1. load[r].author \in Savers /\ ReadBy(load[r]) = Files
    BY <1>1, <1>4 DEF LoadInOrder, ReadBy
  <2>2. /\ on \in Visiting
        /\ on.at = "again" /\ on.id = visit[r].id /\ on.observed = visit[r].observed
        /\ on.seen = visit[r].seen /\ on.served = visit[r].served /\ on.next = 0
        /\ on.found = load[r].author
    BY <1>1, <2>1 DEF Visiting, Visited
  <2>3. visit' = [visit EXCEPT ![r] = on]
    BY <1>1, <1>4 DEF Loaded
  <2> HIDE DEF on
  <2>4. visit'[r] = on
    BY <1>1, <2>3
  <2>5. Confirmed(r, Files, visit[r].found)'
    BY <1>1, <1>4, <2>1, <2>2, <2>4 DEF VisitInOrder, Confirmed
  <2>6. VisitInOrder(r)'
    <3>1. 0 .. (0 - 1) = {}
      OBVIOUS
    <3> QED
      BY <1>1, <1>4, <2>1, <2>2, <2>4, <2>5, <3>1, FileFacts DEF VisitInOrder, Visited
  <2>7. VisitsInOrder' /\ \A q \in Readers \ {r} : visit'[q] = visit[q]
    BY <1>1, <1>2, <2>2, <2>3, <2>6, VisitMoves
  <2> QED
    BY <1>1, <1>2, <2>2, <2>4, <2>7, CachesWatch
<1> QED
  BY <1>3, <1>4 DEF Loaded

(* A file that is as it was before the load is as it was during the load. *)
LEMMA ObserveAgainKeeps ==
  ASSUME FilesTyped, VisitsInOrder, CachesInOrder, NEW r \in Readers, ObserveAgain(r)
  PROVE  VisitsInOrder' /\ CachesInOrder'
<1> DEFINE v == visit[r]
           same == Made(v.id) /\ disk[v.id][v.next] = v.seen[v.next]
           to == IF v.next < Docs THEN "again" ELSE "remembering"
           on == [visit[r] EXCEPT !.next = v.next + 1, !.at = to]
<1>1. /\ visit \in [Readers -> Visiting] /\ v \in Visiting /\ VisitInOrder(r)
      /\ v.at = "again" /\ UNCHANGED <<publicationVars, scenario, caches>> /\ v.next \in Files
      /\ UNCHANGED <<files, edits, load, disk>> /\ FilesMoved /\ v.served = Nobody
  BY FilesStay DEF VisitsInOrder, ObserveAgain, Compared, VisitInOrder, publicationVars, files
<1>2. CASE ~ same
  <2>1. Settles(r, Nobody)
    BY <1>1, <1>2 DEF ObserveAgain, Compared
  <2> QED
    BY <1>1, <2>1, SettleKeeps, CachesWatch
<1>3. CASE same
  <2>1. visit' = [visit EXCEPT ![r] = on]
    BY <1>1, <1>3 DEF ObserveAgain, Compared
  <2>2. /\ v.next \in Nat /\ v.next + 1 \in Nat /\ to \in {"again", "remembering"}
        /\ to = "again" => v.next + 1 \in Files
        /\ to = "remembering" => Files \subseteq 0 .. v.next
        /\ 0 .. (v.next + 1 - 1) = 0 .. v.next
        /\ 0 .. v.next = (0 .. (v.next - 1)) \cup {v.next}
    BY <1>1, PublicationAssumption DEF Files
  <2>3. \A f \in 0 .. v.next : v.seen[f].is = v.found
    <3>1. v.seen[v.next].is = v.found
      BY <1>1, <1>3 DEF VisitInOrder, Confirmed
    <3> QED
      BY <1>1, <2>2, <3>1 DEF VisitInOrder
  <2> HIDE DEF to
  <2>4. /\ on \in Visiting /\ on.at = to /\ on.id = v.id /\ on.observed = v.observed
        /\ on.seen = v.seen /\ on.served = v.served /\ on.next = v.next + 1 /\ on.found = v.found
    BY <1>1, <2>2 DEF Visiting, Visited
  <2> HIDE DEF on
  <2>5. visit'[r] = on
    BY <1>1, <2>1
  <2>6. VisitInOrder(r)'
    BY <1>1, <2>2, <2>3, <2>4, <2>5 DEF VisitInOrder, Visited, Confirmed
  <2> QED
    BY <1>1, <2>1, <2>2, <2>4, <2>6, RequestMoves
<1> QED
  BY <1>2, <1>3

LEMMA RememberKeeps ==
  ASSUME FilesTyped, VisitsInOrder, CachesInOrder, NEW r \in Readers, Remember(r)
  PROVE  VisitsInOrder' /\ CachesInOrder'
<1> DEFINE v == visit[r]
           entry == [files |-> v.seen, summary |-> v.found, born |-> generation + 1]
           story == [entry EXCEPT !.born = 0]
<1>1. /\ v \in Visiting /\ v.at = "remembering" /\ v.found \in Savers /\ v.id \in Runs /\ v.observed
      /\ Settles(r, Nobody) /\ UNCHANGED <<files, edits, scenario, load, disk>> /\ FilesMoved
      /\ \A f \in Files : v.seen[f].is = v.found /\ Since(v.seen[f], disk[v.id][f])
  BY FilesStay DEF VisitsInOrder, VisitInOrder, Visited, Remember, publicationVars, files
<1>2. memo \in [Runs -> Entry] /\ stories \in [Runs -> Entry] /\ generation \in Nat
  BY DEF CachesInOrder
<1>3. /\ entry \in Entry /\ entry.files = v.seen /\ entry.summary = v.found
      /\ entry.born = generation + 1
      /\ story \in Entry /\ story.files = v.seen /\ story.summary = v.found
  BY <1>1, <1>2 DEF Entry, Visiting
<1>4. /\ VisitsInOrder' /\ visit'[r].at \in {"choosing", "done"}
      /\ \A q \in Readers \ {r} : visit'[q] = visit[q]
  BY <1>1, SettleKeeps
<1>5. CASE Kind(r) = "story"
  <2>1. stories' = [stories EXCEPT ![v.id] = story] /\ UNCHANGED <<memo, generation>>
    BY <1>5 DEF Remember
  <2> HIDE DEF story, entry
  <2>2. \A id \in Runs : \/ stories'[id] = stories[id]
                         \/ \A f \in Files : stories'[id].files[f].is = stories'[id].summary
    BY <1>1, <1>2, <1>3, <2>1
  <2>3. /\ memo' \in [Runs -> Entry] /\ generation' \in Nat
        /\ generation <= generation' /\ memo' = memo
    BY <1>2, <2>1
  <2>4. stories' \in [Runs -> Entry]
    BY <1>2, <1>3, <2>1
  <2> QED
    BY <1>1, <1>4, <2>2, <2>3, <2>4, CachesMove
<1>6. CASE Kind(r) # "story"
  <2>1. memo' = [memo EXCEPT ![v.id] = entry] /\ generation' = generation + 1 /\ UNCHANGED stories
    BY <1>6 DEF Remember
  <2> HIDE DEF story, entry
  <2>2. \A id \in Runs :
          \/ memo'[id] = memo[id]
          \/ /\ memo'[id].born = generation + 1
             /\ \A f \in Files : /\ memo'[id].files[f].is = memo'[id].summary
                                 /\ Since(memo'[id].files[f], disk'[id][f])
    BY <1>1, <1>2, <1>3, <2>1
  <2>3. /\ stories' \in [Runs -> Entry] /\ generation' \in Nat
        /\ generation <= generation' /\ stories' = stories
    BY <1>2, <2>1
  <2>4. memo' \in [Runs -> Entry]
    BY <1>2, <1>3, <2>1
  <2> QED
    BY <1>1, <1>4, <2>2, <2>3, <2>4, CachesMove
<1> QED
  BY <1>5, <1>6

-----------------------------------------------------------------------------
LEMMA RepositoryStarts == RepositoryInit => RepositoryInOrder
<1> SUFFICES ASSUME RepositoryInit PROVE RepositoryInOrder
  OBVIOUS
<1> USE FileFacts, PublicationAssumption DEF RepositoryInit, PublicationInit
<1>1. FilesTyped
  BY DEF FilesTyped, NoFiles, File
<1>2. ArchiveInOrder
  BY DEF ArchiveInOrder, Made, NoFiles, Unsaved, Saving
<1>3. SaversInOrder
  <2>1. Unsaved \in Saver
    BY DEF Saver, Unsaved
  <2> QED
    BY <2>1 DEF SaversInOrder, SaverInOrder, Unsaved, Saving
<1>4. LoadsInOrder
  <2>1. Unread \in Reading
    BY DEF Reading, Unread
  <2> QED
    BY <2>1 DEF LoadsInOrder, LoadInOrder, Unread, Reads
<1>5. VisitsInOrder
  <2>1. Resting \in Visiting
    BY DEF Visiting, Resting
  <2> QED
    BY <2>1 DEF VisitsInOrder, VisitInOrder, Resting, Visited
<1>6. CachesInOrder
  <2>1. NoEntry \in Entry
    BY DEF Entry, NoEntry
  <2> QED
    BY <2>1 DEF CachesInOrder, ListingInOrder, NoEntry, Resting
<1> QED
  BY <1>1, <1>2, <1>3, <1>4, <1>5, <1>6 DEF RepositoryInOrder

LEMMA RequestKeeps ==
  ASSUME RepositoryInOrder, NEW r \in Readers, Request(r)
  PROVE  RepositoryInOrder' /\ UNCHANGED files
<1> USE DEF RepositoryInOrder
<1>1. CASE Load(r) \/ Loading(r) \/ Loaded(r)
  <2>1. UNCHANGED <<files, edits, saver, intact>>
    BY <1>1, LoadStepKeeps DEF Load, Loading, Loaded
  <2>2. FilesTyped' /\ ArchiveInOrder' /\ SaversInOrder'
    BY <2>1, FilesStay, ArchiveStays, SaversWatch DEF FilesMoved
  <2> QED
    BY <1>1, <2>1, <2>2, LoadKeeps, LoadingKeeps, LoadedKeeps
<1>2. CASE \/ RequestOne(r) \/ RequestList(r) \/ Scan(r) \/ Forget(r) \/ NextCandidate(r)
           \/ Observe(r) \/ Recall(r) \/ RecallStory(r) \/ ObserveAgain(r) \/ Remember(r)
  <2>1. UNCHANGED publicationVars
    BY <1>2 DEF RequestOne, RequestList, Scan, Forget, NextCandidate, Observe, Recall,
                RecallStory, ObserveAgain, Compared, Remember
  <2>2. UNCHANGED <<files, edits, saver, intact, load, settled>>
    BY <2>1 DEF publicationVars
  <2>3. FilesTyped' /\ ArchiveInOrder' /\ SaversInOrder' /\ LoadsInOrder'
    BY <2>2, FilesStay, ArchiveStays, SaversWatch, LoadsWatch DEF FilesMoved
  <2> QED
    BY <1>2, <2>2, <2>3, RequestOneKeeps, RequestListKeeps, ScanKeeps, ForgetKeeps,
       NextCandidateKeeps, ObserveKeeps, RecallKeeps, RecallStoryKeeps, ObserveAgainKeeps,
       RememberKeeps
<1> QED
  BY <1>1, <1>2 DEF Request

(* Steps that are not a request's: everybody who reads watches. *)
LEMMA ReadersWatch ==
  ASSUME RepositoryInOrder, FilesMoved, UNCHANGED <<load, settled, requests, caches>>
  PROVE  LoadsInOrder' /\ VisitsInOrder' /\ CachesInOrder'
<1> USE DEF RepositoryInOrder
<1>1. LoadsInOrder' /\ VisitsInOrder'
  BY LoadsWatch, VisitsWatch
<1>2. CachesInOrder'
  BY CachesWatch DEF requests
<1> QED
  BY <1>1, <1>2

LEMMA RepositoryGoesOn ==
  ASSUME RepositoryInOrder, [RepositoryNext]_repositoryVars
  PROVE  RepositoryInOrder' /\ [Archive!Next]_Archive!archive
<1> USE DEF RepositoryInOrder
<1>1. CASE UNCHANGED repositoryVars
  <2>1. UNCHANGED <<files, edits, saver, intact, load, settled, requests, caches>>
    BY <1>1 DEF repositoryVars, publicationVars
  <2>2. FilesMoved /\ ArchiveInOrder' /\ SaversInOrder' /\ [Archive!Next]_Archive!archive
    BY <2>1, FilesStay, ArchiveStays, SaversWatch
  <2> QED
    BY <2>1, <2>2, ReadersWatch DEF FilesMoved
<1>2. ASSUME NEW s \in scenario.saves, SaveStep(s) \/ Fails(s), UNCHANGED <<requests, caches>>
      PROVE  RepositoryInOrder' /\ [Archive!Next]_Archive!archive
  <2>1. s \in Savers
    BY <1>2, RepositoryAssumption DEF VisitsInOrder
  <2> QED
    BY <1>2, <2>1, SaveKeeps, ReadersWatch DEF FilesMoved
<1>3. ASSUME NEW r \in Readers, Request(r)
      PROVE  RepositoryInOrder' /\ [Archive!Next]_Archive!archive
  BY <1>3, RequestKeeps DEF files, Archive!archive
<1>4. CASE Outside /\ UNCHANGED <<requests, caches>>
  BY <1>4, OutsideKeeps, OutsideMoves, ReadersWatch DEF FilesMoved
<1> QED
  BY <1>1, <1>2, <1>3, <1>4 DEF RepositoryNext

LEMMA RepositoryAlwaysInOrder == RepositorySpec => []RepositoryInOrder
<1>1. RepositoryInOrder /\ [RepositoryNext]_repositoryVars => RepositoryInOrder'
  BY RepositoryGoesOn
<1> QED
  BY <1>1, RepositoryStarts, PTL DEF RepositorySpec

(* The manifest of a version 10 run that is reported saved was linked over *)
(* sidecars that were all the saver's own at that moment.                  *)
THEOREM SavedRunsAlwaysWhole == RepositorySpec => []SavedRunIsWhole
<1>1. RepositoryInOrder => SavedRunIsWhole
  BY PublicationAssumption DEF RepositoryInOrder, SaversInOrder, SaverInOrder, SavedRunIsWhole
<1> QED
  BY <1>1, RepositoryAlwaysInOrder, PTL

(* An accepted version 10 run was whole when its last sidecar was read.    *)
THEOREM LoadedRunsAlwaysWhole == RepositorySpec => []LoadedRunIsWhole
<1>1. RepositoryInOrder => LoadedRunIsWhole
  BY DEF RepositoryInOrder, LoadsInOrder, LoadInOrder, LoadedRunIsWhole
<1> QED
  BY <1>1, RepositoryAlwaysInOrder, PTL

(* What a cache answers is the verdict on the bytes just observed.         *)
THEOREM AlwaysServedAsObserved == RepositorySpec => []ServedAsObserved
<1>1. RepositoryInOrder => ServedAsObserved
  BY DEF RepositoryInOrder, VisitsInOrder, VisitInOrder, ServedAsObserved
<1> QED
  BY <1>1, RepositoryAlwaysInOrder, PTL

(* A listing evicts no entry that still describes the files of its run.    *)
THEOREM OnlyStaleEverForgotten == RepositorySpec => OnlyStaleIsForgotten
<1> DEFINE Stale(r, id) == /\ visit[r].at = "forgetting" /\ visit'[r].at # "forgetting"
                           /\ memo[id].summary # Nobody /\ memo'[id] = NoEntry
                           => memo[id].files # disk[id]
<1>1. ASSUME RepositoryInOrder, [RepositoryNext]_repositoryVars, NEW r \in Readers, NEW id \in Runs,
             visit[r].at = "forgetting", visit'[r].at # "forgetting",
             memo[id].summary # Nobody, memo'[id] = NoEntry
      PROVE  memo[id].files # disk[id]
  <2>1. visit \in [Readers -> Visiting] /\ visit'[r] # visit[r]
    BY <1>1 DEF RepositoryInOrder, VisitsInOrder
  <2>2. PICK q \in Readers : Request(q)
    BY <1>1, <2>1 DEF RepositoryNext, repositoryVars, requests
  <2>3. q = r
    <3>1. CASE q # r
      BY <2>1, <2>2, <3>1 DEF Request, RequestOne, RequestList, Scan, Forget, NextCandidate,
         Observe, Recall, RecallStory, Load, Loading, Loaded, ObserveAgain, Compared, Remember,
         Settles, Goes, requests
    <3> QED
      BY <3>1
  <2>4. Forget(r)
    BY <1>1, <2>2, <2>3 DEF Request, RequestOne, RequestList, Scan, NextCandidate,
         Observe, Recall, RecallStory, Load, Loading, Loaded, ObserveAgain, Compared, Remember
  <2>5. id \notin visit[r].todo /\ memo[id].born <= visit[r].since
    <3>1. NoEntry.summary = Nobody
      BY DEF NoEntry
    <3> QED
      BY <1>1, <2>4, <3>1 DEF Forget
  <2>6. memo[id].files[0].stamp < disk[id][0].stamp /\ disk[id][0].stamp \in Nat
    BY <1>1, <2>5, FileFacts
       DEF RepositoryInOrder, CachesInOrder, ListingInOrder, FilesTyped, File
  <2> QED
    BY <2>6
<1>2. RepositoryInOrder /\ [RepositoryNext]_repositoryVars
        => [\A r \in Readers, id \in Runs : Stale(r, id)]_repositoryVars
  BY <1>1
<1> QED
  BY <1>2, RepositoryAlwaysInOrder, PTL DEF RepositorySpec, OnlyStaleIsForgotten

(* The run directory implements the archive: every claim, publication and  *)
(* removal is one the archive allows, and nothing else touches it.         *)
THEOREM RepositoryKeepsTheArchive == RepositorySpec => ArchiveSpec
<1>1. RepositoryInit => Archive!Init
  BY DEF RepositoryInit, PublicationInit, Archive!Init
<1>2. RepositoryInOrder /\ [RepositoryNext]_repositoryVars => [Archive!Next]_Archive!archive
  BY RepositoryGoesOn
<1> QED
  BY <1>1, <1>2, RepositoryAlwaysInOrder, PTL DEF RepositorySpec, ArchiveSpec, Archive!Spec
=============================================================================
