---- MODULE Snapshots ----
(* SnapshotManager (src/snapshot/mod.rs) of one session, with the file
   system (src/filesystem/sandbox_fs.rs) whose contents it copies and the
   container it stops and creates again.  An id is made of the kind of the
   snapshot, the session and the second, so that two of a kind made in one
   second have the same id.  Creating needs both objects exclusively and
   is one step; restores share them with one another and with writers. *)
EXTENDS Naturals, Sequences, FiniteSets, Functions

CONSTANTS Files,
          Restorers,  \* callers of restore_snapshot
          Torn,       \* a metadata file that was truncated and not written
          MaxSecond,  \* bound on the clock
          MaxVersion, \* bound on the versions of a file
          MaxCopies   \* bound on the ids ever used

ASSUME SnapshotsAssumption ==
  /\ {MaxSecond, MaxVersion, MaxCopies} \subseteq Nat
  /\ Torn \notin [kind : {"full", "incr"}, at : 0..MaxSecond]

VARIABLES
  second,   \* the clock, in the seconds ids are made of
  files,    \* the sandbox' files: version, 0 for none
  copies,   \* directories of file system snapshots on disk: id -> files
  known,    \* ids in the file system's own map, which a restart empties
  snapshots,\* the manager's map: id -> id of the base, or its own id if full
  saved,    \* the metadata files on disk
  box,      \* the session's container in the manager's registry
  restore,  \* the restores under way: the ids to apply, where they are
  captured, \* history: what the last snapshot with an id saw
  again,    \* history: ids made more than once
  touched,  \* history: files written since a restore began
  crowded   \* history: restores that met another

diskVars == <<copies, known, snapshots, saved, captured, again>>
snapVars == <<second, files, diskVars, box, restore, touched, crowded>>

Ids == [kind : {"full", "incr"}, at : 0..MaxSecond]
Empty == [f \in Files |-> 0]
NoRestore == [pc |-> "idle", of |-> "none", cur |-> "none", path |-> <<>>]
Nowhere == [i \in {} |-> Empty]

SnapInit ==
  /\ second = 0
  /\ files = Empty
  /\ copies = Nowhere
  /\ known = {}
  /\ snapshots = [i \in {} |-> {}]
  /\ saved = [i \in {} |-> {}]
  /\ box = "running"
  /\ restore = [r \in Restorers |-> NoRestore]
  /\ captured = Nowhere
  /\ again = {}
  /\ touched = [r \in Restorers |-> {}]
  /\ crowded = {}

With(map, i, v) == [j \in DOMAIN map \cup {i} |-> IF j = i THEN v ELSE map[j]]
Without(map, i) == Restrict(map, DOMAIN map \ {i})

\* Copying a directory over another keeps what the source has not.
Onto(source, target) == [f \in Files |-> IF source[f] # 0 THEN source[f] ELSE target[f]]

Active == {r \in Restorers : restore[r].pc # "idle"}

----
\* What became of a new snapshot i with base b: the metadata reach the disk
\* and then the map; or the file is not opened, or truncated and no more.
RecordBeforeSave(i, b) ==  \* the defect: listed although the file was not written
  /\ snapshots' = With(snapshots, i, b)
  /\ saved' \in {With(saved, i, b), saved, With(saved, i, Torn)}

Record(i, b) ==
  \/ snapshots' = With(snapshots, i, b) /\ saved' = With(saved, i, b)
  \/ saved' \in {saved, With(saved, i, Torn)} /\ UNCHANGED snapshots

(* create_full_snapshot and create_incremental_snapshot: the files are
   copied before the container is looked up and the metadata saved; either
   may fail and leaves the copy. *)
Create(kind) ==
  LET i == [kind |-> kind, at |-> second]
  IN  /\ Active = {}
      /\ Cardinality(DOMAIN copies \cup {i}) <= MaxCopies
      /\ \E b \in IF kind = "full" THEN {i} ELSE DOMAIN snapshots :
            /\ copies' = With(copies, i, IF i \in DOMAIN copies THEN Onto(files, copies[i]) ELSE files)
            /\ known' = known \cup {i}
            /\ captured' = With(captured, i, files)
            /\ again' = IF i \in DOMAIN copies THEN again \cup {i} ELSE again
            /\ IF box = "absent" THEN UNCHANGED <<snapshots, saved>> ELSE Record(i, b)
      /\ UNCHANGED <<second, files, box, restore, touched, crowded>>

(* load_snapshot: from the map, else from the disk into the map. *)
Load(i) ==
  /\ Active = {}
  /\ i \in DOMAIN saved \ DOMAIN snapshots /\ saved[i] # Torn
  /\ snapshots' = With(snapshots, i, saved[i])
  /\ UNCHANGED <<second, files, copies, known, saved, box, restore, captured, again, touched, crowded>>

(* delete_snapshot, which cleanup_old_snapshots calls for the old ones: the
   copy of the files stays, and what is based on it as well. *)
Delete(i) ==
  /\ Active = {}
  /\ i \in DOMAIN snapshots
  /\ snapshots' = Without(snapshots, i)
  /\ saved' = Without(saved, i)
  /\ UNCHANGED <<second, files, copies, known, box, restore, captured, again, touched, crowded>>

----
(* restore_snapshot takes nothing exclusively: restores may overlap.  It
   calls itself for the base before it applies a snapshot. *)
BeginRestore(r, i) ==
  /\ restore[r].pc = "idle"
  /\ i \in DOMAIN snapshots
  /\ restore' = [restore EXCEPT ![r] = [pc |-> "descend", of |-> i, cur |-> i, path |-> <<>>]]
  /\ crowded' = IF Active = {} THEN {} ELSE Active \cup {r}
  /\ UNCHANGED <<second, files, diskVars, box, touched>>

Goes(r, to) ==
  /\ restore' = [restore EXCEPT ![r] = to]
  /\ UNCHANGED <<second, diskVars, touched, crowded>>

\* A snapshot met for the second time is met for ever: the recursion is endless.
Descend(r) ==
  LET m == restore[r]
      i == m.cur
  IN  /\ m.pc = "descend" /\ UNCHANGED <<files, box>>
      /\ Goes(r, CASE i \notin DOMAIN snapshots -> [m EXCEPT !.pc = "failed"]
                  [] i \in DOMAIN snapshots /\ i.kind = "full" ->
                        [m EXCEPT !.pc = "clear", !.path = <<i>> \o @]
                  [] i \in DOMAIN snapshots /\ i.kind = "incr" /\ i \notin Range(m.path) ->
                        [m EXCEPT !.cur = snapshots[i], !.path = <<i>> \o @]
                  [] OTHER -> [m EXCEPT !.pc = "endless"])

(* restore_from_snapshot: clear the directory, then copy the snapshot back. *)
Clear(r) ==
  /\ restore[r].pc = "clear" /\ UNCHANGED box
  /\ IF Head(restore[r].path) \in known
     THEN files' = Empty /\ Goes(r, [restore[r] EXCEPT !.pc = "copy"])
     ELSE UNCHANGED files /\ Goes(r, [restore[r] EXCEPT !.pc = "failed"])

CopyBase(r) ==  \* the defect: the base is copied, not what it is the base of
  /\ restore[r].pc = "copy" /\ UNCHANGED box
  /\ files' = Onto(copies[snapshots[Head(restore[r].path)]], files)
  /\ Goes(r, [restore[r] EXCEPT !.pc = "box"])

Copy(r) ==
  /\ restore[r].pc = "copy" /\ UNCHANGED box
  /\ files' = Onto(copies[Head(restore[r].path)], files)
  /\ Goes(r, [restore[r] EXCEPT !.pc = "box"])

(* restore_container_state: a registered container is stopped, and as long
   as its id is registered a new one is refused; whoever removes it meanwhile
   makes room.  A new one that does not start stays registered. *)
StopOld(r) ==
  /\ restore[r].pc = "box" /\ UNCHANGED files
  /\ \/ box' = (IF box = "absent" THEN "absent" ELSE "stopped") /\ Goes(r, [restore[r] EXCEPT !.pc = "create"])
     \/ box # "absent" /\ UNCHANGED box /\ Goes(r, [restore[r] EXCEPT !.pc = "failed"])

CreateNew(r) ==
  LET path == restore[r].path
  IN  /\ restore[r].pc = "create" /\ UNCHANGED files
      /\ \/ /\ box = "absent" /\ box' = "running"
            /\ Goes(r, [restore[r] EXCEPT !.path = Tail(path), !.pc = IF Len(path) > 1 THEN "clear" ELSE "restored"])
         \/ /\ box' \in IF box = "absent" THEN {"absent", "stopped"} ELSE {box}
            /\ Goes(r, [restore[r] EXCEPT !.pc = "failed"])

\* It returns, or its caller drops it.
EndRestore(r) ==
  /\ restore[r].pc \notin {"idle", "endless"}
  /\ restore' = [restore EXCEPT ![r] = NoRestore]
  /\ touched' = [touched EXCEPT ![r] = {}]
  /\ crowded' = crowded \ {r}
  /\ UNCHANGED <<second, files, diskVars, box>>

----
\* write_file and delete_file, also while restores are under way.
Write(f) ==
  /\ \/ files[f] < MaxVersion /\ files' = [files EXCEPT ![f] = @ + 1]
     \/ files[f] # 0 /\ files' = [files EXCEPT ![f] = 0]
  /\ touched' = [r \in Restorers |-> IF r \in Active THEN touched[r] \cup {f} ELSE {}]
  /\ UNCHANGED <<second, diskVars, box, restore, crowded>>

\* The container is removed by its manager, at any time.
RemoveBox ==
  /\ box # "absent"
  /\ box' = "absent"
  /\ UNCHANGED <<second, files, diskVars, restore, touched, crowded>>

\* The server restarts: maps are gone, files and directories are not.
SnapCrash ==
  /\ snapshots' = [i \in {} |-> {}]
  /\ known' = {}
  /\ restore' = [r \in Restorers |-> NoRestore]
  /\ touched' = [r \in Restorers |-> {}]
  /\ crowded' = {}
  /\ box' = "absent"
  /\ UNCHANGED <<second, files, copies, saved, captured, again>>

SnapTick ==
  /\ second < MaxSecond
  /\ second' = second + 1
  /\ UNCHANGED <<files, diskVars, box, restore, touched, crowded>>

\* The session's container is created (again) by its manager.
AddBox ==
  /\ box = "absent"
  /\ box' = "running"
  /\ UNCHANGED <<second, files, diskVars, restore, touched, crowded>>

Restoration(r) == Descend(r) \/ Clear(r) \/ Copy(r) \/ StopOld(r) \/ CreateNew(r) \/ EndRestore(r)

SnapNext ==
  \/ \E kind \in {"full", "incr"} : Create(kind)
  \/ \E i \in Ids : Load(i) \/ Delete(i) \/ \E r \in Restorers : BeginRestore(r, i)
  \/ \E r \in Restorers : Restoration(r)
  \/ \E f \in Files : Write(f)
  \/ RemoveBox \/ AddBox \/ SnapCrash \/ SnapTick

SnapSpec == SnapInit /\ [][SnapNext]_snapVars

----
SnapTypeOK ==
  /\ second \in 0..MaxSecond
  /\ files \in [Files -> 0..MaxVersion]
  /\ known \subseteq DOMAIN copies
  /\ UNION {DOMAIN copies, DOMAIN snapshots, DOMAIN saved} \subseteq Ids
  /\ box \in {"running", "stopped", "absent"}

(* A restore that met no other brings back every file as the snapshot that
   was asked for saw it, whatever it is based on and whatever other snapshots
   were made or lost, except where someone wrote meanwhile (mod.rs:176-242).
   Two that overlap clear and copy the same directory, and either may return
   while the other has it cleared. *)
RestoresWhatItSaw ==
  \A r \in Restorers \ crowded :
      restore[r].pc = "restored" =>
        \A f \in Files \ touched[r] :
            captured[restore[r].of][f] # 0 => files[f] = captured[restore[r].of][f]

(* What is listed is on disk as it is listed, and found again after a
   restart, unless another snapshot had the same id and its metadata were
   truncated and not written (save_snapshot 333-338 before 127 and 169). *)
ListedIsSaved ==
  \A i \in DOMAIN snapshots :
      /\ i \in DOMAIN saved
      /\ saved[i] = snapshots[i] \/ (saved[i] = Torn /\ i \in again)

(* A restore brings back what its snapshot saw, and what is listed is on
   disk, but for overlapping restores and ids given out twice. *)
SnapshotsInv == SnapTypeOK /\ RestoresWhatItSaw /\ ListedIsSaved
====
