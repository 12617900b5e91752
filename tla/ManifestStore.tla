---------------------------- MODULE ManifestStore ----------------------------
(***************************************************************************)
(* Manifest.save step by step, on a file system that forgets: mkstemp in   *)
(* the directory of the manifest, write, flush, fsync, os.replace, and the *)
(* unlink of the temporary file when one of them raises.                   *)
(*                                                                         *)
(* No lock keeps two runs from working on one output, so several processes *)
(* may save at once.  Each may be killed at any step, and the machine may  *)
(* lose power: then a file keeps the part of it that has reached the disk, *)
(* and the manifest path the file it last led to on the disk.  fsync makes *)
(* the data durable; the rename is not synced and may be lost.             *)
(*                                                                         *)
(* Abstractions.  The JSON text of a manifest is written in Size pieces,   *)
(* and is the manifest when all of them are there.  mkstemp draws names    *)
(* that are not in use, so a name is identified with its inode, and        *)
(* running out of inodes stands for a full disk.                           *)
(***************************************************************************)
EXTENDS Naturals

CONSTANTS
    Savers,   \* processes that may save
    Values,   \* manifests they may save
    Inodes,   \* files of the directory
    Size,     \* pieces a manifest is written in
    Faults,   \* which faults may happen: "error", "kill", "powerloss"
    None      \* no inode, no manifest

VARIABLES
    pc,       \* pc[p]: "idle", "writing", or "synced" before the rename
    tmp,      \* tmp[p]: the inode of its temporary file while it saves
    names,    \* inodes with a temporary name, strays included
    entry,    \* the inode the manifest path leads to
    stable,   \* the inode it leads to on the disk
    data,     \* data[i]: whose pieces file i has, and how many
    disk,     \* disk[i]: how many of them are on the disk
    strays    \* history: temporary files left by kills and power losses

vars == <<pc, tmp, names, entry, stable, data, disk, strays>>

ASSUME StoreAssumption ==
    /\ Size \in Nat \ {0}
    /\ None \notin Inodes
    /\ None \notin Values
    /\ Faults \subseteq {"error", "kill", "powerloss"}

Active == {p \in Savers : pc[p] # "idle"}

Init ==
    /\ pc = [p \in Savers |-> "idle"]
    /\ tmp = [p \in Savers |-> None]
    /\ names = {}
    /\ entry = None /\ stable = None
    /\ data = [i \in Inodes |-> [of |-> None, len |-> 0]]
    /\ disk = [i \in Inodes |-> 0]
    /\ strays = {}
-----------------------------------------------------------------------------
\* The saver is out of save().
Leave(p) ==
    /\ pc' = [pc EXCEPT ![p] = "idle"]
    /\ tmp' = [tmp EXCEPT ![p] = None]

\* Mutant: every process uses the same temporary name.
SharedName == Inodes \ {entry, stable}

\* Names mkstemp may draw.
Fresh == Inodes \ (names \cup {entry, stable})

Mkstemp(p, v, i) ==
    /\ pc[p] = "idle"
    /\ i \in Fresh
    /\ pc' = [pc EXCEPT ![p] = "writing"]
    /\ tmp' = [tmp EXCEPT ![p] = i]
    /\ names' = names \cup {i}
    /\ data' = [data EXCEPT ![i] = [of |-> v, len |-> 0]]
    /\ disk' = [disk EXCEPT ![i] = 0]
    /\ UNCHANGED <<entry, stable, strays>>

\* f.write and f.flush, piece by piece.
Write(p) ==
    /\ pc[p] = "writing"
    /\ data[tmp[p]].len < Size
    /\ data' = [data EXCEPT ![tmp[p]].len = @ + 1]
    /\ UNCHANGED <<pc, tmp, names, entry, stable, disk, strays>>

\* Mutant: the data is flushed and not synced.
NoFsync(p) ==
    /\ pc[p] = "writing"
    /\ data[tmp[p]].len = Size
    /\ pc' = [pc EXCEPT ![p] = "synced"]
    /\ UNCHANGED <<tmp, names, entry, stable, data, disk, strays>>

Fsync(p) ==
    /\ pc[p] = "writing"
    /\ data[tmp[p]].len = Size
    /\ disk' = [disk EXCEPT ![tmp[p]] = Size]
    /\ pc' = [pc EXCEPT ![p] = "synced"]
    /\ UNCHANGED <<tmp, names, entry, stable, data, strays>>

\* os.replace: the path leads to the new file.
Replace(p) ==
    /\ pc[p] = "synced"
    /\ entry' = tmp[p]
    /\ names' = names \ {tmp[p]}
    /\ Leave(p)
    /\ UNCHANGED <<stable, data, disk, strays>>

\* Mutant: the temporary file is not removed.
FailLeavingTmp(p) ==
    /\ "error" \in Faults
    /\ pc[p] # "idle"
    /\ Leave(p)
    /\ UNCHANGED <<names, entry, stable, data, disk, strays>>

\* Any of the steps raises (the disk is full, Ctrl-C): unlink, raise.
Fail(p) ==
    /\ "error" \in Faults
    /\ pc[p] # "idle"
    /\ names' = names \ {tmp[p]}
    /\ Leave(p)
    /\ UNCHANGED <<entry, stable, data, disk, strays>>
-----------------------------------------------------------------------------
(* The environment.                                                        *)

\* SIGKILL: the temporary file stays.
Kill(p) ==
    /\ "kill" \in Faults
    /\ pc[p] # "idle"
    /\ strays' = strays \cup {tmp[p]}
    /\ Leave(p)
    /\ UNCHANGED <<names, entry, stable, data, disk>>

\* The kernel writes back a piece of a file, or the directory.
WritebackData(i) ==
    /\ "powerloss" \in Faults
    /\ disk[i] < data[i].len
    /\ disk' = [disk EXCEPT ![i] = @ + 1]
    /\ UNCHANGED <<pc, tmp, names, entry, stable, data, strays>>

WritebackEntry ==
    /\ "powerloss" \in Faults
    /\ stable # entry
    /\ stable' = entry
    /\ UNCHANGED <<pc, tmp, names, entry, data, disk, strays>>

\* Power is lost: what is on the disk is left.  A rename that is lost gives
\* the file its temporary name back.
PowerLoss ==
    /\ "powerloss" \in Faults
    /\ pc' = [p \in Savers |-> "idle"]
    /\ tmp' = [p \in Savers |-> None]
    /\ entry' = stable
    /\ names' = (names \cup {entry}) \ {stable, None}
    /\ strays' = names'
    /\ data' = [i \in Inodes |-> [data[i] EXCEPT !.len = disk[i]]]
    /\ UNCHANGED <<stable, disk>>

Next ==
    \/ \E p \in Savers, v \in Values, i \in Inodes : Mkstemp(p, v, i)
    \/ \E p \in Savers : Write(p) \/ Fsync(p) \/ Replace(p) \/ Fail(p) \/ Kill(p)
    \/ \E i \in Inodes : WritebackData(i)
    \/ WritebackEntry
    \/ PowerLoss

Spec == Init /\ [][Next]_vars
-----------------------------------------------------------------------------
\* Every variable has its type.
TypeOK ==
    /\ pc \in [Savers -> {"idle", "writing", "synced"}]
    /\ tmp \in [Savers -> Inodes \cup {None}]
    /\ names \subseteq Inodes
    /\ entry \in Inodes \cup {None}
    /\ stable \in Inodes \cup {None}
    /\ data \in [Inodes -> [of : Values \cup {None}, len : 0 .. Size]]
    /\ disk \in [Inodes -> 0 .. Size]
    /\ strays \subseteq Inodes

\* A reader never finds half a manifest under the manifest path: not during
\* a save, not after a kill, a failed save or a power loss, not when two runs
\* save at once ("Atomically write the manifest", manifest.py:64).
NeverTorn == entry # None => data[entry].len = Size

\* A save that fails leaves no temporary file behind (manifest.py:76), and
\* takes nobody else's away: only a kill or a power loss leaves some.
NoStrays ==
    /\ names = strays \cup {tmp[p] : p \in Active}
    /\ \A p \in Active : tmp[p] \notin strays

\* What Manifest.load makes of file i when it has n pieces.
Parsed(i, n) == IF n = Size THEN data[i].of ELSE "torn"

Register == INSTANCE ManifestRegister WITH
    value  <- IF entry = None THEN None ELSE Parsed(entry, data[entry].len),
    stable <- IF stable = None THEN None ELSE Parsed(stable, disk[stable])

\* Seen through the path, a save is one atomic step, and a power loss falls
\* back to an earlier manifest: what Engine assumes of it.
ImplementsRegister == Register!Spec
-----------------------------------------------------------------------------
\* The inductive invariant: savers own their files, no saver writes into a
\* file the path leads to or may fall back to, and those are whole and on
\* the disk.
StoreInv ==
    /\ TypeOK
    /\ \A p \in Active : tmp[p] \in names
    /\ \A p, q \in Active : tmp[p] = tmp[q] => p = q
    /\ \A p \in Active : data[tmp[p]].of \in Values
    /\ \A p \in Savers : pc[p] = "synced" => /\ data[tmp[p]].len = Size
                                             /\ disk[tmp[p]] = Size
    /\ {entry, stable} \cap names = {}
    /\ \A i \in {entry, stable} \ {None} :
          /\ data[i].len = Size /\ disk[i] = Size
          /\ data[i].of \in Values
=============================================================================
