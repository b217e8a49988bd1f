------------------------------- MODULE Spool -------------------------------
(***************************************************************************)
(* The sandbox daemon's record spool (daemon/spool.go): an append-only     *)
(* JSONL file on the sandbox volume, an in-memory window over it capped at *)
(* MaxRecs records, and the recovery that rebuilds the window at boot.     *)
(*                                                                         *)
(* The file is the sequence of its parsable lines plus two facts about its *)
(* bytes: "torn" (it ends in an unterminated fragment) and "corrupt" (a    *)
(* terminated line does not parse).  Append holds the spool's mutex, so it *)
(* is one step for every reader; only a crash sees it half done.           *)
(***************************************************************************)
EXTENDS Integers, Sequences

CONSTANTS Data,     \* the records pi or the daemon may spool
          Notice,   \* the daemon's own spool_truncated record
          MaxRecs,  \* the cap of the window (KAPE's default is 10000)
          MaxId     \* bound on the spool ids, and on the lines failed syncs leave

ASSUME SpoolAssumption == /\ Notice \notin Data
                          /\ MaxRecs \in Nat
                          /\ MaxId \in Nat

VARIABLES file,     \* the parsable lines of the spool file, in order
          torn,     \* the file ends in a fragment with no newline
          corrupt,  \* the file holds a terminated line that does not parse
          recs,     \* the window served to the controller (memory)
          next,     \* the next spool id to assign (memory)
          up        \* the daemon is running

spoolVars == <<file, torn, corrupt, recs, next, up>>

spoolEntry == [id : Nat \ {0}, data : Data \cup {Notice}]

Entry(i, d) == [id |-> i, data |-> d]

----------------------------------------------------------------------------
(* What the bytes on disk become when the whole lines are written and then, *)
(* if frag, a fragment of one more.  A line that lands on a torn tail       *)
(* merges with the fragment into one line that no longer parses.            *)
Disk(lines, frag) ==
  LET merged == torn /\ lines # <<>>
  IN  /\ file' = file \o (IF merged THEN Tail(lines) ELSE lines)
      /\ corrupt' = (corrupt \/ merged)
      /\ torn' = (frag \/ (torn /\ lines = <<>>))

(* The highest spool id of the file; the ids of a recovered daemon continue *)
(* from it.                                                                 *)
TailId(f) == IF f = <<>> THEN 0
             ELSE CHOOSE m \in {f[i].id : i \in DOMAIN f} :
                    \A i \in DOMAIN f : f[i].id <= m

(* The newest MaxRecs records of r, all of them when they are fewer.        *)
Newest(r) == IF Len(r) > MaxRecs
             THEN SubSeq(r, Len(r) - MaxRecs + 1, Len(r))
             ELSE r

(* The append of one record overflows the window.                           *)
Overflows == Len(recs) + 1 > MaxRecs

(* The lines one Append(d) writes: the record and, if it overflows the      *)
(* window, the notice of the loss.                                          *)
AppendLines(d) ==
  IF Overflows THEN <<Entry(next, d), Entry(next + 1, Notice)>>
               ELSE <<Entry(next, d)>>

(* findAfter: the first index of r whose id is above the cursor.            *)
FindAfter(r, after) ==
  CHOOSE i \in 1..(Len(r) + 1) :
    /\ \A j \in 1..(i - 1) : r[j].id <= after
    /\ i <= Len(r) => r[i].id > after

(* What GET /records?after=n returns.                                       *)
ReadAfter(r, after) == SubSeq(r, FindAfter(r, after), Len(r))

----------------------------------------------------------------------------
SpoolInit ==
  /\ file = <<>> /\ torn = FALSE /\ corrupt = FALSE
  /\ recs = <<>> /\ next = 1 /\ up = TRUE

(* Spool.Append: the record is durable before it is visible; the oldest     *)
(* records beyond the cap leave the window and a notice follows them.       *)
SpoolAppend(d) ==
  /\ up
  /\ next + 1 <= MaxId
  /\ Disk(AppendLines(d), FALSE)
  /\ recs' = IF Overflows
             THEN Append(Newest(Append(recs, Entry(next, d))), Entry(next + 1, Notice))
             ELSE Append(recs, Entry(next, d))
  /\ next' = next + Len(AppendLines(d))
  /\ UNCHANGED up

(* The daemon dies: its memory is gone and the file is what it was.         *)
Lose == /\ up' = FALSE /\ recs' = <<>> /\ next' = 1

DaemonCrash == up /\ Lose /\ UNCHANGED <<file, torn, corrupt>>

(* The daemon dies inside Append: some of its lines are on disk, the next   *)
(* one perhaps as a fragment, and nobody has been served any of them.       *)
CrashInAppend(d) ==
  /\ up
  /\ next + 1 <= MaxId
  /\ LET lines == AppendLines(d)
     IN  \E n \in 0..Len(lines), frag \in BOOLEAN :
           /\ frag => n < Len(lines)
           /\ Disk(SubSeq(lines, 1, n), frag)
  /\ Lose

(* Mutant of Recover: the last id of the file is given out again.           *)
RecoverLastId ==
  /\ ~up /\ ~corrupt
  /\ up' = TRUE /\ torn' = FALSE
  /\ recs' = file
  /\ next' = IF file = <<>> THEN 1 ELSE TailId(file)
  /\ UNCHANGED <<file, corrupt>>

(* Mutant of Recover: a torn tail is refused like a corrupt line.           *)
RecoverRefusesTorn ==
  /\ ~up /\ ~corrupt /\ ~torn
  /\ up' = TRUE
  /\ recs' = file
  /\ next' = TailId(file) + 1
  /\ UNCHANGED <<file, torn, corrupt>>

(* NewSpool: scan the file, cut a torn tail, refuse a corrupt line.  The    *)
(* cap is not applied to the recovered window.                              *)
Recover ==
  /\ ~up
  /\ ~corrupt
  /\ up' = TRUE
  /\ torn' = FALSE
  /\ recs' = file
  /\ next' = TailId(file) + 1
  /\ UNCHANGED <<file, corrupt>>

SpoolStep == \/ \E d \in Data : SpoolAppend(d) \/ CrashInAppend(d)
             \/ DaemonCrash
             \/ Recover

----------------------------------------------------------------------------
(* I/O errors the daemon survives.  Append returns an error and pi's record *)
(* is dropped with a log line; memory is as before.                         *)

(* Write fails after some bytes: a fragment is left at the end of the file. *)
WriteFails == /\ up
              /\ Disk(<<>>, TRUE)
              /\ UNCHANGED <<recs, next, up>>

(* Write succeeds and Sync fails: the line is in the file, not in memory.   *)
SyncFails(d) == /\ up
                /\ next <= MaxId
                /\ Len(file) < MaxId
                /\ Disk(<<Entry(next, d)>>, FALSE)
                /\ UNCHANGED <<recs, next, up>>

(* The record lands, the window is cut, and the notice's own append fails   *)
(* at the write or at the sync.                                             *)
NoticeFails(d) ==
  /\ up
  /\ Overflows
  /\ next + 1 <= MaxId
  /\ \/ Disk(<<Entry(next, d)>>, TRUE)
     \/ Disk(AppendLines(d), FALSE)
  /\ recs' = Newest(Append(recs, Entry(next, d)))
  /\ next' = next + 1
  /\ UNCHANGED up

SpoolFault == \/ WriteFails
              \/ \E d \in Data : SyncFails(d) \/ NoticeFails(d)
=============================================================================
