---------------------------- MODULE EventProofs ----------------------------
(***************************************************************************)
(* The two ways an agent's events leave the daemon's log.                  *)
(*                                                                         *)
(* Pull: a daemon's events reach the controller's files, for every cap,    *)
(* every number of overlapping pull loops and every pattern of crashes and *)
(* losses.                                                                 *)
(*                                                                         *)
(* Feed: the controller's hub gives them on, to streams and to clients     *)
(* that poll, for every log, query and number of clients.  A stream is     *)
(* faithful because its channel continues what the client was given        *)
(* (StreamInv).  A poll reads with a loop over the log; what the loop      *)
(* returns for a log of any length is proved by induction over its rounds  *)
(* (TakenSelects).                                                         *)
(***************************************************************************)
EXTENDS Pull, Feed, SequenceTheorems, WellFoundedInduction, TLAPS

(* The lines of f are numbered 1, 2, 3, ...                                 *)
Numbered(f) == \A i \in 1..Len(f) : f[i].id = i

(* r is the end of f.                                                       *)
SuffixOf(r, f) == /\ Len(r) <= Len(f)
                  /\ \A i \in 1..Len(r) : r[i] = f[Len(f) - Len(r) + i]

(* A window that has lost records is over its cap, so that it cuts at every *)
(* later append, and its last record is a notice.                           *)
LossMarked(r, f) == Len(r) < Len(f) => /\ Len(r) > MaxRecs
                                       /\ f[Len(f)].data = Notice

(* f is a prefix of g: no line of f is changed.                             *)
Extends(g, f) == /\ Len(f) <= Len(g)
                 /\ \A i \in 1..Len(f) : g[i] = f[i]

SpoolTypeOK == /\ file \in Seq(spoolEntry) /\ recs \in Seq(spoolEntry)
               /\ torn \in BOOLEAN /\ corrupt \in BOOLEAN /\ up \in BOOLEAN
               /\ next \in Nat \ {0}

(* The spool's part of the inductive invariant.                             *)
SpoolInv == /\ SpoolTypeOK
            /\ ~corrupt
            /\ up => ~torn
            /\ Numbered(file)
            /\ up => /\ next = Len(file) + 1
                     /\ SuffixOf(recs, file)
                     /\ LossMarked(recs, file)

----------------------------------------------------------------------------
(* Facts about sequences of spool entries.                                  *)

(* The highest id of a numbered file is its length.                         *)
LEMMA TailIdIsLen ==
  ASSUME NEW f \in Seq(spoolEntry), Numbered(f)
  PROVE  TailId(f) = Len(f)
<1>1. CASE f = <<>>
  BY <1>1 DEF TailId
<1>2. CASE f # <<>>
  <2>1. Len(f) \in DOMAIN f
    BY <1>2
  <2>2. /\ f[Len(f)].id = Len(f)
        /\ \A i \in DOMAIN f : f[i].id <= Len(f)
    BY <2>1 DEF Numbered
  <2>3. Len(f) \in {f[i].id : i \in DOMAIN f}
    BY <2>1, <2>2
  <2>4. \A m \in {f[i].id : i \in DOMAIN f} :
           (\A i \in DOMAIN f : f[i].id <= m) => m = Len(f)
    BY <2>1, <2>2 DEF Numbered
  <2> QED BY <1>2, <2>2, <2>3, <2>4 DEF TailId
<1> QED BY <1>1, <1>2

(* Writing lines that continue the numbering extends the file and keeps it  *)
(* numbered.                                                                *)
LEMMA ConcatNumbered ==
  ASSUME NEW f \in Seq(spoolEntry), Numbered(f),
         NEW w \in Seq(spoolEntry), \A i \in 1..Len(w) : w[i].id = Len(f) + i
  PROVE  /\ f \o w \in Seq(spoolEntry)
         /\ Len(f \o w) = Len(f) + Len(w)
         /\ Extends(f \o w, f)
         /\ \A i \in 1..Len(w) : (f \o w)[Len(f) + i] = w[i]
         /\ Numbered(f \o w)
<1> DEFINE g == f \o w
<1>1. /\ g \in Seq(spoolEntry)
      /\ Len(g) = Len(f) + Len(w)
      /\ \A i \in 1..(Len(f) + Len(w)) : g[i] = IF i <= Len(f) THEN f[i] ELSE w[i - Len(f)]
  BY ConcatProperties
<1>0. Len(f) \in Nat /\ Len(w) \in Nat
  OBVIOUS
<1> HIDE DEF g
<1>2. Extends(g, f)
  BY <1>0, <1>1 DEF Extends
<1>3. \A i \in 1..Len(w) : g[Len(f) + i] = w[i]
  <2> SUFFICES ASSUME NEW i \in 1..Len(w) PROVE g[Len(f) + i] = w[i]
    OBVIOUS
  <2>1. Len(f) + i \in 1..(Len(f) + Len(w)) /\ ~(Len(f) + i <= Len(f)) /\ (Len(f) + i) - Len(f) = i
    BY <1>0
  <2> QED BY <2>1, <1>1
<1>4. Numbered(g)
  <2> SUFFICES ASSUME NEW i \in 1..(Len(f) + Len(w)) PROVE g[i].id = i
    BY <1>1 DEF Numbered
  <2>1. CASE i <= Len(f)
    BY <2>1, <1>0, <1>1 DEF Numbered
  <2>2. CASE ~(i <= Len(f))
    <3>1. i - Len(f) \in 1..Len(w) /\ Len(f) + (i - Len(f)) = i
      BY <2>2, <1>0
    <3> QED BY <3>1, <2>2, <1>1
  <2> QED BY <2>1, <2>2
<1> QED BY <1>1, <1>2, <1>3, <1>4 DEF g

(* A full window keeps its MaxRecs newest records.                          *)
LEMMA NewestIs ==
  ASSUME NEW r \in Seq(spoolEntry), Len(r) > MaxRecs
  PROVE  /\ Newest(r) \in Seq(spoolEntry)
         /\ Len(Newest(r)) = MaxRecs
         /\ \A i \in 1..MaxRecs : Newest(r)[i] = r[Len(r) - MaxRecs + i]
<1> DEFINE m == Len(r) - MaxRecs + 1
<1>2. \A i \in m..Len(r) : r[i] \in spoolEntry
  BY SpoolAssumption
<1>3. /\ SubSeq(r, m, Len(r)) \in Seq(spoolEntry)
      /\ Len(SubSeq(r, m, Len(r))) = IF m <= Len(r) THEN Len(r) - m + 1 ELSE 0
      /\ \A i \in 1..(Len(r) - m + 1) : SubSeq(r, m, Len(r))[i] = r[m + i - 1]
  BY <1>2, SpoolAssumption, SubSeqProperties
<1>4. Newest(r) = SubSeq(r, m, Len(r))
  BY Zenon DEF Newest
<1>5. Len(r) - m + 1 = MaxRecs
  BY SpoolAssumption
<1>6. \A i \in 1..MaxRecs : m + i - 1 = Len(r) - MaxRecs + i
  BY SpoolAssumption
<1>7. Len(Newest(r)) = MaxRecs
  BY <1>3, <1>4, SpoolAssumption
<1> HIDE DEF m
<1> QED BY <1>3, <1>4, <1>5, <1>6, <1>7

(* The overflowing append: cut to the newest MaxRecs, then the notice.      *)
LEMMA OverflowWindow ==
  ASSUME NEW f \in Seq(spoolEntry), NEW r \in Seq(spoolEntry), SuffixOf(r, f),
         NEW e \in spoolEntry, NEW n \in spoolEntry, Len(r) + 1 > MaxRecs,
         NEW g \in Seq(spoolEntry), Len(g) = Len(f) + 2, Extends(g, f),
         g[Len(f) + 1] = e, g[Len(f) + 2] = n
  PROVE  /\ Append(Newest(Append(r, e)), n) \in Seq(spoolEntry)
         /\ Len(Append(Newest(Append(r, e)), n)) = MaxRecs + 1
         /\ SuffixOf(Append(Newest(Append(r, e)), n), g)
<1> DEFINE s == Append(r, e)
           t == Newest(s)
           q == Append(t, n)
<1>0. Len(f) \in Nat /\ Len(r) \in Nat /\ MaxRecs \in Nat /\ Len(r) <= Len(f)
  BY SpoolAssumption DEF SuffixOf
<1>1. /\ s \in Seq(spoolEntry) /\ Len(s) = Len(r) + 1
      /\ \A i \in 1..Len(r) : s[i] = r[i]
      /\ s[Len(r) + 1] = e
  BY AppendProperties
<1> HIDE DEF s
<1>2. /\ t \in Seq(spoolEntry) /\ Len(t) = MaxRecs
      /\ \A i \in 1..MaxRecs : t[i] = s[Len(s) - MaxRecs + i]
  BY <1>1, NewestIs
<1> HIDE DEF t
<1>3. /\ q \in Seq(spoolEntry) /\ Len(q) = MaxRecs + 1
      /\ \A i \in 1..MaxRecs : q[i] = t[i]
      /\ q[MaxRecs + 1] = n
  BY <1>2, AppendProperties
<1> HIDE DEF q
<1>4. ASSUME NEW i \in 1..(MaxRecs + 1)
      PROVE  q[i] = g[Len(g) - Len(q) + i]
  <2>1. CASE i = MaxRecs + 1
    <3>1. Len(g) - Len(q) + i = Len(f) + 2
      BY <2>1, <1>0, <1>3
    <3> QED BY <3>1, <2>1, <1>3
  <2>2. CASE i = MaxRecs
    <3>1. Len(g) - Len(q) + i = Len(f) + 1 /\ Len(s) - MaxRecs + i = Len(r) + 1 /\ i \in 1..MaxRecs
      BY <2>2, <1>0, <1>1, <1>3
    <3> QED BY <3>1, <1>1, <1>2, <1>3, Zenon
  <2>3. CASE i < MaxRecs
    <3> DEFINE j == Len(s) - MaxRecs + i
    <3>1. j \in 1..Len(r) /\ i \in 1..MaxRecs
      BY <2>3, <1>0, <1>1
    <3>2. /\ Len(f) - Len(r) + j = Len(g) - Len(q) + i
          /\ Len(f) - Len(r) + j \in 1..Len(f)
      BY <2>3, <1>0, <1>1, <1>3
    <3>3. q[i] = r[j]
      BY <3>1, <1>1, <1>2, <1>3
    <3>4. r[j] = f[Len(f) - Len(r) + j]
      BY <3>1 DEF SuffixOf
    <3> HIDE DEF j
    <3>5. g[Len(f) - Len(r) + j] = f[Len(f) - Len(r) + j]
      BY <3>2 DEF Extends
    <3> QED BY <3>2, <3>3, <3>4, <3>5
  <2> QED BY <2>1, <2>2, <2>3, <1>0
<1>5. Len(q) <= Len(g)
  BY <1>0, <1>3
<1>6. \A i \in 1..Len(q) : q[i] = g[Len(g) - Len(q) + i]
  BY <1>3, <1>4
<1>7. SuffixOf(q, g)
  BY Zenon, <1>5, <1>6 DEF SuffixOf
<1> QED BY <1>3, <1>7 DEF q, t, s

(* The append below the cap: one more record at the end of both.            *)
LEMMA AppendWindow ==
  ASSUME NEW f \in Seq(spoolEntry), NEW r \in Seq(spoolEntry), SuffixOf(r, f),
         NEW e \in spoolEntry,
         NEW g \in Seq(spoolEntry), Len(g) = Len(f) + 1, Extends(g, f), g[Len(f) + 1] = e
  PROVE  /\ Append(r, e) \in Seq(spoolEntry)
         /\ Len(Append(r, e)) = Len(r) + 1
         /\ SuffixOf(Append(r, e), g)
<1> DEFINE s == Append(r, e)
<1>0. Len(f) \in Nat /\ Len(r) \in Nat /\ Len(r) <= Len(f)
  BY DEF SuffixOf
<1>1. /\ s \in Seq(spoolEntry) /\ Len(s) = Len(r) + 1
      /\ \A i \in 1..Len(r) : s[i] = r[i]
      /\ s[Len(r) + 1] = e
  BY AppendProperties
<1> HIDE DEF s
<1>2. ASSUME NEW i \in 1..(Len(r) + 1) PROVE s[i] = g[Len(g) - Len(s) + i]
  <2>1. CASE i = Len(r) + 1
    <3>1. Len(g) - Len(s) + i = Len(f) + 1
      BY <2>1, <1>0, <1>1
    <3> QED BY <3>1, <2>1, <1>1
  <2>2. CASE i < Len(r) + 1
    <3>1. i \in 1..Len(r) /\ Len(g) - Len(s) + i = Len(f) - Len(r) + i /\ Len(f) - Len(r) + i \in 1..Len(f)
      BY <2>2, <1>0, <1>1
    <3>2. s[i] = f[Len(f) - Len(r) + i]
      BY <3>1, <1>1 DEF SuffixOf
    <3> QED BY <3>1, <3>2 DEF Extends
  <2> QED BY <2>1, <2>2, <1>0
<1>3. SuffixOf(s, g)
  BY <1>0, <1>1, <1>2 DEF SuffixOf
<1> QED BY <1>1, <1>3 DEF s

----------------------------------------------------------------------------
(* The spool alone.                                                         *)

(* A clean file gains exactly the lines written.                            *)
LEMMA DiskClean ==
  ASSUME NEW lines, NEW frag \in BOOLEAN, torn = FALSE, corrupt = FALSE, Disk(lines, frag)
  PROVE  file' = file \o lines /\ corrupt' = FALSE /\ torn' = frag
BY Zenon DEF Disk

(* The lines of an append continue the numbering.                           *)
LEMMA LinesOfAppend ==
  ASSUME SpoolInv, up, NEW d \in Data
  PROVE  /\ Entry(next, d) \in spoolEntry /\ Entry(next + 1, Notice) \in spoolEntry
         /\ Entry(next, d).id = Len(file) + 1
         /\ Entry(next + 1, Notice).id = Len(file) + 2
         /\ Entry(next + 1, Notice).data = Notice
         /\ AppendLines(d) \in Seq(spoolEntry)
         /\ \A i \in 1..Len(AppendLines(d)) : AppendLines(d)[i].id = Len(file) + i
<1>1. next = Len(file) + 1 /\ next \in Nat \ {0} /\ Len(file) \in Nat
  BY DEF SpoolInv, SpoolTypeOK
<1>2. /\ Entry(next, d) \in spoolEntry /\ Entry(next + 1, Notice) \in spoolEntry
      /\ Entry(next, d).id = Len(file) + 1
      /\ Entry(next + 1, Notice).id = Len(file) + 2
      /\ Entry(next + 1, Notice).data = Notice
  BY <1>1 DEF Entry, spoolEntry
<1> QED BY <1>1, <1>2 DEF AppendLines

(* Spool.Append keeps the spool's invariant and only adds lines.            *)
LEMMA AppendKeepsSpool ==
  ASSUME SpoolInv, NEW d \in Data, SpoolAppend(d)
  PROVE  SpoolInv' /\ Extends(file', file)
<1> DEFINE e == Entry(next, d)
           n == Entry(next + 1, Notice)
<1>1. /\ up = TRUE /\ up' = TRUE /\ torn = FALSE /\ corrupt = FALSE
      /\ next = Len(file) + 1 /\ Len(file) \in Nat
  BY DEF SpoolAppend, SpoolInv, SpoolTypeOK
<1>2. /\ e \in spoolEntry /\ n \in spoolEntry /\ n.data = Notice
      /\ AppendLines(d) \in Seq(spoolEntry)
      /\ \A i \in 1..Len(AppendLines(d)) : AppendLines(d)[i].id = Len(file) + i
  BY <1>1, LinesOfAppend
<1>3. file' = file \o AppendLines(d) /\ corrupt' = FALSE /\ torn' = FALSE
  BY <1>1, DiskClean, Zenon DEF SpoolAppend
<1>4. file \in Seq(spoolEntry) /\ recs \in Seq(spoolEntry) /\ Numbered(file)
      /\ SuffixOf(recs, file) /\ LossMarked(recs, file)
  BY <1>1 DEF SpoolInv, SpoolTypeOK
<1>5. /\ file' \in Seq(spoolEntry)
      /\ Len(file') = Len(file) + Len(AppendLines(d))
      /\ Extends(file', file)
      /\ \A i \in 1..Len(AppendLines(d)) : file'[Len(file) + i] = AppendLines(d)[i]
      /\ Numbered(file')
  BY <1>2, <1>3, <1>4, ConcatNumbered, Zenon
<1>6. CASE Overflows
  <2>1. AppendLines(d) = <<e, n>>
    BY <1>6 DEF AppendLines
  <2>2. recs' = Append(Newest(Append(recs, e)), n) /\ next' = next + 2
    BY <1>6, <2>1 DEF SpoolAppend
  <2>3. Len(file') = Len(file) + 2 /\ file'[Len(file) + 1] = e /\ file'[Len(file) + 2] = n
    BY <2>1, <1>5
  <2>4. Len(recs) + 1 > MaxRecs
    BY <1>6 DEF Overflows
  <2> HIDE DEF e, n
  <2>8. e \in spoolEntry /\ n \in spoolEntry /\ file' \in Seq(spoolEntry) /\ Extends(file', file)
    BY <1>2, <1>5
  <2>5. recs' \in Seq(spoolEntry) /\ Len(recs') = MaxRecs + 1 /\ SuffixOf(recs', file')
    BY <1>4, <2>8, <2>2, <2>3, <2>4, OverflowWindow, SMTT(60)
  <2>6. LossMarked(recs', file')
    BY <1>1, <1>2, <2>3, <2>5, SpoolAssumption DEF LossMarked
  <2>7. next' = Len(file') + 1 /\ next' \in Nat \ {0}
    BY <1>1, <2>2, <2>3
  <2> QED BY <1>1, <1>3, <1>5, <2>5, <2>6, <2>7, Zenon DEF SpoolInv, SpoolTypeOK
<1>7. CASE ~Overflows
  <2>1. AppendLines(d) = <<e>>
    BY <1>7 DEF AppendLines
  <2>2. recs' = Append(recs, e) /\ next' = next + 1
    BY <1>7, <2>1 DEF SpoolAppend
  <2>3. Len(file') = Len(file) + 1 /\ file'[Len(file) + 1] = e
    BY <2>1, <1>5
  <2>4. Len(recs) = Len(file)
    BY <1>4, <1>7, SpoolAssumption DEF Overflows, LossMarked, SuffixOf
  <2> HIDE DEF e, n
  <2>5. recs' \in Seq(spoolEntry) /\ Len(recs') = Len(recs) + 1 /\ SuffixOf(recs', file')
    BY <1>2, <1>4, <1>5, <2>2, <2>3, AppendWindow
  <2>6. LossMarked(recs', file')
    BY <1>1, <2>3, <2>4, <2>5 DEF LossMarked
  <2>7. next' = Len(file') + 1 /\ next' \in Nat \ {0}
    BY <1>1, <2>2, <2>3
  <2> QED BY <1>1, <1>3, <1>5, <2>5, <2>6, <2>7, Zenon DEF SpoolInv, SpoolTypeOK
<1> QED BY <1>6, <1>7

(* A crash inside Append leaves a prefix of its lines and an empty memory.  *)
LEMMA CrashInAppendKeepsSpool ==
  ASSUME SpoolInv, NEW d \in Data, CrashInAppend(d)
  PROVE  SpoolInv' /\ Extends(file', file)
<1>1. PICK n \in 0..Len(AppendLines(d)), frag \in BOOLEAN : Disk(SubSeq(AppendLines(d), 1, n), frag)
  BY DEF CrashInAppend
<1>2. /\ up /\ up' = FALSE /\ torn = FALSE /\ corrupt = FALSE /\ recs' = <<>> /\ next' = 1
      /\ Numbered(file) /\ file \in Seq(spoolEntry)
  BY DEF CrashInAppend, Lose, SpoolInv, SpoolTypeOK
<1> DEFINE a == AppendLines(d)
           w == SubSeq(a, 1, n)
<1>3. a \in Seq(spoolEntry) /\ \A i \in 1..Len(a) : a[i].id = Len(file) + i
  BY <1>2, LinesOfAppend
<1>4. file' = file \o w /\ corrupt' = FALSE /\ torn' = frag
  BY <1>1, <1>2, DiskClean, Zenon
<1> HIDE DEF a
<1>5. w \in Seq(spoolEntry) /\ Len(w) = n /\ \A i \in 1..n : w[i] = a[i]
  BY <1>1, <1>3, SubSeqProperties DEF a
<1> HIDE DEF w
<1>6. \A i \in 1..Len(w) : w[i].id = Len(file) + i
  <2> SUFFICES ASSUME NEW i \in 1..Len(w) PROVE w[i].id = Len(file) + i
    OBVIOUS
  <2>1. n <= Len(a) /\ n \in Nat /\ Len(a) \in Nat
    BY <1>1, <1>3 DEF a
  <2>2. i \in 1..Len(a) /\ w[i] = a[i]
    BY <1>5, <2>1
  <2> QED BY <1>3, <2>2
<1>7. file' \in Seq(spoolEntry) /\ Extends(file', file) /\ Numbered(file')
  BY <1>2, <1>4, <1>5, <1>6, ConcatNumbered
<1>8. recs' \in Seq(spoolEntry) /\ next' \in Nat \ {0}
  BY <1>2
<1> QED BY <1>2, <1>4, <1>7, <1>8, Zenon DEF SpoolInv, SpoolTypeOK

(* Each daemon step keeps the spool's invariant and only adds lines.        *)
LEMMA SpoolStepInv ==
  ASSUME SpoolInv, SpoolStep
  PROVE  SpoolInv' /\ Extends(file', file)
<1>1. ASSUME file' = file PROVE Extends(file', file)
  BY <1>1 DEF Extends, SpoolInv, SpoolTypeOK
<1>2. CASE DaemonCrash
  <2>1. /\ up' = FALSE /\ recs' = <<>> /\ next' = 1
        /\ file' = file /\ torn' = torn /\ corrupt' = corrupt
    BY <1>2 DEF DaemonCrash, Lose
  <2>2. recs' \in Seq(spoolEntry) /\ next' \in Nat \ {0}
    BY <2>1
  <2> QED BY <1>1, <2>1, <2>2, Zenon DEF SpoolInv, SpoolTypeOK
<1>3. CASE Recover
  <2>1. TailId(file) = Len(file) /\ Len(file) \in Nat
    BY TailIdIsLen DEF SpoolInv, SpoolTypeOK
  <2>2. SuffixOf(file, file) /\ LossMarked(file, file)
    BY <2>1 DEF SuffixOf, LossMarked
  <2>3. /\ up' = TRUE /\ torn' = FALSE /\ recs' = file /\ next' = Len(file) + 1
        /\ file' = file /\ corrupt' = corrupt
    BY <1>3, <2>1 DEF Recover
  <2>4. next' \in Nat \ {0}
    BY <2>1, <2>3
  <2> QED BY <1>1, <2>2, <2>3, <2>4, Zenon DEF SpoolInv, SpoolTypeOK
<1> QED BY <1>2, <1>3, AppendKeepsSpool, CrashInAppendKeepsSpool DEF SpoolStep

----------------------------------------------------------------------------
(* The pullers' batches.                                                    *)

(* b is a run of consecutive lines of f.                                    *)
RunOf(b, f) == \A i \in 1..Len(b) : /\ b[i].id \in 1..Len(f)
                                    /\ b[i] = f[b[i].id]
                                    /\ b[i].id = b[1].id + i - 1

(* A batch that starts beyond the watermark's successor ends in a notice.   *)
GapMarked(b, m) == (b # <<>> /\ b[1].id > m + 1) => b[Len(b)].data = Notice

(* A run of records of the file stays one when the file grows.              *)
LEMMA RunExtends ==
  ASSUME NEW f \in Seq(spoolEntry), NEW g \in Seq(spoolEntry), NEW b \in Seq(spoolEntry),
         RunOf(b, f), Extends(g, f)
  PROVE  RunOf(b, g)
<1>1. Len(f) \in Nat /\ Len(g) \in Nat /\ Len(f) <= Len(g)
  BY DEF Extends
<1> SUFFICES ASSUME NEW i \in 1..Len(b)
             PROVE  b[i].id \in 1..Len(g) /\ b[i] = g[b[i].id] /\ b[i].id = b[1].id + i - 1
  BY DEF RunOf
<1>2. b[i].id \in 1..Len(f) /\ b[i] = f[b[i].id] /\ b[i].id = b[1].id + i - 1
  BY DEF RunOf
<1> QED BY <1>1, <1>2 DEF Extends

(* What is left of a batch after its first record starts one id later.      *)
LEMMA RunTail ==
  ASSUME NEW f \in Seq(spoolEntry), NEW b \in Seq(spoolEntry), b # <<>>, RunOf(b, f)
  PROVE  /\ Tail(b) \in Seq(spoolEntry)
         /\ RunOf(Tail(b), f)
         /\ Len(b) = 1 <=> Tail(b) = <<>>
         /\ Tail(b) # <<>> => Tail(b)[1].id = b[1].id + 1
<1> DEFINE t == Tail(b)
<1>1. /\ t \in Seq(spoolEntry) /\ Len(t) = Len(b) - 1 /\ Len(b) \in Nat /\ Len(b) >= 1
      /\ \A i \in 1..Len(t) : t[i] = b[i + 1]
  BY HeadTailProperties
<1> HIDE DEF t
<1>2. Len(b) = 1 <=> t = <<>>
  BY <1>1, EmptySeq
<1>3. ASSUME NEW i \in 1..Len(t)
      PROVE  t[i].id \in 1..Len(f) /\ t[i] = f[t[i].id] /\ t[i].id = b[1].id + i
  <2>1. i + 1 \in 1..Len(b) /\ t[i] = b[i + 1] /\ b[1].id + (i + 1) - 1 = b[1].id + i
    <3>1. b[1].id \in Nat
      BY <1>1 DEF RunOf
    <3> QED BY <1>1, <3>1
  <2> QED BY <2>1 DEF RunOf
<1>4. 1 \in 1..Len(b) /\ b[1].id \in Nat
  BY <1>1 DEF RunOf
<1>5. t # <<>> => 1 \in 1..Len(t)
  BY <1>1
<1>6. t # <<>> => t[1].id = b[1].id + 1
  BY <1>3, <1>5
<1>7. RunOf(t, f)
  <2> SUFFICES ASSUME NEW i \in 1..Len(t)
               PROVE  t[i].id \in 1..Len(f) /\ t[i] = f[t[i].id] /\ t[i].id = t[1].id + i - 1
    BY DEF RunOf
  <2>1. 1 \in 1..Len(t) /\ t[1].id = b[1].id + 1
    BY <1>1, <1>3
  <2>2. t[1].id + i - 1 = b[1].id + i
    BY <2>1, <1>4
  <2> QED BY <1>3, <2>2
<1> QED BY <1>1, <1>2, <1>6, <1>7 DEF t

(* findAfter exists and is unique enough on a window with consecutive ids.  *)
LEMMA FindAfterIs ==
  ASSUME NEW f \in Seq(spoolEntry), Numbered(f), NEW r \in Seq(spoolEntry), SuffixOf(r, f),
         NEW a \in Nat
  PROVE  /\ FindAfter(r, a) \in 1..(Len(r) + 1)
         /\ \A j \in 1..(FindAfter(r, a) - 1) : r[j].id <= a
         /\ FindAfter(r, a) <= Len(r) => r[FindAfter(r, a)].id > a
<1> DEFINE o == Len(f) - Len(r)
           P(i) == /\ \A j \in 1..(i - 1) : r[j].id <= a
                   /\ i <= Len(r) => r[i].id > a
<1>1. Len(f) \in Nat /\ Len(r) \in Nat /\ o \in Nat
  BY DEF SuffixOf
<1>2. \A j \in 1..Len(r) : r[j].id = o + j
  <2> SUFFICES ASSUME NEW j \in 1..Len(r) PROVE r[j].id = o + j
    OBVIOUS
  <2>1. o + j \in 1..Len(f)
    BY <1>1 DEF SuffixOf
  <2> QED BY <2>1 DEF SuffixOf, Numbered
<1> HIDE DEF o
<1>3. \E i \in 1..(Len(r) + 1) : P(i)
  <2>1. CASE a < o + 1
    <3>1. 1 \in 1..(Len(r) + 1) /\ P(1)
      BY <2>1, <1>1, <1>2
    <3> QED BY <3>1
  <2>2. CASE a >= o + 1 /\ a <= o + Len(r)
    <3> DEFINE k == a - o + 1
    <3>1. k \in 1..(Len(r) + 1)
      BY <2>2, <1>1
    <3>2. \A j \in 1..(k - 1) : j \in 1..Len(r) /\ o + j <= a
      BY <2>2, <1>1
    <3>3. k <= Len(r) => k \in 1..Len(r) /\ o + k > a
      BY <2>2, <1>1, <3>1
    <3>4. P(k)
      BY <3>2, <3>3, <1>2
    <3> QED BY <3>1, <3>4
  <2>3. CASE a > o + Len(r)
    <3>1. Len(r) + 1 \in 1..(Len(r) + 1) /\ P(Len(r) + 1)
      BY <2>3, <1>1, <1>2
    <3> QED BY <3>1
  <2> QED BY <2>1, <2>2, <2>3, <1>1
<1>4. FindAfter(r, a) = CHOOSE i \in 1..(Len(r) + 1) : P(i)
  BY DEF FindAfter
<1>5. FindAfter(r, a) \in 1..(Len(r) + 1) /\ P(FindAfter(r, a))
  BY <1>3, <1>4, Zenon
<1> QED BY <1>5

(* A reply is a run of the file; if it starts beyond the cursor's successor *)
(* the window has lost records and the reply ends in the notice.            *)
LEMMA ReplyIsRun ==
  ASSUME NEW f \in Seq(spoolEntry), Numbered(f), NEW r \in Seq(spoolEntry), SuffixOf(r, f),
         LossMarked(r, f), NEW a \in Nat, NEW m \in Nat, a <= m
  PROVE  /\ ReadAfter(r, a) \in Seq(spoolEntry)
         /\ RunOf(ReadAfter(r, a), f)
         /\ GapMarked(ReadAfter(r, a), m)
<1> DEFINE o == Len(f) - Len(r)
           k == FindAfter(r, a)
           b == SubSeq(r, k, Len(r))
<1>1. Len(f) \in Nat /\ Len(r) \in Nat /\ o \in Nat /\ Len(f) = o + Len(r)
  BY DEF SuffixOf
<1>2. \A j \in 1..Len(r) : o + j \in 1..Len(f) /\ r[j] = f[o + j] /\ r[j].id = o + j
  <2> SUFFICES ASSUME NEW j \in 1..Len(r)
               PROVE  o + j \in 1..Len(f) /\ r[j] = f[o + j] /\ r[j].id = o + j
    OBVIOUS
  <2>1. o + j \in 1..Len(f)
    BY <1>1
  <2> QED BY <2>1 DEF SuffixOf, Numbered
<1>3. /\ k \in 1..(Len(r) + 1)
      /\ \A j \in 1..(k - 1) : r[j].id <= a
  BY FindAfterIs
<1> HIDE DEF o, k
<1>4. \A i \in k..Len(r) : r[i] \in spoolEntry
  BY <1>3
<1>5. /\ b \in Seq(spoolEntry)
      /\ Len(b) = IF k <= Len(r) THEN Len(r) - k + 1 ELSE 0
      /\ \A i \in 1..(Len(r) - k + 1) : b[i] = r[k + i - 1]
  BY <1>1, <1>3, <1>4, SubSeqProperties
<1> HIDE DEF b
<1>6. Len(b) = Len(r) - k + 1 /\ Len(b) \in Nat
  BY <1>1, <1>3, <1>5
<1>7. \A i \in 1..Len(b) : k + i - 1 \in 1..Len(r) /\ b[i] = r[k + i - 1] /\ b[i].id = o + k + i - 1
  <2> SUFFICES ASSUME NEW i \in 1..Len(b)
               PROVE  k + i - 1 \in 1..Len(r) /\ b[i] = r[k + i - 1] /\ b[i].id = o + k + i - 1
    OBVIOUS
  <2>1. k + i - 1 \in 1..Len(r) /\ o + (k + i - 1) = o + k + i - 1
    BY <1>1, <1>3, <1>6
  <2>2. b[i] = r[k + i - 1]
    BY <1>5, <1>6
  <2> QED BY <2>1, <2>2, <1>2
<1>8. RunOf(b, f)
  <2> SUFFICES ASSUME NEW i \in 1..Len(b)
               PROVE  b[i].id \in 1..Len(f) /\ b[i] = f[b[i].id] /\ b[i].id = b[1].id + i - 1
    BY DEF RunOf
  <2>1. 1 \in 1..Len(b)
    BY <1>6
  <2>2. b[1].id = o + k /\ b[i].id = o + k + i - 1
    BY <2>1, <1>1, <1>3, <1>7
  <2>3. o + (k + i - 1) = o + k + i - 1
    BY <1>1, <1>3
  <2> QED BY <1>1, <1>2, <1>3, <1>7, <2>2, <2>3, Zenon
<1>9. GapMarked(b, m)
  <2> SUFFICES ASSUME b # <<>>, b[1].id > m + 1 PROVE b[Len(b)].data = Notice
    BY DEF GapMarked
  <2>1. 1 \in 1..Len(b) /\ Len(b) \in 1..Len(b)
    BY <1>5, <1>6
  <2>2. b[1].id = o + k
    BY <2>1, <1>1, <1>3, <1>7
  <2>3. k = 1
    <3> SUFFICES ASSUME k # 1 PROVE FALSE
      OBVIOUS
    <3>1. k - 1 \in 1..(k - 1) /\ k - 1 \in 1..Len(r)
      BY <1>1, <1>3
    <3>2. o + (k - 1) <= a
      BY <3>1, <1>2, <1>3
    <3> QED BY <3>2, <2>2, <1>1, <1>3
  <2>4. Len(r) < Len(f)
    BY <1>1, <2>2, <2>3
  <2>5. f[Len(f)].data = Notice
    BY <2>4 DEF LossMarked
  <2>6. k + Len(b) - 1 = Len(r) /\ o + Len(r) = Len(f) /\ Len(r) \in 1..Len(r)
    BY <1>1, <1>3, <1>6, <2>1
  <2> QED BY <2>1, <2>5, <2>6, <1>2, <1>7
<1> QED BY <1>5, <1>8, <1>9 DEF b, k, ReadAfter

----------------------------------------------------------------------------
(* The durable log.                                                         *)

Has(l, id) == \E i \in 1..Len(l) : l[i].origin = id

(* The log l with watermark m against the spool file f.                     *)
LogOK(l, m, f) ==
  /\ m <= Len(f)
  /\ \A i \in 1..Len(l) : l[i].seq = i
  /\ \A i \in 1..Len(l) : l[i].origin > 0 => /\ l[i].origin <= m
                                             /\ l[i].data = f[l[i].origin].data
  /\ \A i, j \in 1..Len(l) :
       (i < j /\ l[i].origin > 0 /\ l[j].origin > 0) => l[i].origin < l[j].origin
  /\ m > 0 => Has(l, m)

(* Every id that the watermark has passed and the log misses is followed by *)
(* a notice that is logged or still ahead.                                  *)
LossOK(l, m, f) ==
  \A k \in 1..Len(f) : (k <= m /\ ~Has(l, k)) =>
     \E n \in 1..Len(f) : f[n].data = Notice /\ n > k /\ (n > m \/ Has(l, n))

(* Origins of stored events are numbers.                                    *)
LEMMA OriginNat ==
  ASSUME NEW l \in Seq(Event)
  PROVE  \A i \in 1..Len(l) : l[i].origin \in Nat
<1> SUFFICES ASSUME NEW i \in 1..Len(l) PROVE l[i].origin \in Nat
  OBVIOUS
<1>1. l[i] \in Event
  OBVIOUS
<1> QED BY <1>1 DEF Event

(* What the log says of the file stays true when the file grows.            *)
LEMMA LogExtends ==
  ASSUME NEW f \in Seq(spoolEntry), NEW g \in Seq(spoolEntry), Extends(g, f),
         NEW l \in Seq(Event), NEW m \in Nat, LogOK(l, m, f), LossOK(l, m, f)
  PROVE  LogOK(l, m, g) /\ LossOK(l, m, g)
<1>1. /\ Len(f) \in Nat /\ Len(g) \in Nat /\ Len(f) <= Len(g) /\ m <= Len(f)
      /\ \A i \in 1..Len(f) : i \in 1..Len(g) /\ g[i] = f[i]
  BY DEF Extends, LogOK
<1>2. \A i \in 1..Len(l) : l[i].origin > 0 => l[i].data = g[l[i].origin].data
  <2> SUFFICES ASSUME NEW i \in 1..Len(l), l[i].origin > 0 PROVE l[i].data = g[l[i].origin].data
    OBVIOUS
  <2>1. l[i].origin \in Nat
    BY OriginNat
  <2>2. l[i].origin <= m /\ l[i].data = f[l[i].origin].data
    BY DEF LogOK
  <2>3. l[i].origin \in 1..Len(f)
    BY <1>1, <2>1, <2>2
  <2> QED BY <1>1, <2>2, <2>3
<1>3. LogOK(l, m, g)
  BY <1>1, <1>2 DEF LogOK
<1>4. LossOK(l, m, g)
  <2> SUFFICES ASSUME NEW k \in 1..Len(g), k <= m, ~Has(l, k)
               PROVE  \E n \in 1..Len(g) : g[n].data = Notice /\ n > k /\ (n > m \/ Has(l, n))
    BY DEF LossOK
  <2>1. k \in 1..Len(f)
    BY <1>1
  <2>2. PICK n \in 1..Len(f) : f[n].data = Notice /\ n > k /\ (n > m \/ Has(l, n))
    BY <2>1 DEF LossOK
  <2> QED BY <1>1, <2>2
<1> QED BY <1>3, <1>4

(* What Append does to a log.                                               *)
LEMMA LogAppend ==
  ASSUME NEW l \in Seq(Event), NEW e \in Event
  PROVE  /\ Append(l, e) \in Seq(Event)
         /\ Len(Append(l, e)) = Len(l) + 1
         /\ \A i \in 1..Len(l) : Append(l, e)[i] = l[i]
         /\ Append(l, e)[Len(l) + 1] = e
         /\ \A id : Has(Append(l, e), id) <=> (Has(l, id) \/ e.origin = id)
<1> DEFINE q == Append(l, e)
<1>1. /\ q \in Seq(Event) /\ Len(q) = Len(l) + 1 /\ Len(l) \in Nat
      /\ \A i \in 1..Len(l) : q[i] = l[i]
      /\ q[Len(l) + 1] = e
  BY AppendProperties
<1> HIDE DEF q
<1>2. \A i \in 1..Len(q) : i \in 1..Len(l) \/ i = Len(l) + 1
  BY <1>1
<1>3. Len(l) + 1 \in 1..Len(q) /\ \A i \in 1..Len(l) : i \in 1..Len(q)
  BY <1>1
<1>4. ASSUME NEW id PROVE Has(q, id) <=> (Has(l, id) \/ e.origin = id)
  BY <1>1, <1>2, <1>3 DEF Has
<1> QED BY <1>1, <1>4 DEF q

(* PublishLifecycle: an event without an origin disturbs no record.         *)
LEMMA LogAppendLifecycle ==
  ASSUME NEW f \in Seq(spoolEntry), NEW l \in Seq(Event), NEW m \in Nat,
         LogOK(l, m, f), LossOK(l, m, f),
         NEW e \in Event, e.seq = Len(l) + 1, e.origin = 0
  PROVE  LogOK(Append(l, e), m, f) /\ LossOK(Append(l, e), m, f)
<1> DEFINE q == Append(l, e)
<1>1. /\ q \in Seq(Event) /\ Len(q) = Len(l) + 1 /\ Len(l) \in Nat
      /\ \A i \in 1..Len(l) : q[i] = l[i]
      /\ q[Len(l) + 1] = e
      /\ \A id : Has(q, id) <=> (Has(l, id) \/ e.origin = id)
  BY LogAppend
<1> HIDE DEF q
<1>2. \A i \in 1..Len(q) : i \in 1..Len(l) \/ (i = Len(l) + 1 /\ q[i] = e /\ ~(e.origin > 0))
  BY <1>1
<1>3. \A i \in 1..Len(q) : q[i].seq = i
  BY <1>1, <1>2 DEF LogOK
<1>4. \A i \in 1..Len(q) : q[i].origin > 0 => q[i].origin <= m /\ q[i].data = f[q[i].origin].data
  BY <1>1, <1>2 DEF LogOK
<1>5. \A i, j \in 1..Len(q) : (i < j /\ q[i].origin > 0 /\ q[j].origin > 0) => q[i].origin < q[j].origin
  BY <1>1, <1>2 DEF LogOK
<1>6. \A k \in 1..Len(f) : Has(q, k) <=> Has(l, k)
  BY <1>1
<1>7. LossOK(q, m, f)
  BY <1>6 DEF LossOK
<1>8. LogOK(q, m, f)
  BY <1>1, <1>3, <1>4, <1>5 DEF LogOK
<1> QED BY <1>7, <1>8 DEF q

(* PublishPulled: the first record of a batch extends the copy, or follows a marked gap. *)
LEMMA LogAppendPulled ==
  ASSUME NEW f \in Seq(spoolEntry), NEW l \in Seq(Event), NEW m \in Nat,
         LogOK(l, m, f), LossOK(l, m, f),
         NEW b \in Seq(spoolEntry), b # <<>>, RunOf(b, f), GapMarked(b, m), b[1].id > m,
         NEW e \in Event, e.seq = Len(l) + 1, e.origin = b[1].id, e.data = b[1].data
  PROVE  LogOK(Append(l, e), b[1].id, f) /\ LossOK(Append(l, e), b[1].id, f)
<1> DEFINE q == Append(l, e)
           x == b[1].id
<1>1. /\ q \in Seq(Event) /\ Len(q) = Len(l) + 1 /\ Len(l) \in Nat
      /\ \A i \in 1..Len(l) : q[i] = l[i]
      /\ q[Len(l) + 1] = e
      /\ \A id : Has(q, id) <=> (Has(l, id) \/ e.origin = id)
  BY LogAppend
<1>2. Len(b) \in Nat /\ 1 \in 1..Len(b) /\ Len(b) \in 1..Len(b)
  OBVIOUS
<1>3. x \in 1..Len(f) /\ b[1] = f[x] /\ Len(f) \in Nat
  BY <1>2 DEF RunOf
<1> HIDE DEF q
<1>4. \A i \in 1..Len(q) : i \in 1..Len(l) \/ (i = Len(l) + 1 /\ q[i] = e)
  BY <1>1
<1>5. \A i \in 1..Len(q) : q[i].seq = i
  BY <1>1, <1>4 DEF LogOK
<1>6. \A i \in 1..Len(l) : l[i].origin \in Nat
  BY OriginNat
<1>7. \A i \in 1..Len(l) : l[i].origin > 0 => l[i].origin < x /\ l[i].data = f[l[i].origin].data
  BY <1>3, <1>6 DEF LogOK
<1>8. \A i \in 1..Len(q) : q[i].origin > 0 => q[i].origin <= x /\ q[i].data = f[q[i].origin].data
  <2> SUFFICES ASSUME NEW i \in 1..Len(q), q[i].origin > 0
               PROVE  q[i].origin <= x /\ q[i].data = f[q[i].origin].data
    OBVIOUS
  <2>1. CASE i \in 1..Len(l)
    <3>1. q[i] = l[i] /\ l[i].origin \in Nat
      BY <1>1, <1>6, <2>1
    <3> QED BY <1>3, <1>7, <2>1, <3>1
  <2>2. CASE q[i] = e
    <3>1. q[i].origin = x /\ q[i].data = f[x].data
      BY <1>3, <2>2
    <3> QED BY <1>3, <3>1
  <2> QED BY <1>4, <2>1, <2>2
<1>9. ASSUME NEW i \in 1..Len(q), NEW j \in 1..Len(q), i < j, q[i].origin > 0, q[j].origin > 0
      PROVE  q[i].origin < q[j].origin
  <2>1. i \in 1..Len(l)
    <3>1. j <= Len(l) + 1 /\ i \in Nat /\ j \in Nat /\ i >= 1
      BY <1>1
    <3> QED BY <1>1, <1>9, <3>1
  <2>2. CASE j \in 1..Len(l)
    BY <1>1, <1>9, <2>1, <2>2 DEF LogOK
  <2>3. CASE j = Len(l) + 1 /\ q[j] = e
    BY <1>1, <1>7, <1>9, <2>1, <2>3
  <2> QED BY <1>4, <2>2, <2>3
<1>10. Has(q, x)
  BY <1>1
<1>11. LogOK(q, x, f)
  BY <1>3, <1>5, <1>8, <1>9, <1>10 DEF LogOK
<1>12. ASSUME NEW k \in 1..Len(f), k <= x, ~Has(q, k)
       PROVE  \E n \in 1..Len(f) : f[n].data = Notice /\ n > k /\ (n > x \/ Has(q, n))
  <2> DEFINE z == b[Len(b)].id
  <2>1. k # x /\ k < x /\ ~Has(l, k)
    BY <1>1, <1>3, <1>10, <1>12
  <2>2. z \in 1..Len(f) /\ b[Len(b)] = f[z] /\ z = x + Len(b) - 1 /\ z >= x
    BY <1>2, <1>3 DEF RunOf
  <2> HIDE DEF z
  <2>3. CASE x > m + 1
    <3>1. f[z].data = Notice
      BY <2>2, <2>3 DEF GapMarked, z
    <3>2. z > k /\ (z > x \/ Has(q, z))
      BY <1>3, <1>10, <2>1, <2>2
    <3> QED BY <2>2, <3>1, <3>2
  <2>4. CASE x = m + 1
    <3>1. k <= m
      BY <2>1, <2>4
    <3>2. PICK n \in 1..Len(f) : f[n].data = Notice /\ n > k /\ (n > m \/ Has(l, n))
      BY <2>1, <3>1 DEF LossOK
    <3>3. n > x \/ Has(q, n)
      BY <1>1, <1>3, <1>10, <2>4, <3>2
    <3> QED BY <3>2, <3>3
  <2> QED BY <1>3, <2>3, <2>4
<1>13. LossOK(q, x, f)
  BY <1>12 DEF LossOK
<1> QED BY <1>11, <1>13 DEF q

----------------------------------------------------------------------------
(* The inductive invariant of the whole record path.                        *)

CtrlTypeOK == /\ log \in Seq(Event)
              /\ mark \in Nat /\ hubSeq \in Nat /\ hubOrigin \in Nat
              /\ closed \in BOOLEAN /\ alive \in BOOLEAN
              /\ pc \in [Pullers -> {"idle", "asked", "batch"}]
              /\ after \in [Pullers -> Nat]
              /\ batch \in [Pullers -> Seq(spoolEntry)]

(* A puller's cursor is not ahead of the watermark, its batch is a run of   *)
(* the file, and a batch that skips ids carries the notice of their loss.   *)
PullerOK(p) == /\ pc[p] = "batch" <=> batch[p] # <<>>
               /\ pc[p] = "asked" => after[p] <= mark
               /\ RunOf(batch[p], file)
               /\ ~closed => GapMarked(batch[p], mark)

PullInv == /\ CtrlTypeOK
           /\ SpoolInv
           /\ LogOK(log, mark, file)
           /\ LossOK(log, mark, file)
           /\ alive => hubSeq = Len(log) /\ hubOrigin = mark
           /\ \A p \in Pullers : PullerOK(p)

(* The empty spool and the empty log satisfy the invariant.                 *)
LEMMA InitPullInv == PullInit => PullInv
<1> SUFFICES ASSUME PullInit PROVE PullInv
  OBVIOUS
<1>0. <<>> \in Seq(spoolEntry) /\ <<>> \in Seq(Event) /\ Len(<<>>) = 0
  BY EmptySeq
<1>1. SpoolInv
  <2>1. /\ file = <<>> /\ torn = FALSE /\ corrupt = FALSE
        /\ recs = <<>> /\ next = 1 /\ up = TRUE
    BY DEF PullInit, SpoolInit
  <2>2. Numbered(<<>>) /\ SuffixOf(<<>>, <<>>) /\ LossMarked(<<>>, <<>>)
    BY <1>0 DEF Numbered, SuffixOf, LossMarked
  <2>3. next \in Nat \ {0} /\ next = Len(file) + 1
    BY <1>0, <2>1
  <2> QED BY <1>0, <2>1, <2>2, <2>3, Zenon DEF SpoolInv, SpoolTypeOK
<1>2. CtrlTypeOK
  BY <1>0, Zenon DEF PullInit, CtrlTypeOK
<1>3. Len(log) = 0 /\ Len(file) = 0 /\ mark = 0
  BY DEF PullInit, SpoolInit
<1>4. LogOK(log, mark, file) /\ LossOK(log, mark, file)
  BY <1>3 DEF LogOK, LossOK
<1>5. ASSUME NEW p \in Pullers PROVE PullerOK(p)
  BY <1>5 DEF PullInit, PullerOK, RunOf, GapMarked
<1> QED BY <1>1, <1>2, <1>3, <1>4, <1>5 DEF PullInv, PullInit

(* The last stored seq is the length of the log.                            *)
LEMMA LastSeqIsLen ==
  ASSUME PullInv
  PROVE  LastSeq = Len(log)
<1>1. log \in Seq(Event) /\ \A i \in 1..Len(log) : log[i].seq = i
  BY DEF PullInv, CtrlTypeOK, LogOK
<1> QED BY <1>1 DEF LastSeq

(* A wider gap never opens: the mark only moves up.                         *)
LEMMA GapMarkedUp ==
  ASSUME NEW b \in Seq(spoolEntry), NEW m \in Nat, NEW k \in Nat, m <= k, GapMarked(b, m)
  PROVE  GapMarked(b, k)
<1>1. b # <<>> => b[1] \in spoolEntry
  OBVIOUS
<1>2. b # <<>> => b[1].id \in Nat
  BY <1>1 DEF spoolEntry
<1> QED BY <1>2 DEF GapMarked

(* Daemon steps: the file grows, the controller stands still.               *)
LEMMA DaemonInv == ASSUME PullInv, Daemon PROVE PullInv'
<1>1. SpoolInv' /\ Extends(file', file)
  BY SpoolStepInv DEF PullInv, Daemon
<1>2. /\ log' = log /\ mark' = mark /\ hubSeq' = hubSeq /\ hubOrigin' = hubOrigin
      /\ closed' = closed /\ alive' = alive /\ after' = after /\ batch' = batch
  BY DEF Daemon
<1>3. file \in Seq(spoolEntry) /\ file' \in Seq(spoolEntry) /\ CtrlTypeOK
  BY <1>1 DEF PullInv, SpoolInv, SpoolTypeOK
<1>4. LogOK(log', mark', file') /\ LossOK(log', mark', file')
  BY <1>1, <1>2, <1>3, LogExtends DEF PullInv, CtrlTypeOK
<1>5. /\ pc' \in [Pullers -> {"idle", "asked", "batch"}]
      /\ \A p \in Pullers : pc'[p] = pc[p] \/ (pc[p] = "asked" /\ pc'[p] = "idle")
  BY <1>3 DEF Daemon, CtrlTypeOK
<1>6. CtrlTypeOK'
  BY <1>2, <1>3, <1>5 DEF CtrlTypeOK
<1>7. ASSUME NEW p \in Pullers PROVE PullerOK(p)'
  <2>1. PullerOK(p) /\ batch[p] \in Seq(spoolEntry)
    BY <1>3 DEF PullInv, CtrlTypeOK
  <2>2. RunOf(batch[p], file')
    BY <1>1, <1>3, <2>1, RunExtends DEF PullerOK
  <2> QED BY <1>2, <1>5, <2>1, <2>2 DEF PullerOK
<1> QED BY <1>1, <1>2, <1>4, <1>6, <1>7 DEF PullInv

(* PublishLifecycle keeps the invariant.                                    *)
LEMMA PublishLifecycleInv ==
  ASSUME PullInv, NEW d \in {Lifecycle, Terminated}, PublishLifecycle(d) PROVE PullInv'
<1> DEFINE e == [seq |-> hubSeq + 1, origin |-> 0, data |-> d]
<1>1. /\ log' = Append(log, e) /\ hubSeq' = hubSeq + 1 /\ alive
      /\ UNCHANGED <<spoolVars, mark, hubOrigin, closed, alive, pc, after, batch>>
  BY DEF PublishLifecycle, Commit
<1>2. CtrlTypeOK /\ hubSeq = Len(log) /\ hubOrigin = mark /\ hubSeq \in Nat /\ log \in Seq(Event)
  BY <1>1 DEF PullInv, CtrlTypeOK
<1>3. e \in Event /\ e.seq = Len(log) + 1 /\ e.origin = 0
  BY <1>2 DEF Event
<1> HIDE DEF e
<1>4. /\ log' \in Seq(Event) /\ Len(log') = Len(log) + 1
  BY <1>1, <1>2, <1>3, LogAppend
<1>5. LogOK(log', mark', file') /\ LossOK(log', mark', file')
  BY <1>1, <1>2, <1>3, LogAppendLifecycle DEF PullInv, CtrlTypeOK, SpoolInv, SpoolTypeOK, spoolVars
<1>6. CtrlTypeOK'
  BY <1>1, <1>2, <1>4 DEF CtrlTypeOK
<1>7. SpoolInv'
  BY <1>1 DEF PullInv, SpoolInv, SpoolTypeOK, spoolVars
<1>8. ASSUME NEW p \in Pullers PROVE PullerOK(p)'
  BY <1>1, <1>8 DEF PullInv, PullerOK, spoolVars
<1>9. hubSeq' = Len(log') /\ hubOrigin' = mark'
  BY <1>1, <1>2, <1>4
<1> QED BY <1>5, <1>6, <1>7, <1>8, <1>9 DEF PullInv

(* The reply of the daemon is a run of the file after the cursor.           *)
LEMMA ReplyInv == ASSUME PullInv, NEW p \in Pullers, Reply(p) PROVE PullInv'
<1> DEFINE out == ReadAfter(recs, after[p])
<1>1. /\ batch' = [batch EXCEPT ![p] = out]
      /\ pc' = [pc EXCEPT ![p] = IF out = <<>> THEN "idle" ELSE "batch"]
      /\ up /\ pc[p] = "asked"
      /\ UNCHANGED <<spoolVars, log, mark, hubSeq, hubOrigin, closed, alive, after>>
  BY DEF Reply
<1>2. CtrlTypeOK /\ SpoolInv /\ PullerOK(p)
  BY DEF PullInv
<1>3. /\ file \in Seq(spoolEntry) /\ recs \in Seq(spoolEntry) /\ Numbered(file)
      /\ SuffixOf(recs, file) /\ LossMarked(recs, file)
      /\ after[p] \in Nat /\ mark \in Nat /\ after[p] <= mark
  BY <1>1, <1>2 DEF CtrlTypeOK, SpoolInv, SpoolTypeOK, PullerOK
<1>4. out \in Seq(spoolEntry) /\ RunOf(out, file) /\ GapMarked(out, mark)
  BY <1>3, ReplyIsRun
<1> HIDE DEF out
<1>5. CtrlTypeOK'
  BY <1>1, <1>2, <1>4 DEF CtrlTypeOK
<1>6. SpoolInv'
  BY <1>1, <1>2 DEF SpoolInv, SpoolTypeOK, spoolVars
<1>7. ASSUME NEW q \in Pullers PROVE PullerOK(q)'
  <2>1. CASE q = p
    <3>1. batch'[p] = out /\ pc'[p] = IF out = <<>> THEN "idle" ELSE "batch"
      BY <1>1, <1>2 DEF CtrlTypeOK
    <3> QED BY <1>1, <1>4, <2>1, <3>1 DEF PullerOK, spoolVars
  <2>2. CASE q # p
    <3>1. batch'[q] = batch[q] /\ pc'[q] = pc[q] /\ PullerOK(q)
      BY <1>1, <1>2, <2>2 DEF CtrlTypeOK, PullInv
    <3> QED BY <1>1, <3>1 DEF PullerOK, spoolVars
  <2> QED BY <2>1, <2>2
<1>8. LogOK(log', mark', file') /\ LossOK(log', mark', file')
  BY <1>1 DEF PullInv, spoolVars
<1> QED BY <1>1, <1>5, <1>6, <1>7, <1>8 DEF PullInv

(* Asking for the records after the hub's origin keeps the invariant.       *)
LEMMA AskInv == ASSUME PullInv, NEW p \in Pullers, Ask(p) PROVE PullInv'
<1>1. /\ pc' = [pc EXCEPT ![p] = "asked"] /\ after' = [after EXCEPT ![p] = hubOrigin]
      /\ alive /\ pc[p] = "idle"
      /\ UNCHANGED <<spoolVars, log, mark, hubSeq, hubOrigin, closed, alive, batch>>
  BY DEF Ask
<1>2. CtrlTypeOK /\ SpoolInv /\ hubOrigin = mark /\ mark \in Nat
  BY <1>1 DEF PullInv, CtrlTypeOK
<1>3. CtrlTypeOK'
  BY <1>1, <1>2 DEF CtrlTypeOK
<1>4. SpoolInv'
  BY <1>1, <1>2 DEF SpoolInv, SpoolTypeOK, spoolVars
<1>5. ASSUME NEW q \in Pullers PROVE PullerOK(q)'
  <2>1. PullerOK(q)
    BY DEF PullInv
  <2>2. IF q = p THEN pc'[q] = "asked" /\ after'[q] = mark
                 ELSE pc'[q] = pc[q] /\ after'[q] = after[q]
    BY <1>1, <1>2 DEF CtrlTypeOK
  <2> QED BY <1>1, <1>2, <2>1, <2>2 DEF PullerOK, spoolVars
<1>6. LogOK(log', mark', file') /\ LossOK(log', mark', file')
  BY <1>1 DEF PullInv, spoolVars
<1> QED BY <1>1, <1>3, <1>4, <1>5, <1>6 DEF PullInv

(* PullFails and AppendFails: the puller goes back to the loop head with no *)
(* batch left.                                                              *)
LEMMA BackToIdleInv ==
  ASSUME PullInv, NEW p \in Pullers, PullFails(p) \/ AppendFails(p) PROVE PullInv'
<1>1. /\ pc' = [pc EXCEPT ![p] = "idle"]
      /\ UNCHANGED <<spoolVars, log, mark, hubSeq, hubOrigin, closed, alive, after>>
  BY DEF PullFails, AppendFails
<1>2. CtrlTypeOK /\ SpoolInv /\ PullerOK(p) /\ <<>> \in Seq(spoolEntry)
  BY EmptySeq DEF PullInv
<1>3. batch' = [batch EXCEPT ![p] = <<>>]
  <2>1. CASE AppendFails(p)
    BY <2>1 DEF AppendFails
  <2>2. CASE PullFails(p)
    <3>1. batch[p] = <<>> /\ batch' = batch
      BY <1>2, <2>2 DEF PullFails, PullerOK
    <3> QED BY <1>2, <3>1 DEF CtrlTypeOK
  <2> QED BY <2>1, <2>2
<1>4. CtrlTypeOK'
  BY <1>1, <1>2, <1>3 DEF CtrlTypeOK
<1>5. SpoolInv'
  BY <1>1, <1>2 DEF SpoolInv, SpoolTypeOK, spoolVars
<1>6. ASSUME NEW q \in Pullers PROVE PullerOK(q)'
  <2>1. PullerOK(q)
    BY DEF PullInv
  <2>2. IF q = p THEN pc'[q] = "idle" /\ batch'[q] = <<>>
                 ELSE pc'[q] = pc[q] /\ batch'[q] = batch[q]
    BY <1>1, <1>2, <1>3 DEF CtrlTypeOK
  <2>3. RunOf(<<>>, file) /\ GapMarked(<<>>, mark)
    BY EmptySeq DEF RunOf, GapMarked
  <2> QED BY <1>1, <2>1, <2>2, <2>3 DEF PullerOK, spoolVars
<1>7. LogOK(log', mark', file') /\ LossOK(log', mark', file')
  BY <1>1 DEF PullInv, spoolVars
<1> QED BY <1>1, <1>4, <1>5, <1>6, <1>7 DEF PullInv

(* PublishPulled: the log gains the first record of the batch or drops it.  *)
LEMMA PublishPulledInv == ASSUME PullInv, NEW p \in Pullers, PublishPulled(p) PROVE PullInv'
<1> DEFINE b == batch[p]
           e == [seq |-> hubSeq + 1, origin |-> Head(b).id, data |-> Head(b).data]
<1>1. /\ alive /\ pc[p] = "batch"
      /\ batch' = [batch EXCEPT ![p] = Tail(b)]
      /\ pc' = [pc EXCEPT ![p] = IF Len(b) = 1 THEN "idle" ELSE "batch"]
      /\ UNCHANGED <<spoolVars, closed, alive, after>>
  BY DEF PublishPulled, NextRecord
<1>2. /\ CtrlTypeOK /\ SpoolInv /\ PullerOK(p)
      /\ hubSeq = Len(log) /\ hubOrigin = mark /\ mark \in Nat /\ hubSeq \in Nat
      /\ log \in Seq(Event) /\ file \in Seq(spoolEntry)
      /\ LogOK(log, mark, file) /\ LossOK(log, mark, file)
  BY <1>1 DEF PullInv, CtrlTypeOK, SpoolInv, SpoolTypeOK
<1>3. b \in Seq(spoolEntry) /\ b # <<>> /\ RunOf(b, file) /\ (~closed => GapMarked(b, mark))
  BY <1>1, <1>2 DEF CtrlTypeOK, PullerOK
<1> HIDE DEF b
<1>4. Head(b) = b[1] /\ b[1] \in spoolEntry
  BY <1>3
<1>5. b[1].id \in Nat \ {0} /\ b[1].data \in Data \cup {Notice}
  BY <1>4 DEF spoolEntry
<1>6. /\ Tail(b) \in Seq(spoolEntry) /\ RunOf(Tail(b), file)
      /\ Len(b) = 1 <=> Tail(b) = <<>>
      /\ Tail(b) # <<>> => Tail(b)[1].id = b[1].id + 1
  BY <1>2, <1>3, RunTail, Zenon
<1>7. e \in Event /\ e.seq = Len(log) + 1 /\ e.origin = b[1].id /\ e.data = b[1].data
  BY <1>2, <1>4, <1>5 DEF Event
<1> HIDE DEF e
<1>8. /\ log' \in Seq(Event) /\ mark' \in Nat /\ mark <= mark'
      /\ closed \/ b[1].id <= mark'
      /\ hubSeq' = Len(log') /\ hubOrigin' = mark'
      /\ LogOK(log', mark', file) /\ LossOK(log', mark', file)
  <2>1. CASE closed \/ b[1].id <= mark
    <3>1. log' = log /\ mark' = mark /\ hubSeq' = hubSeq /\ hubOrigin' = hubOrigin
      BY <1>2, <1>4, <2>1 DEF PublishPulled, b
    <3>2. mark <= mark'
      BY <1>2, <3>1
    <3>3. LogOK(log', mark', file) /\ LossOK(log', mark', file)
      BY <1>2, <3>1, Zenon
    <3>4. closed \/ b[1].id <= mark'
      BY <2>1, <3>1, Zenon
    <3> QED BY <1>2, <3>1, <3>2, <3>3, <3>4, Zenon
  <2>2. CASE ~closed /\ ~(b[1].id <= mark)
    <3>1. /\ log' = Append(log, e) /\ hubSeq' = hubSeq + 1 /\ hubOrigin' = b[1].id
          /\ mark' = IF mark > b[1].id THEN mark ELSE b[1].id
      BY <1>2, <1>4, <2>2 DEF PublishPulled, CommitWithOrigin, Commit, b, e
    <3>2. b[1].id > mark /\ mark' = b[1].id
      <4>1. mark \in Nat
        BY <1>2
      <4> QED BY <4>1, <1>5, <2>2, <3>1
    <3>3. GapMarked(b, mark)
      BY <1>3, <2>2, Zenon
    <3>4. log' \in Seq(Event) /\ Len(log') = Len(log) + 1
      BY <1>2, <1>7, <3>1, LogAppend
    <3>5. LogOK(log', b[1].id, file) /\ LossOK(log', b[1].id, file)
      BY <1>2, <1>3, <1>7, <3>1, <3>2, <3>3, LogAppendPulled
    <3>6. hubSeq' = Len(log') /\ hubOrigin' = mark'
      <4>1. hubSeq = Len(log)
        BY <1>2
      <4> QED BY <4>1, <3>1, <3>2, <3>4
    <3>7. mark' \in Nat /\ mark <= mark' /\ b[1].id <= mark'
      <4>1. mark \in Nat
        BY <1>2
      <4> QED BY <4>1, <1>5, <3>2
    <3>8. LogOK(log', mark', file) /\ LossOK(log', mark', file)
      BY <3>2, <3>5, Zenon
    <3> QED BY <3>4, <3>6, <3>7, <3>8, Zenon
  <2> QED BY <2>1, <2>2, Zenon
<1>9. CtrlTypeOK'
  <2>1. hubSeq' \in Nat /\ hubOrigin' \in Nat
    BY <1>8
  <2> QED BY <1>1, <1>2, <1>6, <1>8, <2>1 DEF CtrlTypeOK
<1>10. SpoolInv'
  BY <1>1, <1>2 DEF SpoolInv, SpoolTypeOK, spoolVars
<1>11. file' = file
  BY <1>1 DEF spoolVars
<1>12. ASSUME NEW q \in Pullers PROVE PullerOK(q)'
  <2>1. CASE q = p
    <3>1. batch'[p] = Tail(b) /\ pc'[p] = (IF Len(b) = 1 THEN "idle" ELSE "batch")
      BY <1>1, <1>2 DEF CtrlTypeOK
    <3>2. ~closed => GapMarked(Tail(b), mark')
      BY <1>5, <1>6, <1>8 DEF GapMarked
    <3>3. (pc'[p] = "batch" <=> Tail(b) # <<>>) /\ pc'[p] # "asked"
      BY <1>6, <3>1
    <3>4. closed' = closed
      BY <1>1
    <3> QED BY <1>6, <1>11, <2>1, <3>1, <3>2, <3>3, <3>4 DEF PullerOK
  <2>2. CASE q # p
    <3>1. batch'[q] = batch[q] /\ pc'[q] = pc[q] /\ PullerOK(q) /\ batch[q] \in Seq(spoolEntry)
          /\ after'[q] = after[q] /\ after[q] \in Nat
      BY <1>1, <1>2, <2>2 DEF CtrlTypeOK, PullInv
    <3>2. ~closed => GapMarked(batch[q], mark')
      BY <1>2, <1>8, <3>1, GapMarkedUp DEF PullerOK
    <3>3. pc[q] = "asked" => after[q] <= mark'
      BY <1>2, <1>8, <3>1 DEF PullerOK
    <3> QED BY <1>1, <1>11, <3>1, <3>2, <3>3, Zenon DEF PullerOK
  <2> QED BY <2>1, <2>2
<1> QED BY <1>1, <1>8, <1>9, <1>10, <1>11, <1>12 DEF PullInv

(* Closing the hub, a crash of the controller, and its restart.             *)
LEMMA HubAndCrashInv ==
  ASSUME PullInv, HubClose \/ ControllerCrash \/ NewEventHub PROVE PullInv'
<1>0. CtrlTypeOK /\ SpoolInv /\ LastSeq = Len(log) /\ Len(log) \in Nat
  BY LastSeqIsLen DEF PullInv, CtrlTypeOK
<1>1. UNCHANGED <<spoolVars, log, mark>>
  BY DEF HubClose, ControllerCrash, NewEventHub
<1>2. SpoolInv' /\ file' = file
  BY <1>0, <1>1 DEF SpoolInv, SpoolTypeOK, spoolVars
<1>3. LogOK(log', mark', file') /\ LossOK(log', mark', file')
  BY <1>1 DEF PullInv, spoolVars
<1>4. CASE HubClose
  <2>1. closed' = TRUE /\ UNCHANGED <<hubSeq, hubOrigin, alive, pc, after, batch>>
    BY <1>4 DEF HubClose
  <2>2. CtrlTypeOK'
    BY <1>0, <1>1, <2>1 DEF CtrlTypeOK
  <2>3. ASSUME NEW p \in Pullers PROVE PullerOK(p)'
    BY <1>1, <1>2, <2>1 DEF PullInv, PullerOK
  <2> QED BY <1>1, <1>2, <1>3, <2>1, <2>2, <2>3 DEF PullInv
<1>5. CASE ControllerCrash
  <2>1. /\ alive' = FALSE /\ closed' = FALSE /\ hubSeq' = 0 /\ hubOrigin' = 0
        /\ pc' = [p \in Pullers |-> "idle"] /\ after' = [p \in Pullers |-> 0]
        /\ batch' = [p \in Pullers |-> <<>>]
    BY <1>5 DEF ControllerCrash
  <2>2. <<>> \in Seq(spoolEntry)
    BY EmptySeq
  <2>3. CtrlTypeOK'
    BY <1>0, <1>1, <2>1, <2>2, Zenon DEF CtrlTypeOK
  <2>4. RunOf(<<>>, file) /\ GapMarked(<<>>, mark)
    BY EmptySeq DEF RunOf, GapMarked
  <2>5. ASSUME NEW p \in Pullers PROVE PullerOK(p)'
    <3>1. pc'[p] = "idle" /\ batch'[p] = <<>>
      BY <2>1
    <3> QED BY <1>1, <1>2, <2>4, <3>1 DEF PullerOK
  <2> QED BY <1>2, <1>3, <2>1, <2>3, <2>5 DEF PullInv
<1>6. CASE NewEventHub
  <2>1. /\ ~alive /\ alive' = TRUE /\ hubSeq' = Len(log) /\ hubOrigin' = mark
        /\ UNCHANGED <<closed, pc, after, batch>>
    BY <1>0, <1>6 DEF NewEventHub
  <2>2. CtrlTypeOK'
    BY <1>0, <1>1, <2>1 DEF CtrlTypeOK
  <2>3. ASSUME NEW p \in Pullers PROVE PullerOK(p)'
    BY <1>1, <1>2, <2>1 DEF PullInv, PullerOK
  <2> QED BY <1>1, <1>2, <1>3, <2>1, <2>2, <2>3 DEF PullInv
<1> QED BY <1>4, <1>5, <1>6

(* The invariant is inductive.                                              *)
LEMMA NextPullInv == PullInv /\ [Next]_vars => PullInv'
<1> SUFFICES ASSUME PullInv, [Next]_vars PROVE PullInv'
  OBVIOUS
<1>1. CASE Next
  BY <1>1, DaemonInv, PublishLifecycleInv, AskInv, ReplyInv, BackToIdleInv, PublishPulledInv, HubAndCrashInv
     DEF Next, Controller
<1>2. CASE UNCHANGED vars
  <2>1. UNCHANGED spoolVars /\ UNCHANGED ctrlVars
    BY <1>2 DEF vars
  <2>2. SpoolInv' /\ file' = file
    BY <2>1 DEF PullInv, SpoolInv, SpoolTypeOK, spoolVars
  <2>3. CtrlTypeOK'
    BY <2>1 DEF PullInv, CtrlTypeOK, ctrlVars
  <2>4. ASSUME NEW p \in Pullers PROVE PullerOK(p)'
    BY <2>1, <2>2 DEF PullInv, PullerOK, ctrlVars
  <2> QED BY <2>1, <2>2, <2>3, <2>4 DEF PullInv, ctrlVars
<1> QED BY <1>1, <1>2

(* Every reachable state of the record path satisfies the invariant.        *)
THEOREM PullInvariant == Spec => []PullInv
BY InitPullInv, NextPullInv, PTL DEF Spec

----------------------------------------------------------------------------
(* What the invariant gives.                                                *)

(* The invariant implies the safety properties.                             *)
LEMMA InvImpliesSafety ==
  ASSUME PullInv
  PROVE  /\ TypeOK /\ GaplessSeq /\ ExactlyOnceInOrder /\ Verbatim
         /\ NoSilentLoss /\ NoIdReuse /\ NoBootLoop
<1>1. /\ log \in Seq(Event) /\ file \in Seq(spoolEntry)
      /\ DOMAIN log = 1..Len(log) /\ DOMAIN file = 1..Len(file)
      /\ mark \in Nat /\ Numbered(file)
  BY DEF PullInv, CtrlTypeOK, SpoolInv, SpoolTypeOK
<1>2. LogOK(log, mark, file) /\ LossOK(log, mark, file)
  BY DEF PullInv
<1>3. TypeOK
  BY DEF PullInv, CtrlTypeOK, SpoolInv, SpoolTypeOK, TypeOK
<1>4. GaplessSeq
  BY <1>1, <1>2 DEF PullInv, GaplessSeq, LogOK
<1>5. \A id : Logged(id) <=> Has(log, id)
  BY <1>1 DEF Logged, Has
<1>6. ExactlyOnceInOrder
  BY <1>1, <1>2, <1>5 DEF ExactlyOnceInOrder, Pulled, LogOK
<1>7. \A k \in DOMAIN file : file[k].id = k
  BY <1>1 DEF Numbered
<1>8. Verbatim
  <2> SUFFICES ASSUME NEW i \in DOMAIN log, log[i].origin > 0, NEW k \in DOMAIN file,
                      file[k].id = log[i].origin
               PROVE  file[k].data = log[i].data
    BY DEF Verbatim, Pulled
  <2>1. k = log[i].origin
    BY <1>7
  <2>2. i \in 1..Len(log)
    BY <1>1
  <2>3. \A j \in 1..Len(log) : log[j].origin > 0 => log[j].data = file[log[j].origin].data
    BY <1>2 DEF LogOK
  <2> QED BY <2>1, <2>2, <2>3
<1>9. NoSilentLoss
  <2> SUFFICES ASSUME NEW k \in DOMAIN file, file[k].id <= mark, ~Logged(file[k].id)
               PROVE  \E n \in DOMAIN file : /\ file[n].data = Notice
                                             /\ file[n].id > file[k].id
                                             /\ file[n].id > mark \/ Logged(file[n].id)
    BY DEF NoSilentLoss
  <2>1. DOMAIN file = 1..Len(file) /\ file[k].id = k
    BY <1>1, <1>7
  <2>2. k \in 1..Len(file) /\ k <= mark /\ ~Has(log, k)
    BY <1>5, <2>1
  <2>3. PICK n \in 1..Len(file) : file[n].data = Notice /\ n > k /\ (n > mark \/ Has(log, n))
    BY <1>2, <2>2, Zenon DEF LossOK
  <2>4. n \in DOMAIN file /\ file[n].id = n
    BY <1>7, <2>1
  <2> QED BY <1>5, <2>1, <2>3, <2>4
<1>10. NoIdReuse
  BY <1>7 DEF NoIdReuse
<1>11. NoBootLoop
  BY DEF PullInv, SpoolInv, NoBootLoop
<1> QED BY <1>3, <1>4, <1>6, <1>8, <1>9, <1>10, <1>11

(* The variables keep their types.                                          *)
THEOREM PullTypes == Spec => []TypeOK
BY PullInvariant, InvImpliesSafety, PTL

(* Pulled events enter the log in spool order and at most once, for any     *)
(* number of overlapping pull loops (PublishPulled's dedupe).               *)
THEOREM PullExactlyOnce == Spec => []ExactlyOnceInOrder
BY PullInvariant, InvImpliesSafety, PTL

(* The log's seqs have no gap and the hub agrees with the store.            *)
THEOREM PullGaplessSeq == Spec => []GaplessSeq
BY PullInvariant, InvImpliesSafety, PTL

(* A logged record is the record the spool holds under that id.             *)
THEOREM PullVerbatim == Spec => []Verbatim
BY PullInvariant, InvImpliesSafety, PTL

(* A record that the cap dropped before it was pulled is announced.         *)
THEOREM PullNoSilentLoss == Spec => []NoSilentLoss
BY PullInvariant, InvImpliesSafety, PTL

(* On a disk without I/O errors a crash never makes the daemon reuse an id  *)
(* or leave a line that its recovery refuses.                               *)
THEOREM SpoolRecovers == Spec => [](NoIdReuse /\ NoBootLoop)
BY PullInvariant, InvImpliesSafety, PTL

(* No step rewrites the durable log, lowers the watermark, or writes to the *)
(* log of a closed hub.                                                     *)
THEOREM PullAppendOnly == Spec => AppendOnly
<1> DEFINE A == /\ Len(log) <= Len(log')
                /\ \A i \in DOMAIN log : log'[i] = log[i]
                /\ mark <= mark'
                /\ closed => log' = log
<1>1. ASSUME PullInv, [Next]_vars PROVE [A]_vars
  <2>0. /\ log \in Seq(Event) /\ mark \in Nat /\ hubSeq \in Nat /\ Len(log) \in Nat
        /\ DOMAIN log = 1..Len(log)
        /\ batch \in [Pullers -> Seq(spoolEntry)]
        /\ \A p \in Pullers : pc[p] = "batch" <=> batch[p] # <<>>
    BY <1>1 DEF PullInv, CtrlTypeOK, PullerOK
  <2>1. ASSUME NEW e, log' = Append(log, e)
        PROVE  Len(log) <= Len(log') /\ \A i \in DOMAIN log : log'[i] = log[i]
    <3>1. /\ Len(Append(log, e)) = Len(log) + 1
          /\ \A i \in 1..Len(log) : Append(log, e)[i] = log[i]
      BY <2>0
    <3> QED BY <2>0, <2>1, <3>1
  <2>2. ASSUME UNCHANGED <<log, mark>> PROVE A
    BY <2>0, <2>2
  <2>3. ASSUME NEW d \in {Lifecycle, Terminated}, PublishLifecycle(d) PROVE A
    <3>1. /\ log' = Append(log, [seq |-> hubSeq + 1, origin |-> 0, data |-> d])
          /\ mark' = mark /\ ~closed
      BY <2>3 DEF PublishLifecycle, Commit
    <3>2. mark <= mark'
      BY <2>0, <3>1
    <3> QED BY <2>1, <3>1, <3>2
  <2>4. ASSUME NEW p \in Pullers, PublishPulled(p) PROVE A
    <3>1. CASE closed \/ Head(batch[p]).id <= hubOrigin
      BY <2>2, <2>4, <3>1 DEF PublishPulled
    <3>2. CASE ~(closed \/ Head(batch[p]).id <= hubOrigin)
      <4> DEFINE x == Head(batch[p]).id
      <4>1. x \in Nat
        <5>1. batch[p] \in Seq(spoolEntry) /\ batch[p] # <<>>
          BY <2>0, <2>4 DEF PublishPulled
        <5>2. Head(batch[p]) \in spoolEntry
          BY <5>1
        <5> QED BY <5>2 DEF spoolEntry
      <4>2. /\ log' = Append(log, [seq |-> hubSeq + 1, origin |-> x, data |-> Head(batch[p]).data])
            /\ mark' = IF mark > x THEN mark ELSE x
        BY <2>4, <3>2 DEF PublishPulled, CommitWithOrigin, Commit
      <4>3. mark <= mark'
        BY <2>0, <4>1, <4>2
      <4> QED BY <2>1, <3>2, <4>2, <4>3
    <3> QED BY <3>1, <3>2
  <2>5. ASSUME NEW p \in Pullers, Ask(p) \/ Reply(p) \/ PullFails(p) \/ AppendFails(p) PROVE A
    BY <2>2, <2>5 DEF Ask, Reply, PullFails, AppendFails
  <2>6. CASE HubClose \/ ControllerCrash \/ NewEventHub
    BY <2>2, <2>6 DEF HubClose, ControllerCrash, NewEventHub
  <2>7. CASE Daemon
    BY <2>2, <2>7 DEF Daemon
  <2> QED BY <1>1, <2>3, <2>4, <2>5, <2>6, <2>7 DEF Next, Controller
<1>2. PullInv /\ [Next]_vars => [A]_vars
  BY <1>1
<1> QED BY <1>2, PullInvariant, PTL DEF Spec, AppendOnly

----------------------------------------------------------------------------
(* The record path implements EventLog: steps map to steps or stutters.     *)

(* A daemon step that writes to the file spools; the others stutter.        *)
LEMMA DaemonRefines ==
  ASSUME PullInv, Daemon
  PROVE  L!Spools \/ UNCHANGED <<file, log, mark>>
<1>1. SpoolInv' /\ Extends(file', file) /\ log' = log /\ mark' = mark
  BY SpoolStepInv DEF PullInv, Daemon
<1>2. /\ file \in Seq(spoolEntry) /\ file' \in Seq(spoolEntry) /\ Numbered(file')
      /\ Len(file) \in Nat /\ Len(file') \in Nat /\ Len(file) <= Len(file')
      /\ \A i \in 1..Len(file) : file'[i] = file[i]
  BY <1>1 DEF PullInv, SpoolInv, SpoolTypeOK, Extends
<1>3. CASE Len(file') = Len(file)
  <2>1. file' = file
    BY <1>2, <1>3, SeqEqual
  <2> QED BY <1>1, <2>1
<1>4. CASE Len(file) < Len(file')
  <2>1. \A i \in (Len(file) + 1)..Len(file') : file'[i].id = i
    BY <1>2 DEF Numbered
  <2> QED BY <1>1, <1>2, <1>4, <2>1 DEF L!Spools
<1> QED BY <1>2, <1>3, <1>4

(* PublishPulled takes the next record, or one after a marked gap.          *)
LEMMA PublishPulledRefines ==
  ASSUME PullInv, NEW p \in Pullers, PublishPulled(p)
  PROVE  L!Takes \/ UNCHANGED <<file, log, mark>>
<1> DEFINE b == batch[p]
           k == b[1].id
<1>1. /\ file' = file /\ alive /\ pc[p] = "batch"
  BY DEF PublishPulled, spoolVars
<1>2. /\ hubSeq = Len(log) /\ hubOrigin = mark /\ mark \in Nat
      /\ file \in Seq(spoolEntry) /\ Len(file) \in Nat
      /\ b \in Seq(spoolEntry) /\ b # <<>> /\ RunOf(b, file) /\ (~closed => GapMarked(b, mark))
  BY <1>1 DEF PullInv, CtrlTypeOK, SpoolInv, SpoolTypeOK, PullerOK
<1>3. /\ Head(b) = b[1] /\ 1 \in 1..Len(b) /\ Len(b) \in 1..Len(b)
  BY <1>2
<1>4. /\ k \in 1..Len(file) /\ b[1] = file[k]
      /\ b[Len(b)].id \in 1..Len(file) /\ b[Len(b)] = file[b[Len(b)].id]
      /\ b[Len(b)].id = k + Len(b) - 1
  BY Zenon, <1>2, <1>3 DEF RunOf
<1>5. CASE closed \/ k <= mark
  BY <1>1, <1>2, <1>3, <1>5 DEF PublishPulled
<1>6. CASE ~closed /\ ~(k <= mark)
  <2>1. /\ log' = Append(log, [seq |-> Len(log) + 1, origin |-> k, data |-> b[1].data])
        /\ mark' = IF mark > k THEN mark ELSE k
    BY <1>2, <1>3, <1>6 DEF PublishPulled, CommitWithOrigin, Commit
  <2>2. k \in (mark + 1)..Len(file) /\ mark' = k
    BY <1>2, <1>4, <1>6, <2>1
  <2>3. L!Logs(k, file[k].data)
    BY Zenon, <1>4, <2>1 DEF L!Logs
  <2>4. k = mark + 1 \/ \E n \in k..Len(file) : file[n].data = Notice
    <3> SUFFICES ASSUME k # mark + 1 PROVE \E n \in k..Len(file) : file[n].data = Notice
      OBVIOUS
    <3>1. k > mark + 1
      BY <1>2, <2>2
    <3>2. b[Len(b)].data = Notice
      BY <1>2, <1>6, <3>1 DEF GapMarked
    <3>3. b[Len(b)].id \in k..Len(file)
      BY <1>2, <1>3, <1>4
    <3> QED BY <1>4, <3>2, <3>3
  <2> QED BY <1>1, <2>2, <2>3, <2>4 DEF L!Takes
<1> QED BY <1>5, <1>6

(* A lifecycle event is noted.                                              *)
LEMMA PublishLifecycleRefines ==
  ASSUME PullInv, NEW d \in {Lifecycle, Terminated}, PublishLifecycle(d)
  PROVE  L!Notes
<1>1. /\ hubSeq = Len(log)
      /\ log' = Append(log, [seq |-> hubSeq + 1, origin |-> 0, data |-> d])
      /\ file' = file /\ mark' = mark
  BY DEF PullInv, PublishLifecycle, Commit, spoolVars
<1>2. L!Logs(0, d)
  BY <1>1 DEF L!Logs
<1> QED BY <1>1, <1>2 DEF L!Notes

(* Daemon, pull loops, hub and store together implement EventLog, for any   *)
(* cap, any number of pull loops and any crashes: the log is an ordered,    *)
(* unaltered copy of the spool in which every gap is announced.             *)
THEOREM PullImplements == Spec => ImplementsEventLog
<1>1. PullInit => L!Init
  BY DEF PullInit, SpoolInit, L!Init
<1>2. ASSUME PullInv, [Next]_vars PROVE [L!Next]_<<file, log, mark>>
  <2>1. CASE UNCHANGED vars
    BY <2>1 DEF vars, spoolVars, ctrlVars
  <2>2. CASE Daemon
    BY <1>2, <2>2, DaemonRefines DEF L!Next
  <2>3. ASSUME NEW d \in {Lifecycle, Terminated}, PublishLifecycle(d) PROVE L!Next
    BY <1>2, <2>3, PublishLifecycleRefines DEF L!Next
  <2>4. ASSUME NEW p \in Pullers, PublishPulled(p) PROVE [L!Next]_<<file, log, mark>>
    BY <1>2, <2>4, PublishPulledRefines DEF L!Next
  <2>5. ASSUME NEW p \in Pullers, Ask(p) \/ Reply(p) \/ PullFails(p) \/ AppendFails(p)
        PROVE  UNCHANGED <<file, log, mark>>
    BY <2>5 DEF Ask, Reply, PullFails, AppendFails, spoolVars
  <2>6. CASE HubClose \/ ControllerCrash \/ NewEventHub
    BY <2>6 DEF HubClose, ControllerCrash, NewEventHub, spoolVars
  <2> QED BY <1>2, <2>1, <2>2, <2>3, <2>4, <2>5, <2>6 DEF Next, Controller
<1>3. PullInv /\ [Next]_vars => [L!Next]_<<file, log, mark>>
  BY <1>2
<1> QED BY <1>1, <1>3, PullInvariant, PTL DEF Spec, ImplementsEventLog, L!Spec

-----------------------------------------------------------------------------
(***************************************************************************)
(* The stream of server-sent events                                        *)
(***************************************************************************)

StreamTypes ==
  /\ feed \in Seq(EventTypes)
  /\ stream \in [Streams -> [on : BOOLEAN, got : Seq(Nat), attached : Nat, overflowed : BOOLEAN]]
  /\ feedChan \in [Streams -> Seq(Nat)]

(* What a client has been given comes before what its channel holds, and   *)
(* both are in order and in the log: the m events in got, the k in chan, n *)
(* in the log.                                                             *)
Rising(q, m) == \A i, j \in 1..m : i < j => q[i] < q[j]

Sorted(got, m, chan, k, n) ==
  /\ \A i \in 1..m : got[i] \in Nat /\ got[i] <= n
  /\ \A j \in 1..k : chan[j] \in Nat /\ chan[j] <= n
  /\ Rising(got, m) /\ Rising(chan, k)
  /\ \A i \in 1..m, j \in 1..k : got[i] < chan[j]

(* Nothing is missing: the client was given the first events, and its      *)
(* channel holds all the others.                                           *)
Gapless(got, m, chan, k, on, n) ==
  /\ \A i \in 1..m : got[i] = i
  /\ on => m + k = n /\ \A j \in 1..k : chan[j] = m + j

StreamInv ==
  /\ StreamTypes
  /\ \A s \in Streams :
       /\ Sorted(stream[s].got, Len(stream[s].got), feedChan[s], Len(feedChan[s]), Len(feed))
       /\ ~stream[s].overflowed =>
            Gapless(stream[s].got, Len(stream[s].got), feedChan[s], Len(feedChan[s]), stream[s].on, Len(feed))
       /\ ~stream[s].on => feedChan[s] = <<>>

(* A new event goes to the end of a channel.                               *)
LEMMA FannedOut ==
  ASSUME NEW got, NEW chan, NEW m \in Nat, NEW k \in Nat, NEW n \in Nat, Sorted(got, m, chan, k, n),
         NEW c, \A j \in 1..k : c[j] = chan[j], c[k + 1] = n + 1
  PROVE  /\ Sorted(got, m, c, k + 1, n + 1)
         /\ Gapless(got, m, chan, k, TRUE, n) => Gapless(got, m, c, k + 1, TRUE, n + 1)
<1>1. Rising(c, k + 1)
  BY DEF Rising, Sorted
<1>2. \A j \in 1..(k + 1) : c[j] \in Nat /\ c[j] <= n + 1
  BY DEF Sorted
<1>3. \A i \in 1..m, j \in 1..(k + 1) : got[i] < c[j]
  BY DEF Sorted
<1>4. Sorted(got, m, c, k + 1, n + 1)
  BY <1>1, <1>2, <1>3 DEF Sorted
<1>5. Gapless(got, m, chan, k, TRUE, n) => Gapless(got, m, c, k + 1, TRUE, n + 1)
  BY DEF Gapless
<1> QED  BY Zenon, <1>4, <1>5

(* A full channel does not take it, and keeps its order.                   *)
LEMMA NotFannedOut ==
  ASSUME NEW got, NEW chan, NEW m \in Nat, NEW k \in Nat, NEW n \in Nat, Sorted(got, m, chan, k, n)
  PROVE  Sorted(got, m, chan, k, n + 1)
BY DEF Sorted

(* The head of the channel is written to the client.                       *)
LEMMA HeadWritten ==
  ASSUME NEW got, NEW chan, NEW m \in Nat, NEW k \in Nat, k > 0, NEW n \in Nat, Sorted(got, m, chan, k, n),
         NEW g, \A i \in 1..m : g[i] = got[i], g[m + 1] = chan[1],
         NEW c, \A j \in 1..(k - 1) : c[j] = chan[j + 1]
  PROVE  /\ Sorted(g, m + 1, c, k - 1, n)
         /\ Gapless(got, m, chan, k, TRUE, n) => Gapless(g, m + 1, c, k - 1, TRUE, n)
<1>1. /\ \A i \in 1..m : got[i] \in Nat /\ got[i] <= n /\ got[i] < chan[1]
      /\ \A i \in 1..k : chan[i] \in Nat /\ chan[i] <= n
      /\ chan[1] \in Nat
  BY DEF Sorted
<1>2. Rising(g, m + 1)
  BY <1>1 DEF Rising, Sorted
<1>3. Rising(c, k - 1)
  BY <1>1 DEF Rising, Sorted
<1>4. \A j \in 1..(k - 1) : c[j] \in Nat /\ chan[1] < c[j] /\ c[j] <= n
  BY <1>1 DEF Rising, Sorted
<1>5. \A i \in 1..(m + 1) : g[i] <= chan[1] /\ g[i] \in Nat /\ g[i] <= n
  BY <1>1
<1>6. \A i \in 1..(m + 1), j \in 1..(k - 1) : g[i] < c[j]
  BY <1>1, <1>4, <1>5
<1>7. Sorted(g, m + 1, c, k - 1, n)
  BY <1>2, <1>3, <1>4, <1>5, <1>6 DEF Sorted
<1>8. Gapless(got, m, chan, k, TRUE, n) => Gapless(g, m + 1, c, k - 1, TRUE, n)
  BY DEF Gapless
<1> QED  BY Zenon, <1>7, <1>8

(* The replay is written out, from the event after the last one given.     *)
LEMMA ReplayWritten ==
  ASSUME NEW got, NEW m \in Nat, NEW n \in Nat, NEW chan, Sorted(got, m, chan, 0, n),
         NEW k \in Nat, k = IF m = 0 THEN 0 ELSE got[m],
         NEW g, \A i \in 1..m : g[i] = got[i], \A i \in 1..(n - k) : g[m + i] = k + i
  PROVE  /\ k <= n
         /\ Sorted(g, m + (n - k), chan, 0, n)
         /\ Gapless(got, m, chan, 0, FALSE, n) => Gapless(g, m + (n - k), chan, 0, TRUE, n)
<1>1. \A i \in 1..m : got[i] \in Nat /\ got[i] <= n
  BY DEF Sorted
<1>2. k <= n /\ \A i \in 1..m : got[i] <= k
  BY <1>1 DEF Sorted, Rising
<1>3. ASSUME NEW i \in 1..(m + (n - k)), i > m PROVE g[i] = k + (i - m)
  <2>1. i - m \in 1..(n - k) /\ m + (i - m) = i
    BY <1>2, <1>3
  <2> QED  BY <2>1
<1>4. Rising(g, m + (n - k))
  <2> SUFFICES ASSUME NEW i \in 1..(m + (n - k)), NEW j \in 1..(m + (n - k)), i < j
               PROVE  g[i] < g[j]
    BY <1>2 DEF Rising
  <2>1. CASE j <= m
    <3>1. got[i] < got[j]
      BY <2>1 DEF Sorted, Rising
    <3> QED  BY <2>1, <3>1
  <2>2. CASE j > m
    <3>1. g[j] = k + (j - m)
      BY <1>3, <2>2
    <3>2. CASE i <= m
      BY <1>1, <1>2, <2>2, <3>1, <3>2
    <3>3. CASE i > m
      <4>1. g[i] = k + (i - m)
        BY <1>3, <3>3
      <4> QED  BY <3>1, <4>1
    <3> QED  BY <3>2, <3>3
  <2> QED  BY <2>1, <2>2
<1>5. ASSUME NEW i \in 1..(m + (n - k)) PROVE g[i] \in Nat /\ g[i] <= n
  <2>1. CASE i <= m
    BY <1>1, <2>1
  <2>2. CASE i > m
    BY <1>2, <1>3, <2>2
  <2> QED  BY <2>1, <2>2
<1>6. Sorted(g, m + (n - k), chan, 0, n)
  BY <1>4, <1>5 DEF Sorted, Rising
<1>7. ASSUME Gapless(got, m, chan, 0, FALSE, n) PROVE Gapless(g, m + (n - k), chan, 0, TRUE, n)
  <2>1. \A i \in 1..m : got[i] = i
    BY <1>7 DEF Gapless
  <2>2. k = m
    BY <2>1
  <2>3. ASSUME NEW i \in 1..(m + (n - k)) PROVE g[i] = i
    <3>1. CASE i <= m
      BY <2>1, <3>1
    <3>2. CASE i > m
      BY <1>3, <2>2, <3>2
    <3> QED  BY <3>1, <3>2
  <2>4. m + (n - k) + 0 = n
    BY <2>2
  <2> QED  BY <2>3, <2>4 DEF Gapless
<1> QED  BY Zenon, <1>2, <1>6, <1>7

(* A sequence of naturals, pointwise.                                      *)
LEMMA SeqFacts ==
  ASSUME NEW q \in Seq(Nat)
  PROVE  DOMAIN q = 1..Len(q) /\ Len(q) \in Nat /\ \A i \in 1..Len(q) : q[i] \in Nat
BY LenProperties, ElementOfSeq

(* An event appended is handed to every stream whose channel has room.      *)
LEMMA StreamAppend == ASSUME StreamInv, NEW t \in EventTypes, FeedAppend(t) PROVE StreamInv'
<1> DEFINE full(s) == stream[s].on /\ Len(feedChan[s]) = FeedCap
<1>1. /\ feed' \in Seq(EventTypes) /\ Len(feed') = Len(feed) + 1 /\ Len(feed) \in Nat
      /\ feedChan' = [s \in Streams |-> IF stream[s].on /\ ~full(s) THEN Append(feedChan[s], Len(feed'))
                                                                    ELSE feedChan[s]]
      /\ stream' = [s \in Streams |-> [stream[s] EXCEPT !.overflowed = @ \/ full(s)]]
  BY AppendProperties, LenProperties DEF FeedAppend, StreamInv, StreamTypes
<1>2. ASSUME NEW s \in Streams
      PROVE  /\ stream'[s] \in [on : BOOLEAN, got : Seq(Nat), attached : Nat, overflowed : BOOLEAN]
             /\ stream'[s].on = stream[s].on /\ stream'[s].got = stream[s].got
             /\ stream'[s].overflowed = (stream[s].overflowed \/ full(s))
             /\ feedChan'[s] = IF stream[s].on /\ ~full(s) THEN Append(feedChan[s], Len(feed) + 1) ELSE feedChan[s]
  BY Zenon, <1>1 DEF StreamInv, StreamTypes
<1>3. ASSUME NEW s \in Streams
      PROVE  /\ feedChan'[s] \in Seq(Nat)
             /\ Sorted(stream[s].got, Len(stream[s].got), feedChan'[s], Len(feedChan'[s]), Len(feed) + 1)
             /\ ~stream'[s].overflowed =>
                  Gapless(stream[s].got, Len(stream[s].got), feedChan'[s], Len(feedChan'[s]), stream[s].on, Len(feed) + 1)
             /\ ~stream[s].on => feedChan'[s] = <<>>
  <2> DEFINE got == stream[s].got
             chan == feedChan[s]
  <2>1. got \in Seq(Nat) /\ chan \in Seq(Nat) /\ Len(got) \in Nat /\ Len(chan) \in Nat
    BY LenProperties DEF StreamInv, StreamTypes
  <2>2. /\ Sorted(got, Len(got), chan, Len(chan), Len(feed))
        /\ ~stream[s].overflowed => Gapless(got, Len(got), chan, Len(chan), stream[s].on, Len(feed))
        /\ ~stream[s].on => chan = <<>>
    BY DEF StreamInv
  <2> HIDE DEF got, chan
  <2>3. CASE stream[s].on /\ ~full(s)
    <3> DEFINE c == Append(chan, Len(feed) + 1)
    <3>1. /\ c \in Seq(Nat) /\ Len(c) = Len(chan) + 1
          /\ \A j \in 1..Len(chan) : c[j] = chan[j]
          /\ c[Len(chan) + 1] = Len(feed) + 1
      BY <1>1, <2>1, AppendProperties
    <3> HIDE DEF c
    <3>2. /\ Sorted(got, Len(got), c, Len(chan) + 1, Len(feed) + 1)
          /\ Gapless(got, Len(got), chan, Len(chan), TRUE, Len(feed)) =>
               Gapless(got, Len(got), c, Len(chan) + 1, TRUE, Len(feed) + 1)
      BY Zenon, <1>1, <2>1, <2>2, <3>1, FannedOut
    <3>3. feedChan'[s] = c
      BY Zenon, <1>2, <2>3 DEF c, chan
    <3>4. stream[s].on = TRUE
      BY <2>3 DEF StreamInv, StreamTypes
    <3>5. ~stream'[s].overflowed => ~stream[s].overflowed
      BY <1>2
    <3> QED  BY Zenon, <2>2, <3>1, <3>2, <3>3, <3>4, <3>5 DEF got
  <2>4. CASE ~(stream[s].on /\ ~full(s))
    <3>1. feedChan'[s] = chan
      BY <1>2, <2>4 DEF chan
    <3>2. Sorted(got, Len(got), chan, Len(chan), Len(feed) + 1)
      BY Zenon, <1>1, <2>1, <2>2, NotFannedOut
    <3>3. ~stream'[s].overflowed => stream[s].on = FALSE /\ ~stream[s].overflowed
      BY Zenon, <1>2, <2>4 DEF StreamInv, StreamTypes
    <3>4. Gapless(got, Len(got), chan, Len(chan), FALSE, Len(feed)) =>
            Gapless(got, Len(got), chan, Len(chan), FALSE, Len(feed) + 1)
      BY DEF Gapless
    <3> QED  BY Zenon, <2>1, <2>2, <3>1, <3>2, <3>3, <3>4 DEF got
  <2> QED  BY <2>3, <2>4
<1>4. StreamTypes'
  <2>1. feedChan' \in [Streams -> Seq(Nat)]
    BY <1>1, <1>3
  <2>2. stream' \in [Streams -> [on : BOOLEAN, got : Seq(Nat), attached : Nat, overflowed : BOOLEAN]]
    BY <1>1, <1>2
  <2> QED  BY <1>1, <2>1, <2>2 DEF StreamTypes
<1>5. ASSUME NEW s \in Streams
      PROVE  /\ Sorted(stream'[s].got, Len(stream'[s].got), feedChan'[s], Len(feedChan'[s]), Len(feed'))
             /\ ~stream'[s].overflowed =>
                  Gapless(stream'[s].got, Len(stream'[s].got), feedChan'[s], Len(feedChan'[s]), stream'[s].on, Len(feed'))
             /\ ~stream'[s].on => feedChan'[s] = <<>>
  BY <1>1, <1>2, <1>3
<1> QED  BY Zenon, <1>4, <1>5 DEF StreamInv
StreamRecord == [on : BOOLEAN, got : Seq(Nat), attached : Nat, overflowed : BOOLEAN]

(* What StreamInv says of one client.                                      *)
OneStream(rec, chan, n) ==
  /\ Sorted(rec.got, Len(rec.got), chan, Len(chan), n)
  /\ ~rec.overflowed => Gapless(rec.got, Len(rec.got), chan, Len(chan), rec.on, n)
  /\ ~rec.on => chan = <<>>

(* A step of one client leaves the others as they are.                     *)
LEMMA StreamStep ==
  ASSUME StreamInv, feed' = feed, NEW s \in Streams,
         NEW rec \in StreamRecord, stream' = [stream EXCEPT ![s] = rec],
         NEW chan \in Seq(Nat), feedChan' = [feedChan EXCEPT ![s] = chan],
         OneStream(rec, chan, Len(feed))
  PROVE  StreamInv'
<1>1. StreamTypes'
  BY Zenon DEF StreamInv, StreamTypes, StreamRecord
<1>2. stream'[s] = rec /\ feedChan'[s] = chan
  BY DEF StreamInv, StreamTypes
<1>3. \A u \in Streams : u # s => stream'[u] = stream[u] /\ feedChan'[u] = feedChan[u]
  BY DEF StreamInv, StreamTypes
<1>4. ASSUME NEW u \in Streams PROVE OneStream(stream'[u], feedChan'[u], Len(feed))
  <2>1. OneStream(stream[u], feedChan[u], Len(feed))
    BY DEF StreamInv, OneStream
  <2> QED  BY <1>2, <1>3, <2>1
<1>5. \A u \in Streams : OneStream(stream'[u], feedChan'[u], Len(feed'))
  BY <1>4
<1> QED  BY Zenon, <1>1, <1>5 DEF StreamInv, OneStream

(* The handler of a stream writes the event it takes from its channel.      *)
LEMMA StreamDeliver == ASSUME StreamInv, NEW s \in Streams, Deliver(s) PROVE StreamInv'
<1> DEFINE got == stream[s].got
           chan == feedChan[s]
           g == Append(got, Head(chan))
           c == Tail(chan)
           rec == [stream[s] EXCEPT !.got = g]
<1>1. /\ got \in Seq(Nat) /\ chan \in Seq(Nat) /\ Len(got) \in Nat /\ Len(chan) \in Nat /\ Len(feed) \in Nat
      /\ stream[s] \in StreamRecord /\ stream[s].on = TRUE
  BY LenProperties DEF StreamInv, StreamTypes, StreamRecord, Deliver
<1>2. /\ Sorted(got, Len(got), chan, Len(chan), Len(feed))
      /\ ~stream[s].overflowed => Gapless(got, Len(got), chan, Len(chan), TRUE, Len(feed))
  BY Zenon, <1>1 DEF StreamInv
<1>3. /\ Len(chan) > 0 /\ c \in Seq(Nat) /\ Len(c) = Len(chan) - 1 /\ Head(chan) = chan[1] /\ Head(chan) \in Nat
      /\ \A j \in 1..(Len(chan) - 1) : c[j] = chan[j + 1]
  <2>1. chan # <<>>
    BY DEF Deliver
  <2> HIDE DEF chan
  <2> QED  BY <1>1, <2>1, HeadTailProperties, EmptySeq
<1>4. /\ g \in Seq(Nat) /\ Len(g) = Len(got) + 1 /\ \A i \in 1..Len(got) : g[i] = got[i]
      /\ g[Len(got) + 1] = chan[1]
  <2> HIDE DEF got, chan
  <2> QED  BY <1>1, <1>3, AppendProperties
<1>5. /\ rec \in StreamRecord /\ rec.got = g /\ rec.on = TRUE /\ rec.overflowed = stream[s].overflowed
  <2> HIDE DEF g
  <2> QED  BY Zenon, <1>1, <1>4 DEF StreamRecord
<1>6. stream' = [stream EXCEPT ![s] = rec] /\ feedChan' = [feedChan EXCEPT ![s] = c] /\ feed' = feed
  BY DEF Deliver, StreamInv, StreamTypes
<1> HIDE DEF got, chan, g, c, rec
<1>7. /\ Sorted(g, Len(got) + 1, c, Len(chan) - 1, Len(feed))
      /\ Gapless(got, Len(got), chan, Len(chan), TRUE, Len(feed)) =>
           Gapless(g, Len(got) + 1, c, Len(chan) - 1, TRUE, Len(feed))
  BY Zenon, <1>1, <1>2, <1>3, <1>4, HeadWritten
<1>8. OneStream(rec, c, Len(feed))
  BY Zenon, <1>2, <1>3, <1>4, <1>5, <1>7 DEF OneStream
<1> QED  BY Zenon, <1>3, <1>5, <1>6, <1>8, StreamStep

(* A client goes, and its channel with it.                                  *)
LEMMA StreamDetach == ASSUME StreamInv, NEW s \in Streams, Detach(s) PROVE StreamInv'
<1> DEFINE got == stream[s].got
           rec == [stream[s] EXCEPT !.on = FALSE]
<1>1. got \in Seq(Nat) /\ stream[s] \in StreamRecord
  BY DEF StreamInv, StreamTypes, StreamRecord
<1>2. /\ rec \in StreamRecord /\ rec.got = got /\ rec.on = FALSE /\ rec.overflowed = stream[s].overflowed
  BY Zenon, <1>1 DEF StreamRecord
<1>3. stream' = [stream EXCEPT ![s] = rec] /\ feedChan' = [feedChan EXCEPT ![s] = <<>>] /\ feed' = feed
  BY DEF Detach, StreamInv, StreamTypes
<1>4. /\ Sorted(got, Len(got), feedChan[s], Len(feedChan[s]), Len(feed))
      /\ ~stream[s].overflowed => Gapless(got, Len(got), feedChan[s], Len(feedChan[s]), stream[s].on, Len(feed))
  BY Zenon DEF StreamInv
<1> HIDE DEF got, rec
<1>5. <<>> \in Seq(Nat) /\ Len(<<>>) = 0
  BY EmptySeq
<1>6. Sorted(got, Len(got), <<>>, 0, Len(feed))
  BY <1>4 DEF Sorted, Rising
<1>7. ~stream[s].overflowed => Gapless(got, Len(got), <<>>, 0, FALSE, Len(feed))
  BY <1>4 DEF Gapless
<1>8. OneStream(rec, <<>>, Len(feed))
  BY Zenon, <1>2, <1>5, <1>6, <1>7 DEF OneStream
<1> QED  BY Zenon, <1>2, <1>3, <1>5, <1>8, StreamStep

(* A client attaches from its last event id and is given the replay.        *)
LEMMA StreamAttach == ASSUME StreamInv, NEW s \in Streams, Attach(s) PROVE StreamInv'
<1> DEFINE got == stream[s].got
           n == Len(feed)
           k == Cursor(s)
           replay == ReplayAfter(k)
           g == got \o replay
           a == stream[s].attached + 1
           rec == [stream[s] EXCEPT !.on = TRUE, !.attached = a, !.got = g]
<1>1. /\ got \in Seq(Nat) /\ Len(got) \in Nat /\ n \in Nat
      /\ stream[s] \in StreamRecord /\ stream[s].on = FALSE
  BY LenProperties DEF StreamInv, StreamTypes, StreamRecord, Attach
<1>2. /\ Sorted(got, Len(got), <<>>, 0, n)
      /\ ~stream[s].overflowed => Gapless(got, Len(got), <<>>, 0, FALSE, n)
  <2>1. feedChan[s] = <<>> /\ Len(<<>>) = 0
    BY <1>1, EmptySeq DEF StreamInv
  <2> QED  BY Zenon, <1>1, <2>1 DEF StreamInv
<1>3. k = IF Len(got) = 0 THEN 0 ELSE got[Len(got)]
  <2>1. got = <<>> <=> Len(got) = 0
    BY <1>1, EmptySeq
  <2> QED  BY <2>1 DEF Cursor
<1>4. k \in Nat /\ k <= n
  <2> HIDE DEF got, n, k
  <2> QED  BY <1>1, <1>2, <1>3 DEF Sorted
<1>5. /\ replay \in Seq(Nat) /\ Len(replay) = n - k /\ \A i \in 1..(n - k) : replay[i] = k + i
  <2> DEFINE all == [i \in DOMAIN feed |-> i]
  <2>1. all \in Seq(Nat) /\ Len(all) = n /\ \A i \in 1..n : all[i] = i
    BY <1>1, IsASeq, LenProperties DEF StreamInv, StreamTypes
  <2>2. replay = SubSeq(all, k + 1, n)
    BY DEF ReplayAfter
  <2> HIDE DEF replay, all, n, k
  <2>3. k + 1 \in 1..(n + 1) /\ n \in k..n
    BY <1>1, <1>4
  <2>4. SubSeq(all, k + 1, n) \in Seq(Nat) /\ Len(SubSeq(all, k + 1, n)) = n - k
        /\ \A i \in 1..(n - k) : SubSeq(all, k + 1, n)[i] = all[k + i]
    BY <1>1, <1>4, <2>1, <2>3, SubSeqProperties
  <2> QED  BY <1>1, <1>4, <2>1, <2>2, <2>4
<1>6. /\ g \in Seq(Nat) /\ Len(g) = Len(got) + (n - k) /\ \A i \in 1..Len(got) : g[i] = got[i]
      /\ \A i \in 1..(n - k) : g[Len(got) + i] = k + i
  <2> HIDE DEF got, replay, n, k
  <2>1. /\ g \in Seq(Nat) /\ Len(g) = Len(got) + Len(replay)
        /\ \A i \in 1..(Len(got) + Len(replay)) : g[i] = IF i <= Len(got) THEN got[i] ELSE replay[i - Len(got)]
    BY Zenon, <1>1, <1>5, ConcatProperties
  <2>2. \A i \in 1..Len(got) : g[i] = got[i]
    BY <1>1, <1>4, <1>5, <2>1
  <2>3. ASSUME NEW i \in 1..(n - k) PROVE g[Len(got) + i] = k + i
    <3>1. Len(got) + i \in 1..(Len(got) + Len(replay)) /\ ~(Len(got) + i <= Len(got)) /\ (Len(got) + i) - Len(got) = i
      BY <1>1, <1>4, <1>5
    <3> QED  BY <1>5, <2>1, <3>1
  <2> QED  BY <1>5, <2>1, <2>2, <2>3
<1>7. /\ rec \in StreamRecord /\ rec.got = g /\ rec.on = TRUE /\ rec.overflowed = stream[s].overflowed
  <2>1. a \in Nat
    BY <1>1 DEF StreamRecord
  <2> HIDE DEF g, a
  <2> QED  BY Zenon, <1>1, <1>6, <2>1 DEF StreamRecord
<1>8. stream' = [stream EXCEPT ![s] = rec] /\ feedChan' = [feedChan EXCEPT ![s] = <<>>] /\ feed' = feed
  BY Zenon DEF Attach, StreamInv, StreamTypes
<1> HIDE DEF got, n, k, replay, g, rec
<1>9. /\ Sorted(g, Len(got) + (n - k), <<>>, 0, n)
      /\ Gapless(got, Len(got), <<>>, 0, FALSE, n) => Gapless(g, Len(got) + (n - k), <<>>, 0, TRUE, n)
  BY Zenon, <1>1, <1>2, <1>3, <1>4, <1>6, ReplayWritten
<1>10. <<>> \in Seq(Nat) /\ Len(<<>>) = 0
  BY EmptySeq
<1>11. OneStream(rec, <<>>, n)
  BY Zenon, <1>2, <1>6, <1>7, <1>9, <1>10 DEF OneStream
<1> QED  BY Zenon, <1>7, <1>8, <1>10, <1>11, StreamStep DEF n

(* A stream of server-sent events gives its client the events in order and  *)
(* without a gap across reconnections, unless its channel was once full     *)
(* (EventHub.Attach, Append), for any number of clients and events.         *)
THEOREM FeedStreamFaithful == FeedSpec => []StreamFaithful
<1>1. FeedInit => StreamInv
  <2> SUFFICES ASSUME FeedInit PROVE StreamInv
    OBVIOUS
  <2>1. <<>> \in Seq(Nat) /\ Len(<<>>) = 0 /\ <<>> \in Seq(EventTypes)
    BY EmptySeq
  <2>2. StreamTypes
    BY <2>1 DEF FeedInit, StreamTypes
  <2>3. ASSUME NEW s \in Streams
        PROVE  stream[s].got = <<>> /\ feedChan[s] = <<>> /\ feed = <<>> /\ stream[s].on = FALSE
    BY DEF FeedInit
  <2>4. Sorted(<<>>, 0, <<>>, 0, 0) /\ Gapless(<<>>, 0, <<>>, 0, FALSE, 0)
    BY DEF Sorted, Rising, Gapless
  <2> QED  BY Zenon, <2>1, <2>2, <2>3, <2>4 DEF StreamInv
<1>2. StreamInv /\ [FeedNext]_feedVars => StreamInv'
  <2> SUFFICES ASSUME StreamInv, [FeedNext]_feedVars PROVE StreamInv'
    OBVIOUS
  <2>1. ASSUME UNCHANGED <<feed, stream, feedChan>> PROVE StreamInv'
    BY Zenon, <2>1 DEF StreamInv, StreamTypes
  <2>2. CASE Poll
    BY <2>1, <2>2 DEF Poll
  <2>3. CASE UNCHANGED feedVars
    BY <2>1, <2>3 DEF feedVars
  <2> QED  BY <2>2, <2>3, StreamAppend, StreamAttach, StreamDeliver, StreamDetach DEF FeedNext
<1>3. StreamInv => StreamFaithful
  <2> SUFFICES ASSUME StreamInv, NEW s \in Streams
               PROVE  /\ ~stream[s].overflowed => stream[s].got = [i \in 1..Len(stream[s].got) |-> i]
                      /\ Increasing(stream[s].got)
    BY Zenon DEF StreamFaithful, StreamNoGap, StreamOrdered
  <2>1. /\ Sorted(stream[s].got, Len(stream[s].got), feedChan[s], Len(feedChan[s]), Len(feed))
        /\ ~stream[s].overflowed =>
             Gapless(stream[s].got, Len(stream[s].got), feedChan[s], Len(feedChan[s]), stream[s].on, Len(feed))
    BY DEF StreamInv
  <2>2. Increasing(stream[s].got)
    BY <2>1 DEF Sorted, Rising, Increasing
  <2>3. ASSUME ~stream[s].overflowed PROVE stream[s].got = [i \in 1..Len(stream[s].got) |-> i]
    <3>1. stream[s].got \in Seq(Nat)
      BY DEF StreamInv, StreamTypes
    <3>2. \A i \in 1..Len(stream[s].got) : stream[s].got[i] = i
      BY Zenon, <2>1, <2>3 DEF Gapless
    <3> QED  BY <3>1, <3>2
  <2> QED  BY <2>2, <2>3
<1> QED  BY <1>1, <1>2, <1>3, PTL DEF FeedSpec

(***************************************************************************)
(* The polls                                                               *)
(***************************************************************************)

(* A nonempty set of naturals has a least member.                          *)
LEMMA LeastMember ==
  ASSUME NEW T, T \subseteq Nat, T # {}
  PROVE  \E x \in T : \A y \in T : ~(y < x)
<1>1. \E x \in T : \A y \in T : ~(<<y, x>> \in OpToRel(<, Nat))
  BY Zenon, NatLessThanWellFounded, WFMin
<1> QED  BY Zenon, <1>1 DEF OpToRel

(* Induction, for a set of naturals instead of a predicate.                *)
LEMMA SetInduction ==
  ASSUME NEW S, 0 \in S, \A n \in Nat : n \in S => n + 1 \in S
  PROVE  Nat \subseteq S
<1> SUFFICES ASSUME Nat \ S # {} PROVE FALSE
  OBVIOUS
<1>1. PICK x \in Nat \ S : \A y \in Nat \ S : ~(y < x)
  BY Zenon, LeastMember
<1>2. x - 1 \in Nat /\ x - 1 < x
  BY <1>1
<1>3. (x - 1) + 1 \in S
  BY <1>1, <1>2
<1> QED  BY <1>1, <1>3

(* The results of a loop of M rounds, the n-th of which applies G[n].       *)
Runs(X, base, G, M) ==
  \E f \in [0..M -> X] : f[0] = base /\ \A n \in 1..M : f[n] = G[n][f[n - 1]]

(* Such a loop can be run.                                                  *)
LEMMA LoopRuns ==
  ASSUME NEW X, NEW base \in X, NEW G \in [Nat -> [X -> X]], NEW M \in Nat
  PROVE  Runs(X, base, G, M)
<1> DEFINE S == {m \in Nat : \E f \in [0..m -> X] : f[0] = base /\ \A n \in 1..m : f[n] = G[n][f[n - 1]]}
<1>1. 0 \in S
  <2> DEFINE f == [n \in 0..0 |-> base]
  <2>1. f \in [0..0 -> X] /\ f[0] = base /\ \A n \in 1..0 : f[n] = G[n][f[n - 1]]
    OBVIOUS
  <2> HIDE DEF f
  <2> QED  BY <2>1
<1>2. ASSUME NEW m \in Nat, m \in S PROVE m + 1 \in S
  <2>1. PICK f \in [0..m -> X] : f[0] = base /\ \A n \in 1..m : f[n] = G[n][f[n - 1]]
    BY <1>2
  <2> DEFINE g == [n \in 0..(m + 1) |-> IF n = m + 1 THEN G[m + 1][f[m]] ELSE f[n]]
  <2>2. f[m] \in X /\ G[m + 1][f[m]] \in X
    BY <2>1
  <2>3. g \in [0..(m + 1) -> X] /\ g[0] = base
    BY <2>1, <2>2
  <2>4. ASSUME NEW n \in 1..(m + 1) PROVE g[n] = G[n][g[n - 1]]
    <3>1. CASE n = m + 1
      <4>1. n # 0 /\ n - 1 = m /\ m \in 0..(m + 1) /\ m # m + 1
        BY <3>1
      <4> QED  BY <3>1, <4>1
    <3>2. CASE n # m + 1
      <4>1. n \in 1..m /\ n - 1 \in 0..(m + 1) /\ n - 1 # m + 1
        BY <3>2
      <4> QED  BY <2>1, <3>2, <4>1
    <3> QED  BY <3>1, <3>2
  <2> HIDE DEF g
  <2> QED  BY <2>3, <2>4
<1> HIDE DEF S
<1>3. Nat \subseteq S
  BY <1>1, <1>2, SetInduction
<1> QED  BY <1>3 DEF S, Runs

(* The recursive definition of Taken, unfolded.                            *)
LEMMA TakenUnfolds ==
  ASSUME NEW N \in Nat, N = Len(feed), NEW kept, NEW limit
  PROVE  \E d : /\ Taken(kept, limit) = d[N] /\ d[0] = <<>>
                /\ \A n \in 1..N :
                     d[n] = IF n \notin kept \/ (limit > 0 /\ Len(d[n - 1]) = limit) THEN d[n - 1]
                            ELSE Append(d[n - 1], n)
<1> DEFINE X == Seq(Nat)
           Next1(n, q) == IF n \notin kept \/ (limit > 0 /\ Len(q) = limit) THEN q ELSE Append(q, n)
           G == [n \in Nat |-> [q \in X |-> Next1(n, q)]]
           Eq(g) == g = [n \in 0..N |-> IF n = 0 THEN <<>>
                                        ELSE IF n \notin kept \/ (limit > 0 /\ Len(g[n - 1]) = limit) THEN g[n - 1]
                                        ELSE Append(g[n - 1], n)]
<1>1. \A n \in Nat, q \in X : Next1(n, q) \in X
  BY AppendProperties
<1>2. G \in [Nat -> [X -> X]] /\ \A n \in Nat, q \in X : G[n][q] = Next1(n, q)
  <2> HIDE DEF Next1, X
  <2> QED  BY <1>1
<1>3. <<>> \in X
  BY EmptySeq
<1>4. PICK f \in [0..N -> X] : f[0] = <<>> /\ \A n \in 1..N : f[n] = G[n][f[n - 1]]
  <2> HIDE DEF G, X
  <2>1. Runs(X, <<>>, G, N)
    BY <1>2, <1>3, LoopRuns, Zenon
  <2> QED  BY <2>1, Zenon DEF Runs
<1>5. ASSUME NEW n \in 1..N PROVE f[n] = Next1(n, f[n - 1])
  <2>1. n \in Nat /\ n - 1 \in 0..N
    OBVIOUS
  <2>2. f[n - 1] \in X /\ f[n] = G[n][f[n - 1]]
    <3> HIDE DEF G, X
    <3> QED  BY <1>4, <2>1
  <2> HIDE DEF Next1, G, X
  <2> QED  BY <1>2, <2>1, <2>2
<1>6. \E g : Eq(g)
  <2>1. \A n \in 0..N : n # 0 => n \in 1..N
    OBVIOUS
  <2>2. \A n \in 0..N : f[n] = IF n = 0 THEN <<>> ELSE Next1(n, f[n - 1])
    <3> HIDE DEF Next1, X
    <3> QED  BY <1>4, <1>5, <2>1, Zenon
  <2>3. f = [n \in 0..N |-> f[n]]
    BY <1>4, Zenon
  <2>4. f = [n \in 0..N |-> IF n = 0 THEN <<>> ELSE Next1(n, f[n - 1])]
    <3> HIDE DEF Next1, X
    <3> QED  BY <2>2, <2>3, Zenon
  <2> QED  BY <2>4, Zenon
<1> DEFINE d == CHOOSE g : Eq(g)
<1>7. Eq(d)
  BY <1>6, Zenon
<1>8. Taken(kept, limit) = d[N]
  BY DEF Taken
<1> HIDE DEF d
<1>9. \A n \in 0..N : d[n] = IF n = 0 THEN <<>>
                             ELSE IF n \notin kept \/ (limit > 0 /\ Len(d[n - 1]) = limit) THEN d[n - 1]
                             ELSE Append(d[n - 1], n)
  BY <1>7, Zenon
<1>10. 0 \in 0..N /\ \A n \in 1..N : n \in 0..N /\ n # 0
  OBVIOUS
<1>11. d[0] = <<>>
  BY <1>9, <1>10, Zenon
<1>12. \A n \in 1..N : d[n] = IF n \notin kept \/ (limit > 0 /\ Len(d[n - 1]) = limit) THEN d[n - 1]
                              ELSE Append(d[n - 1], n)
  BY <1>9, <1>10, Zenon
<1> QED  BY <1>8, <1>11, <1>12

(* The m members of q are what a loop over the first n events takes of     *)
(* kept: in order, and all of them unless it has stopped at the limit.     *)
Selects(q, m, kept, limit, n) ==
  /\ Rising(q, m) /\ \A i \in 1..m : q[i] \in kept /\ q[i] <= n
  /\ \A x \in kept : x <= n => (\E i \in 1..m : q[i] = x) \/ (limit > 0 /\ m = limit /\ q[m] < x)

(* One round of the loop that leaves its event out.                        *)
LEMMA SelectSkips ==
  ASSUME NEW q, NEW m \in Nat, NEW kept, kept \subseteq Nat, NEW limit \in Int, NEW n \in Nat,
         Selects(q, m, kept, limit, n), n + 1 \notin kept \/ (limit > 0 /\ m = limit)
  PROVE  Selects(q, m, kept, limit, n + 1)
<1>1. \A i \in 1..m : q[i] \in kept /\ q[i] \in Nat /\ q[i] <= n
  BY Zenon DEF Selects
<1>2. \A i \in 1..m : q[i] <= n + 1
  BY <1>1
<1>3. ASSUME NEW x \in kept, x <= n + 1
      PROVE  (\E i \in 1..m : q[i] = x) \/ (limit > 0 /\ m = limit /\ q[m] < x)
  <2>1. CASE x <= n
    BY <2>1 DEF Selects
  <2>2. CASE x = n + 1
    <3>1. limit > 0 /\ m = limit
      BY <2>2
    <3>2. m \in 1..m
      BY <3>1
    <3>3. q[m] < x
      BY <1>1, <2>2, <3>2
    <3> QED  BY <3>1, <3>3
  <2>3. x \in Nat
    OBVIOUS
  <2> QED  BY <1>3, <2>1, <2>2, <2>3
<1> QED  BY <1>1, <1>2, <1>3 DEF Selects

(* One that takes it.                                                      *)
LEMMA SelectTakes ==
  ASSUME NEW q, NEW m \in Nat, NEW kept, kept \subseteq Nat, NEW limit \in Int, NEW n \in Nat,
         Selects(q, m, kept, limit, n), n + 1 \in kept, ~(limit > 0 /\ m = limit),
         NEW p, \A i \in 1..m : p[i] = q[i], p[m + 1] = n + 1
  PROVE  Selects(p, m + 1, kept, limit, n + 1)
<1>1. \A i \in 1..m : q[i] \in kept /\ q[i] \in Nat /\ q[i] <= n
  BY Zenon DEF Selects
<1>2. \A i \in 1..(m + 1) : p[i] \in kept /\ p[i] <= n + 1
  BY <1>1
<1>3. Rising(p, m + 1)
  BY <1>1 DEF Selects, Rising
<1>4. ASSUME NEW x \in kept, x <= n + 1
      PROVE  \E i \in 1..(m + 1) : p[i] = x
  <2>1. CASE x <= n
    <3>1. PICK i \in 1..m : q[i] = x
      BY <2>1 DEF Selects
    <3> QED  BY <3>1
  <2>2. CASE x = n + 1
    BY <2>2
  <2>3. x \in Nat
    OBVIOUS
  <2> QED  BY <1>4, <2>1, <2>2, <2>3
<1> QED  BY <1>2, <1>3, <1>4 DEF Selects

(* The loop of filterEventsExcluding: it takes what is kept, in order, up  *)
(* to the limit.                                                           *)
LEMMA TakenSelects ==
  ASSUME NEW N \in Nat, N = Len(feed), NEW kept, kept \subseteq 1..N, NEW limit \in Int
  PROVE  /\ Taken(kept, limit) \in Seq(Nat)
         /\ Selects(Taken(kept, limit), Len(Taken(kept, limit)), kept, limit, N)
<1>1. PICK d : /\ Taken(kept, limit) = d[N] /\ d[0] = <<>>
               /\ \A n \in 1..N :
                     d[n] = IF n \notin kept \/ (limit > 0 /\ Len(d[n - 1]) = limit) THEN d[n - 1]
                            ELSE Append(d[n - 1], n)
  BY TakenUnfolds
<1> DEFINE Good(n) == d[n] \in Seq(Nat) /\ Selects(d[n], Len(d[n]), kept, limit, n)
           S == {n \in Nat : n <= N => Good(n)}
<1>2. kept \subseteq Nat /\ 0 \notin kept
  OBVIOUS
<1>3. 0 \in S
  <2>1. d[0] \in Seq(Nat) /\ Len(d[0]) = 0
    BY <1>1, EmptySeq
  <2>2. \A x \in kept : ~(x <= 0)
    BY <1>2
  <2>3. Selects(d[0], 0, kept, limit, 0)
    BY <2>2 DEF Selects, Rising
  <2> QED  BY <2>1, <2>3
<1>4. ASSUME NEW n \in Nat, n \in S PROVE n + 1 \in S
  <2> SUFFICES ASSUME n + 1 <= N PROVE Good(n + 1)
    OBVIOUS
  <2> DEFINE q == d[n]
             p == d[n + 1]
             m == Len(d[n])
  <2>1. q \in Seq(Nat) /\ Selects(q, m, kept, limit, n)
    BY <1>4
  <2>2. m \in Nat
    BY <2>1, LenProperties
  <2>3. n + 1 \in 1..N /\ (n + 1) - 1 = n
    OBVIOUS
  <2>4. p = IF n + 1 \notin kept \/ (limit > 0 /\ m = limit) THEN q ELSE Append(q, n + 1)
    BY <1>1, <2>3
  <2>5. CASE n + 1 \notin kept \/ (limit > 0 /\ m = limit)
    <3>1. p = q
      BY <2>4, <2>5
    <3> HIDE DEF p, q, m
    <3>2. Selects(q, m, kept, limit, n + 1)
      BY Zenon, <1>2, <2>1, <2>2, <2>5, SelectSkips
    <3> QED  BY <2>1, <3>1, <3>2 DEF p, q, m
  <2>6. CASE ~(n + 1 \notin kept \/ (limit > 0 /\ m = limit))
    <3>1. p = Append(q, n + 1)
      BY <2>4, <2>6
    <3> HIDE DEF p, q
    <3>2. /\ p \in Seq(Nat) /\ Len(p) = Len(q) + 1 /\ p[Len(q) + 1] = n + 1
          /\ \A i \in 1..Len(q) : p[i] = q[i]
      BY <2>1, <3>1, AppendProperties
    <3>3. m = Len(q)
      BY DEF q
    <3> HIDE DEF m
    <3>4. Selects(p, m + 1, kept, limit, n + 1)
      BY Zenon, <1>2, <2>1, <2>2, <2>6, <3>2, <3>3, SelectTakes
    <3>5. p \in Seq(Nat) /\ Selects(p, Len(p), kept, limit, n + 1)
      BY <3>2, <3>3, <3>4
    <3> QED  BY <3>5 DEF p
  <2> QED  BY <2>5, <2>6
<1> HIDE DEF Good
<1>5. Nat \subseteq S
  <2> HIDE DEF S
  <2> QED  BY <1>3, <1>4, SetInduction
<1>6. Good(N)
  BY <1>5
<1> QED  BY <1>1, <1>6 DEF Good

Pollers == [query : ReadRequests, after : Nat, got : Seq(Nat)]
Answers == [mode : {"none", "refused", "read", "last"}, seqs : Seq(Nat), limit : Int, at : Nat]

PollsInv ==
  /\ feed \in Seq(EventTypes)
  /\ poller \in Pollers /\ poller.after <= Len(feed)
  /\ answer.at \in Nat /\ answer.at <= Len(feed)
  /\ PollsFaithful

(* A client that has its m events up to the cursor, and a read of k more.  *)
Reading(got, m, upto, n, Should, kept, q, k, limit, g) ==
  /\ m \in Nat /\ upto \in Nat /\ n \in Nat /\ upto <= n /\ k \in Nat /\ limit \in Int
  /\ \A x \in Should : x \in Nat /\ x <= n
  /\ Rising(got, m) /\ \A x : (\E i \in 1..m : got[i] = x) <=> x \in Should /\ x <= upto
  /\ \A x : x \in kept <=> x \in Should /\ x > upto
  /\ Selects(q, k, kept, limit, n)
  /\ (\A i \in 1..m : g[i] = got[i]) /\ \A i \in 1..k : g[m + i] = q[i]

Complete(g, m, k, n, Should, q, limit) ==
  /\ Rising(g, m + k)
  /\ k > 0 => q[k] \in Nat /\ q[k] <= n /\ \A x : (\E i \in 1..(m + k) : g[i] = x) <=> x \in Should /\ x <= q[k]
  /\ k < limit => \A x : (\E i \in 1..(m + k) : g[i] = x) <=> x \in Should

(* What a read takes of the events after the cursor, added to what the     *)
(* client has of those up to the cursor, is what it should have up to the  *)
(* last one taken, and of the whole log if the read was not cut short.     *)
LEMMA ReadAddsUp ==
  ASSUME NEW got, NEW m, NEW upto, NEW n, NEW Should, NEW kept, NEW q, NEW k, NEW limit, NEW g,
         Reading(got, m, upto, n, Should, kept, q, k, limit, g)
  PROVE  Complete(g, m, k, n, Should, q, limit)
<1>0. /\ m \in Nat /\ upto \in Nat /\ n \in Nat /\ upto <= n /\ k \in Nat /\ limit \in Int
      /\ \A x \in Should : x \in Nat /\ x <= n
      /\ Rising(got, m) /\ \A x : (\E i \in 1..m : got[i] = x) <=> x \in Should /\ x <= upto
      /\ \A x : x \in kept <=> x \in Should /\ x > upto
      /\ Selects(q, k, kept, limit, n)
      /\ (\A i \in 1..m : g[i] = got[i]) /\ \A i \in 1..k : g[m + i] = q[i]
  BY DEF Reading
<1> USE <1>0
<1>1. \A i \in 1..m : got[i] \in Nat /\ got[i] \in Should /\ got[i] <= upto
  OBVIOUS
<1>2. \A i \in 1..k : q[i] \in Nat /\ q[i] \in Should /\ q[i] > upto /\ q[i] <= n
  BY DEF Selects
<1>3. \A i \in 1..(m + k) : i > m => i - m \in 1..k /\ g[i] = q[i - m]
  <2> SUFFICES ASSUME NEW i \in 1..(m + k), i > m PROVE i - m \in 1..k /\ g[i] = q[i - m]
    OBVIOUS
  <2>1. i - m \in 1..k /\ m + (i - m) = i
    OBVIOUS
  <2> QED  BY <2>1
<1>4. Rising(g, m + k)
  <2> SUFFICES ASSUME NEW i \in 1..(m + k), NEW j \in 1..(m + k), i < j PROVE g[i] < g[j]
    BY DEF Rising
  <2>1. CASE j <= m
    BY <2>1 DEF Rising
  <2>2. CASE j > m /\ i <= m
    <3>1. g[i] = got[i] /\ got[i] \in Nat /\ got[i] <= upto
      BY <1>1, <2>2
    <3>2. g[j] \in Nat /\ g[j] > upto
      BY <1>2, <1>3, <2>2
    <3> QED  BY <3>1, <3>2
  <2>3. CASE i > m
    <3>1. i - m \in 1..k /\ j - m \in 1..k /\ i - m < j - m /\ g[i] = q[i - m] /\ g[j] = q[j - m]
      BY <1>3, <2>3
    <3>2. q[i - m] < q[j - m]
      BY <3>1 DEF Selects, Rising
    <3> QED  BY <3>1, <3>2
  <2> QED  BY <2>1, <2>2, <2>3
<1>5. ASSUME NEW x
      PROVE  (\E i \in 1..(m + k) : g[i] = x) <=> (x \in Should /\ x <= upto) \/ (\E i \in 1..k : q[i] = x)
  <2>1. ASSUME NEW i \in 1..(m + k), g[i] = x
        PROVE  (x \in Should /\ x <= upto) \/ (\E j \in 1..k : q[j] = x)
    <3>1. CASE i <= m
      BY <1>1, <2>1, <3>1
    <3>2. CASE i > m
      BY <1>3, <2>1, <3>2
    <3> QED  BY <3>1, <3>2
  <2>2. ASSUME x \in Should /\ x <= upto PROVE \E i \in 1..(m + k) : g[i] = x
    <3>2. PICK i \in 1..m : got[i] = x
      BY <2>2
    <3>3. i \in 1..(m + k) /\ g[i] = x
      BY <3>2
    <3> QED  BY <3>3
  <2>3. ASSUME NEW i \in 1..k, q[i] = x PROVE \E j \in 1..(m + k) : g[j] = x
    <3>1. m + i \in 1..(m + k) /\ g[m + i] = x
      BY <2>3
    <3> QED  BY <3>1
  <2> QED  BY <2>1, <2>2, <2>3
<1>6. ASSUME k > 0
      PROVE  q[k] \in Nat /\ q[k] <= n /\ \A x : (\E i \in 1..(m + k) : g[i] = x) <=> x \in Should /\ x <= q[k]
  <2>1. k \in 1..k /\ q[k] \in Nat /\ q[k] > upto /\ q[k] <= n
    BY <1>2, <1>6
  <2>2. \A i \in 1..k : q[i] <= q[k]
    <3> SUFFICES ASSUME NEW i \in 1..k PROVE q[i] <= q[k]
      OBVIOUS
    <3>1. CASE i = k
      BY <2>1, <3>1
    <3>2. CASE i < k
      BY <1>2, <2>1, <3>2 DEF Selects, Rising
    <3> QED  BY <3>1, <3>2
  <2>3. ASSUME NEW x, x \in Should, x <= q[k], x > upto PROVE \E i \in 1..k : q[i] = x
    <3>1. x \in Nat /\ x <= n
      BY <2>1, <2>3
    <3>2. ~(q[k] < x)
      BY <2>1, <2>3, <3>1
    <3> QED  BY <2>3, <3>1, <3>2 DEF Selects
  <2>4. ASSUME NEW x PROVE (\E i \in 1..(m + k) : g[i] = x) <=> x \in Should /\ x <= q[k]
    <3>1. x \in Should => x \in Nat
      OBVIOUS
    <3>2. ASSUME x \in Should, x <= q[k] PROVE \E i \in 1..(m + k) : g[i] = x
      <4>1. CASE x <= upto
        BY <1>5, <3>2, <4>1
      <4>2. CASE x > upto
        BY <1>5, <2>3, <3>2, <4>2
      <4> QED  BY <3>1, <3>2, <4>1, <4>2
    <3>3. ASSUME x \in Should, x <= upto PROVE x <= q[k]
      BY <2>1, <3>1, <3>3
    <3>4. ASSUME NEW i \in 1..k, q[i] = x PROVE x \in Should /\ x <= q[k]
      BY <1>2, <2>2, <3>4
    <3> QED  BY <1>5, <3>2, <3>3, <3>4
  <2> QED  BY <2>1, <2>4
<1>7. ASSUME k < limit PROVE \A x : (\E i \in 1..(m + k) : g[i] = x) <=> x \in Should
  <2>1. ASSUME NEW x \in Should, x > upto PROVE \E i \in 1..k : q[i] = x
    <3>1. x \in Nat /\ x <= n /\ k # limit
      BY <1>7
    <3> QED  BY <2>1, <3>1 DEF Selects
  <2>2. ASSUME NEW x PROVE (\E i \in 1..(m + k) : g[i] = x) <=> x \in Should
    <3>1. ASSUME x \in Should PROVE \E i \in 1..(m + k) : g[i] = x
      <4>1. x \in Nat
        BY <3>1
      <4>2. CASE x <= upto
        BY <1>5, <3>1, <4>2
      <4>3. CASE x > upto
        BY <1>5, <2>1, <3>1, <4>3
      <4> QED  BY <4>1, <4>2, <4>3
    <3>2. ASSUME NEW i \in 1..k, q[i] = x PROVE x \in Should
      BY <1>2, <3>2
    <3> QED  BY <1>5, <3>1, <3>2
  <2> QED  BY <2>2
<1> QED  BY <1>4, <1>6, <1>7 DEF Complete

(* What the client should have up to a place in the log, and what a read   *)
(* after its cursor keeps, are parts of what it should have of the log.    *)
LEMMA ShouldHave ==
  ASSUME PollsInv
  PROVE  /\ Len(feed) \in Nat /\ \A x \in Matching(Len(feed)) : x \in Nat /\ x <= Len(feed)
         /\ \A u \in Nat : u <= Len(feed) =>
              \A x : x \in Matching(u) <=> x \in Matching(Len(feed)) /\ x <= u
         /\ \A x : x \in Kept(poller.after, poller.query.types, Excluded) <=>
                     x \in Matching(Len(feed)) /\ x > poller.after
         /\ Kept(poller.after, poller.query.types, Excluded) \subseteq 1..Len(feed)
<1>1. Len(feed) \in Nat /\ DOMAIN feed = 1..Len(feed) /\ poller.after \in Nat
  BY LenProperties DEF PollsInv, Pollers
<1> DEFINE N == Len(feed)
           Ok(x) == feed[x] \notin Excluded /\ Wanted(x, poller.query.types)
<1>2. \A u : Matching(u) = {x \in 1..u : Ok(x)}
  BY DEF Matching
<1>3. Kept(poller.after, poller.query.types, Excluded) = {x \in 1..N : x > poller.after /\ Ok(x)}
  BY <1>1 DEF Kept
<1> HIDE DEF Ok
<1> QED  BY <1>1, <1>2, <1>3

(* A read, and the answer the client moves its cursor by.                  *)
LEMMA PollReads ==
  ASSUME PollsInv, NEW limit \in Int,
         NEW q, q = FilterEvents(poller.after, limit, poller.query.types, Excluded),
         answer' = [mode |-> "read", seqs |-> q, limit |-> limit, at |-> Len(feed)],
         poller' = IF q # <<>> THEN [poller EXCEPT !.got = @ \o q, !.after = q[Len(q)]] ELSE poller,
         feed' = feed
  PROVE  PollsInv'
<1> DEFINE N == Len(feed)
           Should == Matching(N)
           kept == Kept(poller.after, poller.query.types, Excluded)
           got == poller.got
           upto == poller.after
           g == got \o q
<1>1. /\ N \in Nat /\ \A x \in Should : x \in Nat /\ x <= N
      /\ \A u \in Nat : u <= N => \A x : x \in Matching(u) <=> x \in Should /\ x <= u
      /\ \A x : x \in kept <=> x \in Should /\ x > upto
      /\ kept \subseteq 1..N
  BY ShouldHave
<1>2. q = Taken(kept, limit)
  BY DEF FilterEvents
<1>3. /\ feed \in Seq(EventTypes) /\ poller \in Pollers /\ upto <= N
      /\ got \in Seq(Nat) /\ upto \in Nat
      /\ Increasing(got) /\ Given(got) = Matching(upto)
  BY DEF PollsInv, Pollers, PollsFaithful, PollsAddUp
<1>4. /\ feed' \in Seq(EventTypes) /\ poller'.query = poller.query /\ answer'.at = N
      /\ answer'.mode = "read" /\ answer'.seqs = q /\ answer'.limit = limit
  BY <1>3 DEF Pollers
<1>5. \A u : Matching(u)' = Matching(u)
  BY <1>4 DEF Matching, Excluded, Wanted
<1> HIDE DEF N, Should, kept, got, upto
<1>6. q \in Seq(Nat) /\ Selects(q, Len(q), kept, limit, N)
  BY <1>1, <1>2, TakenSelects DEF N
<1>7. /\ Len(q) \in Nat /\ Len(got) \in Nat /\ g \in Seq(Nat) /\ Len(g) = Len(got) + Len(q)
      /\ \A i \in 1..Len(got) : g[i] = got[i]
      /\ \A i \in 1..Len(q) : g[Len(got) + i] = q[i]
  <2>1. g \in Seq(Nat) /\ Len(g) = Len(got) + Len(q) /\ Len(q) \in Nat /\ Len(got) \in Nat
    BY <1>3, <1>6, ConcatProperties, LenProperties
  <2>2. \A i \in 1..(Len(got) + Len(q)) : g[i] = IF i <= Len(got) THEN got[i] ELSE q[i - Len(got)]
    BY <1>3, <1>6, ConcatProperties
  <2> HIDE DEF g
  <2>3. \A i \in 1..Len(got) : i \in 1..(Len(got) + Len(q)) /\ i <= Len(got)
    BY <2>1
  <2>4. \A i \in 1..Len(q) : /\ Len(got) + i \in 1..(Len(got) + Len(q)) /\ ~(Len(got) + i <= Len(got))
                             /\ (Len(got) + i) - Len(got) = i
    BY <2>1
  <2> QED  BY <2>1, <2>2, <2>3, <2>4
<1>8. Rising(got, Len(got)) /\ \A x : (\E i \in 1..Len(got) : got[i] = x) <=> x \in Should /\ x <= upto
  <2>1. Rising(got, Len(got))
    BY <1>3 DEF Increasing, Rising
  <2>2. \A x : (\E i \in 1..Len(got) : got[i] = x) <=> x \in Matching(upto)
    BY <1>3 DEF Given
  <2> QED  BY <1>1, <1>3, <2>1, <2>2
<1> HIDE DEF g
<1>9. /\ Rising(g, Len(got) + Len(q))
      /\ Len(q) > 0 => /\ q[Len(q)] \in Nat /\ q[Len(q)] <= N
                       /\ \A x : (\E i \in 1..(Len(got) + Len(q)) : g[i] = x) <=> x \in Should /\ x <= q[Len(q)]
      /\ Len(q) < limit => \A x : (\E i \in 1..(Len(got) + Len(q)) : g[i] = x) <=> x \in Should
  <2> DEFINE m == Len(got)
             k == Len(q)
  <2>1. Reading(got, m, upto, N, Should, kept, q, k, limit, g)
    <3> HIDE DEF m, k
    <3>1. m \in Nat /\ k \in Nat /\ \A i \in 1..m : g[i] = got[i] /\ \A j \in 1..k : g[m + j] = q[j]
      BY <1>7 DEF m, k
    <3>2. Rising(got, m) /\ \A x : (\E i \in 1..m : got[i] = x) <=> x \in Should /\ x <= upto
      BY <1>8 DEF m
    <3>3. Selects(q, k, kept, limit, N) /\ \A j \in 1..k : g[m + j] = q[j]
      BY <1>6, <1>7 DEF k, m
    <3> QED  BY <1>1, <1>3, <3>1, <3>2, <3>3 DEF Reading
  <2> HIDE DEF m, k
  <2>2. Complete(g, m, k, N, Should, q, limit)
    BY <2>1, ReadAddsUp
  <2> QED  BY <2>2 DEF m, k, Complete
<1>10. Increasing(g) /\ \A x : x \in Given(g) <=> \E i \in 1..(Len(got) + Len(q)) : g[i] = x
  BY <1>7, <1>9 DEF Increasing, Rising, Given
<1>11. CASE q # <<>>
  <2>1. Len(q) > 0
    BY <1>6, <1>7, <1>11, EmptySeq
  <2> DEFINE last == q[Len(q)]
  <2>2. last \in Nat /\ last <= N
    BY <1>9, <2>1
  <2>3. poller' \in Pollers /\ poller'.got = g /\ poller'.after = last
    <3> HIDE DEF last
    <3>1. poller' = [poller EXCEPT !.got = g, !.after = last]
      BY <1>11 DEF g, got, last
    <3> QED  BY Zenon, <1>3, <1>7, <2>2, <3>1 DEF Pollers
  <2> HIDE DEF last
  <2>4. Given(g) = Matching(last)
    BY Zenon, <1>1, <1>9, <1>10, <2>1, <2>2 DEF last
  <2>5. Len(q) < limit => Given(g) = Matching(N)
    BY Zenon, <1>1, <1>9, <1>10 DEF Should
  <2>6. PollsFaithful'
    <3>1. Increasing(poller.got)' /\ Given(poller.got)' = Matching(poller.after)'
      <4>1. Matching(poller.after)' = Matching(last)
        BY Zenon, <1>4, <2>3 DEF Matching, Excluded, Wanted
      <4>2. Increasing(poller.got)' /\ Given(poller.got)' = Given(g)
        BY Zenon, <1>10, <2>3 DEF Increasing, Given
      <4> QED  BY <2>4, <4>1, <4>2
    <3>2. answer'.mode = "read" /\ Len(answer'.seqs) < answer'.limit => Given(poller.got)' = Matching(answer.at)'
      <4>1. Matching(answer.at)' = Matching(N)
        BY <1>4, <2>3 DEF Matching, Excluded, Wanted
      <4>2. Given(poller.got)' = Given(g)
        BY Zenon, <2>3 DEF Given
      <4> QED  BY <1>4, <2>5, <4>1, <4>2
    <3> QED  BY <3>1, <3>2 DEF PollsFaithful, PollsAddUp, ShortMeansDone
  <2> QED  BY <1>1, <1>4, <2>2, <2>3, <2>6 DEF PollsInv, N
<1>12. CASE q = <<>>
  <2>1. Len(q) = 0 /\ poller' = poller
    BY <1>12
  <2>2. g = got
    BY <1>3, <1>12, ConcatEmptySeq DEF g
  <2>3. Len(q) < limit => Given(got) = Matching(N)
    BY Zenon, <1>1, <1>9, <1>10, <2>2 DEF Should
  <2>4. PollsFaithful'
    <3>1. Increasing(poller.got)' /\ Given(poller.got)' = Matching(poller.after)'
      <4>1. Matching(poller.after)' = Matching(upto)
        BY <1>4, <2>1 DEF Matching, Excluded, Wanted, upto
      <4>2. Increasing(poller.got)' /\ Given(poller.got)' = Given(got)
        BY <1>3, <2>1 DEF Increasing, Given, got
      <4> QED  BY <1>3, <4>1, <4>2
    <3>2. answer'.mode = "read" /\ Len(answer'.seqs) < answer'.limit => Given(poller.got)' = Matching(answer.at)'
      <4>1. Matching(answer.at)' = Matching(N)
        BY <1>4, <2>1 DEF Matching, Excluded, Wanted
      <4>2. Given(poller.got)' = Given(got)
        BY <2>1 DEF Given, got
      <4> QED  BY <1>4, <2>3, <4>1, <4>2
    <3> QED  BY <3>1, <3>2 DEF PollsFaithful, PollsAddUp, ShortMeansDone
  <2> QED  BY <1>1, <1>3, <1>4, <2>1, <2>4 DEF PollsInv, N, upto
<1> QED  BY <1>11, <1>12

(* An answer that is no read leaves the client where it was.               *)
LEMMA PollGivesNone ==
  ASSUME PollsInv, feed' = feed, poller' = poller, answer'.at = Len(feed), answer'.mode # "read"
  PROVE  PollsInv'
<1>1. Len(feed) \in Nat
  BY LenProperties DEF PollsInv
<1>2. PollsAddUp'
  BY DEF PollsInv, PollsFaithful, PollsAddUp, Increasing, Given, Matching, Excluded, Wanted
<1>3. ShortMeansDone'
  BY DEF ShortMeansDone
<1> QED  BY <1>1, <1>2, <1>3 DEF PollsInv, PollsFaithful

(* One request of the polling client (http.go, mcpapi.go).                 *)
LEMMA PollStep == ASSUME PollsInv, Poll PROVE PollsInv'
<1> DEFINE q == poller.query
           a == PollAnswer(q, poller.after)
<1>1. /\ answer' = [mode |-> a.mode, seqs |-> a.seqs, limit |-> a.limit, at |-> Len(feed)]
      /\ poller' = IF a.mode = "read" /\ a.seqs # <<>>
                   THEN [poller EXCEPT !.got = @ \o a.seqs, !.after = a.seqs[Len(a.seqs)]]
                   ELSE poller
      /\ feed' = feed
  BY DEF Poll
<1>2. q.limit \in Int /\ q.last \in Int /\ q.api \in {"rest", "mcp"} /\ DefaultReadLimit \in Int
  BY FeedAssumption DEF PollsInv, Pollers, DefaultReadLimit
<1>3. \/ a.mode # "read"
      \/ \E n \in Int : a = [mode |-> "read", seqs |-> FilterEvents(poller.after, n, q.types, Excluded), limit |-> n]
  <2>1. CASE q.api = "rest"
    <3>1. Excluded = {}
      BY <2>1 DEF Excluded
    <3> DEFINE n == IF q.limit = Absent THEN DefaultReadLimit ELSE q.limit
    <3>2. CASE Refused(q)
      <4>1. a = [mode |-> "refused", seqs |-> <<>>, limit |-> 0]
        BY <2>1, <3>2 DEF PollAnswer
      <4> QED  BY <4>1
    <3>3. CASE ~Refused(q) /\ q.last # Absent
      <4>1. a = [mode |-> "last", seqs |-> ReadLast(q.last, q.types), limit |-> q.last]
        BY <2>1, <3>3 DEF PollAnswer
      <4> QED  BY <4>1
    <3>4. CASE ~Refused(q) /\ q.last = Absent
      <4>1. a = [mode |-> "read", seqs |-> FilterEvents(poller.after, n, q.types, {}), limit |-> n]
        BY <2>1, <3>4 DEF PollAnswer
      <4> QED  BY <1>2, <3>1, <4>1
    <3> QED  BY <3>2, <3>3, <3>4
  <2>2. CASE q.api # "rest"
    <3>1. Excluded = IF q.deltas THEN {} ELSE {Delta}
      BY <1>2, <2>2 DEF Excluded
    <3> DEFINE n == IF q.limit \in {Absent, 0} THEN DefaultReadLimit ELSE q.limit
    <3>2. CASE q.limit < 0 /\ q.limit # Absent
      <4>1. a = [mode |-> "refused", seqs |-> <<>>, limit |-> 0]
        BY <2>2, <3>2 DEF PollAnswer
      <4> QED  BY <4>1
    <3>3. CASE ~(q.limit < 0 /\ q.limit # Absent)
      <4>1. a = [mode |-> "read", seqs |-> FilterEvents(poller.after, n, q.types, IF q.deltas THEN {} ELSE {Delta}),
                 limit |-> n]
        BY <2>2, <3>3 DEF PollAnswer
      <4> QED  BY <1>2, <3>1, <4>1
    <3> QED  BY <3>2, <3>3
  <2> QED  BY <2>1, <2>2
<1> HIDE DEF a
<1>4. CASE a.mode # "read"
  BY <1>1, <1>4, PollGivesNone
<1>5. ASSUME NEW n \in Int, a = [mode |-> "read", seqs |-> FilterEvents(poller.after, n, q.types, Excluded), limit |-> n]
      PROVE  PollsInv'
  <2> DEFINE seqs == FilterEvents(poller.after, n, poller.query.types, Excluded)
  <2> HIDE DEF seqs
  <2>1. a = [mode |-> "read", seqs |-> seqs, limit |-> n]
    BY <1>5 DEF seqs
  <2>2. /\ answer' = [mode |-> "read", seqs |-> seqs, limit |-> n, at |-> Len(feed)]
        /\ poller' = IF seqs # <<>> THEN [poller EXCEPT !.got = @ \o seqs, !.after = seqs[Len(seqs)]] ELSE poller
    BY <1>1, <2>1
  <2> QED  BY Zenon, <1>1, <2>2, PollReads DEF seqs
<1> QED  BY <1>3, <1>4, <1>5

(* An event appended is beyond what the client has been answered about.    *)
LEMMA PollAppend == ASSUME PollsInv, NEW t \in EventTypes, FeedAppend(t) PROVE PollsInv'
<1>1. /\ feed' \in Seq(EventTypes) /\ Len(feed) \in Nat /\ Len(feed') = Len(feed) + 1
      /\ \A x \in 1..Len(feed) : feed'[x] = feed[x]
      /\ poller' = poller /\ answer' = answer
  BY AppendProperties, LenProperties DEF FeedAppend, PollsInv
<1>2. poller.after \in Nat /\ poller.after <= Len(feed) /\ answer.at \in Nat /\ answer.at <= Len(feed)
  BY DEF PollsInv, Pollers
<1>3. ASSUME NEW u \in Nat, u <= Len(feed)
      PROVE  {x \in 1..u : feed'[x] \notin Excluded /\ (poller.query.types = {} \/ feed'[x] \in poller.query.types)}
               = Matching(u)
  <2>1. \A x \in 1..u : feed'[x] = feed[x]
    BY <1>1, <1>3
  <2> QED  BY <2>1 DEF Matching, Wanted
<1>4. Excluded' = Excluded
  BY <1>1 DEF Excluded
<1>5. Matching(poller.after)' = Matching(poller.after)
  BY <1>1, <1>2, <1>3, <1>4 DEF Matching, Wanted
<1>6. Matching(answer.at)' = Matching(answer.at)
  BY <1>1, <1>2, <1>3, <1>4 DEF Matching, Wanted
<1>7. PollsAddUp'
  BY <1>1, <1>5 DEF PollsInv, PollsFaithful, PollsAddUp, Increasing, Given
<1>8. ShortMeansDone'
  BY <1>1, <1>6 DEF PollsInv, PollsFaithful, ShortMeansDone, Given
<1> QED  BY <1>1, <1>2, <1>7, <1>8 DEF PollsInv, PollsFaithful

(* An agent that polls on from the last sequence number it was given has   *)
(* every event it asked for once and in order, and a batch shorter than    *)
(* its limit is the last (EventHub.Read, ReadFiltered), for any log, any   *)
(* query and any appends between the polls.                                *)
THEOREM FeedPollsFaithful == FeedSpec => []PollsFaithful
<1>1. FeedInit => PollsInv
  <2> SUFFICES ASSUME FeedInit PROVE PollsInv
    OBVIOUS
  <2>1. feed = <<>> /\ answer.at = 0 /\ answer.mode = "none" /\ poller.after = 0 /\ poller.got = <<>>
    BY DEF FeedInit
  <2>2. <<>> \in Seq(EventTypes) /\ <<>> \in Seq(Nat) /\ Len(<<>>) = 0
    BY EmptySeq
  <2>3. poller \in Pollers
    <3> DEFINE none == <<>>
    <3>1. none \in Seq(Nat) /\ poller \in [query : ReadRequests, after : {0}, got : {none}]
      BY <2>2 DEF FeedInit
    <3> HIDE DEF none
    <3> QED  BY <3>1 DEF Pollers
  <2>4. Increasing(poller.got) /\ Given(poller.got) = {} /\ Matching(0) = {}
    BY <2>1, <2>2 DEF Increasing, Given, Matching
  <2>5. PollsFaithful
    BY <2>1, <2>4 DEF PollsFaithful, PollsAddUp, ShortMeansDone
  <2> QED  BY <2>1, <2>2, <2>3, <2>5 DEF PollsInv
<1>2. PollsInv /\ [FeedNext]_feedVars => PollsInv'
  <2> SUFFICES ASSUME PollsInv, [FeedNext]_feedVars PROVE PollsInv'
    OBVIOUS
  <2>1. ASSUME UNCHANGED <<feed, poller, answer>> PROVE PollsInv'
    BY <2>1 DEF PollsInv, PollsFaithful, PollsAddUp, ShortMeansDone, Increasing, Given, Matching, Excluded, Wanted
  <2>2. ASSUME NEW s \in Streams, Attach(s) \/ Deliver(s) \/ Detach(s) PROVE PollsInv'
    BY <2>1, <2>2 DEF Attach, Deliver, Detach
  <2>3. CASE UNCHANGED feedVars
    BY <2>1, <2>3 DEF feedVars
  <2> QED  BY <2>2, <2>3, PollStep, PollAppend DEF FeedNext
<1>3. PollsInv => PollsFaithful
  BY DEF PollsInv
<1> QED  BY <1>1, <1>2, <1>3, PTL DEF FeedSpec
=============================================================================
