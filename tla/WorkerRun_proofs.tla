-------------------------- MODULE WorkerRun_proofs --------------------------
(* Workers and their state file.  First the file: it is atomic, for any    *)
(* contents, any number of workers and any places where writes stop short. *)
(* Then the processes: they keep RunInv, provided that the loops stay on   *)
(* the way and that files are read as they were written (WayOK, which      *)
(* WorkerRunSafety_proofs shows).                                          *)
EXTENDS WorkerRunProperties, TLAPS

\* Leaves that name no prover are for SMT or Zenon.
USE SMTT(15), Z3T(15), Zenon

-----------------------------------------------------------------------------
(* The state file.                                                         *)

\* A sequence over a set, as SMT knows it.
LEMMA AsSeq ==
  ASSUME NEW S, NEW n \in Nat, NEW f \in [1 .. n -> S]
  PROVE  f \in Seq(S) /\ Len(f) = n
OBVIOUS

\* A write at the offset keeps a file a sequence of words (the write loop of
\* write_state), wherever the file ended before.
LEMMA OverwrittenType ==
  ASSUME NEW c \in Content, NEW b \in Content, NEW off \in Nat,
         NEW k \in off + 1 .. Len(b)
  PROVE  Overwritten(c, b, off, k) \in Content
<1> DEFINE n == IF Len(c) > k THEN Len(c) ELSE k
<1>1. n \in Nat /\ k \in Nat /\ Len(b) \in Nat /\ Len(c) \in Nat
  BY DEF Content
<1>2. Overwritten(c, b, off, k) \in [1 .. n -> Words]
  <2> SUFFICES ASSUME NEW m \in 1 .. n
               PROVE  (IF off < m /\ m <= k THEN b[m]
                       ELSE IF m <= Len(c) THEN c[m] ELSE Hole) \in Words
    BY DEF Overwritten
  <2>1. off < m /\ m <= k => b[m] \in Words
    BY <1>1 DEF Content
  <2>2. m <= Len(c) => c[m] \in Words
    BY <1>1 DEF Content
  <2> QED BY <2>1, <2>2, HoleAssumption
<1> QED BY <1>1, <1>2, AsSeq DEF Content

\* A write after the first off words of b yields the first k of them.
LEMMA OverwrittenPrefix ==
  ASSUME NEW b \in Content, NEW off \in Nat, NEW k \in off + 1 .. Len(b)
  PROVE  Overwritten(SubSeq(b, 1, off), b, off, k) = SubSeq(b, 1, k)
<1>1. k \in Nat /\ Len(b) \in Nat /\ off < k /\ k <= Len(b)
  BY DEF Content
<1>2. /\ Len(SubSeq(b, 1, off)) = off
      /\ \A m \in 1 .. off : SubSeq(b, 1, off)[m] = b[m]
  BY <1>1 DEF Content
<1>3. SubSeq(b, 1, k) = [m \in 1 .. k |-> b[m]]
  BY <1>1 DEF Content
<1>4. Overwritten(SubSeq(b, 1, off), b, off, k) = [m \in 1 .. k |-> b[m]]
  BY <1>1, <1>2 DEF Overwritten
<1> QED BY <1>3, <1>4

-----------------------------------------------------------------------------

\* open finds or makes an inode for .tmp.
LEMMA TmpInodeFacts ==
  ASSUME FileTypeOK, dir.tmp = None => \E i \in Inodes : Free(i)
  PROVE  /\ TmpInode \in Inodes
         /\ dir.tmp = None => Free(TmpInode)
         /\ dir.tmp # None => TmpInode = dir.tmp
<1>1. CASE dir.tmp = None
  BY <1>1 DEF TmpInode
<1>2. CASE dir.tmp # None
  BY <1>2 DEF TmpInode, FileTypeOK, Entries
<1> QED BY <1>1, <1>2

\* A power loss leaves words behind, and of a synced file its content.
LEMMA SurvivorsFacts ==
  ASSUME FileTypeOK, NEW i \in Inodes \cup {None}, NEW s \in Survivors(i)
  PROVE  /\ s \in Content
         /\ i \in Inodes /\ data[i] = safe[i] => s = safe[i]
<1> DEFINE new == IF i = None THEN <<>> ELSE data[i]
           old == IF i = None THEN <<>> ELSE safe[i]
           ends == {n \in Cuts \cup {0, Len(new)} : n <= Len(new)}
           hole(n) == [k \in 1 .. Len(new) |-> IF k <= n THEN new[k] ELSE Hole]
<1>1. new \in Content /\ old \in Content /\ <<>> \in Content
  BY DEF FileTypeOK, Content
<1>2. Survivors(i) = IF new = old THEN {old}
                     ELSE {old} \cup {SubSeq(new, 1, n) : n \in ends}
                               \cup {hole(n) : n \in ends}
  BY DEF Survivors
<1>3. ASSUME NEW n \in ends
      PROVE  SubSeq(new, 1, n) \in Content /\ hole(n) \in Content
  <2>1. Len(new) \in Nat /\ n \in Nat /\ n <= Len(new)
    BY <1>1, CutsAssumption DEF Content
  <2>2. SubSeq(new, 1, n) \in Content
    BY <1>1, <2>1 DEF Content
  <2>3. \A k \in 1 .. Len(new) : new[k] \in Words
    BY <1>1 DEF Content
  <2>4. hole(n) \in [1 .. Len(new) -> Words]
    BY <2>1, <2>3, HoleAssumption
  <2> HIDE DEF new, hole
  <2>5. hole(n) \in Content
    BY <2>1, <2>4, AsSeq DEF Content
  <2> QED BY <2>2, <2>5
<1> HIDE DEF new, old, ends, hole
<1>4. s = old \/ \E n \in ends : s = SubSeq(new, 1, n) \/ s = hole(n)
  BY <1>2
<1>6. s \in Content
  BY <1>1, <1>3, <1>4, Zenon
<1>5. i \in Inodes /\ data[i] = safe[i] => s = safe[i]
  BY <1>2, NoneInodeAssumption DEF new, old
<1> QED BY <1>5, <1>6

\* Every step leaves contents, entries and writers well-formed.
LEMMA TypeStep ==
  ASSUME FileTypeOK, [FileNext]_fileVars
  PROVE  FileTypeOK'
<1> USE DEF FileTypeOK, Entries
<1>0. NoWrite \in [pc  : {"idle", "open", "write", "sync", "rename"},
                   buf : Content, off : Nat, fd : Inodes \cup {None}]
  BY DEF NoWrite, Content
<1>1. ASSUME NEW w \in Writers, NEW b \in Bufs, Begin(w, b)
      PROVE  FileTypeOK'
  BY <1>0, <1>1, BufsAssumption, Zenon DEF Begin, NoWrite, Content
<1>2. ASSUME NEW w \in Writers, Open(w)
      PROVE  FileTypeOK'
  <2>1. TmpInode \in Inodes
    BY <1>2, TmpInodeFacts DEF Open
  <2>2. <<>> \in Content
    BY DEF Content
  <2> QED BY <1>2, <2>1, <2>2, Zenon DEF Open
<1>3. ASSUME NEW w \in Writers, Write(w)
      PROVE  FileTypeOK'
  <2>1. PICK k \in wr[w].off + 1 .. Len(wr[w].buf) :
          /\ data' = [data EXCEPT ![wr[w].fd] =
                        Overwritten(@, wr[w].buf, wr[w].off, k)]
          /\ wr' = [wr EXCEPT ![w] = [@ EXCEPT !.off = k,
                      !.pc = IF k = Len(wr[w].buf) THEN "sync" ELSE "write"]]
    BY <1>3, Zenon DEF Write
  <2>2. wr[w].off \in Nat /\ wr[w].buf \in Content
    OBVIOUS
  <2>3. k \in Nat
    BY <2>2 DEF Content
  <2>4. wr[w].fd \in Inodes =>
          Overwritten(data[wr[w].fd], wr[w].buf, wr[w].off, k) \in Content
    BY <2>2, OverwrittenType
  <2>5. data' \in [Inodes -> Content]
    BY <2>1, <2>4, Zenon
  <2> DEFINE r == [wr[w] EXCEPT !.off = k,
                     !.pc = IF k = Len(wr[w].buf) THEN "sync" ELSE "write"]
  <2>7. r \in [pc  : {"idle", "open", "write", "sync", "rename"},
               buf : Content, off : Nat, fd : Inodes \cup {None}]
    BY <2>3, Zenon
  <2>8. wr' = [wr EXCEPT ![w] = r]
    BY <2>1
  <2>6. wr' \in [Writers -> [pc  : {"idle", "open", "write", "sync", "rename"},
                             buf : Content, off : Nat, fd : Inodes \cup {None}]]
    <3> HIDE DEF r
    <3> QED BY <2>7, <2>8
  <2> QED BY <1>3, <2>5, <2>6 DEF Write
<1>4. ASSUME NEW w \in Writers, Sync(w)
      PROVE  FileTypeOK'
  BY <1>4, Zenon DEF Sync
<1>5. ASSUME NEW w \in Writers, Rename(w)
      PROVE  FileTypeOK'
  BY <1>0, <1>5 DEF Rename
<1>6. ASSUME NEW w \in Writers, Abandon(w)
      PROVE  FileTypeOK'
  BY <1>0, <1>6 DEF Abandon
<1>7. CASE Writeback
  BY <1>7 DEF Writeback
<1>8. CASE PowerLoss
  <2>1. PICK p \in Survivors(ondisk.path), t \in Survivors(ondisk.tmp) :
          data' = [i \in Inodes |-> IF i = ondisk.path THEN p
                                    ELSE IF i = ondisk.tmp THEN t ELSE <<>>]
    BY <1>8 DEF PowerLoss
  <2>2. p \in Content /\ t \in Content
    BY SurvivorsFacts
  <2>3. <<>> \in Content
    BY DEF Content
  <2>4. data' \in [Inodes -> Content]
    BY <2>1, <2>2, <2>3
  <2> QED BY <1>0, <1>8, <2>4 DEF PowerLoss
<1>9. CASE UNCHANGED fileVars
  BY <1>9 DEF fileVars
<1> QED
  BY <1>1, <1>2, <1>3, <1>4, <1>5, <1>6, <1>7, <1>8, <1>9 DEF FileNext, FileStep

\* There is no file at first.
LEMMA FileStarts ==
  FileInit => FileTypeOK /\ StateFileInv
<1>1. FileInit => FileTypeOK
  <2>1. <<>> \in Content
    BY DEF Content
  <2>2. FileInit => data \in [Inodes -> Content] /\ safe \in [Inodes -> Content]
    BY <2>1 DEF FileInit
  <2>3. FileInit => dir \in Entries /\ ondisk \in Entries
    BY DEF FileInit, Entries
  <2>4. FileInit => wr \in [Writers ->
          [pc  : {"idle", "open", "write", "sync", "rename"},
           buf : Content, off : Nat, fd : Inodes \cup {None}]]
    BY <2>1 DEF FileInit, NoWrite
  <2> QED BY <2>2, <2>3, <2>4, Zenon DEF FileInit, FileTypeOK
<1>2. FileInit => StateFileInv
  BY DEF FileInit, StateFileInv, Settled, NoWrite
<1> QED BY <1>1, <1>2

\* Contents, entries and writers are well-formed in every reachable state.
THEOREM FileTyping == FileSpec => []FileTypeOK
<1>1. FileInit => FileTypeOK
  BY FileStarts
<1>2. FileTypeOK /\ [FileNext]_fileVars => FileTypeOK'
  BY TypeStep
<1> QED BY <1>1, <1>2, PTL DEF FileSpec

-----------------------------------------------------------------------------

\* The overlap of two writers is never forgotten.
LEMMA SharedStays ==
  ASSUME FileTypeOK, [FileNext]_fileVars, ~shared'
  PROVE  ~shared
BY Zenon DEF FileTypeOK, FileNext, FileStep, fileVars, Begin, Open, Write, Sync, Rename,
       Abandon, Writeback, PowerLoss

\* Without an overlap one writer at most is at the file.
LEMMA SoleWriter ==
  ASSUME StateFileInv, ~shared, NEW w \in Writers, wr[w].pc # "idle"
  PROVE  WriteOK(w) /\ \A v \in Writers : wr[v].pc # "idle" => v = w
BY DEF StateFileInv, WriteOK

\* Building the bytes touches no file.
LEMMA BeginInv ==
  ASSUME FileTypeOK, StateFileInv, NEW w \in Writers, NEW b \in Bufs, Begin(w, b),
         ~shared'
  PROVE  StateFileInv'
<1>1. \A v \in Writers : wr[v].pc = "idle"
  BY Zenon DEF Begin
<1>2. ~shared
  BY Zenon DEF Begin
<1>3. \A v \in Writers : v # w => wr'[v] = wr[v]
  BY DEF Begin, FileTypeOK
<1>4. wr'[w].pc = "open" /\ wr'[w].buf = b
  BY DEF Begin, FileTypeOK, NoWrite
<1>6. wr'[w].off = 0
  BY DEF Begin, FileTypeOK, NoWrite
<1>5. \A v \in Writers : wr'[v].pc # "idle" => WriteOK(v)'
  BY <1>1, <1>3, <1>4, <1>6 DEF WriteOK
<1> QED BY <1>2, <1>5 DEF StateFileInv, Settled, Begin

\* open empties or makes a .tmp, and no file that the path names.
LEMMA OpenInv ==
  ASSUME FileTypeOK, StateFileInv, NEW w \in Writers, Open(w), ~shared'
  PROVE  StateFileInv'
<1> DEFINE i == TmpInode
<1>1. ~shared /\ wr[w].pc = "open"
  BY DEF Open
<1>2. i \in Inodes /\ i # None
  BY TmpInodeFacts, NoneInodeAssumption DEF Open
<1>3. i \notin {dir.path, ondisk.path}
  BY <1>1, <1>2, TmpInodeFacts DEF Open, Free, StateFileInv
<1> HIDE DEF i
<1>4. /\ dir'.path = dir.path /\ dir'.tmp = i
      /\ ondisk' = ondisk
  BY DEF Open, FileTypeOK, Entries, i
<1>5. /\ data' = [data EXCEPT ![i] = <<>>]
      /\ safe' = safe \/ safe' = [safe EXCEPT ![i] = <<>>]
  BY DEF Open, i
<1>6. \A d \in Inodes : d # i => data'[d] = data[d] /\ safe'[d] = safe[d]
  BY <1>5 DEF FileTypeOK
<1>7. Settled(dir.path)' /\ Settled(ondisk.path)'
  BY <1>1, <1>3, <1>4, <1>6 DEF StateFileInv, Settled, FileTypeOK, Entries
<1>8. /\ WriteOK(w)
      /\ \A v \in Writers : wr[v].pc # "idle" => v = w
  BY <1>1, SoleWriter
<1>9. /\ \A v \in Writers : v # w => wr'[v] = wr[v]
      /\ wr'[w].pc = "write" /\ wr'[w].fd = i
      /\ wr'[w].buf = wr[w].buf /\ wr'[w].off = wr[w].off
  BY DEF Open, FileTypeOK, i
<1>10. /\ wr[w].buf \in Bufs /\ wr[w].off = 0
       /\ Len(wr[w].buf) > 0 /\ wr[w].buf \in Seq(Words)
  BY <1>1, <1>8, BufsAssumption DEF WriteOK
<1>11. data'[i] = SubSeq(wr[w].buf, 1, 0)
  BY <1>2, <1>5, <1>10 DEF FileTypeOK
<1>12. WriteOK(w)'
  BY <1>2, <1>4, <1>8, <1>9, <1>10, <1>11 DEF WriteOK
<1>13. \A v \in Writers : wr'[v].pc # "idle" => WriteOK(v)'
  BY <1>8, <1>9, <1>12
<1> QED BY <1>1, <1>3, <1>4, <1>7, <1>13 DEF StateFileInv

\* write adds to the .tmp and to nothing else.
LEMMA WriteInv ==
  ASSUME FileTypeOK, StateFileInv, NEW w \in Writers, Write(w), ~shared'
  PROVE  StateFileInv'
<1> DEFINE b == wr[w].buf
           i == dir.tmp
<1>1. ~shared /\ wr[w].pc = "write"
  BY DEF Write
<1>2. /\ WriteOK(w)
      /\ \A v \in Writers : wr[v].pc # "idle" => v = w
  BY <1>1, SoleWriter
<1>3. /\ i \in Inodes /\ i # None /\ wr[w].fd = i /\ b \in Bufs
      /\ data[i] = SubSeq(b, 1, wr[w].off)
  BY <1>1, <1>2, NoneInodeAssumption DEF WriteOK
<1>4. i \notin {dir.path, ondisk.path}
  BY <1>1, <1>3 DEF StateFileInv
<1>5. PICK k \in wr[w].off + 1 .. Len(b) :
        /\ data' = [data EXCEPT ![i] = Overwritten(@, b, wr[w].off, k)]
        /\ wr' = [wr EXCEPT ![w] = [@ EXCEPT !.off = k,
                    !.pc = IF k = Len(b) THEN "sync" ELSE "write"]]
  BY <1>3, Zenon DEF Write
<1>6. b \in Content /\ wr[w].off \in Nat
  BY DEF FileTypeOK
<1>7. k \in Nat /\ k <= Len(b) /\ Len(b) \in Nat
  BY <1>6 DEF Content
<1>8. data'[i] = SubSeq(b, 1, k)
  <2>1. data'[i] = Overwritten(data[i], b, wr[w].off, k)
    BY <1>3, <1>5 DEF FileTypeOK
  <2> HIDE DEF b, i
  <2> QED BY <1>3, <1>6, <2>1, OverwrittenPrefix
<1>9. k = Len(b) => SubSeq(b, 1, k) = b
  BY <1>6 DEF Content
<1>10. /\ \A v \in Writers : v # w => wr'[v] = wr[v]
       /\ wr'[w].pc = IF k = Len(b) THEN "sync" ELSE "write"
       /\ wr'[w].fd = wr[w].fd /\ wr'[w].buf = b /\ wr'[w].off = k
  BY <1>5 DEF FileTypeOK
<1>11. \A d \in Inodes : d # i => data'[d] = data[d]
  BY <1>5 DEF FileTypeOK
<1>12. UNCHANGED <<safe, dir, ondisk, shared>>
  BY DEF Write
<1> HIDE DEF b
<1>13. WriteOK(w)'
  BY <1>2, <1>3, <1>7, <1>8, <1>9, <1>10, <1>12 DEF WriteOK
<1>14. \A v \in Writers : wr'[v].pc # "idle" => WriteOK(v)'
  BY <1>2, <1>10, <1>13
<1>15. Settled(dir.path)' /\ Settled(ondisk.path)'
  BY <1>1, <1>4, <1>11, <1>12 DEF StateFileInv, Settled, FileTypeOK, Entries
<1> QED BY <1>1, <1>12, <1>14, <1>15 DEF StateFileInv

\* fsync brings the .tmp to the disk.
LEMMA SyncInv ==
  ASSUME FileTypeOK, StateFileInv, NEW w \in Writers, Sync(w), ~shared'
  PROVE  StateFileInv'
<1> DEFINE i == dir.tmp
<1>1. ~shared /\ wr[w].pc = "sync"
  BY DEF Sync
<1>2. /\ WriteOK(w)
      /\ \A v \in Writers : wr[v].pc # "idle" => v = w
  BY <1>1, SoleWriter
<1>3. /\ i \in Inodes /\ i # None /\ wr[w].fd = i /\ data[i] = wr[w].buf
  BY <1>1, <1>2, NoneInodeAssumption DEF WriteOK
<1>4. i \notin {dir.path, ondisk.path}
  BY <1>1, <1>3 DEF StateFileInv
<1>5. safe'[i] = data[i] /\ \A d \in Inodes : d # i => safe'[d] = safe[d]
  BY <1>3 DEF FileTypeOK, Sync
<1>6. /\ \A v \in Writers : v # w => wr'[v] = wr[v]
      /\ wr'[w].pc = "rename"
      /\ wr'[w].fd = wr[w].fd /\ wr'[w].buf = wr[w].buf
  BY DEF FileTypeOK, Sync
<1>7. UNCHANGED <<data, dir, ondisk, shared>>
  BY DEF Sync
<1>8. WriteOK(w)'
  BY <1>1, <1>2, <1>3, <1>5, <1>6, <1>7 DEF WriteOK
<1>9. \A v \in Writers : wr'[v].pc # "idle" => WriteOK(v)'
  BY <1>2, <1>6, <1>8
<1>10. Settled(dir.path)' /\ Settled(ondisk.path)'
  BY <1>1, <1>4, <1>5, <1>7 DEF StateFileInv, Settled, FileTypeOK, Entries
<1> QED BY <1>1, <1>7, <1>9, <1>10 DEF StateFileInv

\* rename puts a whole and synced file at the path.
LEMMA RenameInv ==
  ASSUME FileTypeOK, StateFileInv, NEW w \in Writers, Rename(w), ~shared'
  PROVE  /\ StateFileInv'
         /\ At(dir, data)' \in Bufs /\ At(ondisk, safe)' = At(ondisk, safe)
<1>1. ~shared /\ wr[w].pc = "rename"
  BY DEF Rename
<1>2. /\ WriteOK(w)
      /\ \A v \in Writers : wr[v].pc # "idle" => v = w
  BY <1>1, SoleWriter
<1>3. /\ dir.tmp # None
      /\ data[dir.tmp] = wr[w].buf /\ safe[dir.tmp] = wr[w].buf /\ wr[w].buf \in Bufs
  BY <1>1, <1>2 DEF WriteOK, Rename
<1>4. /\ dir'.path = dir.tmp /\ dir'.tmp = None
      /\ UNCHANGED <<data, safe, ondisk, shared>>
  BY DEF Rename
<1>5. \A v \in Writers : wr'[v].pc = "idle"
  BY <1>2 DEF Rename, FileTypeOK, NoWrite
<1>6. Settled(dir.path)' /\ Settled(ondisk.path)'
  BY <1>1, <1>3, <1>4 DEF Settled, StateFileInv
<1>7. StateFileInv'
  BY <1>1, <1>4, <1>5, <1>6 DEF StateFileInv
<1> QED BY <1>3, <1>4, <1>7 DEF At

\* A writer that is gone leaves a .tmp that the path does not name.
LEMMA AbandonInv ==
  ASSUME FileTypeOK, StateFileInv, NEW w \in Writers, Abandon(w), ~shared'
  PROVE  StateFileInv'
<1>1. ~shared /\ wr[w].pc # "idle" /\ UNCHANGED <<data, safe, dir, ondisk, shared>>
  BY DEF Abandon
<1>2. \A v \in Writers : wr[v].pc # "idle" => v = w
  BY <1>1, SoleWriter
<1>3. \A v \in Writers : wr'[v].pc = "idle"
  BY <1>2 DEF Abandon, FileTypeOK, NoWrite
<1> QED BY <1>1, <1>3 DEF StateFileInv, Settled

\* The directory reaches the disk with a path that is whole there.
LEMMA WritebackInv ==
  ASSUME FileTypeOK, StateFileInv, Writeback, ~shared'
  PROVE  /\ StateFileInv'
         /\ At(ondisk, safe)' = At(dir, data) /\ At(dir, data)' = At(dir, data)
<1>1. ~shared /\ ondisk' = dir /\ UNCHANGED <<data, safe, dir, wr, shared>>
  BY DEF Writeback
<1>2. \A v \in Writers : WriteOK(v)' = WriteOK(v)
  BY <1>1 DEF WriteOK
<1>3. StateFileInv'
  BY <1>1, <1>2 DEF StateFileInv, Settled
<1> QED BY <1>1, <1>3 DEF StateFileInv, Settled, At

\* A power loss brings back the path of the disk, and its content is whole.
LEMMA PowerLossInv ==
  ASSUME FileTypeOK, StateFileInv, PowerLoss, ~shared'
  PROVE  /\ StateFileInv'
         /\ At(dir, data)' = At(ondisk, safe) /\ At(ondisk, safe)' = At(ondisk, safe)
<1>1. /\ ~shared /\ safe' = data' /\ dir' = ondisk
      /\ UNCHANGED <<ondisk, shared>>
  BY DEF PowerLoss
<1>2. PICK p \in Survivors(ondisk.path), t \in Survivors(ondisk.tmp) :
        data' = [i \in Inodes |-> IF i = ondisk.path THEN p
                                  ELSE IF i = ondisk.tmp THEN t ELSE <<>>]
  BY DEF PowerLoss
<1>3. ondisk.path \in Inodes \cup {None}
  BY DEF FileTypeOK, Entries
<1>4. ondisk.path # None => /\ data[ondisk.path] \in Bufs
                            /\ data[ondisk.path] = safe[ondisk.path]
  BY <1>1 DEF StateFileInv, Settled
<1>5. ondisk.path # None => p = safe[ondisk.path]
  BY <1>3, <1>4, SurvivorsFacts
<1>6. ondisk.path # None => data'[ondisk.path] = safe[ondisk.path]
  BY <1>2, <1>3, <1>5
<1>7. Settled(dir.path)' /\ Settled(ondisk.path)'
  BY <1>1, <1>4, <1>6 DEF Settled
<1>8. \A v \in Writers : wr'[v].pc = "idle"
  BY DEF PowerLoss, NoWrite
<1>9. StateFileInv'
  BY <1>1, <1>7, <1>8 DEF StateFileInv
<1> QED BY <1>1, <1>6, <1>9 DEF At

-----------------------------------------------------------------------------

\* StateFileInv is inductive.
LEMMA InvStep ==
  ASSUME FileTypeOK, StateFileInv, [FileNext]_fileVars
  PROVE  StateFileInv'
<1>1. CASE shared'
  BY <1>1 DEF StateFileInv
<1>2. CASE ~shared'
  <2>1. CASE UNCHANGED fileVars
    BY <2>1 DEF fileVars, StateFileInv, Settled, WriteOK
  <2> QED
    BY <1>2, <2>1, BeginInv, OpenInv, WriteInv, SyncInv, RenameInv, AbandonInv,
       WritebackInv, PowerLossInv DEF FileNext, FileStep
<1> QED BY <1>1, <1>2

\* No state file is ever the .tmp of a write, and none gets to the path, here
\* or on the disk, before it is whole and synced (checkpoint.cpp:79-105).
THEOREM FileSafe == FileSpec => []StateFileInv
<1>1. FileInit => StateFileInv
  BY FileStarts
<1>2. FileTypeOK /\ StateFileInv /\ [FileNext]_fileVars => StateFileInv'
  BY InvStep
<1> QED BY <1>1, <1>2, FileTyping, PTL DEF FileSpec

\* Opening, writing and syncing are not seen at the path.
LEMMA HiddenStep ==
  ASSUME FileTypeOK, StateFileInv, ~shared, NEW w \in Writers,
         Open(w) \/ Write(w) \/ Sync(w)
  PROVE  At(dir, data)' = At(dir, data) /\ At(ondisk, safe)' = At(ondisk, safe)
<1>1. dir'.path = dir.path /\ ondisk' = ondisk
  BY Zenon DEF Open, Write, Sync, FileTypeOK, Entries
<1>2. CASE Open(w)
  <2> DEFINE i == TmpInode
  <2>1. i \in Inodes /\ i # None
    BY <1>2, TmpInodeFacts, NoneInodeAssumption DEF Open
  <2>2. i \notin {dir.path, ondisk.path}
    BY <1>2, <2>1, TmpInodeFacts DEF Open, Free, StateFileInv
  <2> HIDE DEF i
  <2>3. /\ data' = [data EXCEPT ![i] = <<>>]
        /\ safe' = safe \/ safe' = [safe EXCEPT ![i] = <<>>]
    BY <1>2 DEF Open, i
  <2> QED BY <1>1, <2>2, <2>3 DEF At, FileTypeOK, Entries
<1>3. CASE Write(w) \/ Sync(w)
  <2>1. WriteOK(w) /\ wr[w].pc \in {"write", "sync"}
    BY <1>3, SoleWriter, Zenon DEF Write, Sync
  <2>2. wr[w].fd \in Inodes /\ wr[w].fd \notin {dir.path, ondisk.path}
    BY <2>1, NoneInodeAssumption DEF WriteOK, StateFileInv
  <2>3. \A d \in Inodes : d # wr[w].fd => data'[d] = data[d] /\ safe'[d] = safe[d]
    BY <1>3, Zenon DEF Write, Sync, FileTypeOK
  <2> QED BY <1>1, <2>2, <2>3 DEF At, FileTypeOK, Entries
<1> QED BY <1>2, <1>3

\* Every call of write_state and every fault is one step of AtomicFile, or none.
LEMMA AtomicStep ==
  ASSUME FileTypeOK, StateFileInv, [FileNext]_fileVars
  PROVE  [Atomic!Put \/ Atomic!Flush \/ Atomic!Revert \/ Atomic!Mixed]_
           <<At(dir, data), At(ondisk, safe), shared>>
<1> USE DEF Atomic!Put, Atomic!Flush, Atomic!Revert, Atomic!Mixed
<1>1. CASE shared'
  BY <1>1 DEF FileTypeOK
<1>2. CASE ~shared'
  <2>0. ~shared /\ shared' = shared
    BY <1>2, SharedStays, TypeStep DEF FileTypeOK
  <2>1. ASSUME NEW w \in Writers, NEW b \in Bufs, Begin(w, b)
        PROVE  UNCHANGED <<At(dir, data), At(ondisk, safe)>>
    BY <2>1 DEF Begin, At
  <2>2. ASSUME NEW w \in Writers, Open(w) \/ Write(w) \/ Sync(w)
        PROVE  UNCHANGED <<At(dir, data), At(ondisk, safe)>>
    BY <2>0, <2>2, HiddenStep
  <2>3. ASSUME NEW w \in Writers, Rename(w)
        PROVE  At(dir, data)' \in Bufs /\ At(ondisk, safe)' = At(ondisk, safe)
    BY <1>2, <2>3, RenameInv
  <2>4. ASSUME NEW w \in Writers, Abandon(w)
        PROVE  UNCHANGED <<At(dir, data), At(ondisk, safe)>>
    BY <2>4 DEF Abandon, At
  <2>5. Writeback => Atomic!Flush
    BY <1>2, <2>0, WritebackInv
  <2>6. PowerLoss => Atomic!Revert
    BY <1>2, <2>0, PowerLossInv
  <2>7. UNCHANGED fileVars => UNCHANGED <<At(dir, data), At(ondisk, safe)>>
    BY DEF fileVars, At
  <2> QED BY <2>0, <2>1, <2>2, <2>3, <2>4, <2>5, <2>6, <2>7 DEF FileNext, FileStep
<1> QED BY <1>1, <1>2, Zenon

\* write_state is atomic (checkpoint.h), with its calls interleaved with the
\* file system, kills, failures and power losses: it implements AtomicFile.
THEOREM FileRefinement == FileSpec => FileIsAtomic
<1>1. FileInit => Atomic!Init
  BY DEF FileInit, Atomic!Init, At
<1>2. FileTypeOK /\ StateFileInv /\ [FileNext]_fileVars =>
        [Atomic!Put \/ Atomic!Flush \/ Atomic!Revert \/ Atomic!Mixed]_
          <<At(dir, data), At(ondisk, safe), shared>>
  BY AtomicStep
<1> QED
  BY <1>1, <1>2, FileTyping, FileSafe, PTL DEF FileSpec, FileIsAtomic, Atomic!Spec

-----------------------------------------------------------------------------
(* The states of a job.                                                    *)

\* The states on the way, and the states a worker of this job can have.
OnTheWay(k) == {Reference(k, Limit[k], n) : n \in Cursors(k, Limit[k])}
States(k) == {Fresh(k, Limit[k])} \cup OnTheWay(k)

\* What the processes need to know of the computations and of the format: a
\* loop starts on the way and stays there, files of states on the way are
\* read as they were written, and no other file is read.
WayOK ==
  \A k \in Types :
    /\ Entered(k, Fresh(k, Limit[k])) \in OnTheWay(k)
    /\ \A s \in OnTheWay(k) : /\ Encode(k, s) \in Bufs /\ Entered(k, s) = s
                              /\ More(k, s) => Body(k, s) \in OnTheWay(k)
    /\ \A c \in Content : ReadState(k, c, Bad) # Bad =>
                             ReadState(k, c, Bad) \in OnTheWay(k)

-----------------------------------------------------------------------------
(* The inductive invariant.                                                *)

Procs(k) ==
  [pc : {"none", "boot", "loop", "save", "completed", "dead"}, resume : BOOLEAN,
   st : States(k), since : 0 .. Every[k], last : BOOLEAN]

\* Process p of a job of type k, where it is in write_state being x, has a
\* state on the way, writes that state, and ends only after the last one.
ProcOK(k, p, x) ==
  /\ p \in Procs(k)
  /\ p.pc \in {"none", "boot"} => p.st = Fresh(k, Limit[k]) /\ p.since = 0
  /\ p.pc \in {"loop", "save", "completed"} => p.st \in OnTheWay(k)
  /\ p.last => p.pc \in {"save", "completed", "dead"} /\ ~More(k, p.st)
  /\ p.pc = "completed" => p.last
  /\ x.pc # "idle" => p.pc = "save" /\ x.buf = Encode(k, p.st)

ProcInv ==
  /\ kind \in Types
  /\ proc \in [Writers -> Procs(kind)]
  /\ row \in BOOLEAN /\ printed \in BOOLEAN /\ overlap \in BOOLEAN
  /\ losses \in 0 .. MaxLosses
  /\ \A w \in Writers : ProcOK(kind, proc[w], wr[w])

\* w runs or has run to its end.
Running(w) == proc[w].pc \in {"boot", "loop", "save", "completed"}

\* Without an overlap one worker at most is at it, and none after the end.
AloneInv ==
  ~overlap =>
    /\ ~shared
    /\ \A v, w \in Writers : v # w /\ Active(v) => ~Running(w)

\* w has written its state, and not gone on.
Saved(w) == proc[w].pc \in {"save", "completed"} /\ wr[w].pc = "idle"

\* The path is there from the first state on; what is there is the file of a
\* state on the way, and that of the last state written.
PathInv ==
  losses = 0 =>
    /\ row \/ (\E w \in Writers : Saved(w)) => dir.path # None
    /\ ~shared /\ dir.path # None =>
         \E s \in OnTheWay(kind) : At(dir, data) = Encode(kind, s)
    /\ ~overlap => \A w \in Writers : Saved(w) =>
         At(dir, data) = Encode(kind, proc[w].st)

RunInv == FileTypeOK /\ StateFileInv /\ ProcInv /\ AloneInv /\ PathInv

-----------------------------------------------------------------------------
(* A job's workers do with the file what StateFile says.                   *)

\* Every write_state of a worker writes one of the files of the job.
LEMMA RunIsFile ==
  ASSUME WayOK, ProcInv, [Next]_vars
  PROVE  [FileNext]_fileVars
<1>0. kind \in Types
  BY DEF ProcInv
<1>1. ASSUME NEW w \in Writers, NEW s \in OnTheWay(kind), Begin(w, Encode(kind, s))
      PROVE  FileNext
  <2>1. Encode(kind, s) \in Bufs
    BY <1>0, Zenon DEF WayOK
  <2> QED BY <1>1, <2>1, Zenon DEF FileNext
<1>2. ASSUME NEW w \in Writers, proc[w].pc = "loop" PROVE proc[w].st \in OnTheWay(kind)
  BY <1>2 DEF ProcInv, ProcOK
<1>3. ASSUME NEW w \in Writers, Launch(w) PROVE UNCHANGED fileVars
  BY <1>3, Zenon DEF Launch
<1>4. ASSUME NEW w \in Writers, Boot(w) PROVE UNCHANGED fileVars
  BY <1>4, Zenon DEF Boot
<1>5. ASSUME NEW w \in Writers, Loop(w) PROVE FileNext \/ UNCHANGED fileVars
  <2>1. proc[w].pc = "loop" /\ More(kind, proc[w].st)
    BY <1>5, Zenon DEF Loop
  <2>2. Body(kind, proc[w].st) \in OnTheWay(kind)
    BY <1>0, <1>2, <2>1, Zenon DEF WayOK
  <2>3. Begin(w, Encode(kind, Body(kind, proc[w].st))) \/ UNCHANGED fileVars
    BY <1>5, Zenon DEF Loop
  <2> QED BY <1>1, <2>2, <2>3, Zenon
<1>6. ASSUME NEW w \in Writers, Finish(w) PROVE FileNext
  <2>1. proc[w].pc = "loop" /\ Begin(w, Encode(kind, proc[w].st))
    BY <1>6, Zenon DEF Finish
  <2> QED BY <1>1, <1>2, <2>1, Zenon
<1>7. ASSUME NEW w \in Writers, Save(w) PROVE FileNext
  BY <1>7, Zenon DEF Save, FileNext
<1>8. ASSUME NEW w \in Writers, SaveFails(w) PROVE FileNext
  BY <1>8, Zenon DEF SaveFails, FileNext
<1>9. ASSUME NEW w \in Writers, Emit(w) PROVE UNCHANGED fileVars
  BY <1>9, Zenon DEF Emit
<1>10. ASSUME NEW w \in Writers, Die(w) PROVE FileNext \/ UNCHANGED fileVars
  BY <1>10, Zenon DEF Die, FileNext
<1>11. ASSUME Writeback PROVE FileNext
  BY <1>11, Zenon DEF FileNext
<1>12. ASSUME Blackout PROVE FileNext
  BY <1>12, Zenon DEF Blackout, FileNext
<1>13. ASSUME UNCHANGED vars PROVE UNCHANGED fileVars
  BY <1>13 DEF vars, fileVars
<1> QED
  BY <1>3, <1>4, <1>5, <1>6, <1>7, <1>8, <1>9, <1>10, <1>11, <1>12, <1>13, Zenon
  DEF Next, WorkerStep

-----------------------------------------------------------------------------
(* Processes.                                                              *)

\* One process changes to q.
LEMMA ProcChange ==
  ASSUME ProcInv, NEW w \in Writers, NEW q \in Procs(kind),
         proc' = [proc EXCEPT ![w] = q]
  PROVE  /\ proc' \in [Writers -> Procs(kind)] /\ proc'[w] = q
         /\ \A v \in Writers : v # w => proc'[v] = proc[v]
<1> DEFINE P == Procs(kind)
<1>1. proc \in [Writers -> P] /\ q \in P
  BY Zenon DEF ProcInv
<1> HIDE DEF P
<1>2. /\ proc' \in [Writers -> P] /\ proc'[w] = q
      /\ \A v \in Writers : v # w => proc'[v] = proc[v]
  BY <1>1
<1> QED BY <1>2, Zenon DEF P

\* A step of w, and of the file, keeps the invariant if the new process of w
\* is right and nobody else's write changes.
LEMMA ProcStep ==
  ASSUME ProcInv, kind' = kind, NEW w \in Writers, NEW q, ProcOK(kind, q, wr'[w]),
         proc' = [proc EXCEPT ![w] = q],
         \A v \in Writers : v # w => wr'[v] = wr[v],
         row' \in BOOLEAN, printed' \in BOOLEAN, overlap' \in BOOLEAN,
         losses' \in 0 .. MaxLosses
  PROVE  ProcInv'
<1>1. q \in Procs(kind)
  BY Zenon DEF ProcOK
<1>2. /\ proc' \in [Writers -> Procs(kind)] /\ proc'[w] = q
      /\ \A v \in Writers : v # w => proc'[v] = proc[v]
  BY <1>1, ProcChange, Zenon
<1>3. \A v \in Writers : ProcOK(kind, proc'[v], wr'[v])
  BY <1>2, Zenon DEF ProcInv
<1>4. \A v \in Writers : ProcOK(kind, proc[v], wr[v])' = ProcOK(kind', proc'[v], wr'[v])
  BY Zenon DEF ProcOK, Procs, States, OnTheWay
<1>5. kind' \in Types /\ proc' \in [Writers -> Procs(kind)']
  BY <1>2 DEF ProcInv, Procs, States, OnTheWay
<1> QED BY <1>3, <1>4, <1>5, Zenon DEF ProcInv

\* The fields of a process.
LEMMA ProcFields ==
  ASSUME ProcInv, NEW w \in Writers
  PROVE  /\ kind \in Types /\ ProcOK(kind, proc[w], wr[w]) /\ proc[w] \in Procs(kind)
         /\ proc[w].pc \in {"none", "boot", "loop", "save", "completed", "dead"}
         /\ proc[w].st \in States(kind) /\ proc[w].since \in 0 .. Every[kind]
         /\ proc[w].last \in BOOLEAN /\ proc[w].resume \in BOOLEAN
<1>1. kind \in Types /\ ProcOK(kind, proc[w], wr[w]) /\ proc[w] \in Procs(kind)
  BY Zenon DEF ProcInv, ProcOK
<1> DEFINE S == States(kind)
           E == 0 .. Every[kind]
           p == proc[w]
<1> HIDE DEF S, E, p
<1>2. p \in [pc : {"none", "boot", "loop", "save", "completed", "dead"},
             resume : BOOLEAN, st : S, since : E, last : BOOLEAN]
  BY <1>1, Zenon DEF Procs, S, E, p
<1>3. /\ p.pc \in {"none", "boot", "loop", "save", "completed", "dead"}
      /\ p.st \in S /\ p.since \in E /\ p.last \in BOOLEAN /\ p.resume \in BOOLEAN
  BY <1>2
<1> QED BY <1>1, <1>3, Zenon DEF S, E, p

\* q has these fields.
HasFields(q, k, pc, r, st, since, last) ==
  /\ q \in Procs(k) /\ q.pc = pc /\ q.resume = r /\ q.st = st /\ q.since = since
  /\ q.last = last

\* The fields of a process when some of them change.
LEMMA ProcExcept ==
  ASSUME NEW k, NEW p \in Procs(k),
         NEW c \in {"none", "boot", "loop", "save", "completed", "dead"},
         NEW s \in States(k), NEW e \in 0 .. Every[k], NEW b \in BOOLEAN
  PROVE  /\ HasFields([p EXCEPT !.pc = c], k, c, p.resume, p.st, p.since, p.last)
         /\ HasFields([p EXCEPT !.pc = c, !.st = s], k, c, p.resume, s, p.since, p.last)
         /\ HasFields([p EXCEPT !.st = s, !.since = e, !.pc = c],
                      k, c, p.resume, s, e, p.last)
         /\ HasFields([p EXCEPT !.st = s, !.since = e], k, p.pc, p.resume, s, e, p.last)
         /\ HasFields([p EXCEPT !.pc = c, !.last = b], k, c, p.resume, p.st, p.since, b)
<1> DEFINE S == States(k)
           E == 0 .. Every[k]
           P == [pc : {"none", "boot", "loop", "save", "completed", "dead"},
                 resume : BOOLEAN, st : S, since : E, last : BOOLEAN]
<1>1. Procs(k) = P /\ p \in P /\ s \in S /\ e \in E
  BY Zenon DEF Procs
<1> HIDE DEF S, E
<1>2. LET q == [p EXCEPT !.pc = c] IN
      /\ q \in P /\ q.pc = c /\ q.resume = p.resume /\ q.st = p.st /\ q.since = p.since
      /\ q.last = p.last
  BY <1>1
<1>3. LET q == [p EXCEPT !.pc = c, !.st = s] IN
      /\ q \in P /\ q.pc = c /\ q.resume = p.resume /\ q.st = s /\ q.since = p.since
      /\ q.last = p.last
  BY <1>1, Zenon
<1>4. LET q == [p EXCEPT !.st = s, !.since = e, !.pc = c] IN
      /\ q \in P /\ q.pc = c /\ q.resume = p.resume /\ q.st = s /\ q.since = e
      /\ q.last = p.last
  BY <1>1, Zenon
<1>5. LET q == [p EXCEPT !.st = s, !.since = e] IN
      /\ q \in P /\ q.pc = p.pc /\ q.resume = p.resume /\ q.st = s /\ q.since = e
      /\ q.last = p.last
  BY <1>1, Zenon
<1>6. LET q == [p EXCEPT !.pc = c, !.last = b] IN
      /\ q \in P /\ q.pc = c /\ q.resume = p.resume /\ q.st = p.st /\ q.since = p.since
      /\ q.last = b
  BY <1>1, Zenon
<1> HIDE DEF P
<1> QED BY <1>1, <1>2, <1>3, <1>4, <1>5, <1>6, Zenon DEF HasFields

\* A process that was not launched.
LEMMA NoProcFields ==
  ASSUME NEW k \in Types
  PROVE  HasFields(NoProc(k), k, "none", FALSE, Fresh(k, Limit[k]), 0, FALSE)
<1> DEFINE S == States(k)
           E == 0 .. Every[k]
           P == [pc : {"none", "boot", "loop", "save", "completed", "dead"},
                 resume : BOOLEAN, st : S, since : E, last : BOOLEAN]
           f == FALSE
           s == Fresh(k, Limit[k])
           p == [pc |-> "none", resume |-> f, st |-> s, since |-> 0, last |-> f]
<1>1. Procs(k) = P /\ NoProc(k) = p
  BY Zenon DEF Procs, NoProc
<1>2. s \in S
  BY Zenon DEF States
<1>3. 0 \in E
  BY LimitAssumption
<1>4. f \in BOOLEAN
  BY Zenon
<1> HIDE DEF S, E, f, s
<1>5. /\ p \in P /\ p.pc = "none" /\ p.resume = f /\ p.st = s /\ p.since = 0 /\ p.last = f
  BY <1>2, <1>3, <1>4
<1> HIDE DEF p, P
<1> QED BY <1>1, <1>5, Zenon DEF HasFields, f, s

\* If nobody starts, nobody comes to be beside another.
LEMMA AloneStep ==
  ASSUME AloneInv, overlap' = overlap, shared' => shared \/ overlap,
         \A w \in Writers : (Active(w)' => Active(w)) /\ (Running(w)' => Running(w))
  PROVE  AloneInv'
<1> SUFFICES ASSUME ~overlap' PROVE AloneInv'
  BY Zenon DEF AloneInv
<1>1. ~overlap /\ ~shared /\ \A v, w \in Writers : v # w /\ Active(v) => ~Running(w)
  BY Zenon DEF AloneInv
<1>2. ~shared'
  BY <1>1, Zenon
<1>3. \A v, w \in Writers : v # w /\ Active(v)' => ~(Running(w)')
  BY <1>1, Zenon
<1> QED BY <1>2, <1>3, Zenon DEF AloneInv

\* A step that leaves the path, as seen, alone, and after which only those
\* have written their state that had done so before.
LEMMA PathStep ==
  ASSUME RunInv, kind' = kind, losses' = losses, overlap => overlap', shared => shared',
         row' => row \/ \E w \in Writers : Saved(w),
         dir'.path = dir.path, ~shared => At(dir, data)' = At(dir, data),
         \A w \in Writers : Saved(w)' => Saved(w) /\ proc'[w].st = proc[w].st
  PROVE  PathInv'
<1> SUFFICES ASSUME losses' = 0 PROVE PathInv'
  BY Zenon DEF PathInv
<1>1. PathInv /\ AloneInv /\ losses = 0
  BY Zenon DEF RunInv
<1>2. row' \/ (\E w \in Writers : Saved(w)') => dir'.path # None
  BY <1>1, Zenon DEF PathInv
<1>3. ASSUME ~shared', dir'.path # None
      PROVE  \E s \in OnTheWay(kind)' : At(dir, data)' = Encode(kind, s)'
  <2>1. ~shared /\ dir.path # None
    BY <1>3, Zenon
  <2>2. PICK s \in OnTheWay(kind) : At(dir, data) = Encode(kind, s)
    BY <1>1, <2>1, Zenon DEF PathInv
  <2>3. At(dir, data)' = Encode(kind, s)
    BY <2>1, <2>2, Zenon
  <2>4. OnTheWay(kind)' = OnTheWay(kind)
    BY Zenon DEF OnTheWay
  <2> QED BY <2>2, <2>3, <2>4, Zenon
<1>4. ASSUME ~overlap', NEW w \in Writers, Saved(w)'
      PROVE  At(dir, data)' = Encode(kind, proc[w].st)'
  <2>1. ~overlap /\ ~shared /\ Saved(w) /\ proc'[w].st = proc[w].st
    BY <1>1, <1>4, Zenon DEF AloneInv
  <2>2. At(dir, data) = Encode(kind, proc[w].st)
    BY <1>1, <2>1, Zenon DEF PathInv
  <2> QED BY <2>1, <2>2, Zenon
<1> QED BY <1>2, <1>3, <1>4, Zenon DEF PathInv

-----------------------------------------------------------------------------
(* One lemma for each action.                                              *)

\* A step of process w that leaves the files alone.
LEMMA ProcessStep ==
  ASSUME RunInv, kind' = kind, losses' = losses, overlap' = overlap, dir' = dir,
         data' = data, NEW w \in Writers, Active(w), NEW q, ProcOK(kind, q, wr'[w]),
         proc' = [proc EXCEPT ![w] = q], \A v \in Writers : v # w => wr'[v] = wr[v],
         row' \in BOOLEAN, printed' \in BOOLEAN, row' => row \/ Saved(w),
         shared => shared', shared' => shared \/ overlap,
         q.pc \in {"save", "completed"} /\ wr'[w].pc = "idle" =>
           Saved(w) /\ q.st = proc[w].st
  PROVE  ProcInv' /\ AloneInv' /\ PathInv'
<1>1. ProcInv /\ AloneInv
  BY Zenon DEF RunInv
<1>2. overlap \in BOOLEAN /\ losses \in 0 .. MaxLosses
  BY <1>1, Zenon DEF ProcInv
<1>3. ProcInv'
  BY <1>1, <1>2, ProcStep, Zenon
<1>4. q \in Procs(kind)
  BY Zenon DEF ProcOK
<1>5. proc'[w] = q /\ \A v \in Writers : v # w => proc'[v] = proc[v]
  BY <1>1, <1>4, ProcChange, Zenon
<1>6. AloneInv'
  <2>1. Running(w)
    BY DEF Active, Running
  <2>2. ASSUME NEW v \in Writers PROVE (Active(v)' => Active(v)) /\ (Running(v)' => Running(v))
    <3>1. CASE v = w
      BY <2>1, <3>1, Zenon
    <3>2. CASE v # w
      BY <1>5, <3>2, Zenon DEF Active, Running
    <3> QED BY <3>1, <3>2, Zenon
  <2> QED BY <1>1, <2>2, AloneStep, Zenon
<1>7. PathInv'
  <2>1. ASSUME NEW v \in Writers, Saved(v)' PROVE Saved(v) /\ proc'[v].st = proc[v].st
    <3>1. CASE v = w
      BY <1>5, <2>1, <3>1, Zenon DEF Saved
    <3>2. CASE v # w
      BY <1>5, <2>1, <3>2, Zenon DEF Saved
    <3> QED BY <3>1, <3>2, Zenon
  <2>2. At(dir, data)' = At(dir, data) /\ dir'.path = dir.path
    BY Zenon DEF At
  <2>3. row' => row \/ \E v \in Writers : Saved(v)
    BY Zenon
  <2> QED BY <2>1, <2>2, <2>3, PathStep, Zenon
<1> QED BY <1>3, <1>6, <1>7, Zenon

\* Launch: the record is fresh, and an overlap is noted.
LEMMA LaunchStep ==
  ASSUME RunInv, NEW w \in Writers, Launch(w)
  PROVE  ProcInv' /\ AloneInv' /\ PathInv'
<1> DEFINE fresh == \A v \in Writers : proc[v].pc = "none"
           r == ~fresh
           n == NoProc(kind)
           q == [n EXCEPT !.pc = "boot", !.resume = r]
<1>1. ProcInv /\ AloneInv /\ kind \in Types
  BY Zenon DEF RunInv, ProcInv
<1>2. /\ proc[w].pc = "none" /\ (\A v \in Writers : proc[v].pc # "completed")
      /\ proc' = [proc EXCEPT ![w] = q]
      /\ overlap' = (overlap \/ \E v \in Writers : Active(v))
      /\ fileVars' = fileVars /\ kind' = kind /\ row' = row /\ printed' = printed
      /\ losses' = losses
  BY DEF Launch
<1>3. /\ data' = data /\ dir' = dir /\ wr' = wr /\ shared' = shared
  BY <1>2 DEF fileVars
<1>4. HasFields(q, kind, "boot", r, Fresh(kind, Limit[kind]), 0, FALSE)
  <2> DEFINE S == States(kind)
             E == 0 .. Every[kind]
             P == [pc : {"none", "boot", "loop", "save", "completed", "dead"},
                   resume : BOOLEAN, st : S, since : E, last : BOOLEAN]
             s == Fresh(kind, Limit[kind])
             f == FALSE
  <2>1. Procs(kind) = P
    BY Zenon DEF Procs
  <2>2. n \in P /\ n.st = s /\ n.since = 0 /\ n.last = f
    BY <1>1, <2>1, NoProcFields, Zenon DEF HasFields
  <2>3. r \in BOOLEAN
    BY Zenon
  <2> HIDE DEF S, E, r, n, s, f
  <2>4. /\ q \in P /\ q.pc = "boot" /\ q.resume = r /\ q.st = s /\ q.since = 0
        /\ q.last = f
    BY <2>2, <2>3, Zenon
  <2> HIDE DEF q, P
  <2> QED BY <2>1, <2>4, Zenon DEF HasFields, s, f
<1> HIDE DEF q, r, n
<1>5. /\ q \in Procs(kind) /\ q.pc = "boot" /\ q.st = Fresh(kind, Limit[kind])
      /\ q.since = 0 /\ ~q.last
  BY <1>4, Zenon DEF HasFields
<1>6. wr[w].pc = "idle"
  <2>1. ProcOK(kind, proc[w], wr[w])
    BY <1>1, Zenon DEF ProcInv
  <2> QED BY <1>2, <2>1 DEF ProcOK
<1>7. ProcOK(kind, q, wr'[w])
  BY <1>3, <1>5, <1>6 DEF ProcOK
<1>8. proc'[w] = q /\ \A v \in Writers : v # w => proc'[v] = proc[v]
  BY <1>1, <1>2, <1>5, ProcChange, Zenon
<1>9. ProcInv'
  <2>1. row \in BOOLEAN /\ printed \in BOOLEAN /\ losses \in 0 .. MaxLosses
    BY <1>1, Zenon DEF ProcInv
  <2>2. overlap' \in BOOLEAN
    BY <1>2, Zenon
  <2> QED BY <1>1, <1>2, <1>3, <1>7, <2>1, <2>2, ProcStep, Zenon
<1>10. AloneInv'
  <2> SUFFICES ASSUME ~overlap' PROVE AloneInv'
    BY Zenon DEF AloneInv
  <2>1. ~overlap /\ \A v \in Writers : ~Active(v)
    BY <1>2, Zenon
  <2>2. ~shared'
    BY <1>1, <1>3, <2>1, Zenon DEF AloneInv
  <2>3. ASSUME NEW v \in Writers, v # w PROVE ~(Active(v)') /\ ~(Running(v)')
    <3>1. proc'[v].pc = proc[v].pc /\ proc[v].pc # "completed" /\ ~Active(v)
      BY <1>2, <1>8, <2>1, <2>3, Zenon
    <3> QED BY <3>1 DEF Active, Running
  <2>4. \A u, v \in Writers : u # v /\ Active(u)' => ~(Running(v)')
    BY <2>3, Zenon
  <2> QED BY <2>2, <2>4, Zenon DEF AloneInv
<1>11. PathInv'
  <2>1. ASSUME NEW v \in Writers, Saved(v)' PROVE Saved(v) /\ proc'[v].st = proc[v].st
    <3>1. v # w
      BY <1>5, <1>8, <2>1 DEF Saved
    <3> QED BY <1>3, <1>8, <2>1, <3>1, Zenon DEF Saved
  <2>2. At(dir, data)' = At(dir, data) /\ dir'.path = dir.path
    BY <1>3, Zenon DEF At
  <2>3. (overlap => overlap') /\ (shared => shared') /\ (row' => row)
    BY <1>2, <1>3, Zenon
  <2> QED BY <1>2, <2>1, <2>2, <2>3, PathStep, Zenon
<1> QED BY <1>9, <1>10, <1>11, Zenon

\* What a process in the course of its run has.
LEMMA ActiveFacts ==
  ASSUME RunInv, NEW w \in Writers
  PROVE  LET p == proc[w] IN
         /\ kind \in Types /\ ProcInv /\ ProcOK(kind, p, wr[w]) /\ p \in Procs(kind)
         /\ p.st \in States(kind) /\ p.since \in 0 .. Every[kind] /\ Every[kind] \in Nat
         /\ p.pc \in {"boot", "loop"} => ~p.last /\ wr[w].pc = "idle"
         /\ p.pc \in {"loop", "save", "completed"} => p.st \in OnTheWay(kind)
         /\ p.pc = "boot" => p.st = Fresh(kind, Limit[kind])
         /\ p.last => ~More(kind, p.st)
         /\ row \in BOOLEAN /\ printed \in BOOLEAN
<1>1. ProcInv
  BY Zenon DEF RunInv
<1>2. /\ kind \in Types /\ ProcOK(kind, proc[w], wr[w]) /\ proc[w] \in Procs(kind)
      /\ proc[w].st \in States(kind) /\ proc[w].since \in 0 .. Every[kind]
  BY <1>1, ProcFields, Zenon
<1>3. row \in BOOLEAN /\ printed \in BOOLEAN
  BY <1>1, Zenon DEF ProcInv
<1>4. Every[kind] \in Nat
  BY <1>2, LimitAssumption, Zenon
<1> DEFINE p == proc[w]
<1>5. /\ p.pc \in {"boot", "loop"} => ~p.last /\ wr[w].pc = "idle"
      /\ p.pc \in {"loop", "save", "completed"} => p.st \in OnTheWay(kind)
      /\ p.pc = "boot" => p.st = Fresh(kind, Limit[kind])
      /\ p.last => ~More(kind, p.st)
  <2> HIDE DEF p
  <2>1. ProcOK(kind, p, wr[w])
    BY <1>2, Zenon DEF p
  <2> QED BY <2>1 DEF ProcOK
<1> QED BY <1>1, <1>2, <1>3, <1>4, <1>5, Zenon

\* A process in its loop with a state on the way, and nothing being written.
LEMMA InLoop ==
  ASSUME NEW k \in Types, NEW q, NEW r, NEW s \in OnTheWay(k), NEW e, NEW x,
         HasFields(q, k, "loop", r, s, e, FALSE), x.pc = "idle"
  PROVE  ProcOK(k, q, x)
BY DEF HasFields, ProcOK

\* A process that is gone, or being killed.
LEMMA GoneOK ==
  ASSUME NEW k, NEW q, NEW r, NEW s, NEW e, NEW l, NEW x,
         HasFields(q, k, "dead", r, s, e, l), l => ~More(k, s), x.pc = "idle"
  PROVE  ProcOK(k, q, x)
BY DEF HasFields, ProcOK

\* Boot: from a fresh start, or from a file that is read.
LEMMA BootStep ==
  ASSUME WayOK, RunInv, NEW w \in Writers, Boot(w)
  PROVE  ProcInv' /\ AloneInv' /\ PathInv'
<1> DEFINE p == proc[w]
           c == At(dir, data)
           st == IF c = None THEN Bad ELSE ReadState(kind, c, Bad)
           enter(s) == [p EXCEPT !.pc = "loop", !.st = s]
           gone == [p EXCEPT !.pc = "dead"]
<1>1. /\ p.pc = "boot" /\ fileVars' = fileVars /\ kind' = kind /\ row' = row
      /\ printed' = printed /\ overlap' = overlap /\ losses' = losses
  BY Zenon DEF Boot
<1>2. /\ data' = data /\ dir' = dir /\ wr' = wr /\ shared' = shared
  BY <1>1 DEF fileVars
<1>3. /\ kind \in Types /\ ProcInv /\ p \in Procs(kind) /\ p.st = Fresh(kind, Limit[kind])
      /\ p.since \in 0 .. Every[kind] /\ p.last = FALSE /\ wr[w].pc = "idle"
      /\ row \in BOOLEAN /\ printed \in BOOLEAN /\ p.st \in States(kind)
  BY <1>1, ActiveFacts
<1>4. Active(w)
  BY <1>1 DEF Active
<1>5. \/ ~p.resume /\ proc' = [proc EXCEPT ![w] = enter(Entered(kind, p.st))]
      \/ p.resume /\ proc' = [proc EXCEPT ![w] = gone]
      \/ p.resume /\ st # Bad /\ proc' = [proc EXCEPT ![w] = enter(Entered(kind, st))]
  BY DEF Boot
<1>6. ASSUME NEW q, proc' = [proc EXCEPT ![w] = q], ProcOK(kind, q, wr[w]),
             q.pc \in {"loop", "dead"}
      PROVE  ProcInv' /\ AloneInv' /\ PathInv'
  <2>1. q.pc \notin {"save", "completed"}
    BY <1>6
  <2> HIDE DEF p
  <2> QED BY <1>1, <1>2, <1>3, <1>4, <1>6, <2>1, ProcessStep, Zenon
<1>7. ASSUME NEW s \in OnTheWay(kind), proc' = [proc EXCEPT ![w] = enter(s)]
      PROVE  ProcInv' /\ AloneInv' /\ PathInv'
  <2> DEFINE q == enter(s)
  <2>1. s \in States(kind)
    BY Zenon DEF States
  <2>2. HasFields(q, kind, "loop", p.resume, s, p.since, FALSE)
    <3> HIDE DEF p
    <3> QED BY <1>3, <2>1, ProcExcept, Zenon
  <2> HIDE DEF q, p
  <2>3. ProcOK(kind, q, wr[w])
    BY <1>3, <2>2, InLoop, Zenon
  <2>4. q.pc = "loop"
    BY <2>2, Zenon DEF HasFields
  <2>5. proc' = [proc EXCEPT ![w] = q]
    BY <1>7, Zenon DEF q
  <2> QED BY <1>6, <2>3, <2>4, <2>5, Zenon
<1>8. CASE ~p.resume /\ proc' = [proc EXCEPT ![w] = enter(Entered(kind, p.st))]
  <2>1. Entered(kind, p.st) \in OnTheWay(kind)
    BY <1>3, Zenon DEF WayOK
  <2> QED BY <1>7, <1>8, <2>1, Zenon
<1>9. CASE p.resume /\ proc' = [proc EXCEPT ![w] = gone]
  <2> DEFINE q == gone
  <2>1. HasFields(q, kind, "dead", p.resume, p.st, p.since, FALSE)
    <3> HIDE DEF p
    <3> QED BY <1>3, ProcExcept, Zenon
  <2> HIDE DEF q, p
  <2>2. ProcOK(kind, q, wr[w])
    BY <1>3, <2>1, GoneOK, Zenon
  <2>3. q.pc = "dead"
    BY <2>1, Zenon DEF HasFields
  <2>4. proc' = [proc EXCEPT ![w] = q]
    BY <1>9, Zenon DEF q
  <2> QED BY <1>6, <2>2, <2>3, <2>4, Zenon
<1>10. CASE p.resume /\ st # Bad /\ proc' = [proc EXCEPT ![w] = enter(Entered(kind, st))]
  <2>1. dir.path \in Inodes /\ c = data[dir.path] /\ c # None
    BY <1>10 DEF RunInv, FileTypeOK, Entries, At
  <2>2. c \in Content
    BY <2>1 DEF RunInv, FileTypeOK
  <2>3. st = ReadState(kind, c, Bad)
    BY <2>1, Zenon
  <2> HIDE DEF st, c
  <2>4. st \in OnTheWay(kind)
    BY <1>3, <1>10, <2>2, <2>3, Zenon DEF WayOK
  <2>5. Entered(kind, st) = st
    BY <1>3, <2>4, Zenon DEF WayOK
  <2> QED BY <1>7, <1>10, <2>4, <2>5, Zenon
<1> QED BY <1>5, <1>8, <1>9, <1>10, Zenon

\* A worker starts to write: if another is at the file, there was an overlap.
LEMMA BeginFacts ==
  ASSUME RunInv, NEW w \in Writers, Active(w), NEW b, Begin(w, b)
  PROVE  /\ wr'[w].pc = "open" /\ wr'[w].buf = b
         /\ \A v \in Writers : v # w => wr'[v] = wr[v]
         /\ dir' = dir /\ data' = data /\ (shared => shared')
         /\ shared' => shared \/ overlap
<1>1. /\ wr[w].pc = "idle" /\ dir' = dir /\ data' = data
      /\ shared' = (shared \/ \E v \in Writers : wr[v].pc # "idle")
      /\ wr' = [wr EXCEPT ![w] = [NoWrite EXCEPT !.pc = "open", !.buf = b]]
  BY Zenon DEF Begin
<1>2. wr'[w].pc = "open" /\ wr'[w].buf = b /\ \A v \in Writers : v # w => wr'[v] = wr[v]
  BY <1>1 DEF RunInv, FileTypeOK, NoWrite
<1>3. ASSUME NEW v \in Writers, wr[v].pc # "idle" PROVE overlap
  <2>1. ProcOK(kind, proc[v], wr[v])
    BY Zenon DEF RunInv, ProcInv
  <2>2. proc[v].pc = "save"
    BY <1>3, <2>1, Zenon DEF ProcOK
  <2>3. Running(v) /\ v # w
    BY <1>1, <1>3, <2>2 DEF Running
  <2>4. AloneInv
    BY Zenon DEF RunInv
  <2> QED BY <2>3, <2>4, Zenon DEF AloneInv
<1> QED BY <1>1, <1>2, <1>3, Zenon

\* A worker leaves a write where it is.
LEMMA AbandonFacts ==
  ASSUME RunInv, NEW w \in Writers, Abandon(w)
  PROVE  /\ wr'[w].pc = "idle" /\ \A v \in Writers : v # w => wr'[v] = wr[v]
         /\ dir' = dir /\ data' = data /\ shared' = shared
<1>1. /\ wr' = [wr EXCEPT ![w] = NoWrite] /\ dir' = dir /\ data' = data /\ shared' = shared
  BY DEF Abandon
<1>2. wr'[w].pc = "idle" /\ \A v \in Writers : v # w => wr'[v] = wr[v]
  BY <1>1 DEF RunInv, FileTypeOK, NoWrite
<1> QED BY <1>1, <1>2, Zenon

\* A process that writes the state it has.
LEMMA InSave ==
  ASSUME NEW k \in Types, NEW q, NEW r, NEW s \in OnTheWay(k), NEW e, NEW l, NEW x,
         HasFields(q, k, "save", r, s, e, l), x.buf = Encode(k, s), l => ~More(k, s)
  PROVE  ProcOK(k, q, x)
BY DEF HasFields, ProcOK

\* Loop: the next state of the way, written when it is due.
LEMMA LoopStep ==
  ASSUME WayOK, RunInv, NEW w \in Writers, Loop(w)
  PROVE  ProcInv' /\ AloneInv' /\ PathInv'
<1> DEFINE p == proc[w]
           st == Body(kind, p.st)
           due == Counts(kind, p.st) /\ p.since + 1 >= Every[kind]
           e == IF Counts(kind, p.st) THEN p.since + 1 ELSE p.since
<1>1. /\ p.pc = "loop" /\ More(kind, p.st) /\ kind' = kind /\ row' = row
      /\ printed' = printed /\ overlap' = overlap /\ losses' = losses
  BY Zenon DEF Loop
<1>2. /\ kind \in Types /\ ProcInv /\ p \in Procs(kind) /\ p.st \in OnTheWay(kind)
      /\ p.since \in 0 .. Every[kind] /\ p.last = FALSE /\ wr[w].pc = "idle"
      /\ row \in BOOLEAN /\ printed \in BOOLEAN /\ Every[kind] \in Nat
  BY <1>1, ActiveFacts
<1>3. Active(w)
  BY <1>1 DEF Active
<1>4. st \in OnTheWay(kind) /\ st \in States(kind)
  BY <1>1, <1>2, Zenon DEF States, WayOK
<1>5. CASE due
  <2> DEFINE q == [p EXCEPT !.st = st, !.since = 0, !.pc = "save"]
  <2>1. Begin(w, Encode(kind, st)) /\ proc' = [proc EXCEPT ![w] = q]
    BY <1>5 DEF Loop
  <2>2. 0 \in 0 .. Every[kind]
    BY <1>2
  <2>3. HasFields(q, kind, "save", p.resume, st, 0, FALSE)
    <3> DEFINE z == 0
    <3>1. z \in 0 .. Every[kind]
      BY <2>2, Zenon
    <3> HIDE DEF p, st, z
    <3>2. HasFields([p EXCEPT !.st = st, !.since = z, !.pc = "save"], kind, "save",
                    p.resume, st, z, p.last)
      BY <1>2, <1>4, <3>1, ProcExcept, Zenon
    <3> QED BY <1>2, <3>2, Zenon DEF z
  <2>4. /\ wr'[w].pc = "open" /\ wr'[w].buf = Encode(kind, st)
        /\ \A v \in Writers : v # w => wr'[v] = wr[v]
        /\ dir' = dir /\ data' = data /\ (shared => shared')
        /\ shared' => shared \/ overlap
    BY <1>3, <2>1, BeginFacts, Zenon
  <2> HIDE DEF q, p, st
  <2>5. ProcOK(kind, q, wr'[w])
    BY <1>2, <1>4, <2>3, <2>4, InSave, Zenon
  <2>6. wr'[w].pc # "idle"
    BY <2>4
  <2>7. proc' = [proc EXCEPT ![w] = q]
    BY <2>1, Zenon
  <2> QED BY <1>1, <1>2, <1>3, <2>4, <2>5, <2>6, <2>7, ProcessStep, Zenon
<1>6. CASE ~due
  <2> DEFINE q == [p EXCEPT !.st = st, !.since = e]
  <2>1. proc' = [proc EXCEPT ![w] = q] /\ fileVars' = fileVars
    BY <1>6 DEF Loop
  <2>2. e \in 0 .. Every[kind]
    <3> HIDE DEF p
    <3> QED BY <1>2, <1>6
  <2>3. HasFields(q, kind, "loop", p.resume, st, e, FALSE)
    <3> HIDE DEF p, st, e
    <3>1. HasFields([p EXCEPT !.st = st, !.since = e], kind, p.pc, p.resume, st, e,
                    p.last)
      BY <1>2, <1>4, <2>2, ProcExcept, Zenon
    <3> QED BY <1>1, <1>2, <3>1, Zenon
  <2>4. dir' = dir /\ data' = data /\ wr' = wr /\ shared' = shared
    BY <2>1 DEF fileVars
  <2> HIDE DEF q, p, st, e
  <2>5. ProcOK(kind, q, wr'[w])
    BY <1>2, <1>4, <2>3, <2>4, InLoop, Zenon
  <2>6. q.pc \notin {"save", "completed"}
    BY <2>3 DEF HasFields
  <2>7. proc' = [proc EXCEPT ![w] = q]
    BY <2>1, Zenon
  <2> QED BY <1>1, <1>2, <1>3, <2>4, <2>5, <2>6, <2>7, ProcessStep, Zenon
<1> QED BY <1>5, <1>6, Zenon

\* Finish: the last state is written.
LEMMA FinishStep ==
  ASSUME RunInv, NEW w \in Writers, Finish(w)
  PROVE  ProcInv' /\ AloneInv' /\ PathInv'
<1> DEFINE p == proc[w]
           q == [p EXCEPT !.pc = "save", !.last = TRUE]
<1>1. /\ p.pc = "loop" /\ ~More(kind, p.st) /\ kind' = kind /\ row' = row
      /\ printed' = printed /\ overlap' = overlap /\ losses' = losses
      /\ Begin(w, Encode(kind, p.st)) /\ proc' = [proc EXCEPT ![w] = q]
  BY DEF Finish
<1>2. /\ kind \in Types /\ p \in Procs(kind) /\ p.st \in OnTheWay(kind)
      /\ row \in BOOLEAN /\ printed \in BOOLEAN
      /\ p.st \in States(kind) /\ p.since \in 0 .. Every[kind]
  BY <1>1, ActiveFacts
<1>3. Active(w)
  BY <1>1 DEF Active
<1>4. HasFields(q, kind, "save", p.resume, p.st, p.since, TRUE)
  <2> DEFINE t == TRUE
  <2>1. t \in BOOLEAN
    BY Zenon
  <2> HIDE DEF p, t
  <2>2. HasFields([p EXCEPT !.pc = "save", !.last = t], kind, "save", p.resume, p.st,
                  p.since, t)
    BY <1>2, <2>1, ProcExcept, Zenon
  <2> QED BY <2>2, Zenon DEF t
<1>5. /\ wr'[w].pc = "open" /\ wr'[w].buf = Encode(kind, p.st)
      /\ \A v \in Writers : v # w => wr'[v] = wr[v]
      /\ dir' = dir /\ data' = data /\ (shared => shared')
      /\ shared' => shared \/ overlap
  BY <1>1, <1>3, BeginFacts, Zenon
<1> HIDE DEF q, p
<1>6. ProcOK(kind, q, wr'[w])
  BY <1>1, <1>2, <1>4, <1>5, InSave, Zenon
<1>7. wr'[w].pc # "idle"
  BY <1>5
<1>8. proc' = [proc EXCEPT ![w] = q]
  BY <1>1, Zenon
<1> QED BY <1>1, <1>2, <1>3, <1>5, <1>6, <1>7, <1>8, ProcessStep, Zenon

\* A process ends, in a write or not.
LEMMA EndStep ==
  ASSUME RunInv, NEW w \in Writers, Active(w), proc' = [proc EXCEPT ![w].pc = "dead"],
         (wr[w].pc = "idle" /\ UNCHANGED fileVars) \/ Abandon(w),
         UNCHANGED <<kind, row, printed, overlap, losses>>
  PROVE  ProcInv' /\ AloneInv' /\ PathInv'
<1> DEFINE p == proc[w]
           q == [p EXCEPT !.pc = "dead"]
<1>1. proc' = [proc EXCEPT ![w] = q]
  OBVIOUS
<1>2. /\ kind \in Types /\ p \in Procs(kind) /\ p.st \in States(kind)
      /\ p.since \in 0 .. Every[kind] /\ (p.last => ~More(kind, p.st))
      /\ row \in BOOLEAN /\ printed \in BOOLEAN
  BY ActiveFacts
<1>3. HasFields(q, kind, "dead", p.resume, p.st, p.since, p.last)
  <2> HIDE DEF p
  <2> QED BY <1>2, ProcExcept, Zenon
<1>4. /\ wr'[w].pc = "idle" /\ \A v \in Writers : v # w => wr'[v] = wr[v]
      /\ dir' = dir /\ data' = data /\ shared' = shared
  BY AbandonFacts DEF fileVars
<1> HIDE DEF q, p
<1>5. ProcOK(kind, q, wr'[w])
  BY <1>2, <1>3, <1>4, GoneOK
<1>6. q.pc \notin {"save", "completed"}
  BY <1>3 DEF HasFields
<1>7. /\ kind' = kind /\ row' = row /\ printed' = printed /\ overlap' = overlap
      /\ losses' = losses
  BY Zenon
<1>8. (shared => shared') /\ (shared' => shared \/ overlap) /\ (row' => row \/ Saved(w))
  <2>1. (shared => shared') /\ (shared' => shared \/ overlap)
    BY <1>4, Zenon
  <2>2. row' => row \/ Saved(w)
    OBVIOUS
  <2> QED BY <2>1, <2>2, Zenon
<1>9. row' \in BOOLEAN /\ printed' \in BOOLEAN
  BY <1>2, <1>7, Zenon
<1> QED BY <1>1, <1>4, <1>5, <1>6, <1>7, <1>8, <1>9, ProcessStep, Zenon

\* SaveFails and Die: the process ends.
LEMMA DieStep ==
  ASSUME RunInv, NEW w \in Writers, SaveFails(w) \/ Die(w)
  PROVE  ProcInv' /\ AloneInv' /\ PathInv'
<1>1. CASE Die(w)
  <2>1. /\ Active(w) /\ proc' = [proc EXCEPT ![w].pc = "dead"]
        /\ (wr[w].pc = "idle" /\ UNCHANGED fileVars) \/ Abandon(w)
        /\ UNCHANGED <<kind, row, printed, overlap, losses>>
    BY <1>1, Zenon DEF Die
  <2> QED BY <2>1, EndStep, Zenon
<1>2. CASE SaveFails(w)
  <2>1. /\ wr[w].pc = "rename" /\ proc' = [proc EXCEPT ![w].pc = "dead"] /\ Abandon(w)
        /\ UNCHANGED <<kind, row, printed, overlap, losses>>
    BY <1>2, Zenon DEF SaveFails
  <2>2. ProcOK(kind, proc[w], wr[w]) /\ wr[w].pc # "idle"
    BY <2>1, ActiveFacts
  <2>3. proc[w].pc = "save"
    BY <2>2, Zenon DEF ProcOK
  <2>4. Active(w)
    BY <2>3 DEF Active
  <2> QED BY <2>1, <2>4, EndStep, Zenon
<1> QED BY <1>1, <1>2, Zenon

\* Emit: the state that is on record has been written.
LEMMA EmitStep ==
  ASSUME RunInv, NEW w \in Writers, Emit(w)
  PROVE  ProcInv' /\ AloneInv' /\ PathInv'
<1> DEFINE p == proc[w]
           x == IF p.last THEN "completed" ELSE "loop"
           q == [p EXCEPT !.pc = x]
<1>1. /\ p.pc = "save" /\ wr[w].pc = "idle" /\ kind' = kind
      /\ row' = (row \/ Decodes(p.st)) /\ printed' = TRUE /\ overlap' = overlap
      /\ losses' = losses /\ proc' = [proc EXCEPT ![w] = q]
  BY DEF Emit
<1>2. data' = data /\ dir' = dir /\ wr' = wr /\ shared' = shared
  BY DEF Emit, fileVars
<1>3. /\ kind \in Types /\ p \in Procs(kind) /\ p.st \in OnTheWay(kind)
      /\ p.st \in States(kind) /\ p.since \in 0 .. Every[kind]
      /\ p.last => ~More(kind, p.st)
  BY <1>1, ActiveFacts
<1>4. Active(w) /\ Saved(w)
  BY <1>1 DEF Active, Saved
<1>5. x \in {"none", "boot", "loop", "save", "completed", "dead"}
  OBVIOUS
<1>6. (p.last /\ x = "completed") \/ (~p.last /\ x = "loop")
  OBVIOUS
<1> HIDE DEF p, x
<1>7. HasFields(q, kind, x, p.resume, p.st, p.since, p.last)
  BY <1>3, <1>5, ProcExcept, Zenon
<1> HIDE DEF q
<1>8. ProcOK(kind, q, wr'[w]) /\ q.st = p.st
  BY <1>1, <1>2, <1>3, <1>6, <1>7 DEF ProcOK, HasFields
<1>9. /\ row' \in BOOLEAN /\ printed' \in BOOLEAN /\ (shared => shared')
      /\ (shared' => shared \/ overlap) /\ (row' => row \/ Saved(w))
  BY <1>1, <1>2, <1>4, Zenon
<1>10. \A v \in Writers : v # w => wr'[v] = wr[v]
  BY <1>2, Zenon
<1>11. q.st = proc[w].st
  BY <1>8, Zenon DEF p
<1> QED BY <1>1, <1>2, <1>4, <1>8, <1>9, <1>10, <1>11, ProcessStep, Zenon

\* Nothing but the disk changes.
LEMMA QuietStep ==
  ASSUME RunInv, UNCHANGED <<data, dir, wr, shared, runVars>>
  PROVE  ProcInv' /\ AloneInv' /\ PathInv'
<1>1. /\ data' = data /\ dir' = dir /\ wr' = wr /\ shared' = shared /\ kind' = kind
      /\ proc' = proc /\ row' = row /\ printed' = printed /\ overlap' = overlap
      /\ losses' = losses
  BY DEF runVars
<1>2. ProcInv /\ AloneInv
  BY Zenon DEF RunInv
<1>3. ProcInv'
  <2>1. kind \in Types /\ proc \in [Writers -> Procs(kind)]
    BY <1>2, Zenon DEF ProcInv
  <2>2. \A w \in Writers : ProcOK(kind, proc[w], wr[w])
    BY <1>2, Zenon DEF ProcInv
  <2>3. \A w \in Writers : ProcOK(kind, proc[w], wr[w])' = ProcOK(kind, proc[w], wr[w])
    BY <1>1, Zenon DEF ProcOK, Procs, States, OnTheWay
  <2>4. Procs(kind)' = Procs(kind)
    BY <1>1, Zenon DEF Procs, States, OnTheWay
  <2> QED BY <1>1, <1>2, <2>1, <2>2, <2>3, <2>4, Zenon DEF ProcInv
<1>4. AloneInv'
  <2>1. \A w \in Writers : (Active(w)' => Active(w)) /\ (Running(w)' => Running(w))
    BY <1>1, Zenon DEF Active, Running
  <2>2. overlap' = overlap /\ (shared' => shared \/ overlap)
    BY <1>1
  <2> QED BY <1>2, <2>1, <2>2, AloneStep, Zenon
<1>5. PathInv'
  <2>1. \A w \in Writers : Saved(w)' => Saved(w) /\ proc'[w].st = proc[w].st
    BY <1>1, Zenon DEF Saved
  <2>2. At(dir, data)' = At(dir, data) /\ dir'.path = dir.path
    BY <1>1, Zenon DEF At
  <2>3. /\ kind' = kind /\ losses' = losses /\ (overlap => overlap')
        /\ (shared => shared') /\ (row' => row)
    BY <1>1
  <2> QED BY <2>1, <2>2, <2>3, PathStep, Zenon
<1> QED BY <1>3, <1>4, <1>5, Zenon

\* What a call of write_state does to its writer.
LEMMA FileStepFacts ==
  ASSUME FileTypeOK, NEW w \in Writers, FileStep(w)
  PROVE  /\ wr[w].pc # "idle" /\ shared' = shared
         /\ \A v \in Writers : v # w => wr'[v] = wr[v]
         /\ Rename(w) => wr'[w].pc = "idle"
         /\ Open(w) \/ Write(w) \/ Sync(w) =>
              wr'[w].pc # "idle" /\ wr'[w].buf = wr[w].buf /\ dir'.path = dir.path
<1>1. CASE Open(w)
  BY <1>1 DEF FileTypeOK, Entries, Open, Rename
<1>2. CASE Write(w)
  BY <1>2 DEF FileTypeOK, Write, Rename
<1>3. CASE Sync(w)
  BY <1>3 DEF FileTypeOK, Sync, Rename
<1>4. CASE Rename(w)
  BY <1>4 DEF FileTypeOK, NoWrite, Rename, Open, Write, Sync
<1> QED BY <1>1, <1>2, <1>3, <1>4, Zenon DEF FileStep

\* Save: the path does not change until the rename, and then it is the file
\* of the state that the worker has.
LEMMA SaveStep ==
  ASSUME RunInv, NEW w \in Writers, Save(w)
  PROVE  ProcInv' /\ AloneInv' /\ PathInv'
<1> DEFINE p == proc[w]
<1>1. FileStep(w) /\ FileTypeOK /\ StateFileInv /\ ProcInv /\ AloneInv /\ PathInv
  BY Zenon DEF Save, RunInv
<1>2. /\ kind' = kind /\ proc' = proc /\ row' = row /\ printed' = printed
      /\ overlap' = overlap /\ losses' = losses
  BY DEF Save, runVars
<1>3. /\ wr[w].pc # "idle" /\ shared' = shared
      /\ \A v \in Writers : v # w => wr'[v] = wr[v]
      /\ Rename(w) => wr'[w].pc = "idle"
      /\ Open(w) \/ Write(w) \/ Sync(w) =>
           wr'[w].pc # "idle" /\ wr'[w].buf = wr[w].buf /\ dir'.path = dir.path
  BY <1>1, FileStepFacts, Zenon
<1>4. ProcOK(kind, p, wr[w])
  BY <1>1, Zenon DEF ProcInv
<1>5. p.pc = "save" /\ wr[w].buf = Encode(kind, p.st) /\ p.st \in OnTheWay(kind)
  <2> HIDE DEF p
  <2> QED BY <1>3, <1>4 DEF ProcOK
<1>6. ProcInv'
  <2>1. wr'[w].pc = "idle" \/ (wr'[w].pc # "idle" /\ wr'[w].buf = wr[w].buf)
    BY <1>1, <1>3, Zenon DEF FileStep
  <2>2. ProcOK(kind, p, wr'[w])
    <3> HIDE DEF p
    <3> QED BY <1>4, <1>5, <2>1, Zenon DEF ProcOK
  <2>3. proc' = [proc EXCEPT ![w] = p]
    BY <1>1, <1>2 DEF ProcInv
  <2> HIDE DEF p
  <2>4. /\ row' \in BOOLEAN /\ printed' \in BOOLEAN /\ overlap' \in BOOLEAN
        /\ losses' \in 0 .. MaxLosses
    BY <1>1, <1>2, Zenon DEF ProcInv
  <2> QED BY <1>1, <1>2, <1>3, <2>2, <2>3, <2>4, ProcStep, Zenon
<1>7. AloneInv'
  <2>1. \A v \in Writers : (Active(v)' => Active(v)) /\ (Running(v)' => Running(v))
    BY <1>2, Zenon DEF Active, Running
  <2> QED BY <1>1, <1>2, <1>3, <2>1, AloneStep, Zenon
<1>8. CASE Open(w) \/ Write(w) \/ Sync(w)
  <2>1. ~shared => At(dir, data)' = At(dir, data)
    BY <1>1, <1>8, HiddenStep, Zenon
  <2>2. ASSUME NEW v \in Writers, Saved(v)' PROVE Saved(v) /\ proc'[v].st = proc[v].st
    <3>1. v # w
      BY <1>3, <1>8, <2>2, Zenon DEF Saved
    <3> QED BY <1>2, <1>3, <2>2, <3>1, Zenon DEF Saved
  <2>3. PathInv'
    BY <1>2, <1>3, <1>8, <2>1, <2>2, PathStep, Zenon
  <2> QED BY <1>6, <1>7, <2>3, Zenon
<1>9. CASE Rename(w)
  <2> DEFINE b == Encode(kind, p.st)
  <2>1. dir.tmp # None /\ dir'.path = dir.tmp /\ data' = data /\ wr[w].pc = "rename"
    BY <1>9 DEF Rename
  <2>2. dir'.path # None
    BY <2>1, Zenon
  <2>3. ~shared => At(dir, data)' = b
    <3> SUFFICES ASSUME ~shared PROVE At(dir, data)' = b
      BY Zenon
    <3>1. WriteOK(w)
      BY <1>1, <1>3, SoleWriter, Zenon
    <3>2. data[dir.tmp] = wr[w].buf
      BY <2>1, <3>1 DEF WriteOK
    <3> QED BY <1>5, <2>1, <3>2, Zenon DEF At
  <2>4. \E s \in OnTheWay(kind)' : Encode(kind, s)' = b
    <3>1. OnTheWay(kind)' = OnTheWay(kind)
      BY <1>2, Zenon DEF OnTheWay
    <3> QED BY <1>2, <1>5, <3>1, Zenon
  <2>5. ASSUME ~overlap, NEW v \in Writers, Saved(v)'
        PROVE  At(dir, data)' = Encode(kind, proc[v].st)'
    <3>1. ~shared
      BY <1>1, <2>5, Zenon DEF AloneInv
    <3>2. v = w
      <4>1. Active(w)
        BY <1>5 DEF Active
      <4>2. proc[v].pc \in {"save", "completed"}
        BY <1>2, <2>5, Zenon DEF Saved
      <4>3. Running(v)
        BY <4>2 DEF Running
      <4> QED BY <1>1, <2>5, <4>1, <4>3, Zenon DEF AloneInv
    <3> QED BY <1>2, <2>3, <3>1, <3>2, Zenon
  <2> HIDE DEF b
  <2>6. PathInv'
    BY <1>2, <1>3, <2>2, <2>3, <2>4, <2>5, Zenon DEF PathInv
  <2> QED BY <1>6, <1>7, <2>6, Zenon
<1> QED BY <1>1, <1>8, <1>9, Zenon DEF FileStep

\* Blackout: every worker is gone, and the path may be.
LEMMA BlackoutStep ==
  ASSUME RunInv, Blackout
  PROVE  ProcInv' /\ AloneInv' /\ PathInv'
<1>1. /\ losses < MaxLosses /\ losses' = losses + 1 /\ row' \in {FALSE, row}
      /\ kind' = kind /\ printed' = printed /\ overlap' = overlap /\ PowerLoss
      /\ proc' = [w \in Writers |-> IF Active(w) THEN [proc[w] EXCEPT !.pc = "dead"]
                                    ELSE proc[w]]
  BY Zenon DEF Blackout
<1>2. ProcInv /\ AloneInv
  BY Zenon DEF RunInv
<1>3. shared' = shared /\ \A w \in Writers : wr'[w].pc = "idle"
  BY <1>1 DEF PowerLoss, NoWrite
<1>4. losses \in Nat /\ losses' \in 0 .. MaxLosses /\ losses' # 0
  BY <1>1, <1>2, LossesAssumption DEF ProcInv
<1>5. ASSUME NEW w \in Writers
      PROVE  /\ ProcOK(kind, proc'[w], wr'[w])
             /\ ~(Active(w)') /\ (Running(w)' => Running(w))
  <2> DEFINE p == proc[w]
             q == [p EXCEPT !.pc = "dead"]
  <2>1. /\ kind \in Types /\ p \in Procs(kind) /\ p.st \in States(kind)
        /\ p.since \in 0 .. Every[kind] /\ (p.last => ~More(kind, p.st))
        /\ ProcOK(kind, p, wr[w])
    BY ActiveFacts
  <2>2. proc'[w] = IF Active(w) THEN q ELSE p
    BY <1>1
  <2>3. HasFields(q, kind, "dead", p.resume, p.st, p.since, p.last)
    <3> HIDE DEF p
    <3> QED BY <2>1, ProcExcept, Zenon
  <2>4. Active(w) <=> p.pc \in {"boot", "loop", "save"}
    BY DEF Active
  <2> HIDE DEF p, q
  <2>5. CASE Active(w)
    <3>1. ProcOK(kind, q, wr'[w])
      BY <1>3, <2>1, <2>3, GoneOK
    <3>2. q.pc = "dead"
      BY <2>3, Zenon DEF HasFields
    <3> QED BY <2>2, <2>5, <3>1, <3>2, Zenon DEF Active, Running
  <2>6. CASE ~Active(w)
    <3>1. ProcOK(kind, p, wr'[w])
      BY <1>3, <2>1, Zenon DEF ProcOK
    <3> QED BY <2>2, <2>4, <2>6, <3>1, Zenon DEF Active, Running, p
  <2> QED BY <2>5, <2>6, Zenon
<1>6. ProcInv'
  <2>1. \A w \in Writers : proc'[w] \in Procs(kind)
    BY <1>5, Zenon DEF ProcOK
  <2>2. proc' \in [Writers -> Procs(kind)]
    BY <1>1, <2>1, Zenon
  <2>3. Procs(kind)' = Procs(kind)
    BY <1>1, Zenon DEF Procs, States, OnTheWay
  <2>4. \A w \in Writers : ProcOK(kind, proc[w], wr[w])' = ProcOK(kind', proc'[w], wr'[w])
    BY Zenon DEF ProcOK, Procs, States, OnTheWay
  <2>5. row' \in BOOLEAN /\ printed' \in BOOLEAN /\ overlap' \in BOOLEAN /\ kind' \in Types
    BY <1>1, <1>2, Zenon DEF ProcInv
  <2> QED BY <1>1, <1>4, <1>5, <2>2, <2>3, <2>4, <2>5, Zenon DEF ProcInv
<1>7. AloneInv'
  BY <1>1, <1>2, <1>3, <1>5, AloneStep, Zenon
<1>8. PathInv'
  BY <1>4, Zenon DEF PathInv
<1> QED BY <1>6, <1>7, <1>8, Zenon

-----------------------------------------------------------------------------
(* Every step keeps the invariant.                                         *)

\* RunInv is inductive: one case for each action.
LEMMA RunStep ==
  ASSUME WayOK, RunInv, [Next]_vars
  PROVE  RunInv'
<1>1. FileTypeOK /\ StateFileInv /\ ProcInv
  BY Zenon DEF RunInv
<1>2. [FileNext]_fileVars
  BY <1>1, RunIsFile, Zenon
<1>3. FileTypeOK' /\ StateFileInv'
  BY <1>1, <1>2, TypeStep, InvStep, Zenon
<1>4. ASSUME NEW w \in Writers, Launch(w) \/ WorkerStep(w) \/ Die(w)
      PROVE  ProcInv' /\ AloneInv' /\ PathInv'
  BY <1>4, LaunchStep, BootStep, LoopStep, FinishStep, SaveStep, DieStep, EmitStep, Zenon
  DEF WorkerStep
<1>5. ASSUME Writeback, UNCHANGED runVars PROVE ProcInv' /\ AloneInv' /\ PathInv'
  <2>1. UNCHANGED <<data, dir, wr, shared, runVars>>
    BY <1>5 DEF Writeback
  <2> QED BY <2>1, QuietStep, Zenon
<1>6. ASSUME UNCHANGED vars PROVE ProcInv' /\ AloneInv' /\ PathInv'
  <2>1. UNCHANGED <<data, dir, wr, shared, runVars>>
    BY <1>6 DEF vars, fileVars
  <2> QED BY <2>1, QuietStep, Zenon
<1>7. ProcInv' /\ AloneInv' /\ PathInv'
  BY <1>4, <1>5, <1>6, BlackoutStep, Zenon DEF Next
<1> QED BY <1>3, <1>7, Zenon DEF RunInv

\* A job starts with no file and no process.
LEMMA RunStart ==
  ASSUME Init
  PROVE  RunInv
<1>1. /\ FileInit /\ kind \in Types /\ proc = [w \in Writers |-> NoProc(kind)]
      /\ row = FALSE /\ printed = FALSE /\ overlap = FALSE /\ losses = 0
  BY DEF Init
<1>2. FileTypeOK /\ StateFileInv
  BY <1>1, FileStarts, Zenon
<1>3. /\ \A w \in Writers : wr[w].pc = "idle"
      /\ dir.path = None /\ shared = FALSE
  BY <1>1 DEF FileInit, NoWrite
<1>4. ASSUME NEW w \in Writers
      PROVE  /\ ProcOK(kind, proc[w], wr[w]) /\ proc[w] \in Procs(kind)
             /\ proc[w].pc = "none"
  <2> DEFINE p == proc[w]
  <2>1. HasFields(p, kind, "none", FALSE, Fresh(kind, Limit[kind]), 0, FALSE)
    BY <1>1, NoProcFields, Zenon
  <2> HIDE DEF p
  <2>2. ProcOK(kind, p, wr[w]) /\ p \in Procs(kind) /\ p.pc = "none"
    BY <1>3, <2>1 DEF HasFields, ProcOK
  <2> QED BY <2>2, Zenon DEF p
<1>5. ProcInv
  <2>1. proc \in [Writers -> Procs(kind)]
    BY <1>1, <1>4, Zenon
  <2>2. losses \in 0 .. MaxLosses
    BY <1>1, LossesAssumption
  <2> QED BY <1>1, <1>4, <2>1, <2>2, Zenon DEF ProcInv
<1>6. \A w \in Writers : ~Active(w) /\ ~Saved(w)
  BY <1>4, Zenon DEF Active, Saved
<1>7. AloneInv
  BY <1>3, <1>6, Zenon DEF AloneInv
<1>8. PathInv
  BY <1>1, <1>3, <1>6, Zenon DEF PathInv
<1> QED BY <1>2, <1>5, <1>7, <1>8, Zenon DEF RunInv
=============================================================================
