----------------------------- MODULE StateFile ------------------------------
(* The state file of one job: write_state, as the three workers all have   *)
(* it, on a POSIX file system with a page cache.  A worker builds the      *)
(* bytes, opens <path>.tmp with O_TRUNC, writes in pieces, syncs, and      *)
(* renames.  It can be killed between any two calls, any call can fail,    *)
(* the machine can lose power, and a second worker of the same job can be  *)
(* at the same file (supervisor.go does start one, see Controller).        *)
(* A file holds words, the fields of the layout: write may stop between    *)
(* any two of them.                                                        *)
EXTENDS Integers, Sequences

CONSTANTS
  Writers,   \* worker processes of the job
  Inodes,    \* inodes the file system can use
  Words,     \* the words a file is made of
  Hole,      \* what a reader finds where nothing was written
  Bufs,      \* the byte strings that workers write
  None,      \* no inode
  Cuts,      \* bound: the offsets at which a write may stop short
  PowerCuts  \* may the machine lose power?

ASSUME BufsAssumption == Bufs \subseteq Seq(Words) /\ \A b \in Bufs : Len(b) > 0
ASSUME HoleAssumption == Hole \in Words
ASSUME NoneInodeAssumption == None \notin Inodes
ASSUME NoneBufAssumption == None \notin Bufs
ASSUME CutsAssumption == Cuts \subseteq Nat
ASSUME PowerCutsAssumption == PowerCuts \in BOOLEAN

VARIABLES
  data,     \* data[i]: the content of inode i that processes see
  safe,     \* safe[i]: its content on the disk
  dir,      \* the directory entries of path and path.tmp
  ondisk,   \* the directory entries on the disk
  wr,       \* wr[w]: where w is in write_state
  shared    \* history: two workers were at the file together

fileVars == <<data, safe, dir, ondisk, wr, shared>>

Content == Seq(Words)
Entries == [path : Inodes \cup {None}, tmp : Inodes \cup {None}]

NoWrite == [pc |-> "idle", buf |-> <<>>, off |-> 0, fd |-> None]

FileTypeOK ==
  /\ data \in [Inodes -> Content]
  /\ safe \in [Inodes -> Content]
  /\ dir \in Entries
  /\ ondisk \in Entries
  /\ wr \in [Writers -> [pc  : {"idle", "open", "write", "sync", "rename"},
                         buf : Content,
                         off : Nat,
                         fd  : Inodes \cup {None}]]
  /\ shared \in BOOLEAN

FileInit ==
  /\ data = [i \in Inodes |-> <<>>] /\ safe = data
  /\ dir = [path |-> None, tmp |-> None] /\ ondisk = dir
  /\ wr = [w \in Writers |-> NoWrite]
  /\ shared = FALSE

\* What reading the path yields in a directory d over contents s.
At(d, s) == IF d.path = None THEN None ELSE s[d.path]

-----------------------------------------------------------------------------
(* write_state. *)

\* The bytes are put together.
Begin(w, b) ==
  /\ wr[w].pc = "idle"
  /\ wr' = [wr EXCEPT ![w] = [NoWrite EXCEPT !.pc = "open", !.buf = b]]
  /\ shared' = (shared \/ \E v \in Writers : wr[v].pc # "idle")
  /\ UNCHANGED <<data, safe, dir, ondisk>>

\* An inode that no entry, on the disk or not, and no descriptor refers to.
Free(i) ==
  /\ i \notin {dir.path, dir.tmp, ondisk.path, ondisk.tmp}
  /\ \A w \in Writers : wr[w].fd # i

\* The inode of .tmp, or a free one if there is no .tmp.
TmpInode ==
  IF dir.tmp = None THEN CHOOSE i \in Inodes : Free(i) ELSE dir.tmp

\* open(tmp, O_WRONLY | O_CREAT | O_TRUNC): an old .tmp is emptied.
Open(w) ==
  /\ wr[w].pc = "open"
  /\ dir.tmp = None => \E i \in Inodes : Free(i)
  /\ data' = [data EXCEPT ![TmpInode] = <<>>]
  /\ safe' = IF dir.tmp = None THEN [safe EXCEPT ![TmpInode] = <<>>] ELSE safe
  /\ dir' = [dir EXCEPT !.tmp = TmpInode]
  /\ wr' = [wr EXCEPT ![w] = [@ EXCEPT !.pc = "write", !.fd = TmpInode]]
  /\ UNCHANGED <<ondisk, shared>>

\* Content c after the words off+1 .. k of b went to their place.
Overwritten(c, b, off, k) ==
  [n \in 1 .. IF Len(c) > k THEN Len(c) ELSE k |->
     IF off < n /\ n <= k THEN b[n] ELSE IF n <= Len(c) THEN c[n] ELSE Hole]

\* write: some words, at this descriptor's offset, until none is left.
Write(w) ==
  /\ wr[w].pc = "write"
  /\ \E k \in wr[w].off + 1 .. Len(wr[w].buf) :
       /\ k \in Cuts \cup {Len(wr[w].buf)}
       /\ data' = [data EXCEPT ![wr[w].fd] =
                     Overwritten(@, wr[w].buf, wr[w].off, k)]
       /\ wr' = [wr EXCEPT ![w] = [@ EXCEPT !.off = k,
                   !.pc = IF k = Len(wr[w].buf) THEN "sync" ELSE "write"]]
  /\ UNCHANGED <<safe, dir, ondisk, shared>>

\* Slip: fsync is left out.
SyncSkipped(w) ==
  /\ wr[w].pc = "sync"
  /\ wr' = [wr EXCEPT ![w].pc = "rename"]
  /\ UNCHANGED <<data, safe, dir, ondisk, shared>>

\* fsync: the content, and not the directory, reaches the disk.
Sync(w) ==
  /\ wr[w].pc = "sync"
  /\ safe' = [safe EXCEPT ![wr[w].fd] = data[wr[w].fd]]
  /\ wr' = [wr EXCEPT ![w].pc = "rename"]
  /\ UNCHANGED <<data, dir, ondisk, shared>>

\* rename(tmp, path): whatever tmp is by now.
Rename(w) ==
  /\ wr[w].pc = "rename" /\ dir.tmp # None
  /\ dir' = [path |-> dir.tmp, tmp |-> None]
  /\ wr' = [wr EXCEPT ![w] = NoWrite]
  /\ UNCHANGED <<data, safe, ondisk, shared>>

\* The writer is gone, descriptor closed and .tmp left as it is: it was
\* killed, or a call failed and the CheckpointError made it exit.
Abandon(w) ==
  /\ wr[w].pc # "idle"
  /\ wr' = [wr EXCEPT ![w] = NoWrite]
  /\ UNCHANGED <<data, safe, dir, ondisk, shared>>

-----------------------------------------------------------------------------
(* The file system by itself. *)

\* The directory reaches the disk: nothing syncs it, so at any time.
Writeback ==
  /\ ondisk' = dir
  /\ UNCHANGED <<data, safe, dir, wr, shared>>

\* What an inode may hold after a power loss: if not synced, the old content,
\* the new one up to some word, or the new length with a hole for a tail.
Survivors(i) ==
  LET new == IF i = None THEN <<>> ELSE data[i]
      old == IF i = None THEN <<>> ELSE safe[i]
      ends == {n \in Cuts \cup {0, Len(new)} : n <= Len(new)}
  IN  IF new = old THEN {old}
      ELSE {old} \cup {SubSeq(new, 1, n) : n \in ends}
           \cup {[k \in 1 .. Len(new) |-> IF k <= n THEN new[k] ELSE Hole] :
                   n \in ends}

\* Every process is gone, and of the inodes those on the disk are left.
PowerLoss ==
  /\ PowerCuts
  /\ \E p \in Survivors(ondisk.path), t \in Survivors(ondisk.tmp) :
       data' = [i \in Inodes |-> IF i = ondisk.path THEN p
                                 ELSE IF i = ondisk.tmp THEN t ELSE <<>>]
  /\ safe' = data'
  /\ dir' = ondisk
  /\ wr' = [w \in Writers |-> NoWrite]
  /\ UNCHANGED <<ondisk, shared>>

-----------------------------------------------------------------------------

FileStep(w) == Open(w) \/ Write(w) \/ Sync(w) \/ Rename(w)

FileNext ==
  \/ \E w \in Writers : \/ \E b \in Bufs : Begin(w, b)
                        \/ FileStep(w)
                        \/ Abandon(w)
  \/ Writeback
  \/ PowerLoss

FileSpec == FileInit /\ [][FileNext]_fileVars

-----------------------------------------------------------------------------

\* The value at the path, and the one a power loss would bring back.
Atomic == INSTANCE AtomicFile
            WITH shown <- At(dir, data), kept <- At(ondisk, safe), mixed <- shared

\* The path holds one whole value after another, also after a power loss, as
\* long as no two workers write together ("Write state to path atomically:
\* write to path+".tmp", fsync, rename", checkpoint.h; the write_state of all
\* three workers).
FileIsAtomic == Atomic!Spec

\* The content of i is a whole value, and it is on the disk.
Settled(i) == i # None => data[i] \in Bufs /\ safe[i] = data[i]

\* How far the only writer is, and what its .tmp therefore holds.
WriteOK(w) ==
  /\ wr[w].buf \in Bufs
  /\ \A v \in Writers : v # w => wr[v].pc = "idle"
  /\ wr[w].pc = "open" => wr[w].off = 0
  /\ wr[w].pc # "open" => dir.tmp \in Inodes /\ wr[w].fd = dir.tmp
  /\ wr[w].pc = "write" => /\ wr[w].off < Len(wr[w].buf)
                           /\ data[dir.tmp] = SubSeq(wr[w].buf, 1, wr[w].off)
  /\ wr[w].pc \in {"sync", "rename"} => data[dir.tmp] = wr[w].buf
  /\ wr[w].pc = "rename" => safe[dir.tmp] = wr[w].buf

\* A .tmp is never the file that the path names, here or on the disk, and
\* becomes it only when whole and synced (checkpoint.cpp:79-105).
StateFileInv ==
  ~shared =>
    /\ Settled(dir.path) /\ Settled(ondisk.path)
    /\ dir.tmp # None => dir.tmp \notin {dir.path, ondisk.path}
    /\ ondisk.tmp # None => ondisk.tmp # ondisk.path
    /\ \A w \in Writers : wr[w].pc # "idle" => WriteOK(w)
=============================================================================
