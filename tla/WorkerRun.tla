----------------------------- MODULE WorkerRun ------------------------------
(* One job's worker processes (worker/src/main.cpp) from launch to exit:   *)
(* the computation, its state file, the checkpoint lines, and what the     *)
(* controller keeps of them.  A job is launched, and relaunched with       *)
(* --resume-from once a checkpoint is on record, also while an earlier     *)
(* worker is still at it.  Workers are killed and machines lose power.     *)
EXTENDS StateFile, StateFormat

CONSTANTS
  Types,        \* the worker types to consider
  Limit,        \* Limit[kind]: --limit
  Every,        \* Every[kind]: --checkpoint-every
  MaxLosses     \* bound: power losses in a behaviour

ASSUME TypesAssumption == Types \subseteq Kinds

\* The numbers of a job fit a uint64_t, and no square that is_prime_trial
\* takes wraps to a smaller one.
ASSUME LimitAssumption ==
  \A k \in Types :
    /\ Limit[k] \in Nat /\ Every[k] \in Nat
    /\ k = "primes" => Limit[k] < (Root - 1) * (Root - 1)
    /\ k = "matmul" => Limit[k] * Limit[k] < Root * Root
    /\ k = "wordcount" => Limit[k] < Root * Root

\* Cells are numbers, and words are those of the dictionary.
ASSUME InputAssumption ==
  /\ "matmul" \in Types =>
       \A i \in 0 .. Limit["matmul"] * Limit["matmul"] - 1 :
         CellA[i] \in Nat /\ CellB[i] \in Nat
  /\ "wordcount" \in Types =>
       \A i \in 0 .. Limit["wordcount"] - 1 : WordAt[i] \in 0 .. DictSize - 1

ASSUME LossesAssumption == MaxLosses \in Nat

VARIABLES
  kind,       \* the job's worker type
  proc,       \* proc[w]: the process of launch w
  row,        \* is a checkpoint on record in the job's row?
  printed,    \* history: has a checkpoint line been printed?
  overlap,    \* history: did two workers of the job run together?
  losses      \* power losses so far

runVars == <<kind, proc, row, printed, overlap, losses>>
vars == <<fileVars, runVars>>

Bad == [bad |-> TRUE]    \* a CheckpointError

NoProc(k) == [pc |-> "none", resume |-> FALSE, st |-> Fresh(k, Limit[k]),
              since |-> 0, last |-> FALSE]

Active(w) == proc[w].pc \in {"boot", "loop", "save"}

RunTypeOK ==
  /\ FileTypeOK
  /\ kind \in Types
  /\ \A w \in Writers :
       /\ proc[w].pc \in {"none", "boot", "loop", "save", "completed", "dead"}
       /\ proc[w].since \in 0 .. Every[kind]
       /\ wr[w].pc # "idle" => proc[w].pc = "save"
  /\ losses \in 0 .. MaxLosses

Init ==
  /\ FileInit
  /\ kind \in Types
  /\ proc = [w \in Writers |-> NoProc(kind)]
  /\ row = FALSE /\ printed = FALSE /\ overlap = FALSE /\ losses = 0

-----------------------------------------------------------------------------
(* Launches: StartRun of Supervisor, seen from the job's directory. *)

\* The first launch is fresh; a later one resumes, and happens only with a
\* checkpoint on record.
Launch(w) ==
  /\ proc[w].pc = "none"
  /\ \A v \in Writers : proc[v].pc # "completed"
  /\ LET fresh == \A v \in Writers : proc[v].pc = "none"
     IN  /\ fresh \/ row
         /\ proc' = [proc EXCEPT ![w] = [NoProc(kind) EXCEPT !.pc = "boot",
                                                           !.resume = ~fresh]]
  /\ overlap' = (overlap \/ \E v \in Writers : Active(v))
  /\ UNCHANGED <<fileVars, kind, row, printed, losses>>

-----------------------------------------------------------------------------
(* main.cpp: run_primes, run_matmul and run_wordcount. *)

\* read_state, or exit 4, and the comparison with --limit, or exit 3; then
\* the flag that the loop sets on entry.
Boot(w) ==
  LET c  == At(dir, data)
      st == IF c = None THEN Bad ELSE ReadState(kind, c, Bad)
      enter(s) == [proc EXCEPT ![w] = [@ EXCEPT !.pc = "loop", !.st = Entered(kind, s)]]
  IN  /\ proc[w].pc = "boot"
      /\ proc' = IF ~proc[w].resume THEN enter(proc[w].st)
                 ELSE IF st = Bad \/ LimitOf(kind, st) # Limit[kind]
                 THEN [proc EXCEPT ![w].pc = "dead"]
                 ELSE enter(st)
      /\ UNCHANGED <<fileVars, kind, row, printed, overlap, losses>>

\* Slip: the checkpoint is taken before the cursor moves on.
LoopStale(w) ==
  LET st    == Body(kind, proc[w].st)
      since == proc[w].since + 1
  IN  /\ proc[w].pc = "loop" /\ More(kind, proc[w].st)
      /\ IF Counts(kind, proc[w].st) /\ since >= Every[kind]
         THEN /\ Begin(w, Encode(kind, [st EXCEPT !.next = proc[w].st.next]))
              /\ proc' = [proc EXCEPT ![w] = [@ EXCEPT !.st = st, !.since = 0,
                                                       !.pc = "save"]]
         ELSE /\ proc' = [proc EXCEPT ![w] = [@ EXCEPT !.st = st, !.since =
                            IF Counts(kind, proc[w].st) THEN since ELSE proc[w].since]]
              /\ UNCHANGED fileVars
      /\ UNCHANGED <<kind, row, printed, overlap, losses>>

\* One turn of the loop, and the callback's write_state if one is due.
Loop(w) ==
  LET st    == Body(kind, proc[w].st)
      since == proc[w].since + 1
  IN  /\ proc[w].pc = "loop" /\ More(kind, proc[w].st)
      /\ IF Counts(kind, proc[w].st) /\ since >= Every[kind]
         THEN /\ Begin(w, Encode(kind, st))
              /\ proc' = [proc EXCEPT ![w] = [@ EXCEPT !.st = st, !.since = 0,
                                                       !.pc = "save"]]
         ELSE /\ proc' = [proc EXCEPT ![w] = [@ EXCEPT !.st = st, !.since =
                            IF Counts(kind, proc[w].st) THEN since ELSE proc[w].since]]
              /\ UNCHANGED fileVars
      /\ UNCHANGED <<kind, row, printed, overlap, losses>>

\* Slip: the work is done, and no state is emitted after the loop.
FinishSilent(w) ==
  /\ proc[w].pc = "loop" /\ ~More(kind, proc[w].st)
  /\ proc' = [proc EXCEPT ![w].pc = "completed"]
  /\ UNCHANGED <<fileVars, kind, row, printed, overlap, losses>>

\* The final emission after the loop.
Finish(w) ==
  /\ proc[w].pc = "loop" /\ ~More(kind, proc[w].st)
  /\ Begin(w, Encode(kind, proc[w].st))
  /\ proc' = [proc EXCEPT ![w] = [@ EXCEPT !.pc = "save", !.last = TRUE]]
  /\ UNCHANGED <<kind, row, printed, overlap, losses>>

Save(w) == FileStep(w) /\ UNCHANGED runVars

\* Slip: the rename is tried again.
SaveRetries(w) ==
  /\ wr[w].pc = "rename" /\ dir.tmp = None
  /\ UNCHANGED vars

\* Another worker has renamed the .tmp away: exit 5.
SaveFails(w) ==
  /\ wr[w].pc = "rename" /\ dir.tmp = None
  /\ Abandon(w)
  /\ proc' = [proc EXCEPT ![w].pc = "dead"]
  /\ UNCHANGED <<kind, row, printed, overlap, losses>>

\* The line fits the controller's CheckpointEvent, whose found is an int64.
Decodes(st) == Found(kind, st) < (Root * Root) \div 2

\* Slip: the line goes out while the state is still being written.
EmitEarly(w) ==
  /\ proc[w].pc = "save" /\ wr[w].pc # "rename"
  /\ proc' = [proc EXCEPT ![w].pc = IF wr[w].pc # "idle" THEN "save"
                                    ELSE IF proc[w].last THEN "completed" ELSE "loop"]
  /\ row' = (row \/ Decodes(proc[w].st))
  /\ printed' = TRUE
  /\ UNCHANGED <<fileVars, kind, overlap, losses>>

\* write_state has returned: emit_checkpoint prints the line, which the
\* controller records if it decodes; after the last one the worker prints
\* "completed" and exits 0.
Emit(w) ==
  /\ proc[w].pc = "save" /\ wr[w].pc = "idle"
  /\ proc' = [proc EXCEPT ![w].pc = IF proc[w].last THEN "completed" ELSE "loop"]
  /\ row' = (row \/ Decodes(proc[w].st))
  /\ printed' = TRUE
  /\ UNCHANGED <<fileVars, kind, overlap, losses>>

\* Slip: the half-written file stays open.
DieHalf(w) ==
  /\ Active(w)
  /\ proc' = [proc EXCEPT ![w].pc = "dead"]
  /\ UNCHANGED <<fileVars, kind, row, printed, overlap, losses>>

\* Killed, wherever it is, or exit 5 because a call of write_state failed.
Die(w) ==
  /\ Active(w)
  /\ proc' = [proc EXCEPT ![w].pc = "dead"]
  /\ IF wr[w].pc = "idle" THEN UNCHANGED fileVars ELSE Abandon(w)
  /\ UNCHANGED <<kind, row, printed, overlap, losses>>

\* The power goes: RecordCheckpoint does not sync, so the record may go too.
Blackout ==
  /\ losses < MaxLosses /\ losses' = losses + 1
  /\ PowerLoss
  /\ proc' = [w \in Writers |-> IF Active(w) THEN [proc[w] EXCEPT !.pc = "dead"]
                                ELSE proc[w]]
  /\ row' \in {FALSE, row}
  /\ UNCHANGED <<kind, printed, overlap>>

WorkerStep(w) ==
  Boot(w) \/ Loop(w) \/ Finish(w) \/ Save(w) \/ SaveFails(w) \/ Emit(w)

Next ==
  \/ \E w \in Writers : Launch(w) \/ WorkerStep(w) \/ Die(w)
  \/ Writeback /\ UNCHANGED runVars
  \/ Blackout

Spec == Init /\ [][Next]_vars

\* The kernel runs a worker that has something to do.
FairSpec == Spec /\ \A w \in Writers : WF_vars(WorkerStep(w))
=============================================================================
